-------------------------- MODULE ExportJobsProofs --------------------------
(***************************************************************************)
(* Theorems about module ExportJobs, for any number of runs, paths and     *)
(* metrics, any length of the history and any number of restarts.          *)
(***************************************************************************)
EXTENDS ExportJobs, SequenceTheorems, TLAPS

-----------------------------------------------------------------------------
(* The inductive invariant                                                 *)

StatusOf == [Run -> Finished \cup {"none", "running"}]
PathOf   == [Run -> Path \cup {NoPath}]

\* What the rest of the invariant needs of the types.
Types ==
    /\ hist \in Seq(Run) /\ shown \in StatusOf /\ out \in PathOf
    /\ saved \in [hist : Seq(Run), shown : StatusOf, out : PathOf]
    /\ running \subseteq Run /\ cancelled \subseteq Run /\ doomed \subseteq Run
    /\ handler \in [Run -> {"new", "added", "tracked", "refused", "gone"}]
    /\ worker \in [Run -> {"none", "listing", "writing", "querying", "uploading", "finishing",
                           "pruning", "sweeping", "ending", "done"}]
    /\ target \in PathOf /\ fd \in PathOf
    /\ ok \in [Run -> BOOLEAN] /\ done \in [Run -> Nat]
    /\ writers \in [Path -> SUBSET Run] /\ eof \in [Path -> SUBSET Run]
    /\ sole \in [Path -> SUBSET Run]

\* A goroutine works for a run that is in the map; the history and the state
\* file hold runs that have begun.
SavedListed(r) == \E i \in DOMAIN saved.hist : saved.hist[i] = r
FlowOf(r) ==
    /\ worker[r] # "none" => handler[r] = "tracked"
    /\ Listed(r) => handler[r] # "new"
    /\ SavedListed(r) => handler[r] # "new"
Flow == \A r \in Run : FlowOf(r)

\* Nobody knows the outcome of a run before runExport has it.
OpenOf(r) ==
    /\ handler[r] # "gone" /\ worker[r] \in {"none", "listing", "writing", "querying"} => ~ok[r]
    /\ handler[r] # "gone" /\ worker[r] \in {"none", "listing", "writing", "querying", "uploading",
                                             "finishing"} =>
           shown[r] \notin Finished /\ saved.shown[r] \notin Finished
Open == \A r \in Run : OpenOf(r)

\* A doomed run has its context cancelled and metrics left, to the end.
DoomOf(r) ==
    r \in doomed =>
        /\ ~ok[r] /\ shown[r] # "success" /\ saved.shown[r] # "success"
        /\ handler[r] \in {"tracked", "gone"}
        /\ worker[r] # "uploading"
        /\ handler[r] = "tracked" /\ worker[r] \in {"none", "listing", "writing", "querying"} =>
               r \in cancelled /\ ChecksAhead(r)
Doom == \A r \in Run : DoomOf(r)

\* A run that is alone with the file it created is the only one to have it open
\* and to have data in it, and has its "# EOF" in it unless it has not ended or
\* has failed.
WholeOf(r, p) ==
    r \in sole[p] =>
        /\ writers[p] \subseteq {r}
        /\ \A q \in Run : q # r => fd[q] # p
        /\ r \notin eof[p] => ~ok[r] /\ shown[r] # "success" /\ saved.shown[r] # "success"
        /\ r \in eof[p] => r \in writers[p]
        /\ worker[r] \in {"writing", "querying"} => fd[r] = p
        /\ handler[r] # "new" /\ (handler[r] # "gone" => worker[r] \notin {"none", "listing"})
Whole == \A r \in Run : \A p \in Path : WholeOf(r, p)

IInv == Types /\ Flow /\ Open /\ Doom /\ Whole /\ CancelReaches /\ RunningIsAtWork

LEMMA InitIInv == Init => IInv
<1> SUFFICES ASSUME Init PROVE IInv
  OBVIOUS
<1>1. Types
  BY PathAssumption DEF Init, Types, Empty, StatusOf, PathOf, Finished
<1>2. Flow /\ Open
  BY DEF Init, Flow, FlowOf, Open, OpenOf, Empty, Listed, SavedListed, Finished
<1>3. Doom /\ Whole
  BY DEF Init, Doom, DoomOf, Whole, WholeOf
<1>4. CancelReaches /\ RunningIsAtWork
  BY DEF Init, CancelReaches, RunningIsAtWork, Active, Empty, Listed
<1> QED
  BY <1>1, <1>2, <1>3, <1>4 DEF IInv

-----------------------------------------------------------------------------
(* What the helpers do                                                     *)

\* AddRun puts r into the history, and nothing else.
LEMMA AddRunLists ==
    ASSUME hist \in Seq(Run), NEW r \in Run, hist' = Trim(<<r>> \o hist)
    PROVE  hist' \in Seq(Run) /\ \A q \in Run : Listed(q)' => q = r \/ Listed(q)
<1> DEFINE h == <<r>> \o hist
<1>1. /\ h \in Seq(Run) /\ Len(h) = Len(hist) + 1 /\ h[1] = r
      /\ \A i \in 2 .. Len(h) : h[i] = hist[i - 1] /\ i - 1 \in DOMAIN hist
  OBVIOUS
<1>2. /\ Trim(h) \in Seq(Run)
      /\ Len(Trim(h)) <= Len(h)
      /\ \A i \in 1 .. Len(Trim(h)) : Trim(h)[i] = h[i]
  <2>1. CASE Len(h) > MaxRuns
    <3> HIDE DEF h
    <3>1. \A i \in 1 .. MaxRuns : h[i] \in Run
      BY <1>1, <2>1, BoundAssumption
    <3>2. /\ SubSeq(h, 1, MaxRuns) \in Seq(Run) /\ Len(SubSeq(h, 1, MaxRuns)) = MaxRuns
          /\ \A i \in 1 .. MaxRuns : SubSeq(h, 1, MaxRuns)[i] = h[i]
      BY <1>1, <2>1, <3>1, BoundAssumption
    <3> QED
      BY <1>1, <2>1, <3>2, BoundAssumption DEF Trim
  <2>2. CASE ~(Len(h) > MaxRuns)
    BY <1>1, <2>2 DEF Trim
  <2> QED
    BY <2>1, <2>2
<1> HIDE DEF h
<1>3. hist' = Trim(h)
  BY DEF h
<1>4. ASSUME NEW q \in Run, NEW i \in DOMAIN hist', hist'[i] = q, q # r PROVE Listed(q)
  <2>1. i \in 1 .. Len(h) /\ h[i] = q
    BY <1>1, <1>2, <1>3, <1>4
  <2>2. i \in 2 .. Len(h)
    BY <1>1, <1>4, <2>1
  <2> QED
    BY <1>1, <2>1, <2>2 DEF Listed
<1> QED
  BY <1>2, <1>3, <1>4 DEF Listed

\* The state file is as it was, or holds what is in memory.
LEMMA SaveOutcome ==
    Save \/ SaveFails \/ UNCHANGED saved => saved' = saved \/ saved' = Memory'
BY DEF Save, SaveFails

\* Writing adds r's data to the file it has open, and nothing else.
LEMMA WriteAdds ==
    ASSUME Types, NEW r \in Run, NEW last \in BOOLEAN,
           Write(r, last) \/ UNCHANGED contents
    PROVE  /\ writers' \in [Path -> SUBSET Run] /\ eof' \in [Path -> SUBSET Run] /\ sole' = sole
           /\ \A p \in Path : p # fd[r] => writers'[p] = writers[p] /\ eof'[p] = eof[p]
           /\ \A p \in Path : /\ writers'[p] \in {writers[p], writers[p] \cup {r}}
                              /\ eof[p] \subseteq eof'[p]
                              /\ r \in eof'[p] => r \in eof[p] \/ r \in writers'[p]
                              /\ writers[p] \subseteq writers'[p]
<1>1. CASE UNCHANGED <<writers, eof, sole>>
  BY <1>1 DEF Types
<1>2. CASE /\ fd[r] \in Path /\ sole' = sole
           /\ writers' = [writers EXCEPT ![fd[r]] = writers[fd[r]] \cup {r}]
           /\ eof' = [eof EXCEPT ![fd[r]] = IF last THEN eof[fd[r]] \cup {r} ELSE eof[fd[r]]]
  <2>1. writers' \in [Path -> SUBSET Run] /\ eof' \in [Path -> SUBSET Run]
    BY <1>2 DEF Types
  <2>2. \A p \in Path : p # fd[r] => writers'[p] = writers[p] /\ eof'[p] = eof[p]
    BY <1>2 DEF Types
  <2>3. writers'[fd[r]] = writers[fd[r]] \cup {r} /\ eof[fd[r]] \subseteq eof'[fd[r]]
    BY <1>2 DEF Types
  <2> QED
    BY <1>2, <2>1, <2>2, <2>3
<1> QED
  BY <1>1, <1>2 DEF Types, Write, PathOf, contents

\* A whole file is written to with its "# EOF".
LEMMA WriteEnds ==
    ASSUME Types, NEW r \in Run, Write(r, TRUE)
    PROVE  fd[r] # NoPath => r \in eof'[fd[r]]
BY DEF Types, Write, PathOf

\* A file that is removed is nobody's.
LEMMA UnlinkForgets ==
    ASSUME Types, NEW p,
           Unlink(p) \/ UNCHANGED <<fd, contents>>
    PROVE  /\ writers' \in [Path -> SUBSET Run] /\ eof' \in [Path -> SUBSET Run]
           /\ sole' \in [Path -> SUBSET Run] /\ fd' \in PathOf
           /\ \A r \in Run : fd'[r] \in {fd[r], NoPath}
           /\ \A r \in Run, q \in Path : r \in sole'[q] =>
                 /\ r \in sole[q] /\ writers'[q] = writers[q] /\ eof'[q] = eof[q]
                 /\ fd[r] = q => fd'[r] = q
<1>1. CASE UNCHANGED <<fd, writers, eof, sole>>
  BY <1>1 DEF Types
<1>2. CASE Unlink(p)
  <2>1. /\ writers' \in [Path -> SUBSET Run] /\ eof' \in [Path -> SUBSET Run]
        /\ sole' \in [Path -> SUBSET Run] /\ fd' \in PathOf
        /\ \A r \in Run : fd'[r] \in {fd[r], NoPath}
    BY <1>2 DEF Types, Unlink, PathOf
  <2>2. ASSUME NEW r \in Run, NEW q \in Path, r \in sole'[q]
        PROVE  /\ r \in sole[q] /\ writers'[q] = writers[q] /\ eof'[q] = eof[q]
               /\ fd[r] = q => fd'[r] = q
    <3>1. q # p
      BY <1>2, <2>2 DEF Types, Unlink
    <3> QED
      BY <1>2, <2>2, <3>1 DEF Types, Unlink
  <2> QED
    BY <2>1, <2>2
<1> QED
  BY <1>1, <1>2 DEF contents

\* A save changes the state file to what is in memory, or not at all.
LEMMA SavedHolds ==
    ASSUME Types, Save \/ SaveFails \/ UNCHANGED saved,
           hist' \in Seq(Run), shown' \in StatusOf, out' \in PathOf
    PROVE  /\ saved' \in [hist : Seq(Run), shown : StatusOf, out : PathOf]
           /\ \A q \in Run :
                 /\ SavedListed(q)' => SavedListed(q) \/ Listed(q)'
                 /\ saved'.shown[q] \in {saved.shown[q], shown'[q]}
<1>1. CASE saved' = saved
  BY <1>1 DEF Types, SavedListed
<1>2. CASE saved' = Memory'
  BY <1>2 DEF Memory, SavedListed, Listed
<1> QED
  BY <1>1, <1>2 DEF Save, SaveFails

-----------------------------------------------------------------------------
(* The steps                                                               *)

\* A new run is listed and open; a save brings it to the file, or not.
LEMMA HandleExportInv == ASSUME IInv, NEW r \in Run, NEW p \in Choice[r], HandleExport(r, p) PROVE IInv'
<1> USE DEF HandleExport, stateVars, jobVars, fileVars, contents
<1>1. Types /\ FlowOf(r) /\ worker[r] = "none" /\ handler[r] = "new"
  BY DEF IInv, Flow, FlowOf, Types
<1>2. /\ hist' \in Seq(Run) /\ \A q \in Run : Listed(q)' => q = r \/ Listed(q)
      /\ shown' = [q \in Run |->
                      IF q = r THEN "running" ELSE IF Listed(q)' THEN shown[q] ELSE "none"]
      /\ out' = [q \in Run |-> IF q = r THEN p ELSE IF Listed(q)' THEN out[q] ELSE NoPath]
  BY <1>1, AddRunLists DEF Types, AddRun
<1>3. shown' \in StatusOf /\ out' \in PathOf /\ target' \in PathOf
  <2>1. shown' \in StatusOf
    BY <1>1, <1>2 DEF Types, StatusOf
  <2>2. p \in Path
    BY PathAssumption
  <2>3. out' \in PathOf /\ target' \in PathOf
    BY <1>1, <1>2, <2>2 DEF Types, PathOf
  <2> QED
    BY <2>1, <2>3
<1>4. /\ handler' \in [Run -> {"new", "added", "tracked", "refused", "gone"}]
      /\ handler'[r] \in {"added", "refused"}
      /\ \A q \in Run : q # r => handler'[q] = handler[q] /\ shown'[q] \in {shown[q], "none"}
  <2>1. /\ handler' \in [Run -> {"new", "added", "tracked", "refused", "gone"}]
        /\ handler'[r] \in {"added", "refused"}
        /\ \A q \in Run : q # r => handler'[q] = handler[q]
    BY <1>1 DEF Types
  <2>2. \A q \in Run : q # r => shown'[q] \in {shown[q], "none"}
    BY <1>2
  <2> QED
    BY <2>1, <2>2
<1>5. /\ saved' \in [hist : Seq(Run), shown : StatusOf, out : PathOf]
      /\ \A q \in Run :
            /\ SavedListed(q)' => SavedListed(q) \/ Listed(q)'
            /\ saved'.shown[q] \in {saved.shown[q], shown'[q]}
  BY <1>1, <1>2, <1>3, SavedHolds
<1>6. shown'[r] = "running"
  BY <1>1, <1>2 DEF Types, StatusOf
<1>7. Types'
  BY <1>1, <1>2, <1>3, <1>4, <1>5 DEF Types
<1>8. Flow'
  BY <1>1, <1>2, <1>4, <1>5 DEF IInv, Flow, FlowOf
<1>9. Open'
  BY <1>1, <1>4, <1>5, <1>6 DEF IInv, Open, OpenOf, Finished
<1>10. Doom'
  BY <1>1, <1>4, <1>5, <1>6 DEF IInv, Doom, DoomOf, ChecksAhead
<1>11. Whole'
  BY <1>1, <1>4, <1>5, <1>6 DEF IInv, Whole, WholeOf
<1>12. CancelReaches'
  BY <1>1, <1>4 DEF IInv, CancelReaches, Active
<1>13. RunningIsAtWork'
  BY <1>1, <1>2, <1>4 DEF IInv, RunningIsAtWork
<1> QED
  BY <1>7, <1>8, <1>9, <1>10, <1>11, <1>12, <1>13 DEF IInv

\* The run joins the map while it has no goroutine.
LEMMA TrackRunInv == ASSUME IInv, NEW r \in Run, TrackRun(r) PROVE IInv'
<1> USE DEF TrackRun, stateVars, fileVars, contents
<1>1. Types'
  BY DEF IInv, Types
<1>2. Flow'
  BY DEF IInv, Types, Flow, FlowOf, Listed, SavedListed
<1>3. Open'
  BY DEF IInv, Types, Open, OpenOf, Flow, FlowOf
<1>4. Doom'
  BY DEF IInv, Types, Doom, DoomOf, ChecksAhead
<1>5. Whole'
  BY DEF IInv, Types, Whole, WholeOf, Flow, FlowOf
<1>6. CancelReaches'
  BY DEF IInv, Types, CancelReaches, Active, Flow, FlowOf
<1>7. RunningIsAtWork'
  BY DEF IInv, Types, RunningIsAtWork, Listed, Flow, FlowOf
<1> QED
  BY <1>1, <1>2, <1>3, <1>4, <1>5, <1>6, <1>7 DEF IInv

\* The goroutine starts for a run that is in the map.
LEMMA GoExportInv == ASSUME IInv, NEW r \in Run, GoExport(r) PROVE IInv'
<1> USE DEF GoExport, stateVars, fileVars, contents
<1>1. Types'
  BY DEF IInv, Types
<1>2. Flow'
  BY DEF IInv, Types, Flow, FlowOf, Listed, SavedListed
<1>3. Open'
  BY DEF IInv, Types, Open, OpenOf
<1>4. Doom'
  BY DEF IInv, Types, Doom, DoomOf, ChecksAhead
<1>5. Whole'
  BY DEF IInv, Types, Whole, WholeOf, Flow, FlowOf
<1>6. CancelReaches'
  BY DEF IInv, Types, CancelReaches, Active, Flow, FlowOf
<1>7. RunningIsAtWork'
  BY DEF IInv, Types, RunningIsAtWork, Listed, Flow, FlowOf
<1> QED
  BY <1>1, <1>2, <1>3, <1>4, <1>5, <1>6, <1>7 DEF IInv

\* Only a run in the map is cancelled, so one that is doomed has no outcome yet.
LEMMA HandleCancelInv == ASSUME IInv, NEW r \in Run, HandleCancel(r) PROVE IInv'
<1> USE DEF HandleCancel, stateVars, fileVars, contents
<1>1. Types'
  BY DEF IInv, Types
<1>2. Flow'
  BY DEF IInv, Types, Flow, FlowOf, Listed, SavedListed
<1>3. Open'
  BY DEF IInv, Types, Open, OpenOf
<1>4. Doom'
  BY DEF IInv, Types, Doom, DoomOf, ChecksAhead, Flow, FlowOf, Open, OpenOf, Finished, CancelReaches, Active
<1>5. Whole'
  BY DEF IInv, Types, Whole, WholeOf
<1>6. CancelReaches'
  BY DEF IInv, Types, CancelReaches, Active
<1>7. RunningIsAtWork'
  BY DEF IInv, Types, RunningIsAtWork, Listed
<1> QED
  BY <1>1, <1>2, <1>3, <1>4, <1>5, <1>6, <1>7 DEF IInv

\* A failed listing writes nothing.
LEMMA ListFailsInv == ASSUME IInv, NEW r \in Run, ListFails(r) PROVE IInv'
<1> USE DEF ListFails, stateVars, fileVars, contents
<1>1. Types'
  BY DEF IInv, Types
<1>2. Flow'
  BY DEF IInv, Types, Flow, FlowOf, Listed, SavedListed
<1>3. Open'
  BY DEF IInv, Types, Open, OpenOf
<1>4. Doom'
  BY DEF IInv, Types, Doom, DoomOf, ChecksAhead
<1>5. Whole'
  BY DEF IInv, Types, Whole, WholeOf
<1>6. CancelReaches'
  BY DEF IInv, Types, CancelReaches, Active, Flow, FlowOf
<1>7. RunningIsAtWork'
  BY DEF IInv, Types, RunningIsAtWork, Listed, Flow, FlowOf
<1> QED
  BY <1>1, <1>2, <1>3, <1>4, <1>5, <1>6, <1>7 DEF IInv

\* Whatever was in the file is gone; the run has the file open.
LEMMA CreateFileInv == ASSUME IInv, NEW r \in Run, CreateFile(r) PROVE IInv'
<1> USE DEF CreateFile, stateVars
<1> DEFINE f == target[r]
<1>0. /\ Types /\ worker[r] = "listing" /\ handler[r] = "tracked" /\ fd' \in PathOf /\ fd'[r] = f
      /\ \A q \in Run : q # r => fd'[q] = fd[q] /\ worker'[q] = worker[q]
      /\ worker'[r] = "writing"
  BY DEF IInv, Types, PathOf, Flow, FlowOf
<1>a. /\ writers' \in [Path -> SUBSET Run] /\ eof' \in [Path -> SUBSET Run]
      /\ sole' \in [Path -> SUBSET Run]
      /\ \A p \in Path : p # f => writers'[p] = writers[p] /\ eof'[p] = eof[p] /\ sole'[p] = sole[p]
      /\ f \in Path => writers'[f] = {} /\ eof'[f] = {}
      /\ f \in Path => \A q \in sole'[f] : q = r /\ \A x \in Run \ {r} : fd[x] # f
  <2>1. writers' \in [Path -> SUBSET Run] /\ eof' \in [Path -> SUBSET Run]
    BY <1>0 DEF Types
  <2>2. sole' \in [Path -> SUBSET Run]
    <3>1. (IF \E x \in Run \ {r} : fd[x] = f THEN {} ELSE {r}) \in SUBSET Run
      OBVIOUS
    <3>2. sole' = [sole EXCEPT ![f] = IF \E x \in Run \ {r} : fd[x] = f THEN {} ELSE {r}]
      OBVIOUS
    <3> QED
      BY <1>0, <3>1, <3>2 DEF Types
  <2>3. \A p \in Path : p # f => writers'[p] = writers[p] /\ eof'[p] = eof[p] /\ sole'[p] = sole[p]
    BY <1>0 DEF Types
  <2>4. f \in Path => writers'[f] = {} /\ eof'[f] = {}
    BY <1>0 DEF Types
  <2>5. ASSUME f \in Path, NEW q \in sole'[f] PROVE q = r /\ \A x \in Run \ {r} : fd[x] # f
    <3>1. sole'[f] = IF \E x \in Run \ {r} : fd[x] = f THEN {} ELSE {r}
      BY <1>0, <2>5 DEF Types
    <3> QED
      BY <2>5, <3>1
  <2> QED
    BY <2>1, <2>2, <2>3, <2>4, <2>5
<1>1. Types'
  BY <1>0, <1>a DEF Types
<1>2. Flow'
  BY DEF IInv, Types, Flow, FlowOf, Listed, SavedListed
<1>3. Open'
  BY DEF IInv, Types, Open, OpenOf
<1>4. Doom'
  BY DEF IInv, Types, Doom, DoomOf, ChecksAhead, Flow, FlowOf
<1>5. Whole'
  <2> SUFFICES ASSUME NEW q \in Run, NEW p \in Path, q \in sole'[p] PROVE WholeOf(q, p)'
    BY DEF Whole, WholeOf
  <2>1. CASE p = f
    <3>1. q = r /\ writers'[p] = {} /\ eof'[p] = {} /\ \A x \in Run : x # r => fd'[x] # p
      BY <1>0, <1>a, <2>1
    <3>2. ~ok[r] /\ shown[r] # "success" /\ saved.shown[r] # "success"
      BY <1>0 DEF IInv, Open, OpenOf, Finished
    <3> QED
      BY <1>0, <2>1, <3>1, <3>2 DEF WholeOf
  <2>2. CASE p # f
    <3>1. q \in sole[p] /\ writers'[p] = writers[p] /\ eof'[p] = eof[p] /\ WholeOf(q, p)
      BY <1>a, <2>2 DEF IInv, Whole
    <3>2. q # r
      BY <1>0, <3>1 DEF WholeOf
    <3> QED
      BY <1>0, <2>2, <3>1, <3>2 DEF WholeOf
  <2> QED
    BY <2>1, <2>2
<1>6. CancelReaches'
  BY DEF IInv, Types, CancelReaches, Active, Flow, FlowOf
<1>7. RunningIsAtWork'
  BY DEF IInv, Types, RunningIsAtWork, Listed, Flow, FlowOf
<1> QED
  BY <1>1, <1>2, <1>3, <1>4, <1>5, <1>6, <1>7 DEF IInv

\* A query is sent; only a run that is not cancelled comes this far.
LEMMA QueryInv == ASSUME IInv, NEW r \in Run, Query(r) PROVE IInv'
<1> USE DEF Query, stateVars, fileVars, contents
<1>1. Types'
  BY DEF IInv, Types
<1>2. Flow'
  BY DEF IInv, Types, Flow, FlowOf, Listed, SavedListed
<1>3. Open'
  BY DEF IInv, Types, Open, OpenOf
<1>4. Doom'
  BY DEF IInv, Types, Doom, DoomOf, ChecksAhead, Flow, FlowOf
<1>5. Whole'
  BY DEF IInv, Types, Whole, WholeOf
<1>6. CancelReaches'
  BY DEF IInv, Types, CancelReaches, Active
<1>7. RunningIsAtWork'
  BY DEF IInv, Types, RunningIsAtWork, Listed
<1> QED
  BY <1>1, <1>2, <1>3, <1>4, <1>5, <1>6, <1>7 DEF IInv

\* A round writes to the file that is open, if at all.
LEMMA AnsweredInv == ASSUME IInv, NEW r \in Run, Answered(r) PROVE IInv'
<1> USE DEF Answered, stateVars
<1>1. Types /\ OpenOf(r) /\ FlowOf(r) /\ worker[r] = "querying"
  BY DEF IInv, Open, Flow
<1>2. /\ writers' \in [Path -> SUBSET Run] /\ eof' \in [Path -> SUBSET Run] /\ sole' = sole
      /\ \A p \in Path : p # fd[r] => writers'[p] = writers[p] /\ eof'[p] = eof[p]
      /\ \A p \in Path : /\ writers'[p] \in {writers[p], writers[p] \cup {r}}
                         /\ eof[p] \subseteq eof'[p]
                         /\ r \in eof'[p] => r \in eof[p] \/ r \in writers'[p]
                         /\ writers[p] \subseteq writers'[p]
  BY <1>1, WriteAdds
<1>4. Types'
  BY <1>1, <1>2 DEF Types, PathOf
<1>5. Flow'
  BY DEF IInv, Types, Flow, FlowOf, Listed, SavedListed
<1>6. Open'
  BY DEF IInv, Types, Open, OpenOf
<1>7. Doom'
  BY DEF IInv, Types, Doom, DoomOf, ChecksAhead
<1>8. Whole'
  <2> SUFFICES ASSUME NEW q \in Run, NEW p \in Path, q \in sole[p], WholeOf(q, p)
               PROVE  WholeOf(q, p)'
    BY <1>2 DEF IInv, Whole, WholeOf
  <2>1. \A x \in Run : fd'[x] \in {fd[x], NoPath} /\ (x # r => worker'[x] = worker[x])
    BY <1>1 DEF Types
  <2>2. CASE q = r
    <3>1. /\ worker'[r] = "writing" /\ fd'[r] = fd[r] /\ ok'[r] = ok[r]
          /\ UNCHANGED <<shown, saved, handler>>
      BY <1>1, <1>2, <2>2 DEF Types
    <3>2. /\ writers'[p] \subseteq {r} /\ \A x \in Run : x # r => fd'[x] # p
          /\ r \in eof'[p] => r \in writers'[p]
          /\ r \in eof[p] => r \in eof'[p]
      BY <1>2, <2>1, <2>2, PathAssumption DEF WholeOf
    <3> QED
      BY <1>1, <2>2, <3>1, <3>2 DEF WholeOf
  <2>3. CASE q # r
    <3>1. writers'[p] = writers[p] /\ eof'[p] = eof[p]
      BY <1>2, <2>3 DEF WholeOf
    <3> QED
      BY <2>1, <2>3, <3>1, PathAssumption DEF WholeOf
  <2> QED
    BY <2>2, <2>3
<1>9. CancelReaches'
  BY DEF IInv, Types, CancelReaches, Active
<1>10. RunningIsAtWork'
  BY DEF IInv, Types, Flow, FlowOf, RunningIsAtWork, Listed
<1> QED
  BY <1>4, <1>5, <1>6, <1>7, <1>8, <1>9, <1>10 DEF IInv

\* An aborted export may leave data without an end, and has no success.
LEMMA AbortInv == ASSUME IInv, NEW r \in Run, Abort(r) PROVE IInv'
<1> USE DEF Abort, stateVars
<1>1. Types /\ OpenOf(r) /\ FlowOf(r) /\ worker[r] \in {"writing", "querying"}
  BY DEF IInv, Open, Flow
<1>2. /\ writers' \in [Path -> SUBSET Run] /\ eof' \in [Path -> SUBSET Run] /\ sole' = sole
      /\ \A p \in Path : p # fd[r] => writers'[p] = writers[p] /\ eof'[p] = eof[p]
      /\ \A p \in Path : /\ writers'[p] \in {writers[p], writers[p] \cup {r}}
                         /\ eof[p] \subseteq eof'[p]
                         /\ r \in eof'[p] => r \in eof[p] \/ r \in writers'[p]
                         /\ writers[p] \subseteq writers'[p]
  BY <1>1, WriteAdds
<1>4. Types'
  BY <1>1, <1>2 DEF Types, PathOf
<1>5. Flow'
  BY DEF IInv, Types, Flow, FlowOf, Listed, SavedListed
<1>6. Open'
  BY DEF IInv, Types, Open, OpenOf
<1>7. Doom'
  BY DEF IInv, Types, Doom, DoomOf, ChecksAhead
<1>8. Whole'
  <2> SUFFICES ASSUME NEW q \in Run, NEW p \in Path, q \in sole[p], WholeOf(q, p)
               PROVE  WholeOf(q, p)'
    BY <1>2 DEF IInv, Whole, WholeOf
  <2>1. \A x \in Run : fd'[x] \in {fd[x], NoPath} /\ (x # r => worker'[x] = worker[x])
    BY <1>1 DEF Types
  <2>2. CASE q = r
    <3>1. /\ worker'[r] = "finishing" /\ ok'[r] = ok[r]
          /\ UNCHANGED <<shown, saved, handler>>
      BY <1>1, <1>2, <2>2 DEF Types
    <3>2. /\ writers'[p] \subseteq {r} /\ \A x \in Run : x # r => fd'[x] # p
          /\ r \in eof'[p] => r \in writers'[p]
          /\ r \in eof[p] => r \in eof'[p]
      BY <1>2, <2>1, <2>2, PathAssumption DEF WholeOf
    <3> QED
      BY <1>1, <2>2, <3>1, <3>2 DEF WholeOf
  <2>3. CASE q # r
    <3>1. writers'[p] = writers[p] /\ eof'[p] = eof[p]
      BY <1>2, <2>3 DEF WholeOf
    <3> QED
      BY <2>1, <2>3, <3>1, PathAssumption DEF WholeOf
  <2> QED
    BY <2>2, <2>3
<1>9. CancelReaches'
  BY DEF IInv, Types, CancelReaches, Active
<1>10. RunningIsAtWork'
  BY DEF IInv, Types, Flow, FlowOf, RunningIsAtWork, Listed
<1> QED
  BY <1>4, <1>5, <1>6, <1>7, <1>8, <1>9, <1>10 DEF IInv

\* Nobody who is doomed comes to the end; the end closes what was written.
LEMMA FinishInv == ASSUME IInv, NEW r \in Run, Finish(r) PROVE IInv'
<1> USE DEF Finish, stateVars
<1>1. Types /\ OpenOf(r) /\ FlowOf(r) /\ worker[r] = "writing"
  BY DEF IInv, Open, Flow
<1>2. /\ writers' \in [Path -> SUBSET Run] /\ eof' \in [Path -> SUBSET Run] /\ sole' = sole
      /\ \A p \in Path : p # fd[r] => writers'[p] = writers[p] /\ eof'[p] = eof[p]
      /\ \A p \in Path : /\ writers'[p] \in {writers[p], writers[p] \cup {r}}
                         /\ eof[p] \subseteq eof'[p]
                         /\ r \in eof'[p] => r \in eof[p] \/ r \in writers'[p]
                         /\ writers[p] \subseteq writers'[p]
  BY <1>1, WriteAdds
<1>3. \A p \in Path : r \in sole'[p] => r \in eof'[p]
  <2>1. ASSUME NEW p \in Path, r \in sole'[p] PROVE fd[r] = p
    BY <1>1, <1>2, <2>1 DEF IInv, Whole, WholeOf
  <2>2. fd[r] # NoPath => r \in eof'[fd[r]]
    BY <1>1, WriteEnds
  <2> QED
    BY <2>1, <2>2, PathAssumption
<1>4. Types'
  BY <1>1, <1>2 DEF Types, PathOf
<1>5. Flow'
  BY DEF IInv, Types, Flow, FlowOf, Listed, SavedListed
<1>6. Open'
  BY DEF IInv, Types, Open, OpenOf
<1>7. Doom'
  BY <1>1, BoundAssumption DEF IInv, Types, FlowOf, Doom, DoomOf, ChecksAhead
<1>8. Whole'
  <2> SUFFICES ASSUME NEW q \in Run, NEW p \in Path, q \in sole[p], WholeOf(q, p)
               PROVE  WholeOf(q, p)'
    BY <1>2 DEF IInv, Whole, WholeOf
  <2>1. \A x \in Run : fd'[x] \in {fd[x], NoPath} /\ (x # r => worker'[x] = worker[x])
    BY <1>1 DEF Types
  <2>2. CASE q = r
    <3>1. /\ worker'[r] \in {"uploading", "finishing"} /\ r \in eof'[p]
          /\ UNCHANGED <<shown, saved, handler>>
      BY <1>1, <1>2, <1>3, <2>2 DEF Types
    <3>2. /\ writers'[p] \subseteq {r} /\ \A x \in Run : x # r => fd'[x] # p
          /\ r \in eof'[p] => r \in writers'[p]
          /\ r \in eof[p] => r \in eof'[p]
      BY <1>2, <2>1, <2>2, PathAssumption DEF WholeOf
    <3> QED
      BY <1>1, <2>2, <3>1, <3>2 DEF WholeOf
  <2>3. CASE q # r
    <3>1. writers'[p] = writers[p] /\ eof'[p] = eof[p]
      BY <1>2, <2>3 DEF WholeOf
    <3> QED
      BY <2>1, <2>3, <3>1, PathAssumption DEF WholeOf
  <2> QED
    BY <2>2, <2>3
<1>9. CancelReaches'
  BY DEF IInv, Types, CancelReaches, Active
<1>10. RunningIsAtWork'
  BY DEF IInv, Types, Flow, FlowOf, RunningIsAtWork, Listed
<1> QED
  BY <1>4, <1>5, <1>6, <1>7, <1>8, <1>9, <1>10 DEF IInv

\* An upload changes nothing but the place of its run.
LEMMA UploadedInv == ASSUME IInv, NEW r \in Run, Uploaded(r) PROVE IInv'
<1> USE DEF Uploaded, stateVars, fileVars, contents
<1>1. Types'
  BY DEF IInv, Types
<1>2. Flow'
  BY DEF IInv, Types, Flow, FlowOf, Listed, SavedListed
<1>3. Open'
  BY DEF IInv, Types, Open, OpenOf
<1>4. Doom'
  BY DEF IInv, Types, Doom, DoomOf, ChecksAhead
<1>5. Whole'
  BY DEF IInv, Types, Whole, WholeOf
<1>6. CancelReaches'
  BY DEF IInv, Types, CancelReaches, Active
<1>7. RunningIsAtWork'
  BY DEF IInv, Types, RunningIsAtWork, Listed
<1> QED
  BY <1>1, <1>2, <1>3, <1>4, <1>5, <1>6, <1>7 DEF IInv

\* The outcome is recorded as the export left it.
LEMMA UpdateRunInv == ASSUME IInv, NEW r \in Run, UpdateRun(r) PROVE IInv'
<1> USE DEF UpdateRun, jobVars, fileVars, contents
<1>1. Types /\ handler[r] = "tracked" /\ worker[r] = "finishing"
  BY DEF IInv, Flow, FlowOf
<1>2. shown' \in StatusOf /\ hist' \in Seq(Run) /\ out' \in PathOf
  BY <1>1 DEF Types, StatusOf, Finished
<1>3. /\ saved' \in [hist : Seq(Run), shown : StatusOf, out : PathOf]
      /\ \A q \in Run :
            /\ SavedListed(q)' => SavedListed(q) \/ Listed(q)'
            /\ saved'.shown[q] \in {saved.shown[q], shown'[q]}
  BY <1>1, <1>2, SavedHolds
<1>4. \A q \in Run : q # r => shown'[q] = shown[q] /\ worker'[q] = worker[q]
  BY <1>1 DEF Types, StatusOf
<1>5. /\ worker' \in [Run -> {"none", "listing", "writing", "querying", "uploading", "finishing",
                               "pruning", "sweeping", "ending", "done"}]
      /\ worker'[r] \in {"pruning", "ending"}
  BY <1>1 DEF Types
<1>6. \A q \in Run : Listed(q)' <=> Listed(q)
  BY DEF Listed
<1>7. /\ Listed(r) => shown'[r] \in Finished
      /\ ~ok[r] => shown'[r] = shown[r] \/ shown'[r] = "failed"
  BY <1>1 DEF Types, StatusOf, Finished
<1>8. Types'
  BY <1>1, <1>2, <1>3, <1>5 DEF Types
<1>9. Flow'
  BY <1>1, <1>3, <1>4, <1>6 DEF IInv, Flow, FlowOf
<1>10. Open'
  BY <1>1, <1>3, <1>4, <1>5 DEF IInv, Open, OpenOf
<1>11. Doom'
  BY <1>1, <1>3, <1>4, <1>5, <1>7 DEF IInv, Doom, DoomOf, ChecksAhead
<1>12. Whole'
  BY <1>1, <1>3, <1>4, <1>5, <1>7 DEF IInv, Whole, WholeOf
<1>13. CancelReaches'
  BY <1>1, <1>4, <1>5 DEF IInv, CancelReaches, Active
<1>14. RunningIsAtWork'
  BY <1>1, <1>4, <1>6, <1>7 DEF IInv, RunningIsAtWork, Finished
<1> QED
  BY <1>8, <1>9, <1>10, <1>11, <1>12, <1>13, <1>14 DEF IInv

\* Deciding what to remove changes none of it.
LEMMA ListVictimsInv == ASSUME IInv, NEW r \in Run, ListVictims(r) PROVE IInv'
<1> USE DEF ListVictims, stateVars, contents
<1>1. Types'
  BY DEF IInv, Types
<1>2. Flow'
  BY DEF IInv, Types, Flow, FlowOf, Listed, SavedListed
<1>3. Open'
  BY DEF IInv, Types, Open, OpenOf
<1>4. Doom'
  BY DEF IInv, Types, Doom, DoomOf, ChecksAhead
<1>5. Whole'
  BY DEF IInv, Types, Whole, WholeOf
<1>6. CancelReaches'
  BY DEF IInv, Types, CancelReaches, Active
<1>7. RunningIsAtWork'
  BY DEF IInv, Types, RunningIsAtWork, Listed
<1> QED
  BY <1>1, <1>2, <1>3, <1>4, <1>5, <1>6, <1>7 DEF IInv

\* A file that is removed is nobody's any more.
LEMMA RemoveVictimInv == ASSUME IInv, NEW r \in Run, NEW p \in Path, RemoveVictim(r, p) PROVE IInv'
<1> USE DEF RemoveVictim, stateVars, jobVars
<1>1. /\ writers' \in [Path -> SUBSET Run] /\ eof' \in [Path -> SUBSET Run]
      /\ sole' \in [Path -> SUBSET Run] /\ fd' \in PathOf
      /\ \A q \in Run : fd'[q] \in {fd[q], NoPath}
      /\ \A q \in Run, f \in Path : q \in sole'[f] =>
            /\ q \in sole[f] /\ writers'[f] = writers[f] /\ eof'[f] = eof[f]
            /\ fd[q] = f => fd'[q] = f
  BY UnlinkForgets DEF IInv
<1>2. Types'
  BY <1>1 DEF IInv, Types
<1>3. Flow' /\ Open' /\ Doom'
  BY DEF IInv, Flow, FlowOf, Open, OpenOf, Doom, DoomOf, ChecksAhead, Listed, SavedListed
<1>4. Whole'
  BY <1>1, PathAssumption DEF IInv, Whole, WholeOf
<1>5. CancelReaches' /\ RunningIsAtWork'
  BY DEF IInv, CancelReaches, Active, RunningIsAtWork, Listed
<1> QED
  BY <1>2, <1>3, <1>4, <1>5 DEF IInv

\* The run leaves the map with its goroutine.
LEMMA UntrackInv == ASSUME IInv, NEW r \in Run, Untrack(r) PROVE IInv'
<1> USE DEF Untrack, Forget, stateVars, fileVars, contents
<1>1. Types'
  BY DEF IInv, Types, PathOf
<1>2. Flow'
  BY DEF IInv, Types, Flow, FlowOf, Listed, SavedListed
<1>3. Open'
  BY DEF IInv, Types, Open, OpenOf, Flow, FlowOf
<1>4. Doom'
  BY DEF IInv, Types, Doom, DoomOf, ChecksAhead
<1>5. Whole'
  BY DEF IInv, Types, Whole, WholeOf
<1>6. CancelReaches'
  BY DEF IInv, Types, CancelReaches, Active
<1>7. RunningIsAtWork'
  BY DEF IInv, Types, RunningIsAtWork, Listed
<1> QED
  BY <1>1, <1>2, <1>3, <1>4, <1>5, <1>6, <1>7 DEF IInv

\* Opening a download changes nothing else.
LEMMA OpenDownloadInv == ASSUME IInv, NEW d \in Reader, NEW r \in Run, OpenDownload(d, r) PROVE IInv'
<1> USE DEF OpenDownload, stateVars, jobVars, fileVars, contents
<1>1. Types'
  BY DEF IInv, Types
<1>2. Flow'
  BY DEF IInv, Types, Flow, FlowOf, Listed, SavedListed
<1>3. Open'
  BY DEF IInv, Types, Open, OpenOf
<1>4. Doom'
  BY DEF IInv, Types, Doom, DoomOf, ChecksAhead
<1>5. Whole'
  BY DEF IInv, Types, Whole, WholeOf
<1>6. CancelReaches'
  BY DEF IInv, Types, CancelReaches, Active
<1>7. RunningIsAtWork'
  BY DEF IInv, Types, RunningIsAtWork, Listed
<1> QED
  BY <1>1, <1>2, <1>3, <1>4, <1>5, <1>6, <1>7 DEF IInv

\* A download may remove a file.
LEMMA EndDownloadInv == ASSUME IInv, NEW d \in Reader, EndDownload(d) PROVE IInv'
<1> USE DEF EndDownload, stateVars, jobVars
<1>1. /\ writers' \in [Path -> SUBSET Run] /\ eof' \in [Path -> SUBSET Run]
      /\ sole' \in [Path -> SUBSET Run] /\ fd' \in PathOf
      /\ \A q \in Run : fd'[q] \in {fd[q], NoPath}
      /\ \A q \in Run, f \in Path : q \in sole'[f] =>
            /\ q \in sole[f] /\ writers'[f] = writers[f] /\ eof'[f] = eof[f]
            /\ fd[q] = f => fd'[q] = f
  BY UnlinkForgets DEF IInv
<1>2. Types'
  BY <1>1 DEF IInv, Types
<1>3. Flow' /\ Open' /\ Doom'
  BY DEF IInv, Flow, FlowOf, Open, OpenOf, Doom, DoomOf, ChecksAhead, Listed, SavedListed
<1>4. Whole'
  BY <1>1, PathAssumption DEF IInv, Whole, WholeOf
<1>5. CancelReaches' /\ RunningIsAtWork'
  BY DEF IInv, CancelReaches, Active, RunningIsAtWork, Listed
<1> QED
  BY <1>2, <1>3, <1>4, <1>5 DEF IInv

\* Only a path changes in the history.
LEMMA ClearOutputInv == ASSUME IInv, NEW d \in Reader, ClearOutput(d) PROVE IInv'
<1> USE DEF ClearOutput, jobVars, fileVars, contents
<1>1. Types'
  BY DEF IInv, Types, PathOf, Save, Memory
<1>2. Flow'
  BY DEF IInv, Types, Flow, FlowOf, Listed, SavedListed, Save, Memory
<1>3. Open'
  BY DEF IInv, Types, Open, OpenOf, Save, Memory
<1>4. Doom'
  BY DEF IInv, Types, Doom, DoomOf, ChecksAhead, Save, Memory
<1>5. Whole'
  BY DEF IInv, Types, Whole, WholeOf, Save, Memory
<1>6. CancelReaches'
  BY DEF IInv, Types, CancelReaches, Active
<1>7. RunningIsAtWork'
  BY DEF IInv, Types, RunningIsAtWork, Listed
<1> QED
  BY <1>1, <1>2, <1>3, <1>4, <1>5, <1>6, <1>7 DEF IInv

\* Runs that had begun are gone, the others are as new; the history is the saved one.
LEMMA RestartInv == ASSUME IInv, Restart PROVE IInv'
<1> DEFINE loaded == IF ephemeral THEN Empty ELSE saved
<1>1. Types
  BY DEF IInv
<1>2. /\ hist' = loaded.hist /\ shown' = loaded.shown /\ out' = loaded.out /\ saved' = saved
      /\ handler' = [r \in Run |-> IF handler[r] = "new" THEN "new" ELSE "gone"]
      /\ worker' = [r \in Run |-> "none"]
      /\ running' = {} /\ doomed' = doomed
      /\ fd' = [r \in Run |-> NoPath]
  BY DEF Restart
<1>3. /\ cancelled' \subseteq Run /\ target' \in PathOf /\ ok' = [r \in Run |-> FALSE]
      /\ done' = [r \in Run |-> 0]
  BY <1>1 DEF Restart, Forget, Types, PathOf
<1>4. UNCHANGED <<writers, eof, sole>>
  BY DEF Restart, contents
<1>5. /\ hist' \in Seq(Run) /\ shown' \in StatusOf /\ out' \in PathOf
      /\ \A r \in Run :
            /\ Listed(r)' => SavedListed(r)
            /\ shown'[r] \in {"none", saved.shown[r]}
  <2>1. CASE ephemeral
    BY <1>1, <1>2, <2>1 DEF Empty, Listed, StatusOf, PathOf
  <2>2. CASE ~ephemeral
    BY <1>1, <1>2, <2>2 DEF Types, Listed, SavedListed
  <2> QED
    BY <2>1, <2>2
<1>6. Types'
  BY <1>1, <1>2, <1>3, <1>4, <1>5 DEF Types, PathOf
<1>7. Flow'
  BY <1>1, <1>2, <1>5 DEF IInv, Flow, FlowOf, SavedListed
<1>8. Open'
  BY <1>1, <1>2, <1>3, <1>5 DEF IInv, Open, OpenOf, Flow, FlowOf, Finished
<1>9. Doom'
  BY <1>1, <1>2, <1>3, <1>5 DEF IInv, Doom, DoomOf, ChecksAhead
<1>10. Whole'
  BY <1>1, <1>2, <1>3, <1>4, <1>5, PathAssumption DEF IInv, Whole, WholeOf, Types
<1>11. CancelReaches'
  BY <1>2 DEF CancelReaches, Active
<1>12. RunningIsAtWork'
  BY <1>1, <1>2, <1>5 DEF IInv, RunningIsAtWork, Flow, FlowOf
<1> QED
  BY <1>6, <1>7, <1>8, <1>9, <1>10, <1>11, <1>12 DEF IInv

\* What a new process prunes was nobody's.
LEMMA PruneAtStartInv == ASSUME IInv, NEW p \in Path, PruneAtStart(p) PROVE IInv'
<1> USE DEF PruneAtStart, stateVars, jobVars
<1>1. /\ writers' \in [Path -> SUBSET Run] /\ eof' \in [Path -> SUBSET Run]
      /\ sole' \in [Path -> SUBSET Run] /\ fd' \in PathOf
      /\ \A q \in Run : fd'[q] \in {fd[q], NoPath}
      /\ \A q \in Run, f \in Path : q \in sole'[f] =>
            /\ q \in sole[f] /\ writers'[f] = writers[f] /\ eof'[f] = eof[f]
            /\ fd[q] = f => fd'[q] = f
  BY UnlinkForgets DEF IInv
<1>2. Types'
  BY <1>1 DEF IInv, Types
<1>3. Flow' /\ Open' /\ Doom'
  BY DEF IInv, Flow, FlowOf, Open, OpenOf, Doom, DoomOf, ChecksAhead, Listed, SavedListed
<1>4. Whole'
  BY <1>1, PathAssumption DEF IInv, Whole, WholeOf
<1>5. CancelReaches' /\ RunningIsAtWork'
  BY DEF IInv, CancelReaches, Active, RunningIsAtWork, Listed
<1> QED
  BY <1>2, <1>3, <1>4, <1>5 DEF IInv

LEMMA StutterInv == ASSUME IInv, UNCHANGED vars PROVE IInv'
BY DEF IInv, vars, stateVars, jobVars, fileVars, Types, Flow, FlowOf, Open, OpenOf, Doom, DoomOf, ChecksAhead,
       Whole, WholeOf, CancelReaches, RunningIsAtWork, Active, Listed, SavedListed, contents

\* IInv is inductive.
LEMMA StepInv == ASSUME IInv, [Next]_vars PROVE IInv'
BY HandleExportInv, TrackRunInv, GoExportInv, HandleCancelInv, ListFailsInv, CreateFileInv,
   QueryInv, AnsweredInv, AbortInv, FinishInv, UploadedInv, UpdateRunInv,
   ListVictimsInv, RemoveVictimInv, UntrackInv,
   OpenDownloadInv, EndDownloadInv, ClearOutputInv, RestartInv, PruneAtStartInv, StutterInv
   DEF Next, RunStep

-----------------------------------------------------------------------------
(* Bounds, files and pruning                                               *)

NoTwice(s) == \A i, j \in DOMAIN s : s[i] = s[j] => i = j

\* No list grows beyond its limit and no path is there twice; an export that has
\* not ended has a file to write to.
Limits ==
    /\ ephemeral \in BOOLEAN /\ restarts \in 0 .. MaxRestarts
    /\ Len(hist) <= MaxRuns /\ Len(saved.hist) <= MaxRuns
    /\ \A r \in Run : done[r] <= Metrics /\ (worker[r] = "querying" => done[r] < Metrics)
    /\ files \in Seq(Path) /\ NoTwice(files)
    /\ victims \in [Run -> SUBSET Path] /\ startup \subseteq Path
    /\ \A r \in Run :
          handler[r] \in {"added", "tracked"} /\ worker[r] # "done" => target[r] \in Path

\* While exports run one at a time, a sweep removes none of the Keep newest files:
\* nobody touches a file meanwhile.  A process does not start exports before it
\* has pruned.
Sweeps ==
    /\ ~overlapped => \A q, r \in Run : Active(q) /\ Active(r) => q = r
    /\ ~overlapped /\ ~ephemeral =>
           \A r \in Run : worker[r] = "sweeping" => victims[r] \subseteq Oldest
    /\ ~ephemeral => startup \subseteq Oldest
    /\ startup # {} => \A r \in Run : handler[r] \in {"new", "gone"}

LEMMA InitLimits == Init => Limits /\ Sweeps
<1> SUFFICES ASSUME Init PROVE Limits /\ Sweeps
  OBVIOUS
<1>1. Limits
  BY BoundAssumption DEF Init, Limits, Empty, NoTwice
<1>2. Sweeps
  BY DEF Init, Sweeps, Active
<1> QED
  BY <1>1, <1>2

\* A path that is taken out leaves the others in their order.
LEMMA WithoutOne ==
    ASSUME files \in Seq(Path), NoTwice(files), NEW p, Exists(p)
    PROVE  /\ PlaceOf(p) \in 1 .. Len(files) /\ files[PlaceOf(p)] = p
           /\ Without(p) \in Seq(Path) /\ NoTwice(Without(p))
           /\ Len(Without(p)) = Len(files) - 1
           /\ \A i \in 1 .. Len(files) - 1 :
                 /\ Without(p)[i] = files[IF i < PlaceOf(p) THEN i ELSE i + 1]
                 /\ Without(p)[i] # p
<1> DEFINE k == PlaceOf(p)
           w == [i \in 1 .. Len(files) - 1 |-> files[IF i < k THEN i ELSE i + 1]]
<1>1. k \in DOMAIN files /\ files[k] = p
  BY DEF PlaceOf, Exists
<1>2. Len(files) \in Nat /\ DOMAIN files = 1 .. Len(files) /\ Without(p) = w
  BY DEF Without
<1> HIDE DEF k
<1>3. k \in 1 .. Len(files) /\ Len(files) - 1 \in Nat
  BY <1>1, <1>2
<1>4. \A i \in 1 .. Len(files) - 1 :
         /\ w[i] = files[IF i < k THEN i ELSE i + 1]
         /\ (IF i < k THEN i ELSE i + 1) \in 1 .. Len(files)
         /\ (IF i < k THEN i ELSE i + 1) # k
  BY <1>3
<1>5. \A i \in 1 .. Len(files) - 1 : w[i] \in Path /\ w[i] # p
  BY <1>1, <1>2, <1>3, <1>4 DEF NoTwice
<1>6. w \in Seq(Path) /\ Len(w) = Len(files) - 1 /\ DOMAIN w = 1 .. Len(files) - 1
  BY <1>3, <1>5
<1>7. NoTwice(w)
  <2> SUFFICES ASSUME NEW i \in 1 .. Len(files) - 1, NEW j \in 1 .. Len(files) - 1, w[i] = w[j]
               PROVE  i = j
    BY <1>6 DEF NoTwice
  <2>1. (IF i < k THEN i ELSE i + 1) = (IF j < k THEN j ELSE j + 1)
    BY <1>2, <1>4 DEF NoTwice
  <2> QED
    BY <1>3, <2>1
<1> QED
  BY <1>1, <1>2, <1>3, <1>4, <1>5, <1>6, <1>7 DEF k

\* The last one modified: no file is lost.
LEMMA TouchTyped ==
    ASSUME files \in Seq(Path), NoTwice(files), NEW p \in Path, Touch(p)
    PROVE  files' \in Seq(Path) /\ NoTwice(files') /\ Len(files') >= Len(files)
<1> DEFINE w == Without(p)
<1>1. /\ w \in Seq(Path) /\ NoTwice(w) /\ Len(w) >= Len(files) - 1
      /\ \A i \in DOMAIN w : w[i] # p
  <2>1. CASE Exists(p)
    BY <2>1, WithoutOne
  <2>2. CASE ~Exists(p)
    BY <2>2 DEF Without, Exists
  <2> QED
    BY <2>1, <2>2
<1>2. files' = Append(w, p)
  BY DEF Touch
<1> HIDE DEF w
<1>3. /\ files' \in Seq(Path) /\ Len(files') = Len(w) + 1
      /\ DOMAIN files' = DOMAIN w \cup {Len(w) + 1} /\ files'[Len(w) + 1] = p
      /\ \A i \in DOMAIN w : files'[i] = w[i]
      /\ Len(files) \in Nat /\ Len(w) \in Nat
  BY <1>1, <1>2
<1> QED
  BY <1>1, <1>3 DEF NoTwice

\* So is a write, to a file with a name.
LEMMA WriteTyped ==
    ASSUME Types, Limits, NEW r \in Run, NEW last \in BOOLEAN,
           Write(r, last) \/ UNCHANGED contents
    PROVE  files' \in Seq(Path) /\ NoTwice(files') /\ Len(files') >= Len(files)
<1>1. files \in Seq(Path) /\ NoTwice(files) /\ Len(files) \in Nat
  BY DEF Limits
<1>2. CASE UNCHANGED files
  BY <1>1, <1>2
<1>3. CASE fd[r] \in Path /\ Touch(fd[r])
  BY <1>1, <1>3, TouchTyped
<1> QED
  BY <1>2, <1>3 DEF Write, Types, PathOf, contents

\* A removal takes out one path, if it is there.
LEMMA UnlinkTyped ==
    ASSUME Limits, NEW p, Unlink(p) \/ UNCHANGED <<fd, contents>>
    PROVE  /\ files' \in Seq(Path) /\ NoTwice(files')
           /\ files' = files \/ (Exists(p) /\ files' = Without(p))
<1>1. files \in Seq(Path) /\ NoTwice(files)
  BY DEF Limits
<1>2. files' = files \/ (Exists(p) /\ files' = Without(p))
  BY DEF Unlink, Without, contents
<1> QED
  BY <1>1, <1>2, WithoutOne

\* Removing one of the oldest leaves the others among the oldest, and Keep files.
LEMMA OldestGoes ==
    ASSUME files \in Seq(Path), NoTwice(files), NEW p \in Oldest,
           Exists(p) => files' = Without(p)
    PROVE  Oldest \ {p} \subseteq Oldest' /\ Len(files') >= Keep
<1> DEFINE k == PlaceOf(p)
<1>1. Keep \in Nat /\ Len(files) \in Nat /\ DOMAIN files = 1 .. Len(files)
  BY BoundAssumption
<1>2. PICK i \in 1 .. Len(files) - Keep : files[i] = p
  BY DEF Oldest
<1>3. i \in DOMAIN files
  BY <1>1, <1>2
<1>4. Exists(p)
  BY <1>2, <1>3 DEF Exists
<1>5. /\ k \in 1 .. Len(files) /\ files[k] = p /\ Len(files') = Len(files) - 1
      /\ \A j \in 1 .. Len(files) - 1 : files'[j] = files[IF j < k THEN j ELSE j + 1]
  BY <1>4, WithoutOne
<1> HIDE DEF k
<1>6. k = i
  BY <1>1, <1>2, <1>3, <1>5 DEF NoTwice
<1>7. ASSUME NEW q \in Oldest, q # p PROVE q \in Oldest'
  <2>1. PICK j \in 1 .. Len(files) - Keep : files[j] = q
    BY DEF Oldest
  <2>2. j # k
    BY <1>5, <1>7, <2>1
  <2>3. CASE j < k
    <3>1. j \in 1 .. Len(files') - Keep /\ j \in 1 .. Len(files) - 1
      BY <1>1, <1>2, <1>5, <1>6, <2>1, <2>3
    <3>2. files'[j] = q
      BY <1>5, <2>1, <2>3, <3>1
    <3> QED
      BY <3>1, <3>2 DEF Oldest
  <2>4. CASE j > k
    <3>1. j - 1 \in 1 .. Len(files') - Keep /\ j - 1 \in 1 .. Len(files) - 1 /\ ~(j - 1 < k)
      BY <1>1, <1>2, <1>5, <1>6, <2>1, <2>4
    <3>2. files'[j - 1] = files[(j - 1) + 1] /\ (j - 1) + 1 = j
      BY <1>5, <2>1, <3>1
    <3> QED
      BY <2>1, <3>1, <3>2 DEF Oldest
  <2> QED
    BY <1>1, <1>5, <2>1, <2>2, <2>3, <2>4
<1>8. Len(files') >= Keep
  BY <1>1, <1>2, <1>5
<1> QED
  BY <1>7, <1>8

\* AddRun keeps the history within its limit, ...
LEMMA TrimLimits ==
    ASSUME hist \in Seq(Run), NEW r \in Run PROVE Len(Trim(<<r>> \o hist)) <= MaxRuns
<1> DEFINE h == <<r>> \o hist
<1>1. h \in Seq(Run) /\ Len(h) \in Nat /\ DOMAIN h = 1 .. Len(h) /\ MaxRuns \in Nat
  BY BoundAssumption
<1> HIDE DEF h
<1>2. CASE Len(h) > MaxRuns
  <2>1. \A i \in 1 .. MaxRuns : h[i] \in Run
    BY <1>1, <1>2
  <2>2. Len(SubSeq(h, 1, MaxRuns)) = MaxRuns
    BY <1>1, <1>2, <2>1
  <2> QED
    BY <1>1, <1>2, <2>2 DEF Trim, h
<1>3. CASE ~(Len(h) > MaxRuns)
  BY <1>1, <1>3 DEF Trim, h
<1> QED
  BY <1>2, <1>3

\* ... and so does a save.
LEMMA SavedLimit ==
    ASSUME Limits, Save \/ SaveFails \/ UNCHANGED saved, Len(hist') <= MaxRuns
    PROVE  Len(saved'.hist) <= MaxRuns
  BY DEF Limits, Save, SaveFails, Memory

LEMMA LimitsStep == ASSUME IInv, Limits, [Next]_vars PROVE Limits'
<1> USE DEF stateVars, jobVars, fileVars, contents, bootVars
<1>1. Types
  BY DEF IInv
<1>2. ASSUME NEW r \in Run, NEW p \in Choice[r], HandleExport(r, p) PROVE Limits'
  <2>1. p \in Path /\ hist' = Trim(<<r>> \o hist)
    BY <1>2, PathAssumption DEF HandleExport, AddRun
  <2>2. Len(hist') <= MaxRuns
    BY <1>1, <2>1, TrimLimits DEF Types
  <2>3. Len(saved'.hist) <= MaxRuns
    BY <1>2, <2>2, SavedLimit DEF HandleExport
  <2>4. target' = [target EXCEPT ![r] = p] /\ \A q \in Run : q # r => handler'[q] = handler[q]
    BY <1>1, <1>2 DEF HandleExport, Types
  <2>5. \A q \in Run : handler'[q] \in {"added", "tracked"} /\ worker'[q] # "done" => target'[q] \in Path
    BY <1>1, <1>2, <2>1, <2>4 DEF HandleExport, Types, PathOf, Limits
  <2> QED
    BY <1>2, <2>2, <2>3, <2>5 DEF HandleExport, Limits
<1>3. ASSUME NEW r \in Run, TrackRun(r) \/ GoExport(r) \/ HandleCancel(r) \/ ListFails(r)
                                \/ Query(r) \/ Uploaded(r)
      PROVE  Limits'
  BY <1>1, <1>3 DEF TrackRun, GoExport, HandleCancel, ListFails, Query, Uploaded, Types, Limits
<1>4. ASSUME NEW r \in Run, CreateFile(r) PROVE Limits'
  <2>1. target[r] \in Path /\ Touch(target[r])
    BY <1>1, <1>4 DEF CreateFile, Limits, IInv, Flow, FlowOf
  <2>2. files' \in Seq(Path) /\ NoTwice(files')
    BY <2>1, TouchTyped DEF Limits
  <2> QED
    BY <1>1, <1>4, <2>2 DEF CreateFile, Types, Limits
<1>5. ASSUME NEW r \in Run, Answered(r) PROVE Limits'
  <2>1. files' \in Seq(Path) /\ NoTwice(files')
    BY <1>1, <1>5, WriteTyped DEF Answered
  <2>2. /\ \A q \in Run : done'[q] <= Metrics
        /\ \A q \in Run : worker'[q] = "querying" => q # r /\ worker[q] = "querying" /\ done'[q] = done[q]
        /\ \A q \in Run : worker'[q] # "done" => worker[q] # "done"
    BY <1>1, <1>5, BoundAssumption DEF Answered, Types, Limits
  <2> QED
    BY <1>5, <2>1, <2>2 DEF Answered, Limits
<1>6. ASSUME NEW r \in Run, Abort(r) \/ Finish(r) PROVE Limits'
  <2>1. files' \in Seq(Path) /\ NoTwice(files')
    BY <1>1, <1>6, WriteTyped DEF Abort, Finish
  <2>2. \A q \in Run : /\ worker'[q] # "done" => worker[q] # "done"
                       /\ worker'[q] = "querying" => worker[q] = "querying"
    BY <1>1, <1>6 DEF Abort, Finish, Types
  <2> QED
    BY <1>6, <2>1, <2>2 DEF Abort, Finish, Limits
<1>7. ASSUME NEW r \in Run, UpdateRun(r) PROVE Limits'
  <2>1. Len(saved'.hist) <= MaxRuns
    BY <1>7, SavedLimit DEF UpdateRun, Limits
  <2>2. \A q \in Run : worker'[q] # "done" => worker[q] # "done"
    BY <1>1, <1>7 DEF UpdateRun, Types
  <2> QED
    BY <1>7, <2>1, <2>2 DEF UpdateRun, Limits
<1>8. ASSUME NEW r \in Run, ListVictims(r) PROVE Limits'
  <2>1. Oldest \subseteq Path
    BY BoundAssumption DEF Oldest, Limits
  <2>2. victims' \in [Run -> SUBSET Path]
    BY <1>8, <2>1 DEF ListVictims, Limits
  <2>3. \A q \in Run : worker'[q] # "done" => worker[q] # "done"
    BY <1>1, <1>8 DEF ListVictims, Types
  <2> QED
    BY <1>8, <2>2, <2>3 DEF ListVictims, Limits
<1>9. ASSUME NEW r \in Run, NEW p \in Path, RemoveVictim(r, p) PROVE Limits'
  <2>1. files' \in Seq(Path) /\ NoTwice(files')
    BY <1>9, UnlinkTyped DEF RemoveVictim
  <2>2. victims' \in [Run -> SUBSET Path]
    BY <1>9 DEF RemoveVictim, Limits
  <2> QED
    BY <1>9, <2>1, <2>2 DEF RemoveVictim, Limits
<1>10. ASSUME NEW r \in Run, Untrack(r) PROVE Limits'
  <2>1. \A q \in Run : worker'[q] # "done" => q # r /\ worker[q] # "done"
    BY <1>1, <1>10 DEF Untrack, Types
  <2>2. \A q \in Run : q # r => target'[q] = target[q]
    BY <1>10 DEF Untrack, Forget
  <2>3. /\ \A q \in Run : done'[q] <= Metrics
        /\ \A q \in Run : worker'[q] = "querying" => worker[q] = "querying" /\ done'[q] = done[q]
    BY <1>1, <1>10, BoundAssumption DEF Untrack, Forget, Limits, Types
  <2> QED
    BY <1>10, <2>1, <2>2, <2>3 DEF Untrack, Limits
<1>11. ASSUME NEW d \in Reader, NEW r \in Run, OpenDownload(d, r) PROVE Limits'
  BY <1>11 DEF OpenDownload, Limits
<1>12. ASSUME NEW d \in Reader, EndDownload(d) PROVE Limits'
  <2>1. files' \in Seq(Path) /\ NoTwice(files')
    BY <1>12, UnlinkTyped DEF EndDownload
  <2> QED
    BY <1>12, <2>1 DEF EndDownload, Limits
<1>13. ASSUME NEW d \in Reader, ClearOutput(d) PROVE Limits'
  <2>1. Len(saved'.hist) <= MaxRuns
    BY <1>13, SavedLimit DEF ClearOutput, Limits
  <2> QED
    BY <1>13, <2>1 DEF ClearOutput, Limits
<1>14. CASE Restart
  <2>1. Len(hist') <= MaxRuns
    BY <1>14, BoundAssumption DEF Restart, Empty, Limits
  <2>2. startup' \subseteq Path /\ restarts' \in 0 .. MaxRestarts
    BY <1>14, BoundAssumption DEF Restart, Oldest, Limits
  <2>3. (\A r \in Run : done'[r] <= Metrics) /\ victims' \in [Run -> SUBSET Path]
    BY <1>14, BoundAssumption DEF Restart, Forget
  <2>4. \A r \in Run : handler'[r] \notin {"added", "tracked"}
    BY <1>14 DEF Restart
  <2> QED
    BY <1>14, <2>1, <2>2, <2>3, <2>4 DEF Restart, Limits
<1>15. ASSUME NEW p \in Path, PruneAtStart(p) PROVE Limits'
  <2>1. files' \in Seq(Path) /\ NoTwice(files')
    BY <1>15, UnlinkTyped DEF PruneAtStart
  <2> QED
    BY <1>15, <2>1 DEF PruneAtStart, Limits
<1>16. CASE UNCHANGED vars
  BY <1>16 DEF vars, Limits
<1> QED
  BY <1>2, <1>3, <1>4, <1>5, <1>6, <1>7, <1>8, <1>9, <1>10, <1>11, <1>12, <1>13, <1>14, <1>15,
     <1>16 DEF Next, RunStep

\* A step that touches no file, begins no sweep and starts no export.
LEMMA SweepsStay ==
    ASSUME Sweeps, UNCHANGED <<ephemeral, overlapped, files, victims>>,
           startup' = startup, startup # {} => handler' = handler,
           \A r \in Run : /\ Active(r)' => Active(r)
                          /\ worker'[r] = "sweeping" => worker[r] = "sweeping"
    PROVE  Sweeps'
  BY DEF Sweeps, Oldest

\* An export that writes is the only one at work, and the process has pruned.
LEMMA WriterAlone ==
    ASSUME IInv, Limits, Sweeps, UNCHANGED <<ephemeral, overlapped, victims, handler, startup>>,
           NEW r \in Run, Active(r), worker[r] # "sweeping",
           worker'[r] # "sweeping",
           \A q \in Run : /\ Active(q)' => Active(q)
                          /\ q # r => worker'[q] = worker[q]
    PROVE  Sweeps'
<1>1. startup = {}
  BY DEF IInv, Flow, FlowOf, Sweeps, Active
<1>2. ~overlapped => \A q \in Run : worker'[q] # "sweeping"
  BY DEF Sweeps, Active
<1> QED
  BY <1>1, <1>2 DEF Sweeps

LEMMA SweepsStep == ASSUME IInv, Limits, Sweeps, [Next]_vars PROVE Sweeps'
<1> USE DEF stateVars, jobVars, fileVars, contents, bootVars
<1>1. Types /\ files \in Seq(Path) /\ NoTwice(files)
  BY DEF IInv, Limits
<1>2. ASSUME NEW r \in Run, NEW p \in Choice[r], HandleExport(r, p) PROVE Sweeps'
  BY <1>2, SweepsStay DEF HandleExport, Active
<1>3. ASSUME NEW r \in Run, TrackRun(r) PROVE Sweeps'
  <2>1. startup = {}
    BY <1>3 DEF TrackRun, Sweeps
  <2> QED
    BY <1>3, <2>1, SweepsStay DEF TrackRun, Active
<1>4. ASSUME NEW r \in Run, GoExport(r) PROVE Sweeps'
  <2>1. startup = {}
    BY <1>4 DEF GoExport, Sweeps
  <2>2. \A q \in Run : q # r => worker'[q] = worker[q]
    BY <1>1, <1>4 DEF GoExport, Types
  <2>3. worker'[r] = "listing" /\ UNCHANGED <<startup, victims, files>>
    BY <1>1, <1>4 DEF GoExport, Types
  <2>4. ~overlapped' => ~overlapped /\ \A q \in Run : ~Active(q)
    BY <1>4 DEF GoExport
  <2> QED
    BY <2>1, <2>2, <2>3, <2>4 DEF Sweeps, Active
<1>5. ASSUME NEW r \in Run, HandleCancel(r) PROVE Sweeps'
  BY <1>5, SweepsStay DEF HandleCancel, Active
<1>6. ASSUME NEW r \in Run,
             ListFails(r) \/ Query(r) \/ Uploaded(r) \/ UpdateRun(r) \/ Untrack(r)
      PROVE  Sweeps'
  <2>1. \A q \in Run : /\ Active(q)' => Active(q)
                       /\ worker'[q] = "sweeping" => worker[q] = "sweeping"
    BY <1>1, <1>6 DEF ListFails, Query, Uploaded, UpdateRun, Untrack, Active, Types
  <2> QED
    BY <1>6, <2>1, SweepsStay DEF ListFails, Query, Uploaded, UpdateRun, Untrack
<1>7. ASSUME NEW r \in Run, CreateFile(r) \/ Answered(r) \/ Abort(r) \/ Finish(r) PROVE Sweeps'
  <2>1. /\ UNCHANGED <<ephemeral, overlapped, victims, handler, startup>>
        /\ worker[r] \in {"listing", "writing", "querying"}
    BY <1>7 DEF CreateFile, Answered, Abort, Finish
  <2>2. /\ worker'[r] \in {"writing", "uploading", "finishing"}
        /\ \A q \in Run : q # r => worker'[q] = worker[q]
    BY <1>1, <1>7 DEF CreateFile, Answered, Abort, Finish, Types
  <2>3. Active(r) /\ \A q \in Run : Active(q)' => Active(q)
    BY <2>1, <2>2 DEF Active
  <2> QED
    BY <2>1, <2>2, <2>3, WriterAlone
<1>8. ASSUME NEW r \in Run, ListVictims(r) PROVE Sweeps'
  <2>1. /\ victims' = [victims EXCEPT ![r] = Oldest] /\ worker' = [worker EXCEPT ![r] = "sweeping"]
        /\ UNCHANGED <<ephemeral, overlapped, files, handler, startup>> /\ Active(r)
    BY <1>8 DEF ListVictims, Active
  <2>2. Oldest' = Oldest
    BY <2>1 DEF Oldest
  <2>3. /\ \A q \in Run : Active(q)' => Active(q)
        /\ \A q \in Run : q # r => worker'[q] = worker[q] /\ victims'[q] = victims[q]
        /\ victims'[r] = Oldest
    BY <1>1, <2>1 DEF Active, Types, Limits
  <2> QED
    BY <2>1, <2>2, <2>3 DEF Sweeps
<1>9. ASSUME NEW r \in Run, NEW p \in Path, RemoveVictim(r, p) PROVE Sweeps'
  <2>1. /\ worker[r] = "sweeping" /\ p \in victims[r] /\ victims' = [victims EXCEPT ![r] = @ \ {p}]
        /\ UNCHANGED <<ephemeral, overlapped, handler, worker, startup>>
    BY <1>9 DEF RemoveVictim
  <2>2. startup = {}
    BY <2>1 DEF IInv, Flow, FlowOf, Sweeps
  <2>3. ASSUME ~overlapped, ~ephemeral PROVE victims'[r] \subseteq Oldest'
    <3>1. p \in Oldest /\ victims[r] \subseteq Oldest
      BY <2>1, <2>3 DEF Sweeps
    <3>2. CASE files' = files
      <4>1. Oldest' = Oldest
        BY <3>2 DEF Oldest
      <4> QED
        BY <2>1, <3>1, <4>1 DEF Limits
    <3>3. CASE files' = Without(p)
      <4>1. Oldest \ {p} \subseteq Oldest'
        BY <1>1, <3>1, <3>3, OldestGoes
      <4>2. victims'[r] = victims[r] \ {p}
        BY <2>1 DEF Limits
      <4> QED
        BY <3>1, <4>1, <4>2
    <3> QED
      BY <1>9, <3>2, <3>3, UnlinkTyped DEF RemoveVictim
  <2>4. ~overlapped => \A q \in Run : worker[q] = "sweeping" => q = r
    BY <2>1 DEF Sweeps, Active
  <2> QED
    BY <2>1, <2>2, <2>3, <2>4 DEF Sweeps, Active
<1>10. ASSUME NEW d \in Reader, NEW r \in Run, OpenDownload(d, r) PROVE Sweeps'
  BY <1>10, SweepsStay DEF OpenDownload, Active
<1>11. ASSUME NEW d \in Reader, EndDownload(d) PROVE Sweeps'
  <2>1. CASE ephemeral
    BY <1>11, <2>1 DEF EndDownload, Sweeps, Active
  <2>2. CASE ~ephemeral
    BY <1>11, <2>2, SweepsStay DEF EndDownload, Active
  <2> QED
    BY <2>1, <2>2
<1>12. ASSUME NEW d \in Reader, ClearOutput(d) PROVE Sweeps'
  BY <1>12, SweepsStay DEF ClearOutput, Active
<1>13. CASE Restart
  <2>1. /\ \A r \in Run : worker'[r] = "none" /\ handler'[r] \in {"new", "gone"}
        /\ startup' \in {{}, Oldest} /\ files' = files
    BY <1>13 DEF Restart
  <2>2. Oldest' = Oldest
    BY <2>1 DEF Oldest
  <2> QED
    BY <2>1, <2>2 DEF Sweeps, Active
<1>14. ASSUME NEW p \in Path, PruneAtStart(p) PROVE Sweeps'
  <2>1. /\ p \in startup /\ startup' = startup \ {p}
        /\ UNCHANGED <<ephemeral, overlapped, handler, worker, victims>>
    BY <1>14 DEF PruneAtStart
  <2>2. \A r \in Run : worker[r] = "none"
    BY <2>1 DEF IInv, Flow, FlowOf, Sweeps
  <2>3. ASSUME ~ephemeral PROVE startup' \subseteq Oldest'
    <3>1. p \in Oldest /\ startup \subseteq Oldest
      BY <2>1, <2>3 DEF Sweeps
    <3>2. CASE files' = files
      <4>1. Oldest' = Oldest
        BY <3>2 DEF Oldest
      <4> QED
        BY <2>1, <3>1, <4>1
    <3>3. CASE files' = Without(p)
      <4>1. Oldest \ {p} \subseteq Oldest'
        BY <1>1, <3>1, <3>3, OldestGoes
      <4> QED
        BY <2>1, <3>1, <4>1
    <3> QED
      BY <1>14, <3>2, <3>3, UnlinkTyped DEF PruneAtStart
  <2> QED
    BY <2>1, <2>2, <2>3 DEF Sweeps, Active
<1>15. CASE UNCHANGED vars
  BY <1>15, SweepsStay DEF vars, Active
<1> QED
  BY <1>2, <1>3, <1>4, <1>5, <1>6, <1>7, <1>8, <1>9, <1>10, <1>11, <1>12, <1>13, <1>14, <1>15
     DEF Next, RunStep

-----------------------------------------------------------------------------
(* The theorems                                                            *)

\* The invariant holds in every state of every behaviour.
THEOREM Invariance == Spec => []IInv
<1>1. Init => IInv
  BY InitIInv
<1>2. IInv /\ [Next]_vars => IInv'
  BY StepInv
<1> QED
  BY <1>1, <1>2, PTL DEF Spec

\* The cancel button reaches every export at work and nothing else.
THEOREM Cancellable == Spec => []CancelReaches
<1>1. IInv => CancelReaches
  BY DEF IInv
<1> QED
  BY <1>1, Invariance, PTL

\* A run shown as running has its goroutine, or had its start refused or its
\* process ended.
THEOREM NobodyForgotten == Spec => []RunningIsAtWork
<1>1. IInv => RunningIsAtWork
  BY DEF IInv
<1> QED
  BY <1>1, Invariance, PTL

\* An export that is cancelled with a look at its context ahead is never a success,
\* also after a restart; the query that runs may still be answered.
THEOREM CancelIsFinal == Spec => []CancelHonoured
<1>1. IInv => CancelHonoured
  BY DEF IInv, Types, Doom, DoomOf, CancelHonoured
<1> QED
  BY <1>1, Invariance, PTL

\* The file of a success is whole and its own, if no other export created it anew
\* or had it open.
THEOREM WholeSuccess == Spec => []SuccessIsWhole
<1>1. IInv => SuccessIsWhole
  BY DEF IInv, Types, PathOf, Whole, WholeOf, SuccessIsWhole
<1> QED
  BY <1>1, Invariance, PTL

\* The limits hold, and so does what a sweep may remove, in every state.
THEOREM LimitsKept == Spec => [](Limits /\ Sweeps)
<1>1. IInv /\ Limits /\ Sweeps /\ [Next]_vars => Limits' /\ Sweeps'
  BY LimitsStep, SweepsStep
<1> QED
  BY InitLimits, <1>1, Invariance, PTL DEF Spec

\* A step that changes an outcome is a restart on a state file that is behind.
LEMMA OutcomeStays ==
    ASSUME IInv, [Next]_vars, NEW r \in Run, restarts \in Nat, Listed(r), shown[r] \in Finished, Listed(r)',
           shown'[r] # shown[r]
    PROVE  restarts' # restarts /\ ~ephemeral /\ saved # Memory
<1>1. ASSUME NEW q \in Run, NEW p \in Choice[q], HandleExport(q, p) PROVE FALSE
  <2>1. q # r
    BY <1>1 DEF HandleExport, IInv, Flow, FlowOf
  <2> QED
    BY <1>1, <2>1 DEF HandleExport, AddRun
<1>2. ASSUME NEW q \in Run, UpdateRun(q) PROVE FALSE
  <2>1. q # r
    BY <1>2 DEF UpdateRun, IInv, Flow, FlowOf, Open, OpenOf
  <2> QED
    BY <1>2, <2>1 DEF UpdateRun, IInv, Types, StatusOf
<1>3. ASSUME Restart PROVE restarts' # restarts /\ ~ephemeral /\ saved # Memory
  <2>1. ~ephemeral
    BY <1>3 DEF Restart, Empty, Listed
  <2>2. saved # Memory
    BY <1>3, <2>1 DEF Restart, Memory
  <2>3. restarts' # restarts
    BY <1>3, restarts \in Nat DEF Restart
  <2> QED
    BY <2>1, <2>2, <2>3
<1>4. ~(UNCHANGED shown)
  OBVIOUS
<1>5. ASSUME NEW d \in Reader PROVE ~ClearOutput(d)
  BY <1>4 DEF ClearOutput
<1>6. ASSUME NEW q \in Run
      PROVE  /\ ~TrackRun(q) /\ ~GoExport(q) /\ ~HandleCancel(q) /\ ~ListFails(q) /\ ~CreateFile(q)
             /\ ~Query(q) /\ ~Answered(q) /\ ~Abort(q) /\ ~Finish(q) /\ ~Uploaded(q) /\ ~ListVictims(q) /\ ~Untrack(q)
             /\ \A p \in Path : ~RemoveVictim(q, p) /\ ~PruneAtStart(p)
             /\ \A d \in Reader : ~OpenDownload(d, q) /\ ~EndDownload(d)
  BY <1>4 DEF TrackRun, GoExport, HandleCancel, ListFails, CreateFile, Query, Answered, Abort,
              Finish, Uploaded,
              ListVictims, Untrack, RemoveVictim, PruneAtStart, OpenDownload, EndDownload, stateVars
<1>7. ~UNCHANGED vars
  BY <1>4 DEF vars, stateVars
<1> QED
  BY <1>1, <1>2, <1>3, <1>5, <1>6, <1>7 DEF Next, RunStep

\* A finished run keeps its outcome while it is listed: only a restart can change
\* it, in persistent mode and on a state file that is behind.
THEOREM FinalOutcome == Spec => FinishedStaysFinished
<1>1. IInv /\ Limits /\ [Next]_vars =>
        [\A r \in Run : Listed(r) /\ shown[r] \in Finished /\ Listed(r)' /\ shown'[r] # shown[r]
           => restarts' # restarts /\ ~ephemeral /\ saved # Memory]_vars
  BY OutcomeStays, BoundAssumption DEF Limits
<1> QED
  BY <1>1, Invariance, LimitsKept, PTL DEF Spec, FinishedStaysFinished

\* The history never exceeds MaxRuns, the metrics done never the metrics, and no
\* path is in the directory twice: state.go, AddRun.
THEOREM TypeCorrect == Spec => []TypeOK
<1>1. ASSUME IInv, Limits PROVE TypeOK
  <2>1. done \in [Run -> 0 .. Metrics]
    BY <1>1, BoundAssumption DEF IInv, Types, Limits
  <2> QED
    BY <1>1, <2>1 DEF IInv, Types, Limits, TypeOK, StatusOf, PathOf, NoTwice
<1> QED
  BY <1>1, Invariance, LimitsKept, PTL

\* What a step can do to the number of files.
LEMMA FilesStay ==
    ASSUME IInv, Limits, Sweeps, [Next]_vars, ~overlapped', ~ephemeral, Len(files) >= Keep
    PROVE  Len(files') >= Keep
<1> USE DEF stateVars, jobVars, fileVars, contents, bootVars
<1>1. Types /\ files \in Seq(Path) /\ NoTwice(files) /\ Len(files) \in Nat /\ Keep \in Nat
  BY BoundAssumption DEF IInv, Limits
<1>2. CASE UNCHANGED files
  BY <1>2
<1>3. ASSUME NEW r \in Run, CreateFile(r) PROVE Len(files') >= Keep
  <2>1. target[r] \in Path /\ Touch(target[r])
    BY <1>3 DEF CreateFile, Limits, IInv, Flow, FlowOf
  <2>2. files' \in Seq(Path) /\ Len(files') >= Len(files)
    BY <1>1, <2>1, TouchTyped
  <2> QED
    BY <1>1, <2>2
<1>4. ASSUME NEW r \in Run, Answered(r) \/ Abort(r) \/ Finish(r) PROVE Len(files') >= Keep
  <2>1. files' \in Seq(Path) /\ Len(files') >= Len(files)
    BY <1>1, <1>4, WriteTyped DEF Answered, Abort, Finish
  <2> QED
    BY <1>1, <2>1
<1>5. ASSUME NEW p \in Oldest, Unlink(p) PROVE Len(files') >= Keep
  BY <1>1, <1>5, OldestGoes DEF Unlink
<1>6. ASSUME NEW r \in Run, NEW p \in Path, RemoveVictim(r, p) PROVE Len(files') >= Keep
  <2>1. p \in Oldest
    BY <1>6 DEF RemoveVictim, Sweeps
  <2> QED
    BY <1>2, <1>5, <1>6, <2>1 DEF RemoveVictim
<1>7. ASSUME NEW p \in Path, PruneAtStart(p) PROVE Len(files') >= Keep
  <2>1. p \in Oldest
    BY <1>7 DEF PruneAtStart, Sweeps
  <2> QED
    BY <1>2, <1>5, <1>7, <2>1 DEF PruneAtStart
<1>8. ASSUME NEW d \in Reader, EndDownload(d) PROVE Len(files') >= Keep
  BY <1>2, <1>8 DEF EndDownload
<1>9. ASSUME NEW r \in Run
      PROVE  /\ TrackRun(r) \/ GoExport(r) \/ HandleCancel(r) \/ ListFails(r) => UNCHANGED files
             /\ Query(r) \/ Uploaded(r) \/ UpdateRun(r) \/ ListVictims(r) \/ Untrack(r) => UNCHANGED files
             /\ \A p \in Choice[r] : HandleExport(r, p) => UNCHANGED files
             /\ \A d \in Reader : OpenDownload(d, r) => UNCHANGED files
  BY DEF TrackRun, GoExport, HandleCancel, ListFails, Query, Uploaded, UpdateRun, ListVictims, Untrack, HandleExport,
         OpenDownload
<1>10. /\ \A d \in Reader : ClearOutput(d) => UNCHANGED files
       /\ Restart => UNCHANGED files
       /\ UNCHANGED vars => UNCHANGED files
  BY DEF ClearOutput, Restart, vars
<1> QED
  BY <1>2, <1>3, <1>4, <1>6, <1>7, <1>8, <1>9, <1>10 DEF Next, RunStep

\* One export at a time, pruning never goes below the Keep newest files, whatever
\* removals fail and whenever the process ends in a sweep: prune.go, files[keep:].
THEOREM PruningKeeps == Spec => PruneAloneKeeps
<1>1. IInv /\ Limits /\ Sweeps /\ [Next]_vars =>
        [~overlapped' /\ ~ephemeral /\ Len(files) >= Keep => Len(files') >= Keep]_vars
  BY FilesStay
<1> QED
  BY <1>1, Invariance, LimitsKept, PTL DEF Spec, PruneAloneKeeps
=============================================================================
