---------------------------- MODULE ImportProofs ----------------------------
(***************************************************************************)
(* Theorems about module Import, for any file, batch size and override.    *)
(***************************************************************************)
EXTENDS Import, FiniteSetTheorems, SequenceTheorems, TLAPS

-----------------------------------------------------------------------------
(* The inductive invariant                                                 *)

\* The samples that have been read.
Taken == {i \in Due : i < pos}

\* An error ends the import; without one it ends when all has been read and
\* nothing is left in the batch.
Ending == worker \in {"ending", "ended", "done"}
Control ==
    /\ handler # "gone" => worker = "none"
    /\ failed => Ending
    /\ worker \in {"none", "opening", "reading"} => Len(batch) < batchSize
    /\ \A k \in 1 .. pos - 1 : ~IsEOF(k)
    /\ ~failed /\ (Ending \/ worker = "flushing") => Taken = Due
    /\ ~failed /\ Ending => LinesOf(batch) = {}
    /\ status = "success" => ~failed /\ worker \in {"ended", "done"}
                             /\ shown = [series |-> series, samples |-> samples]

\* What has been read has arrived or is in the batch.
Exact == (~failed => Arrived \cup LinesOf(batch) = Taken) /\ ReceivedIsPrefix

Counts ==
    /\ IsFiniteSet(Taken) /\ samples = Cardinality(Taken)
    /\ keys = {Key(i) : i \in Taken}
    /\ IsFiniteSet(keys) /\ series = Cardinality(keys)

\* An import that owes samples stays cancelled and short of them.
Owing == owed /\ ~failed => cancelled /\ ~(Due \subseteq Arrived)

IInv == TypeOK /\ Control /\ Exact /\ Counts /\ Owing

LEMMA InitIInv == Init => IInv
<1> SUFFICES ASSUME Init PROVE IInv
  OBVIOUS
<1>1. TypeOK
  <2>1. file \in Seq([kind : Kinds, labels : Seq(Seq(STRING)), time : Nat]) /\ batchSize \in Nat
    BY FileAssumption, BatchAssumption DEF Init
  <2>2. pos \in 1 .. Len(file) + 1 /\ Len(batch) <= batchSize
    BY <2>1 DEF Init
  <2>3. batch \in Seq(Entry) /\ received \in Seq(Seq(Entry))
    BY DEF Init
  <2>4. DOMAIN batch = {} /\ DOMAIN seen = {}
    BY DEF Init
  <2>5. /\ DOMAIN seen = {batch[e].key : e \in DOMAIN batch}
        /\ \A k \in DOMAIN seen : seen[k] \in DOMAIN batch /\ batch[seen[k]].key = k
    BY <2>4
  <2>6. shown \in [series : Nat, samples : Nat] /\ series \in Nat /\ samples \in Nat
    BY DEF Init
  <2> QED
    BY <2>2, <2>3, <2>5, <2>6 DEF Init, TypeOK
<1>2. Taken = {} /\ LinesOf(batch) = {} /\ Arrived = {}
  BY <1>1, FileAssumption DEF Init, TypeOK, Taken, Due, LinesOf, Arrived
<1>3. Control /\ Exact /\ Owing
  <2>1. batchSize \in Nat \ {0}
    BY <1>1, BatchAssumption DEF TypeOK
  <2> QED
    BY <1>2, <2>1 DEF Init, Control, Ending, Exact, ReceivedIsPrefix, Owing
<1>4. Counts
  BY <1>2, FS_EmptySet DEF Init, Counts
<1> QED
  BY <1>1, <1>3, <1>4 DEF IInv

-----------------------------------------------------------------------------
(* Lemmas about the data                                                   *)

\* The derived sets are those of the request.
LEMMA SameRequest ==
    ASSUME UNCHANGED request
    PROVE  /\ Due' = Due /\ Entry' = Entry
           /\ \A i : Key(i)' = Key(i) /\ IsSample(i)' = IsSample(i) /\ IsEOF(i)' = IsEOF(i)
  BY DEF request, Due, Entry, Key, IsSample, IsEOF

LEMMA SameLines == ASSUME UNCHANGED <<request, batch>> PROVE LinesOf(batch)' = LinesOf(batch)
  BY DEF request, LinesOf

LEMMA SameArrived == ASSUME UNCHANGED <<request, received>> PROVE Arrived' = Arrived
  BY DEF request, Arrived, LinesOf

\* A request that arrives adds its lines.
LEMMA BatchArrives ==
    ASSUME TypeOK, UNCHANGED request, received' = Append(received, batch)
    PROVE  Arrived' = Arrived \cup LinesOf(batch)
<1>1. /\ received \in Seq(Seq(Entry)) /\ file' = file
      /\ DOMAIN received' = DOMAIN received \cup {Len(received) + 1}
      /\ received'[Len(received) + 1] = batch
      /\ \A r \in DOMAIN received : received'[r] = received[r]
  BY DEF TypeOK, request
<1>2. \A b : LinesOf(b)' = LinesOf(b)
  BY <1>1 DEF LinesOf
<1>3. Arrived' = UNION {LinesOf(received'[r]) : r \in DOMAIN received'}
  BY <1>1 DEF Arrived, LinesOf
<1>4. ASSUME NEW i PROVE i \in Arrived' <=> i \in Arrived \cup LinesOf(batch)
  <2>1. i \in Arrived' <=> \E r \in DOMAIN received' : i \in LinesOf(received'[r])
    BY <1>3
  <2>2. i \in Arrived <=> \E r \in DOMAIN received : i \in LinesOf(received[r])
    BY DEF Arrived
  <2> QED
    BY <1>1, <2>1, <2>2
<1> QED
  BY <1>4

\* The file is a sequence of lines, and a batch has room for a series.
LEMMA RequestTyped ==
    ASSUME TypeOK
    PROVE  /\ Len(file) \in Nat /\ DOMAIN file = 1 .. Len(file)
           /\ batchSize \in Nat \ {0} /\ pos \in 1 .. Len(file) + 1
  BY FileAssumption, BatchAssumption DEF TypeOK

\* Steps that leave the data alone only have to type the progress of the run.
LEMMA DataTyped ==
    ASSUME TypeOK, UNCHANGED <<request, received, batch, seen, series, samples>>,
           pos' \in 1 .. Len(file) + 1,
           handler' \in {"new", "added", "tracked", "gone"},
           tracked' \in BOOLEAN, cancelled' \in BOOLEAN, failed' \in BOOLEAN, owed' \in BOOLEAN,
           status' \in {"none", "running", "success", "failed"},
           shown' \in [series : Nat, samples : Nat],
           worker' \in {"none", "opening", "reading", "sending", "flushing", "ending", "ended", "done"}
    PROVE  TypeOK'
<1>1. Entry' = Entry /\ file' = file /\ batchSize' = batchSize /\ group' = group
  BY SameRequest DEF request
<1>2. /\ received' = received /\ batch' = batch /\ seen' = seen /\ series' = series
      /\ samples' = samples
  OBVIOUS
<1>3. batch' \in Seq(Entry') /\ Len(batch') <= batchSize' /\ received' \in Seq(Seq(Entry'))
  BY <1>1, <1>2 DEF TypeOK
<1>4. /\ DOMAIN seen' = {batch'[e].key : e \in DOMAIN batch'}
      /\ \A k \in DOMAIN seen' : seen'[k] \in DOMAIN batch' /\ batch'[seen'[k]].key = k
  <2>1. /\ DOMAIN seen = {batch[e].key : e \in DOMAIN batch}
        /\ \A k \in DOMAIN seen : seen[k] \in DOMAIN batch /\ batch[seen[k]].key = k
    BY DEF TypeOK
  <2> QED
    BY <1>2, <2>1
<1>5. /\ file' \in Files /\ batchSize' \in BatchSizes /\ group' \in Groups
      /\ pos' \in 1 .. Len(file') + 1 /\ series' \in Nat /\ samples' \in Nat
  BY <1>1, <1>2 DEF TypeOK
<1> QED
  BY <1>3, <1>4, <1>5 DEF TypeOK

-----------------------------------------------------------------------------
(* Every action keeps the invariant                                        *)

\* The run enters the history; nobody works for it yet.
LEMMA HandleImportInv == ASSUME IInv, HandleImport PROVE IInv'
<1> USE DEF HandleImport, runVars, accVars
<1>0. /\ UNCHANGED <<request, received, batch, seen, keys, series, samples, pos>>
      /\ Due' = Due /\ Entry' = Entry /\ Taken' = Taken
      /\ LinesOf(batch)' = LinesOf(batch) /\ Arrived' = Arrived
      /\ \A i : Key(i)' = Key(i) /\ IsEOF(i)' = IsEOF(i)
      /\ batchSize' = batchSize
  BY SameRequest, SameLines, SameArrived DEF Taken, Fail, request
<1>1. TypeOK'
  <2>1. TypeOK
    BY DEF IInv
  <2> QED
    BY <1>0, <2>1, DataTyped DEF TypeOK, Fail
<1>2. Control'
  BY <1>0 DEF IInv, Control, Ending, Fail
<1>3. Exact' /\ Counts'
  BY <1>0 DEF IInv, Control, Exact, ReceivedIsPrefix, Counts, Fail
<1>4. Owing'
  BY <1>0 DEF IInv, Owing, Control, Ending, Fail
<1> QED
  BY <1>1, <1>2, <1>3, <1>4 DEF IInv

\* The run can be cancelled.
LEMMA TrackRunInv == ASSUME IInv, TrackRun PROVE IInv'
<1> USE DEF TrackRun, runVars, accVars
<1>0. /\ UNCHANGED <<request, received, batch, seen, keys, series, samples, pos>>
      /\ Due' = Due /\ Entry' = Entry /\ Taken' = Taken
      /\ LinesOf(batch)' = LinesOf(batch) /\ Arrived' = Arrived
      /\ \A i : Key(i)' = Key(i) /\ IsEOF(i)' = IsEOF(i)
      /\ batchSize' = batchSize
  BY SameRequest, SameLines, SameArrived DEF Taken, Fail, request
<1>1. TypeOK'
  <2>1. TypeOK
    BY DEF IInv
  <2> QED
    BY <1>0, <2>1, DataTyped DEF TypeOK, Fail
<1>2. Control'
  BY <1>0 DEF IInv, Control, Ending, Fail
<1>3. Exact' /\ Counts'
  BY <1>0 DEF IInv, Control, Exact, ReceivedIsPrefix, Counts, Fail
<1>4. Owing'
  BY <1>0 DEF IInv, Owing, Control, Ending, Fail
<1> QED
  BY <1>1, <1>2, <1>3, <1>4 DEF IInv

\* The goroutine starts from nothing.
LEMMA GoImportInv == ASSUME IInv, GoImport PROVE IInv'
<1> USE DEF GoImport, runVars, accVars
<1>0. /\ UNCHANGED <<request, received, batch, seen, keys, series, samples, pos>>
      /\ Due' = Due /\ Entry' = Entry /\ Taken' = Taken
      /\ LinesOf(batch)' = LinesOf(batch) /\ Arrived' = Arrived
      /\ \A i : Key(i)' = Key(i) /\ IsEOF(i)' = IsEOF(i)
      /\ batchSize' = batchSize
  BY SameRequest, SameLines, SameArrived DEF Taken, Fail, request
<1>1. TypeOK'
  <2>1. TypeOK
    BY DEF IInv
  <2> QED
    BY <1>0, <2>1, DataTyped DEF TypeOK, Fail
<1>2. Control'
  BY <1>0 DEF IInv, Control, Ending, Fail
<1>3. Exact' /\ Counts'
  BY <1>0 DEF IInv, Control, Exact, ReceivedIsPrefix, Counts, Fail
<1>4. Owing'
  BY <1>0 DEF IInv, Owing, Control, Ending, Fail
<1> QED
  BY <1>1, <1>2, <1>3, <1>4 DEF IInv

\* Whoever owes samples now is cancelled.
LEMMA HandleCancelInv == ASSUME IInv, HandleCancel PROVE IInv'
<1> USE DEF HandleCancel, runVars, accVars
<1>0. /\ UNCHANGED <<request, received, batch, seen, keys, series, samples, pos>>
      /\ Due' = Due /\ Entry' = Entry /\ Taken' = Taken
      /\ LinesOf(batch)' = LinesOf(batch) /\ Arrived' = Arrived
      /\ \A i : Key(i)' = Key(i) /\ IsEOF(i)' = IsEOF(i)
      /\ batchSize' = batchSize
  BY SameRequest, SameLines, SameArrived DEF Taken, Fail, request
<1>1. TypeOK'
  <2>1. TypeOK
    BY DEF IInv
  <2> QED
    BY <1>0, <2>1, DataTyped DEF TypeOK, Fail
<1>2. Control'
  BY <1>0 DEF IInv, Control, Ending, Fail
<1>3. Exact' /\ Counts'
  BY <1>0 DEF IInv, Control, Exact, ReceivedIsPrefix, Counts, Fail
<1>4. Owing'
  BY <1>0 DEF IInv, Owing, Control, Ending, Fail
<1> QED
  BY <1>1, <1>2, <1>3, <1>4 DEF IInv

\* The outcome is recorded as Import returned it.
LEMMA UpdateRunInv == ASSUME IInv, UpdateRun PROVE IInv'
<1> USE DEF UpdateRun, runVars, accVars
<1>0. /\ UNCHANGED <<request, received, batch, seen, keys, series, samples, pos>>
      /\ Due' = Due /\ Entry' = Entry /\ Taken' = Taken
      /\ LinesOf(batch)' = LinesOf(batch) /\ Arrived' = Arrived
      /\ \A i : Key(i)' = Key(i) /\ IsEOF(i)' = IsEOF(i)
      /\ batchSize' = batchSize
  BY SameRequest, SameLines, SameArrived DEF Taken, Fail, request
<1>1. TypeOK'
  <2>1. TypeOK
    BY DEF IInv
  <2> QED
    BY <1>0, <2>1, DataTyped DEF TypeOK, Fail
<1>2. Control'
  BY <1>0 DEF IInv, Control, Ending, Fail
<1>3. Exact' /\ Counts'
  BY <1>0 DEF IInv, Control, Exact, ReceivedIsPrefix, Counts, Fail
<1>4. Owing'
  BY <1>0 DEF IInv, Owing, Control, Ending, Fail
<1> QED
  BY <1>1, <1>2, <1>3, <1>4 DEF IInv

\* The run is over.
LEMMA UntrackRunInv == ASSUME IInv, UntrackRun PROVE IInv'
<1> USE DEF UntrackRun, runVars, accVars
<1>0. /\ UNCHANGED <<request, received, batch, seen, keys, series, samples, pos>>
      /\ Due' = Due /\ Entry' = Entry /\ Taken' = Taken
      /\ LinesOf(batch)' = LinesOf(batch) /\ Arrived' = Arrived
      /\ \A i : Key(i)' = Key(i) /\ IsEOF(i)' = IsEOF(i)
      /\ batchSize' = batchSize
  BY SameRequest, SameLines, SameArrived DEF Taken, Fail, request
<1>1. TypeOK'
  <2>1. TypeOK
    BY DEF IInv
  <2> QED
    BY <1>0, <2>1, DataTyped DEF TypeOK, Fail
<1>2. Control'
  BY <1>0 DEF IInv, Control, Ending, Fail
<1>3. Exact' /\ Counts'
  BY <1>0 DEF IInv, Control, Exact, ReceivedIsPrefix, Counts, Fail
<1>4. Owing'
  BY <1>0 DEF IInv, Owing, Control, Ending, Fail
<1> QED
  BY <1>1, <1>2, <1>3, <1>4 DEF IInv

\* Nothing has been read.
LEMMA OpenInv == ASSUME IInv, Open PROVE IInv'
<1> USE DEF Open, runVars, accVars
<1>0. /\ UNCHANGED <<request, received, batch, seen, keys, series, samples, pos>>
      /\ Due' = Due /\ Entry' = Entry /\ Taken' = Taken
      /\ LinesOf(batch)' = LinesOf(batch) /\ Arrived' = Arrived
      /\ \A i : Key(i)' = Key(i) /\ IsEOF(i)' = IsEOF(i)
      /\ batchSize' = batchSize
  BY SameRequest, SameLines, SameArrived DEF Taken, Fail, request
<1>1. TypeOK'
  <2>1. TypeOK
    BY DEF IInv
  <2> QED
    BY <1>0, <2>1, DataTyped DEF TypeOK, Fail
<1>2. Control'
  <2>1. CASE worker' = "reading" /\ failed' = failed
    BY <1>0, <2>1 DEF IInv, Control, Ending
  <2>2. CASE Fail
    BY <1>0, <2>2 DEF IInv, Control, Ending, Fail
  <2> QED
    BY <2>1, <2>2
<1>3. Exact' /\ Counts'
  BY <1>0 DEF IInv, Control, Exact, ReceivedIsPrefix, Counts, Fail
<1>4. Owing'
  BY <1>0 DEF IInv, Owing, Control, Ending, Fail
<1> QED
  BY <1>1, <1>2, <1>3, <1>4 DEF IInv

\* An error ends it.
LEMMA ScanFailsInv == ASSUME IInv, ScanFails PROVE IInv'
<1> USE DEF ScanFails, runVars, accVars
<1>0. /\ UNCHANGED <<request, received, batch, seen, keys, series, samples, pos>>
      /\ Due' = Due /\ Entry' = Entry /\ Taken' = Taken
      /\ LinesOf(batch)' = LinesOf(batch) /\ Arrived' = Arrived
      /\ \A i : Key(i)' = Key(i) /\ IsEOF(i)' = IsEOF(i)
      /\ batchSize' = batchSize
  BY SameRequest, SameLines, SameArrived DEF Taken, Fail, request
<1>1. TypeOK'
  <2>1. TypeOK
    BY DEF IInv
  <2> QED
    BY <1>0, <2>1, DataTyped DEF TypeOK, Fail
<1>2. Control'
  BY <1>0 DEF IInv, Control, Ending, Fail
<1>3. Exact' /\ Counts'
  BY <1>0 DEF IInv, Control, Exact, ReceivedIsPrefix, Counts, Fail
<1>4. Owing'
  BY <1>0 DEF IInv, Owing, Control, Ending, Fail
<1> QED
  BY <1>1, <1>2, <1>3, <1>4 DEF IInv

\* At the end all that is due has been read.
LEMMA EndInv == ASSUME IInv, End PROVE IInv'
<1> USE DEF End, runVars, accVars
<1>0. /\ UNCHANGED <<request, received, batch, seen, keys, series, samples, pos>>
      /\ Due' = Due /\ Entry' = Entry /\ Taken' = Taken
      /\ LinesOf(batch)' = LinesOf(batch) /\ Arrived' = Arrived
      /\ \A i : Key(i)' = Key(i) /\ IsEOF(i)' = IsEOF(i)
      /\ batchSize' = batchSize
  BY SameRequest, SameLines, SameArrived DEF Taken, Fail, request
<1>1. TypeOK'
  <2>1. TypeOK
    BY DEF IInv
  <2> QED
    BY <1>0, <2>1, DataTyped DEF TypeOK, Fail
<1>2. Control'
  <2>1. Taken = Due
    BY RequestTyped DEF IInv, Taken, Due, AtEnd
  <2>2. batch = << >> => LinesOf(batch) = {}
    BY DEF LinesOf
  <2> QED
    BY <1>0, <2>1, <2>2 DEF IInv, Control, Ending
<1>3. Exact' /\ Counts'
  BY <1>0 DEF IInv, Control, Exact, ReceivedIsPrefix, Counts, Fail
<1>4. Owing'
  BY <1>0 DEF IInv, Owing, Control, Ending, Fail
<1> QED
  BY <1>1, <1>2, <1>3, <1>4 DEF IInv

\* A line without a sample adds nothing.
LEMMA SkipInv == ASSUME IInv, Skip PROVE IInv'
<1> USE DEF Skip, runVars, accVars, More
<1>0. /\ UNCHANGED <<request, received, batch, seen, keys, series, samples>>
      /\ Due' = Due /\ Entry' = Entry
      /\ LinesOf(batch)' = LinesOf(batch) /\ Arrived' = Arrived
      /\ \A i : Key(i)' = Key(i) /\ IsEOF(i)' = IsEOF(i)
      /\ batchSize' = batchSize
  BY SameRequest, SameLines, SameArrived DEF request
<1>1. TypeOK'
  <2>1. TypeOK /\ pos' \in 1 .. Len(file) + 1
    BY RequestTyped DEF IInv
  <2> QED
    BY <1>0, <2>1, DataTyped DEF TypeOK
<1>2. Taken' = Taken
  BY <1>0, RequestTyped DEF IInv, Taken, Due
<1>3. Control'
  BY <1>0, <1>2, RequestTyped DEF IInv, Control, Ending
<1>4. Exact' /\ Counts' /\ Owing'
  BY <1>0, <1>2 DEF IInv, Exact, ReceivedIsPrefix, Counts, Owing
<1> QED
  BY <1>1, <1>3, <1>4 DEF IInv

\* A record with other lines.
LEMMA WithLines ==
    ASSUME NEW K, NEW L, NEW e \in [key : K, lines : L], NEW l
    PROVE  [e EXCEPT !.lines = l] = [key |-> e.key, lines |-> l]
  OBVIOUS

\* Append adds one member to those of a sequence.
LEMMA AppendAdds ==
    ASSUME NEW S, NEW q \in Seq(S), NEW x \in S, NEW i
    PROVE  (\E n \in DOMAIN Append(q, x) : Append(q, x)[n] = i)
           <=> (\E n \in DOMAIN q : q[n] = i) \/ i = x
<1>1. /\ DOMAIN Append(q, x) = DOMAIN q \cup {Len(q) + 1} /\ Append(q, x)[Len(q) + 1] = x
      /\ \A n \in DOMAIN q : Append(q, x)[n] = q[n]
  OBVIOUS
<1> QED
  BY <1>1

\* The line that Sample takes is due, and later than those in the batch.
LEMMA Takes ==
    ASSUME IInv, Sample
    PROVE  /\ pos \in Due /\ pos \in DOMAIN file /\ Key(pos) \in {Key(i) : i \in Due}
           /\ ~failed /\ file' = file
           /\ LinesOf(batch) \subseteq Taken /\ \A i \in Taken : i \in Nat /\ i < pos
  BY RequestTyped
     DEF IInv, Control, Ending, Exact, Taken, Sample, More, Due, request, IsSample, IsEOF, Kinds

\* A sample whose series is in the batch is added to it.
LEMMA Joins ==
    ASSUME IInv, Sample, Key(pos) \in DOMAIN seen
    PROVE  /\ seen' = seen
           /\ \E d \in DOMAIN batch :
                 /\ batch[d].key = Key(pos) /\ batch[d].lines \in Seq(Due)
                 /\ DOMAIN batch' = DOMAIN batch /\ Len(batch') = Len(batch)
                 /\ batch' \in Seq(Entry)
                 /\ batch'[d] = [key |-> Key(pos), lines |-> Append(batch[d].lines, pos)]
                 /\ \A e \in DOMAIN batch : e # d => batch'[e] = batch[e]
<1> DEFINE k == Key(pos)
           d == seen[k]
           l == Append(batch[d].lines, pos)
<1>1. /\ batch \in Seq(Entry)
      /\ \A q \in DOMAIN seen : seen[q] \in DOMAIN batch /\ batch[seen[q]].key = q
  BY DEF IInv, TypeOK
<1>2. /\ batch' = [batch EXCEPT ![d] = [batch[d] EXCEPT !.lines = l]] /\ seen' = seen
      /\ d \in DOMAIN batch /\ batch[d].key = k
  BY <1>1 DEF Sample
<1> HIDE DEF d
<1>3. batch[d] \in [key : {Key(i) : i \in Due}, lines : Seq(Due)]
  <2>1. batch[d] \in Entry
    BY <1>1, <1>2
  <2> QED
    BY <2>1 DEF Entry
<1>4. batch[d].lines \in Seq(Due)
  BY <1>3
<1>5. pos \in Due /\ k \in {Key(i) : i \in Due}
  BY Takes
<1> HIDE DEF k
<1>6. l \in Seq(Due)
  BY <1>4, <1>5
<1> HIDE DEF l
<1>7. [batch[d] EXCEPT !.lines = l] = [key |-> k, lines |-> l]
  <2>1. [batch[d] EXCEPT !.lines = l] = [key |-> batch[d].key, lines |-> l]
    BY <1>3, WithLines
  <2> QED
    BY <1>2, <2>1
<1>8. [key |-> k, lines |-> l] \in Entry
  BY <1>5, <1>6 DEF Entry
<1>9. /\ DOMAIN batch' = DOMAIN batch /\ Len(batch') = Len(batch)
      /\ batch' \in Seq(Entry) /\ batch'[d] = [key |-> k, lines |-> l]
      /\ \A e \in DOMAIN batch : e # d => batch'[e] = batch[e]
  BY <1>1, <1>2, <1>7, <1>8
<1> QED
  BY <1>2, <1>4, <1>9 DEF k, l

\* ... and one of another series begins it.
LEMMA Begins ==
    ASSUME IInv, Sample, Key(pos) \notin DOMAIN seen
    PROVE  /\ seen' = [q \in DOMAIN seen \cup {Key(pos)} |->
                          IF q = Key(pos) THEN Len(batch) + 1 ELSE seen[q]]
           /\ batch' \in Seq(Entry) /\ Len(batch') = Len(batch) + 1
           /\ DOMAIN batch' = DOMAIN batch \cup {Len(batch) + 1}
           /\ Len(batch) + 1 \notin DOMAIN batch
           /\ batch'[Len(batch) + 1] = [key |-> Key(pos), lines |-> <<pos>>]
           /\ \A e \in DOMAIN batch : batch'[e] = batch[e]
<1>1. batch \in Seq(Entry)
  BY DEF IInv, TypeOK
<1>2. [key |-> Key(pos), lines |-> <<pos>>] \in Entry
  BY Takes DEF Entry
<1>3. /\ batch' = Append(batch, [key |-> Key(pos), lines |-> <<pos>>])
      /\ seen' = [q \in DOMAIN seen \cup {Key(pos)} |->
                     IF q = Key(pos) THEN Len(batch) + 1 ELSE seen[q]]
  BY DEF Sample
<1> QED
  BY <1>1, <1>2, <1>3

\* What Sample does to the batch.
LEMMA Collects ==
    ASSUME IInv, Sample
    PROVE  /\ batch' \in Seq(Entry) /\ Len(batch') <= Len(batch) + 1
           /\ DOMAIN seen' = {batch'[e].key : e \in DOMAIN batch'}
           /\ \A k \in DOMAIN seen' : seen'[k] \in DOMAIN batch' /\ batch'[seen'[k]].key = k
           /\ LinesOf(batch)' = LinesOf(batch) \cup {pos}
<1> DEFINE k == Key(pos)
<1>1. pos \in Due /\ pos \in DOMAIN file /\ file' = file
  BY Takes
<1>2. /\ batch \in Seq(Entry)
      /\ DOMAIN seen = {batch[e].key : e \in DOMAIN batch}
      /\ \A q \in DOMAIN seen : seen[q] \in DOMAIN batch /\ batch[seen[q]].key = q
  BY DEF IInv, TypeOK
<1>4. CASE k \in DOMAIN seen
  <2>1. PICK d \in DOMAIN batch :
            /\ batch[d].key = k /\ batch[d].lines \in Seq(Due)
            /\ DOMAIN batch' = DOMAIN batch /\ Len(batch') = Len(batch)
            /\ batch' \in Seq(Entry)
            /\ batch'[d] = [key |-> k, lines |-> Append(batch[d].lines, pos)]
            /\ \A e \in DOMAIN batch : e # d => batch'[e] = batch[e]
    BY <1>4, Joins
  <2>2. seen' = seen
    BY <1>4, Joins
  <2> HIDE DEF k
  <2>3. \A e \in DOMAIN batch : batch'[e].key = batch[e].key
    <3>1. batch'[d].key = k
      BY <2>1
    <3>2. \A e \in DOMAIN batch : e # d => batch'[e].key = batch[e].key
      BY <2>1
    <3> QED
      BY <2>1, <3>1, <3>2
  <2>4. ASSUME NEW i \in DOMAIN file
        PROVE  (\E e \in DOMAIN batch' : \E n \in DOMAIN batch'[e].lines : batch'[e].lines[n] = i)
               <=> i \in LinesOf(batch) \/ i = pos
    <3> DEFINE q == batch[d].lines
    <3>1. q \in Seq(Due) /\ batch'[d].lines = Append(q, pos)
      BY <2>1
    <3> HIDE DEF q
    <3>2. (\E n \in DOMAIN batch'[d].lines : batch'[d].lines[n] = i)
          <=> (\E n \in DOMAIN q : q[n] = i) \/ i = pos
      BY <1>1, <3>1, AppendAdds
    <3> QED
      BY <2>1, <3>2 DEF LinesOf, q
  <2>5. LinesOf(batch)' = LinesOf(batch) \cup {pos}
    BY <1>1, <2>4 DEF LinesOf
  <2>6. \A q \in DOMAIN seen' : seen'[q] \in DOMAIN batch' /\ batch'[seen'[q]].key = q
    BY <1>2, <2>1, <2>2, <2>3
  <2>7. {batch'[e].key : e \in DOMAIN batch'} = {batch[e].key : e \in DOMAIN batch}
    BY <2>1, <2>3
  <2>8. batch' \in Seq(Entry) /\ Len(batch') <= Len(batch) + 1
    BY <1>2, <2>1
  <2>9. DOMAIN seen' = {batch'[e].key : e \in DOMAIN batch'}
    BY <1>2, <2>2, <2>7
  <2> QED
    BY <2>5, <2>6, <2>8, <2>9
<1>5. CASE k \notin DOMAIN seen
  <2>1. /\ seen' = [q \in DOMAIN seen \cup {k} |-> IF q = k THEN Len(batch) + 1 ELSE seen[q]]
        /\ batch' \in Seq(Entry) /\ Len(batch') = Len(batch) + 1
        /\ DOMAIN batch' = DOMAIN batch \cup {Len(batch) + 1}
        /\ batch'[Len(batch) + 1] = [key |-> k, lines |-> <<pos>>]
        /\ \A e \in DOMAIN batch : batch'[e] = batch[e]
    BY <1>5, Begins
  <2> HIDE DEF k
  <2>2. DOMAIN seen' = {batch'[e].key : e \in DOMAIN batch'}
    BY <1>2, <2>1
  <2>3. ASSUME NEW q \in DOMAIN seen'
        PROVE  seen'[q] \in DOMAIN batch' /\ batch'[seen'[q]].key = q
    <3>1. CASE q = k
      BY <2>1, <3>1
    <3>2. CASE q # k
      <4>1. q \in DOMAIN seen /\ seen'[q] = seen[q]
        BY <2>1, <3>2
      <4> QED
        BY <1>2, <2>1, <4>1
    <3> QED
      BY <3>1, <3>2
  <2>4. ASSUME NEW i \in DOMAIN file
        PROVE  (\E e \in DOMAIN batch' : \E n \in DOMAIN batch'[e].lines : batch'[e].lines[n] = i)
               <=> i \in LinesOf(batch) \/ i = pos
    BY <2>1 DEF LinesOf
  <2>5. LinesOf(batch)' = LinesOf(batch) \cup {pos}
    BY <1>1, <2>4 DEF LinesOf
  <2>6. batch' \in Seq(Entry) /\ Len(batch') <= Len(batch) + 1
    BY <1>2, <2>1
  <2> QED
    BY <2>2, <2>3, <2>5, <2>6
<1> QED
  BY <1>4, <1>5

\* One sample more is read, and it is in the batch.
LEMMA SampleInv == ASSUME IInv, Sample PROVE IInv'
<1>0. /\ UNCHANGED <<request, runVars, failed, received>>
      /\ Due' = Due /\ Entry' = Entry /\ Arrived' = Arrived
      /\ \A i : Key(i)' = Key(i) /\ IsEOF(i)' = IsEOF(i)
  BY SameRequest, SameArrived DEF Sample
<1>1. /\ ~failed /\ worker = "reading" /\ pos' = pos + 1 /\ pos \in Due /\ ~IsEOF(pos)
      /\ worker' \in {"sending", "reading"}
  BY RequestTyped DEF IInv, Control, Ending, Sample, More, Due, IsSample, IsEOF
<1>2. pos \in Nat /\ pos \notin Taken /\ Taken' = Taken \cup {pos}
  BY <1>0, <1>1, RequestTyped DEF IInv, Taken, Due
<1>3. TypeOK'
  <2>1. /\ batch' \in Seq(Entry') /\ Len(batch') <= batchSize'
        /\ DOMAIN seen' = {batch'[e].key : e \in DOMAIN batch'}
        /\ \A k \in DOMAIN seen' : seen'[k] \in DOMAIN batch' /\ batch'[seen'[k]].key = k
    <3>1. Len(batch) + 1 <= batchSize /\ batchSize' = batchSize /\ Len(batch') \in Nat
      BY <1>0, <1>1, Collects, RequestTyped DEF IInv, Control, TypeOK, request
    <3>2. Len(batch') <= batchSize'
      BY <3>1, Collects, RequestTyped DEF IInv, TypeOK
    <3> QED
      BY <1>0, <3>2, Collects
  <2>2. /\ series' \in Nat /\ samples' \in Nat /\ received' \in Seq(Seq(Entry'))
        /\ pos' \in 1 .. Len(file') + 1 /\ file' \in Files /\ batchSize' \in BatchSizes
        /\ group' \in Groups
    <3>1. series \in Nat /\ samples \in Nat /\ series' \in {series, series + 1} /\ samples' = samples + 1
      BY DEF IInv, TypeOK, Sample
    <3>2. pos \in 1 .. Len(file) /\ pos' = pos + 1 /\ file' = file
      BY RequestTyped DEF IInv, Sample, More, request
    <3>3. /\ received' \in Seq(Seq(Entry')) /\ file' \in Files /\ batchSize' \in BatchSizes
          /\ group' \in Groups
      BY <1>0 DEF IInv, TypeOK, request
    <3> QED
      BY <3>1, <3>2, <3>3, RequestTyped DEF IInv
  <2>3. UNCHANGED <<handler, tracked, cancelled, status, shown, owed, failed>>
    BY <1>0 DEF runVars
  <2> QED
    BY <1>1, <2>1, <2>2, <2>3 DEF IInv, TypeOK
<1>4. Control'
  <2>1. worker' = "reading" => Len(batch') < batchSize'
    <3>1. Len(batch') \in Nat /\ batchSize' = batchSize /\ batchSize \in Nat
      BY <1>0, Collects, RequestTyped DEF IInv, request
    <3> QED
      BY <3>1 DEF Sample, Full
  <2> QED
    BY <1>0, <1>1, <1>2, <2>1, RequestTyped DEF IInv, Control, Ending, runVars
<1>5. Exact'
  BY <1>0, <1>1, <1>2, Collects DEF IInv, Exact, ReceivedIsPrefix
<1>6. Counts'
  <2>1. /\ IsFiniteSet(Taken) /\ samples = Cardinality(Taken)
        /\ keys = {Key(i) : i \in Taken} /\ IsFiniteSet(keys) /\ series = Cardinality(keys)
    BY DEF IInv, Counts
  <2>2. IsFiniteSet(Taken') /\ samples' = Cardinality(Taken')
    BY <1>2, <2>1, FS_AddElement DEF Sample
  <2>3. keys' = keys \cup {Key(pos)} /\ series' = IF Key(pos) \in keys THEN series ELSE series + 1
    BY DEF Sample
  <2>4. {Key(i)' : i \in Taken'} = {Key(i) : i \in Taken} \cup {Key(pos)}
    BY <1>0, <1>2
  <2>5. IsFiniteSet(keys') /\ series' = Cardinality(keys')
    BY <2>1, <2>3, FS_AddElement
  <2> QED
    BY <2>1, <2>2, <2>3, <2>4, <2>5 DEF Counts
<1>7. Owing'
  BY <1>0, <1>1 DEF IInv, Owing, runVars
<1> QED
  BY <1>3, <1>4, <1>5, <1>6, <1>7 DEF IInv

\* What a request does to the data, whether it is taken or its answer is lost.
LEMMA Arrives ==
    ASSUME IInv, Sending, UNCHANGED <<request, pos>>,
           received' = Append(received, batch)
    PROVE  Arrived' = Taken /\ received' \in Seq(Seq(Entry))
<1>1. ~failed /\ TypeOK /\ Arrived \cup LinesOf(batch) = Taken
  BY DEF IInv, Control, Ending, Exact, Sending
<1>2. Arrived' = Taken
  BY <1>1, BatchArrives
<1>3. batch \in Seq(Entry) /\ received \in Seq(Seq(Entry))
  BY <1>1 DEF TypeOK
<1> QED
  BY <1>2, <1>3

\* The batch has arrived, and the next one is empty.
LEMMA SendInv == ASSUME IInv, Send PROVE IInv'
<1>0. /\ UNCHANGED <<request, runVars, failed, pos, keys, series, samples>>
      /\ received' = Append(received, batch) /\ batch' = << >> /\ seen' = << >>
      /\ worker \in {"sending", "flushing"} /\ ~cancelled /\ ~failed
      /\ worker' = IF worker = "sending" THEN "reading" ELSE "ending"
  BY DEF Send, Sending, IInv, Control, Ending
<1>1. Arrived' = Taken /\ received' \in Seq(Seq(Entry))
  BY <1>0, Arrives DEF Sending
<1>2. /\ Due' = Due /\ Entry' = Entry /\ Taken' = Taken /\ LinesOf(batch)' = {}
      /\ \A i : Key(i)' = Key(i) /\ IsEOF(i)' = IsEOF(i)
  BY <1>0, SameRequest DEF Taken, LinesOf
<1>3. TypeOK'
  <2>1. batch' \in Seq(Entry') /\ Len(batch') = 0 /\ DOMAIN batch' = {} /\ DOMAIN seen' = {}
    BY <1>0
  <2>2. /\ DOMAIN seen' = {batch'[e].key : e \in DOMAIN batch'}
        /\ \A k \in DOMAIN seen' : seen'[k] \in DOMAIN batch' /\ batch'[seen'[k]].key = k
    BY <2>1
  <2>3. Len(batch') <= batchSize' /\ file' \in Files /\ batchSize' \in BatchSizes /\ group' \in Groups
    BY <1>0, <2>1, RequestTyped DEF IInv, TypeOK, request
  <2>4. /\ pos' \in 1 .. Len(file') + 1 /\ series' \in Nat /\ samples' \in Nat
        /\ received' \in Seq(Seq(Entry'))
    BY <1>0, <1>1, <1>2 DEF IInv, TypeOK, request
  <2> QED
    BY <1>0, <2>1, <2>2, <2>3, <2>4 DEF IInv, TypeOK, runVars
<1>4. Control'
  <2>1. Len(batch') < batchSize'
    BY <1>0, RequestTyped DEF IInv, request
  <2> QED
    BY <1>0, <1>2, <2>1 DEF IInv, Control, Ending, runVars
<1>5. Exact' /\ Counts'
  <2>1. \A i \in Due, j \in Taken : i < j => i \in Taken
    BY RequestTyped DEF IInv, Taken, Due
  <2>2. Taken \subseteq Due
    BY DEF Taken
  <2> QED
    BY <1>0, <1>1, <1>2, <2>1, <2>2 DEF IInv, Exact, ReceivedIsPrefix, Counts
<1>6. Owing'
  BY <1>0 DEF IInv, Owing, runVars
<1> QED
  BY <1>3, <1>4, <1>5, <1>6 DEF IInv

\* Whether the batch has arrived or not, the import has failed.
LEMMA SendFailsInv == ASSUME IInv, SendFails PROVE IInv'
<1>0. /\ UNCHANGED <<request, runVars, pos, accVars>> /\ Sending
      /\ failed' = TRUE /\ worker' = "ending"
      /\ received' = received \/ received' = Append(received, batch)
      /\ ~failed
  BY DEF SendFails, Fail, IInv, Control, Ending, Sending
<1>1. /\ Due' = Due /\ Entry' = Entry /\ Taken' = Taken
      /\ \A i : Key(i)' = Key(i) /\ IsEOF(i)' = IsEOF(i)
  BY <1>0, SameRequest DEF Taken
<1>2. (Arrived' = Arrived \/ Arrived' = Taken) /\ received' \in Seq(Seq(Entry))
  BY <1>0, Arrives, SameArrived DEF IInv, TypeOK
<1>3. TypeOK'
  <2>1. /\ batch' \in Seq(Entry') /\ Len(batch') <= batchSize'
        /\ file' \in Files /\ batchSize' \in BatchSizes /\ group' \in Groups
        /\ pos' \in 1 .. Len(file') + 1 /\ series' \in Nat /\ samples' \in Nat
        /\ received' \in Seq(Seq(Entry'))
    BY <1>0, <1>1, <1>2 DEF IInv, TypeOK, request, accVars
  <2>2. batch' = batch /\ seen' = seen
    BY <1>0 DEF accVars
  <2>3. /\ DOMAIN seen = {batch[e].key : e \in DOMAIN batch}
        /\ \A k \in DOMAIN seen : seen[k] \in DOMAIN batch /\ batch[seen[k]].key = k
    BY DEF IInv, TypeOK
  <2>4. /\ DOMAIN seen' = {batch'[e].key : e \in DOMAIN batch'}
        /\ \A k \in DOMAIN seen' : seen'[k] \in DOMAIN batch' /\ batch'[seen'[k]].key = k
    BY <2>2, <2>3
  <2> QED
    BY <1>0, <2>1, <2>4 DEF IInv, TypeOK, runVars
<1>4. Control'
  BY <1>0, <1>1 DEF IInv, Control, Ending, Sending, runVars
<1>5. Exact' /\ Counts'
  <2>1. \A i \in Due, j \in Taken : i < j => i \in Taken
    BY RequestTyped DEF IInv, Taken, Due
  <2>2. Taken \subseteq Due
    BY DEF Taken
  <2> QED
    BY <1>0, <1>1, <1>2, <2>1, <2>2 DEF IInv, Exact, ReceivedIsPrefix, Counts, accVars
<1>6. Owing'
  BY <1>0 DEF Owing
<1> QED
  BY <1>3, <1>4, <1>5, <1>6 DEF IInv

LEMMA StepInv == ASSUME IInv, [Next]_vars PROVE IInv'
<1>1. CASE UNCHANGED vars
  <2>1. /\ UNCHANGED <<request, received, batch, seen, keys, series, samples, pos>>
        /\ UNCHANGED <<handler, tracked, cancelled, status, shown, owed, worker, failed>>
        /\ Due' = Due /\ Taken' = Taken /\ LinesOf(batch)' = LinesOf(batch) /\ Arrived' = Arrived
        /\ \A i : Key(i)' = Key(i) /\ IsEOF(i)' = IsEOF(i)
    BY <1>1, SameRequest, SameLines, SameArrived DEF vars, runVars, accVars, Taken
  <2>2. TypeOK'
    <3>1. TypeOK
      BY DEF IInv
    <3> QED
      BY <2>1, <3>1, DataTyped DEF TypeOK
  <2>3. Control' /\ Exact'
    BY <2>1 DEF IInv, Control, Ending, Exact, ReceivedIsPrefix, request
  <2>4. Counts' /\ Owing'
    BY <2>1 DEF IInv, Counts, Owing
  <2> QED
    BY <2>2, <2>3, <2>4 DEF IInv
<1> QED
  BY <1>1, HandleImportInv, TrackRunInv, GoImportInv, HandleCancelInv, OpenInv, SkipInv, SampleInv,
     EndInv, ScanFailsInv, SendInv, SendFailsInv, UpdateRunInv, UntrackRunInv DEF Next

-----------------------------------------------------------------------------
(* The order of the samples                                                *)

\* A request has each series once, and under it lines of that key in the order
\* of the file.
InOrder(b) ==
    /\ \A d, e \in DOMAIN b : b[d].key = b[e].key => d = e
    /\ \A e \in DOMAIN b : \A n \in DOMAIN b[e].lines :
          /\ Key(b[e].lines[n]) = b[e].key
          /\ \A m \in DOMAIN b[e].lines : m < n => b[e].lines[m] < b[e].lines[n]

\* The lines of b come before those of c.
Precedes(b, c) == \A i \in LinesOf(b), j \in LinesOf(c) : i < j

\* The requests follow each other as their lines do, and as long as there is no
\* error the batch follows them.
Order ==
    /\ InOrder(batch)
    /\ \A r \in DOMAIN received : InOrder(received[r]) /\ (~failed => Precedes(received[r], batch))
    /\ \A r, s \in DOMAIN received : r < s => Precedes(received[r], received[s])

LEMMA InitOrder == Init => Order
<1> SUFFICES ASSUME Init PROVE Order
  OBVIOUS
<1>1. DOMAIN batch = {} /\ DOMAIN received = {}
  BY DEF Init
<1> QED
  BY <1>1 DEF Order, InOrder

\* A line that is appended to an entry in order, and comes after its lines.
LEMMA AppendOrder ==
    ASSUME NEW S, NEW q \in Seq(S), S \subseteq Nat, NEW x \in S,
           \A n \in DOMAIN q : q[n] < x,
           \A n \in DOMAIN q : \A m \in DOMAIN q : m < n => q[m] < q[n],
           NEW n \in DOMAIN Append(q, x)
    PROVE  /\ n \in DOMAIN q \/ (n = Len(q) + 1 /\ Append(q, x)[n] = x)
           /\ n \in DOMAIN q => Append(q, x)[n] = q[n]
           /\ \A m \in DOMAIN Append(q, x) : m < n => Append(q, x)[m] < Append(q, x)[n]
<1>1. /\ DOMAIN Append(q, x) = DOMAIN q \cup {Len(q) + 1} /\ Append(q, x)[Len(q) + 1] = x
      /\ \A i \in DOMAIN q : Append(q, x)[i] = q[i]
      /\ DOMAIN q = 1 .. Len(q) /\ Len(q) \in Nat
  OBVIOUS
<1> QED
  BY <1>1

\* The batch stays in order when a sample is taken.
LEMMA SampleInOrder == ASSUME IInv, InOrder(batch), Sample PROVE InOrder(batch)'
<1> DEFINE k == Key(pos)
<1>1. /\ LinesOf(batch) \subseteq Taken /\ \A i \in Taken : i \in Nat /\ i < pos
      /\ pos \in Due /\ \A i : Key(i)' = Key(i)
  BY Takes, SameRequest DEF Sample
<1>2. /\ DOMAIN seen = {batch[e].key : e \in DOMAIN batch}
      /\ Due \subseteq DOMAIN file /\ DOMAIN file \subseteq Nat
  BY RequestTyped DEF IInv, TypeOK, Due
<1>3. /\ \A d, e \in DOMAIN batch : batch[d].key = batch[e].key => d = e
      /\ \A e \in DOMAIN batch : \A n \in DOMAIN batch[e].lines :
            /\ Key(batch[e].lines[n]) = batch[e].key
            /\ \A m \in DOMAIN batch[e].lines : m < n => batch[e].lines[m] < batch[e].lines[n]
  BY DEF InOrder
<1>4. CASE k \in DOMAIN seen
  <2>1. PICK d \in DOMAIN batch :
            /\ batch[d].key = k /\ batch[d].lines \in Seq(Due)
            /\ DOMAIN batch' = DOMAIN batch
            /\ batch'[d] = [key |-> k, lines |-> Append(batch[d].lines, pos)]
            /\ \A e \in DOMAIN batch : e # d => batch'[e] = batch[e]
    BY <1>4, Joins
  <2> DEFINE q == batch[d].lines
  <2>2. q \in Seq(Due) /\ \A n \in DOMAIN q : q[n] < pos
    <3>1. \A n \in DOMAIN q : q[n] \in Due
      BY <2>1
    <3>2. \A n \in DOMAIN q : q[n] \in LinesOf(batch)
      BY <1>2, <2>1, <3>1 DEF LinesOf
    <3> QED
      BY <1>1, <2>1, <3>2
  <2>3. ASSUME NEW n \in DOMAIN batch'[d].lines
        PROVE  /\ Key(batch'[d].lines[n]) = k
               /\ \A m \in DOMAIN batch'[d].lines : m < n => batch'[d].lines[m] < batch'[d].lines[n]
    <3>1. \A i \in DOMAIN q : Key(q[i]) = k /\ \A m \in DOMAIN q : m < i => q[m] < q[i]
      BY <1>3, <2>1
    <3>2. batch'[d].lines = Append(q, pos)
      BY <2>1
    <3>3. Due \subseteq Nat /\ pos \in Due
      BY <1>1, <1>2
    <3> HIDE DEF q
    <3>4. /\ n \in DOMAIN q \/ Append(q, pos)[n] = pos
          /\ n \in DOMAIN q => Append(q, pos)[n] = q[n]
          /\ \A m \in DOMAIN Append(q, pos) : m < n => Append(q, pos)[m] < Append(q, pos)[n]
      BY <2>2, <2>3, <3>1, <3>2, <3>3, AppendOrder
    <3> QED
      BY <3>1, <3>2, <3>4
  <2> HIDE DEF k, q
  <2>4. \A e \in DOMAIN batch : batch'[e].key = batch[e].key
    <3>1. batch'[d].key = k
      BY <2>1
    <3>2. \A e \in DOMAIN batch : e # d => batch'[e].key = batch[e].key
      BY <2>1
    <3> QED
      BY <2>1, <3>1, <3>2
  <2>5. \A c, e \in DOMAIN batch' : batch'[c].key = batch'[e].key => c = e
    BY <1>3, <2>1, <2>4
  <2>6. ASSUME NEW e \in DOMAIN batch', NEW n \in DOMAIN batch'[e].lines
        PROVE  /\ Key(batch'[e].lines[n]) = batch'[e].key
               /\ \A m \in DOMAIN batch'[e].lines : m < n => batch'[e].lines[m] < batch'[e].lines[n]
    <3>1. CASE e = d
      BY <2>1, <2>3, <2>4, <2>6, <3>1
    <3>2. CASE e # d
      BY <1>3, <2>1, <2>6, <3>2
    <3> QED
      BY <3>1, <3>2
  <2> QED
    BY <1>1, <2>5, <2>6 DEF InOrder
<1>5. CASE k \notin DOMAIN seen
  <2> DEFINE z == Len(batch) + 1
  <2>1. /\ DOMAIN batch' = DOMAIN batch \cup {z} /\ z \notin DOMAIN batch
        /\ batch'[z] = [key |-> k, lines |-> <<pos>>]
        /\ \A e \in DOMAIN batch : batch'[e] = batch[e]
    BY <1>5, Begins
  <2>2. batch'[z].key = k /\ batch'[z].lines = <<pos>> /\ DOMAIN <<pos>> = {1} /\ <<pos>>[1] = pos
    BY <2>1
  <2>3. Key(pos) = k
    OBVIOUS
  <2> HIDE DEF k, z
  <2>4. \A c, e \in DOMAIN batch' : batch'[c].key = batch'[e].key => c = e
    BY <1>2, <1>3, <1>5, <2>1, <2>2
  <2>5. ASSUME NEW e \in DOMAIN batch', NEW n \in DOMAIN batch'[e].lines
        PROVE  /\ Key(batch'[e].lines[n]) = batch'[e].key
               /\ \A m \in DOMAIN batch'[e].lines : m < n => batch'[e].lines[m] < batch'[e].lines[n]
    <3>1. CASE e = z
      BY <2>2, <2>3, <2>5, <3>1
    <3>2. CASE e # z
      BY <1>3, <2>1, <2>5, <3>2
    <3> QED
      BY <3>1, <3>2
  <2> QED
    BY <1>1, <2>4, <2>5 DEF InOrder
<1> QED
  BY <1>4, <1>5

\* A request that arrives comes after the others.
LEMMA ArrivesInOrder ==
    ASSUME IInv, Order, ~failed, UNCHANGED request, received' = Append(received, batch)
    PROVE  /\ \A r \in DOMAIN received' : InOrder(received[r])'
           /\ \A r, s \in DOMAIN received' : r < s => Precedes(received[r], received[s])'
<1>1. /\ DOMAIN received' = DOMAIN received \cup {Len(received) + 1}
      /\ received'[Len(received) + 1] = batch
      /\ \A r \in DOMAIN received : received'[r] = received[r] /\ r \in 1 .. Len(received)
      /\ Len(received) \in Nat
  BY DEF IInv, TypeOK
<1>2. file' = file /\ \A i : Key(i)' = Key(i)
  BY SameRequest DEF request
<1>3. ASSUME NEW r \in DOMAIN received' PROVE InOrder(received[r])'
  <2>1. CASE r \in DOMAIN received
    <3>1. received'[r] = received[r] /\ InOrder(received[r])
      BY <1>1, <2>1 DEF Order
    <3> QED
      BY <1>2, <3>1 DEF InOrder
  <2>2. CASE r = Len(received) + 1
    <3>1. received'[r] = batch /\ InOrder(batch)
      BY <1>1, <2>2 DEF Order
    <3> QED
      BY <1>2, <3>1 DEF InOrder
  <2> QED
    BY <1>1, <2>1, <2>2
<1>4. ASSUME NEW r \in DOMAIN received', NEW s \in DOMAIN received', r < s
      PROVE  Precedes(received[r], received[s])'
  <2>1. r \in DOMAIN received /\ received'[r] = received[r]
    BY <1>1, <1>4
  <2>2. CASE s \in DOMAIN received
    <3>1. received'[s] = received[s] /\ Precedes(received[r], received[s])
      BY <1>1, <1>4, <2>1, <2>2 DEF Order
    <3> QED
      BY <1>2, <2>1, <3>1 DEF Precedes, LinesOf
  <2>3. CASE s = Len(received) + 1
    <3>1. received'[s] = batch /\ Precedes(received[r], batch)
      BY <1>1, <2>1, <2>3 DEF Order
    <3> QED
      BY <1>2, <2>1, <3>1 DEF Precedes, LinesOf
  <2> QED
    BY <1>1, <2>2, <2>3
<1> QED
  BY <1>3, <1>4

\* Only Sample and the answer to a request change the data.
LEMMA StepOrder == ASSUME IInv, Order, [Next]_vars PROVE Order'
<1>1. CASE UNCHANGED <<request, received, batch>> /\ (failed => failed')
  <2>1. file' = file /\ received' = received /\ batch' = batch /\ \A i : Key(i)' = Key(i)
    BY <1>1, SameRequest DEF request
  <2>2. /\ InOrder(batch)' /\ \A r \in DOMAIN received : InOrder(received[r])'
    BY <2>1 DEF Order, InOrder
  <2>3. \A r \in DOMAIN received : ~failed' => Precedes(received[r], batch)'
    BY <1>1, <2>1 DEF Order, Precedes, LinesOf
  <2>4. \A r, s \in DOMAIN received : r < s => Precedes(received[r], received[s])'
    BY <2>1 DEF Order, Precedes, LinesOf
  <2> QED
    BY <2>1, <2>2, <2>3, <2>4 DEF Order
<1>2. CASE Sample
  <2>1. /\ file' = file /\ received' = received /\ ~failed /\ failed' = failed
        /\ \A i : Key(i)' = Key(i)
    BY <1>2, SameRequest DEF Sample, request, IInv, Control, Ending, More
  <2>2. InOrder(batch)'
    BY <1>2, SampleInOrder DEF Order
  <2>3. \A r \in DOMAIN received : InOrder(received[r])'
    BY <2>1 DEF Order, InOrder
  <2>4. \A r, s \in DOMAIN received : r < s => Precedes(received[r], received[s])'
    BY <2>1 DEF Order, Precedes, LinesOf
  <2>5. ASSUME NEW r \in DOMAIN received PROVE Precedes(received[r], batch)'
    <3>1. LinesOf(batch)' = LinesOf(batch) \cup {pos} /\ LinesOf(received[r])' = LinesOf(received[r])
      BY <1>2, <2>1, Collects DEF LinesOf
    <3>2. LinesOf(received[r]) \subseteq Taken
      BY <2>1 DEF IInv, Exact, Arrived
    <3>3. \A i \in Taken : i < pos
      BY <1>2, Takes
    <3>4. \A i \in LinesOf(received[r]), j \in LinesOf(batch) : i < j
      BY <2>1 DEF Order, Precedes
    <3> QED
      BY <3>1, <3>2, <3>3, <3>4 DEF Precedes
  <2> QED
    BY <2>1, <2>2, <2>3, <2>4, <2>5 DEF Order
<1>3. CASE Send
  <2>1. /\ UNCHANGED request /\ received' = Append(received, batch) /\ batch' = << >> /\ ~failed
    BY <1>3 DEF Send, Sending, IInv, Control, Ending
  <2>2. InOrder(batch)' /\ LinesOf(batch)' = {}
    BY <2>1 DEF InOrder, LinesOf
  <2>3. \A r \in DOMAIN received' : Precedes(received[r], batch)'
    BY <2>2 DEF Precedes
  <2> QED
    BY <2>1, <2>2, <2>3, ArrivesInOrder DEF Order
<1>4. CASE SendFails
  <2>1. UNCHANGED <<request, batch>> /\ ~failed /\ failed'
    BY <1>4 DEF SendFails, Fail, accVars, Sending, IInv, Control, Ending
  <2>2. CASE UNCHANGED received
    BY <1>1, <2>1, <2>2
  <2>3. CASE received' = Append(received, batch)
    <3>1. InOrder(batch)'
      BY <2>1, SameRequest DEF Order, InOrder
    <3> QED
      BY <2>1, <2>3, <3>1, ArrivesInOrder DEF Order
  <2> QED
    BY <1>4, <2>2, <2>3 DEF SendFails
<1> QED
  BY <1>1, <1>2, <1>3, <1>4
     DEF Next, vars, runVars, accVars, HandleImport, TrackRun, GoImport, HandleCancel, Open, Fail,
         Skip, End, ScanFails, UpdateRun, UntrackRun

\* Replacing a label leaves the others.
Others(labels, name) == {l \in {labels[n] : n \in DOMAIN labels} : l[1] # name}
LEMMA UpsertKeeps ==
    ASSUME NEW labels \in Seq(Seq(STRING)), NEW name, NEW value
    PROVE  Others(UpsertLabel(labels, name, value), name) = Others(labels, name)
<1> DEFINE new == UpsertLabel(labels, name, value)
<1>0. <<name, value>>[1] = name
  OBVIOUS
<1>1. CASE \E i \in DOMAIN labels : labels[i][1] = name
  <2>1. /\ DOMAIN new = DOMAIN labels
        /\ \A n \in DOMAIN labels :
              new[n] = labels[n] \/ (new[n] = <<name, value>> /\ labels[n][1] = name)
    BY <1>1 DEF UpsertLabel
  <2> HIDE DEF new
  <2> QED
    BY <1>0, <2>1 DEF new, Others
<1>2. CASE ~ \E i \in DOMAIN labels : labels[i][1] = name
  <2>1. new = Append(labels, <<name, value>>)
    BY <1>2 DEF UpsertLabel
  <2>2. /\ DOMAIN new = DOMAIN labels \cup {Len(labels) + 1}
        /\ \A n \in DOMAIN labels : new[n] = labels[n]
        /\ new[Len(labels) + 1] = <<name, value>>
    BY <2>1
  <2> HIDE DEF new
  <2> QED
    BY <1>0, <2>2 DEF new, Others
<1> QED
  BY <1>1, <1>2

\* In an orderly file the key tells series from each other as well as the labels.
LEMMA KeysIdentify ==
    ASSUME TypeOK, Orderly, NEW i \in Due, NEW j \in Due
    PROVE  Identity(i) = Identity(j) <=> Key(i) = Key(j)
<1>1. Identity(i) = Identity(j) => Key(i) = Key(j)
  BY DEF Orderly, Key
<1>2. Key(i) = Key(j) => Identity(i) = Identity(j)
  <2>1. CASE group = NoGroup
    BY <2>1 DEF Key, Identity
  <2>2. CASE group # NoGroup
    <3>1. ASSUME NEW n \in Due PROVE Others(Key(n), "group") = Others(file[n].labels, "group")
      <4> DEFINE Line == [kind : Kinds, labels : Seq(Seq(STRING)), time : Nat]
      <4>1. file \in Seq(Line) /\ n \in DOMAIN file
        BY FileAssumption DEF TypeOK, Due
      <4> HIDE DEF Line
      <4>2. file[n] \in Line
        BY <4>1
      <4>3. file[n].labels \in Seq(Seq(STRING))
        BY <4>2 DEF Line
      <4>4. Key(n) = UpsertLabel(file[n].labels, "group", group)
        BY <2>2 DEF Key
      <4>5. Others(UpsertLabel(file[n].labels, "group", group), "group") = Others(file[n].labels, "group")
        BY <4>3, UpsertKeeps
      <4> QED
        BY <4>4, <4>5
    <3>2. Others(Key(i), "group") = Others(file[i].labels, "group") /\ Others(Key(j), "group") = Others(file[j].labels, "group")
      BY <3>1
    <3>3. Identity(i) = Others(file[i].labels, "group") /\ Identity(j) = Others(file[j].labels, "group")
      BY <2>2 DEF Identity, Others
    <3> QED
      BY <3>2, <3>3
  <2> QED
    BY <2>1, <2>2
<1> QED
  BY <1>1, <1>2

-----------------------------------------------------------------------------
(* The theorems                                                            *)

\* The invariant holds in every reachable state: InitIInv and StepInv.
THEOREM Invariance == Spec => []IInv
<1>1. IInv /\ [Next]_vars => IInv'
  BY StepInv
<1> QED
  BY InitIInv, <1>1, PTL DEF Spec

\* A batch is never larger than asked for, and seen finds its series: import.go, the
\* loop over the lines.
THEOREM TypeCorrect == Spec => []TypeOK
<1>1. IInv => TypeOK
  BY DEF IInv
<1> QED
  BY <1>1, Invariance, PTL

\* What has reached the target is the file up to some sample: import.go, the
\* returns after send.
THEOREM PrefixSent == Spec => []ReceivedIsPrefix
<1>1. IInv => ReceivedIsPrefix
  BY DEF IInv, Exact
<1> QED
  BY <1>1, Invariance, PTL

\* A success is complete, and its counts are right: import.go, the last send.
THEOREM WholeImport == Spec => []SuccessIsComplete
<1>1. ASSUME IInv, status = "success" PROVE Taken = Due /\ Arrived = Taken
  BY <1>1 DEF IInv, Control, Ending, Exact
<1>2. ASSUME IInv, status = "success"
      PROVE  /\ shown.series = Cardinality({Key(i) : i \in Taken})
             /\ shown.samples = Cardinality(Taken)
  BY <1>2 DEF IInv, Control, Counts
<1>3. IInv => SuccessIsComplete
  BY <1>1, <1>2 DEF SuccessIsComplete
<1> QED
  BY <1>3, Invariance, PTL

\* Cancelled with samples still to be sent, an import fails: import.go, send's
\* request with the context of the run.
THEOREM CancelIsFinal == Spec => []CancelHonoured
<1>1. IInv => CancelHonoured
  BY DEF IInv, Control, Ending, Exact, Owing, CancelHonoured
<1> QED
  BY <1>1, Invariance, PTL

\* The requests keep the order of the file, within and between them: StepOrder.
THEOREM OrderKept == Spec => []Order
<1>1. IInv /\ Order /\ [Next]_vars => Order'
  BY StepOrder
<1> QED
  BY InitOrder, <1>1, Invariance, PTL DEF Spec

\* The target gets each series of an orderly file under a key of its own, once in a
\* request and in the order of time: import.go, seen, allKey and canonicalKey.
THEOREM SamplesInOrder == Spec => []SeriesInOrder
<1>1. ASSUME IInv, Order, Orderly, NEW p \in Places, NEW q \in Places
      PROVE  /\ Identity(LineAt(p)) = Identity(LineAt(q)) <=> KeyAt(p) = KeyAt(q)
             /\ KeyAt(p) = KeyAt(q) /\ p[1] = q[1] => p[2] = q[2]
             /\ KeyAt(p) = KeyAt(q) /\ Earlier(p, q) =>
                    file[LineAt(p)].time < file[LineAt(q)].time
  <2>1. ASSUME NEW x \in Places
        PROVE  /\ x[1] \in DOMAIN received /\ x[2] \in DOMAIN received[x[1]]
               /\ x[3] \in DOMAIN received[x[1]][x[2]].lines
               /\ x[1] \in Nat /\ x[2] \in Nat /\ x[3] \in Nat
               /\ LineAt(x) \in Due /\ LineAt(x) \in LinesOf(received[x[1]])
               /\ Key(LineAt(x)) = KeyAt(x)
    <3>1. PICK r, e, n : /\ r \in DOMAIN received /\ e \in DOMAIN received[r]
                         /\ n \in DOMAIN received[r][e].lines
                         /\ x = <<r, e, n>>
      BY DEF Places
    <3>2. received \in Seq(Seq(Entry)) /\ Due \subseteq DOMAIN file
      BY <1>1 DEF IInv, TypeOK, Due
    <3>3. received[r] \in Seq(Entry)
      BY <3>1, <3>2
    <3>4. received[r][e] \in Entry
      BY <3>1, <3>3
    <3>5. received[r][e].lines \in Seq(Due)
      BY <3>4 DEF Entry
    <3>6. received[r][e].lines[n] \in Due /\ r \in Nat /\ e \in Nat /\ n \in Nat
      BY <3>1, <3>2, <3>3, <3>5
    <3>7. x[1] = r /\ x[2] = e /\ x[3] = n
      BY <3>1
    <3>8. Key(received[r][e].lines[n]) = received[r][e].key
      BY <1>1, <3>1 DEF Order, InOrder
    <3>9. received[r][e].lines[n] \in LinesOf(received[r])
      BY <3>1, <3>2, <3>6 DEF LinesOf
    <3> QED
      BY <3>1, <3>6, <3>7, <3>8, <3>9 DEF LineAt, KeyAt
  <2>2. KeyAt(p) = KeyAt(q) /\ p[1] = q[1] => p[2] = q[2]
    BY <1>1, <2>1 DEF Order, InOrder, KeyAt
  <2>3. KeyAt(p) = KeyAt(q) /\ Earlier(p, q) => LineAt(p) < LineAt(q)
    <3>1. CASE p[1] < q[1]
      BY <1>1, <2>1, <3>1 DEF Order, Precedes
    <3>2. CASE p[1] = q[1] /\ p[2] = q[2] /\ p[3] < q[3]
      BY <1>1, <2>1, <3>2 DEF Order, InOrder, LineAt
    <3>3. CASE p[1] = q[1] /\ p[2] < q[2]
      BY <2>1, <2>2, <3>3
    <3> QED
      BY <3>1, <3>2, <3>3 DEF Earlier
  <2>4. Identity(LineAt(p)) = Identity(LineAt(q)) <=> KeyAt(p) = KeyAt(q)
    BY <1>1, <2>1, KeysIdentify DEF IInv
  <2>5. KeyAt(p) = KeyAt(q) /\ Earlier(p, q) => file[LineAt(p)].time < file[LineAt(q)].time
    BY <1>1, <2>1, <2>3, <2>4 DEF Orderly
  <2> QED
    BY <2>2, <2>4, <2>5
<1>2. IInv /\ Order => SeriesInOrder
  BY <1>1 DEF SeriesInOrder
<1> QED
  BY <1>2, Invariance, OrderKept, PTL
=============================================================================
