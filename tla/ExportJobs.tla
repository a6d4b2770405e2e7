----------------------------- MODULE ExportJobs -----------------------------
(***************************************************************************)
(* The export runs of prom-clip (internal/promclip): the HTTP handlers     *)
(* that start, cancel and download an export (server.go), the goroutine    *)
(* that does the work (runExport, Export), the run history and the file    *)
(* it is saved in (state.go), the output files and their pruning           *)
(* (prune.go), and the end of the process, which waits for nobody.         *)
(*                                                                         *)
(* State.mu and Server.mu are held for one call each, so a call on the     *)
(* history or on the map of running exports is one step.  A file is told   *)
(* by who wrote to it and whose "# EOF" it holds; files are ordered by     *)
(* their modification time.  As on POSIX, a file that is removed while it  *)
(* is open lives on without a name; a removal may always fail.             *)
(***************************************************************************)
EXTENDS Integers, Sequences

CONSTANTS
    Run,          \* run ids, each used once
    Path,         \* *.txt.gz files of OutputDir
    Choice,       \* the output names the user may give each run
    NoPath,       \* an empty OutputPath; an open file without a name
    Reader,       \* browsers that download
    Metrics,      \* bound: metric names that match an export's regex
    MaxRuns,      \* length of the history (50 in the code)
    Keep,         \* KeepExports in persistent mode, where 0 disables pruning
    Fault,        \* what may fail, a subset of FaultKind
    MaxRestarts   \* bound: restarts of the process

FaultKind == {"save", "write"}

ASSUME PathAssumption  == NoPath \notin Path /\ Choice \in [Run -> SUBSET Path]
ASSUME BoundAssumption == /\ Metrics \in Nat /\ MaxRuns \in Nat \ {0}
                          /\ Keep \in Nat /\ MaxRestarts \in Nat
ASSUME FaultAssumption == Fault \subseteq FaultKind

VARIABLES
    ephemeral,  \* Server.Ephemeral: no state file, files removed once downloaded
    hist,       \* State.Runs, newest first: the ids
    shown,      \* State.Runs: the Status of each run
    out,        \* State.Runs: the OutputPath of each run
    saved,      \* the state file
    running,    \* Server.running: runs with a cancel function
    cancelled,  \* runs whose context is cancelled
    handler,    \* where handleExport is with each run
    worker,     \* where runExport is with each run
    target,     \* ExportRequest.OutputPath of each run
    ok,         \* Export returned no error
    done,       \* metrics Export is through with
    fd,         \* the path of the file Export has open
    files,      \* the paths that exist, least recently modified first
    writers,    \* the runs whose data is in the file at a path
    sole,       \* the run that created it, if nobody else has had it open since
    eof,        \* the runs whose "# EOF" is in the file at a path
    victims,    \* the files PruneExports still has to remove
    dl,         \* what each reader is downloading
    restarts,   \* restarts so far
    startup,    \* the files a new process still has to prune before it listens
    doomed,     \* history: runs cancelled with a look at the context ahead
    overlapped  \* history: two exports have been active at a time

stateVars == <<hist, shown, out, saved>>
jobVars   == <<running, cancelled, handler, worker, target, ok, done, doomed, overlapped>>
contents  == <<files, writers, eof, sole>>
fileVars  == <<fd, contents, victims>>
bootVars  == <<restarts, startup>>
vars == <<ephemeral, stateVars, jobVars, fileVars, dl, bootVars>>

Finished == {"success", "failed"}

\* The history as it is in memory, and as a state file holds it.
Memory == [hist |-> hist, shown |-> shown, out |-> out]
Empty  == [hist |-> <<>>, shown |-> [r \in Run |-> "none"], out |-> [r \in Run |-> NoPath]]

Idle == [run |-> NoPath, path |-> NoPath, at |-> "idle"]

Listed(r) == \E i \in DOMAIN hist : hist[i] = r
Exists(p) == \E i \in DOMAIN files : files[i] = p

\* runExport is at work on r.
Active(r) == worker[r] \in {"listing", "writing", "querying", "uploading", "finishing",
                            "pruning", "sweeping", "ending"}

TypeOK ==
    /\ ephemeral \in BOOLEAN
    /\ hist \in Seq(Run) /\ Len(hist) <= MaxRuns
    /\ shown \in [Run -> Finished \cup {"none", "running"}]
    /\ out \in [Run -> Path \cup {NoPath}]
    /\ running \subseteq Run /\ cancelled \subseteq Run
    /\ handler \in [Run -> {"new", "added", "tracked", "refused", "gone"}]
    /\ worker \in [Run -> {"none", "listing", "writing", "querying", "uploading", "finishing",
                           "pruning", "sweeping", "ending", "done"}]
    /\ target \in [Run -> Path \cup {NoPath}]
    /\ ok \in [Run -> BOOLEAN]
    /\ done \in [Run -> 0 .. Metrics]
    /\ fd \in [Run -> Path \cup {NoPath}]
    /\ files \in Seq(Path) /\ \A i, j \in DOMAIN files : files[i] = files[j] => i = j
    /\ \A part \in {writers, eof, sole} : part \in [Path -> SUBSET Run]
    /\ victims \in [Run -> SUBSET Path]
    /\ restarts \in 0 .. MaxRestarts /\ startup \subseteq Path

Init ==
    /\ ephemeral \in BOOLEAN
    /\ hist = Empty.hist /\ shown = Empty.shown /\ out = Empty.out
    /\ saved = Empty
    /\ running = {} /\ cancelled = {} /\ doomed = {}
    /\ handler = [r \in Run |-> "new"]
    /\ worker = [r \in Run |-> "none"]
    /\ target = [r \in Run |-> NoPath]
    /\ ok = [r \in Run |-> FALSE]
    /\ done = [r \in Run |-> 0]
    /\ fd = [r \in Run |-> NoPath]
    /\ files = <<>>
    /\ writers = [p \in Path |-> {}] /\ eof = [p \in Path |-> {}] /\ sole = [p \in Path |-> {}]
    /\ victims = [r \in Run |-> {}]
    /\ dl = [d \in Reader |-> Idle]
    /\ restarts = 0 /\ startup = {}
    /\ overlapped = FALSE

-----------------------------------------------------------------------------
(* The history                                                             *)

\* save writes a temporary file and renames it; without a path it does nothing.
Save == saved' = IF ephemeral THEN saved ELSE Memory'

\* ... or it fails, and the state file is as it was.
SaveFails == ~ephemeral /\ "save" \in Fault /\ UNCHANGED saved

\* The history keeps every run.
NoTrim(h) == h

\* AddRun keeps the MaxRuns newest runs.
Trim(h) == IF Len(h) > MaxRuns THEN SubSeq(h, 1, MaxRuns) ELSE h

\* AddRun: r heads the history, running; a run that falls out of it is forgotten.
AddRun(r, p) ==
    /\ hist' = Trim(<<r>> \o hist)
    /\ shown' = [q \in Run |->
                    IF q = r THEN "running" ELSE IF Listed(q)' THEN shown[q] ELSE "none"]
    /\ out' = [q \in Run |->
                  IF q = r THEN p ELSE IF Listed(q)' THEN out[q] ELSE NoPath]

-----------------------------------------------------------------------------
(* The files                                                               *)

\* The paths without p.
PlaceOf(p) == CHOOSE i \in DOMAIN files : files[i] = p
Without(p) ==
    IF Exists(p)
      THEN [i \in 1 .. Len(files) - 1 |-> files[IF i < PlaceOf(p) THEN i ELSE i + 1]]
      ELSE files

\* p is the file modified last.
Touch(p) == files' = Append(Without(p), p)

\* r's data reaches the file it has open, eof and all if last.
Write(r, last) ==
    IF fd[r] = NoPath
      THEN UNCHANGED contents
      ELSE /\ Touch(fd[r])
           /\ writers' = [writers EXCEPT ![fd[r]] = @ \cup {r}]
           /\ eof' = [eof EXCEPT ![fd[r]] = IF last THEN @ \cup {r} ELSE @]
           /\ UNCHANGED sole

\* os.Remove: whoever has p open keeps the file, which has no name any more.
Unlink(p) ==
    /\ files' = Without(p)
    /\ fd' = [r \in Run |-> IF fd[r] = p THEN NoPath ELSE fd[r]]
    /\ writers' = [writers EXCEPT ![p] = {}]
    /\ eof' = [eof EXCEPT ![p] = {}]
    /\ sole' = [sole EXCEPT ![p] = {}]

-----------------------------------------------------------------------------
(* handleExport, handleCancel                                              *)

\* handleExport adds the run to the history, and stops there if it cannot be
\* saved.  A name is the user's, or the time to the second: it may be in use.
HandleExport(r, p) ==
    /\ handler[r] = "new" /\ startup = {}
    /\ AddRun(r, p)
    /\ \/ Save /\ handler' = [handler EXCEPT ![r] = "added"]
       \/ SaveFails /\ handler' = [handler EXCEPT ![r] = "refused"]
    /\ target' = [target EXCEPT ![r] = p]
    /\ UNCHANGED <<ephemeral, running, cancelled, worker, ok, done, doomed, overlapped,
                   fileVars, dl, bootVars>>

\* trackRun: the run can be cancelled.
TrackRun(r) ==
    /\ handler[r] = "added"
    /\ handler' = [handler EXCEPT ![r] = "tracked"]
    /\ running' = running \cup {r}
    /\ UNCHANGED <<ephemeral, stateVars, cancelled, worker, target, ok, done, doomed,
                   overlapped, fileVars, dl, bootVars>>

\* go s.runExport.
GoExport(r) ==
    /\ handler[r] = "tracked"
    /\ worker[r] = "none"
    /\ worker' = [worker EXCEPT ![r] = "listing"]
    /\ overlapped' = (overlapped \/ \E q \in Run : Active(q))
    /\ UNCHANGED <<ephemeral, stateVars, running, cancelled, handler, target, ok, done, doomed,
                   fileVars, dl, bootVars>>

\* handleCancel marks the run failed instead of leaving that to runExport.
CancelMarksFailed(r) ==
    /\ r \in running \ cancelled
    /\ cancelled' = cancelled \cup {r}
    /\ shown' = [shown EXCEPT ![r] = "failed"]
    /\ UNCHANGED <<hist, out>>
    /\ Save
    /\ UNCHANGED <<ephemeral, running, handler, worker, target, ok, done, doomed,
                   overlapped, fileVars, dl, bootVars>>

\* The loop of Export will look at the context again before a metric.
ChecksAhead(r) ==
    \/ worker[r] \in {"none", "listing", "writing"} /\ done[r] < Metrics
    \/ worker[r] = "querying" /\ done[r] + 1 < Metrics

\* handleCancel cancels the context of a run it finds in the map.
HandleCancel(r) ==
    /\ r \in running \ cancelled
    /\ cancelled' = cancelled \cup {r}
    /\ doomed' = IF ChecksAhead(r) THEN doomed \cup {r} ELSE doomed
    /\ UNCHANGED <<ephemeral, stateVars, running, handler, worker, target, ok, done, overlapped,
                   fileVars, dl, bootVars>>

-----------------------------------------------------------------------------
(* Export                                                                  *)

\* The run's request is refused, ListMetricNames fails, or os.Create does.
ListFails(r) ==
    /\ worker[r] = "listing"
    /\ worker' = [worker EXCEPT ![r] = "finishing"]
    /\ UNCHANGED <<ephemeral, stateVars, running, cancelled, handler, target, ok, done, doomed,
                   overlapped, fileVars, dl, bootVars>>

\* The metric names are there, maybe from before a cancel, and os.Create makes the
\* file, or empties the one that is there.  Who has that open goes on writing at
\* its own offset, behind a hole, into a file that is neither run's any more.
CreateFile(r) ==
    /\ worker[r] = "listing"
    /\ worker' = [worker EXCEPT ![r] = "writing"]
    /\ fd' = [fd EXCEPT ![r] = target[r]]
    /\ Touch(target[r])
    /\ writers' = [writers EXCEPT ![target[r]] = {}]
    /\ eof' = [eof EXCEPT ![target[r]] = {}]
    /\ sole' = [sole EXCEPT ![target[r]] =
                   IF \E q \in Run \ {r} : fd[q] = target[r] THEN {} ELSE {r}]
    /\ UNCHANGED <<ephemeral, stateVars, running, cancelled, handler, target, ok, done, doomed,
                   overlapped, victims, dl, bootVars>>

\* The loop never looks at the context.
QueryUnchecked(r) ==
    /\ worker[r] = "writing"
    /\ done[r] < Metrics
    /\ worker' = [worker EXCEPT ![r] = "querying"]
    /\ UNCHANGED <<ephemeral, stateVars, running, cancelled, handler, target, ok, done, doomed,
                   overlapped, fileVars, dl, bootVars>>

\* A round of the loop begins: the context is not done, and the metric is queried.
Query(r) ==
    /\ worker[r] = "writing"
    /\ done[r] < Metrics
    /\ r \notin cancelled
    /\ worker' = [worker EXCEPT ![r] = "querying"]
    /\ UNCHANGED <<ephemeral, stateVars, running, cancelled, handler, target, ok, done, doomed,
                   overlapped, fileVars, dl, bootVars>>

\* The metric is written or still buffered, has no series, or its query fails, be
\* it by a cancel that comes now: then the metric is skipped.
Answered(r) ==
    /\ worker[r] = "querying"
    /\ worker' = [worker EXCEPT ![r] = "writing"]
    /\ done' = [done EXCEPT ![r] = @ + 1]
    /\ Write(r, FALSE) \/ UNCHANGED contents
    /\ UNCHANGED <<ephemeral, stateVars, running, cancelled, handler, target, ok, doomed,
                   overlapped, fd, victims, dl, bootVars>>

\* A cancelled export is reported like one that came to its end.
AbortAsDone(r) ==
    /\ worker[r] = "writing"
    /\ r \in cancelled /\ done[r] < Metrics
    /\ worker' = [worker EXCEPT ![r] = "finishing"]
    /\ ok' = [ok EXCEPT ![r] = TRUE]
    /\ fd' = [fd EXCEPT ![r] = NoPath]
    /\ Write(r, FALSE) \/ UNCHANGED contents
    /\ UNCHANGED <<ephemeral, stateVars, running, cancelled, handler, target, done, doomed,
                   overlapped, victims, dl, bootVars>>

\* Export returns an error: the loop found the context done, or a write, flush,
\* close or sync failed.  What was written stays; closing gz adds to it.
Abort(r) ==
    /\ \/ worker[r] = "writing" /\ r \in cancelled /\ done[r] < Metrics
       \/ worker[r] \in {"writing", "querying"} /\ "write" \in Fault
    /\ worker' = [worker EXCEPT ![r] = "finishing"]
    /\ fd' = [fd EXCEPT ![r] = NoPath]
    /\ Write(r, FALSE) \/ UNCHANGED contents
    /\ UNCHANGED <<ephemeral, stateVars, running, cancelled, handler, target, ok, done, doomed,
                   overlapped, victims, dl, bootVars>>

\* "# EOF", flush, close and sync: Export returns its result, and if the user asked
\* for that the file is uploaded.  The context is not looked at any more.
Finish(r) ==
    /\ worker[r] = "writing"
    /\ done[r] = Metrics
    /\ \E next \in {"uploading", "finishing"} : worker' = [worker EXCEPT ![r] = next]
    /\ ok' = [ok EXCEPT ![r] = TRUE]
    /\ fd' = [fd EXCEPT ![r] = NoPath]
    /\ Write(r, TRUE)
    /\ UNCHANGED <<ephemeral, stateVars, running, cancelled, handler, target, done, doomed,
                   overlapped, victims, dl, bootVars>>

-----------------------------------------------------------------------------
(* The rest of runExport                                                   *)

\* S3Upload returns, with or without an error.
Uploaded(r) ==
    /\ worker[r] = "uploading"
    /\ worker' = [worker EXCEPT ![r] = "finishing"]
    /\ UNCHANGED <<ephemeral, stateVars, running, cancelled, handler, target, ok, done, doomed,
                   overlapped, fileVars, dl, bootVars>>

\* Only a success is recorded.
RecordSuccess(r) ==
    /\ worker[r] = "finishing"
    /\ UNCHANGED <<hist, out>>
    /\ IF Listed(r) /\ ok[r]
         THEN shown' = [shown EXCEPT ![r] = "success"] /\ (Save \/ SaveFails)
         ELSE UNCHANGED <<shown, saved>>
    /\ worker' = [worker EXCEPT ![r] = IF ok[r] /\ ~ephemeral /\ Keep > 0
                                         THEN "pruning" ELSE "ending"]
    /\ UNCHANGED <<ephemeral, running, cancelled, handler, target, ok, done, doomed,
                   overlapped, fileVars, dl, bootVars>>

\* UpdateRun sets the outcome of a run that is still in the history; whether it
\* is saved is not looked at.  A failed upload to S3 leaves it a success.
UpdateRun(r) ==
    /\ worker[r] = "finishing"
    /\ UNCHANGED <<hist, out>>
    /\ IF Listed(r)
         THEN /\ shown' = [shown EXCEPT ![r] = IF ok[r] THEN "success" ELSE "failed"]
              /\ Save \/ SaveFails
         ELSE UNCHANGED <<shown, saved>>
    /\ worker' = [worker EXCEPT ![r] = IF ok[r] /\ ~ephemeral /\ Keep > 0
                                         THEN "pruning" ELSE "ending"]
    /\ UNCHANGED <<ephemeral, running, cancelled, handler, target, ok, done, doomed,
                   overlapped, fileVars, dl, bootVars>>

\* All files but the newest ones, with one too many.
OldestShort == {files[i] : i \in 1 .. Len(files) - Keep + 1}

\* All files but the Keep newest.
Oldest == {files[i] : i \in 1 .. Len(files) - Keep}

\* PruneExports reads the directory and decides what to remove.
ListVictims(r) ==
    /\ worker[r] = "pruning"
    /\ victims' = [victims EXCEPT ![r] = Oldest]
    /\ worker' = [worker EXCEPT ![r] = "sweeping"]
    /\ UNCHANGED <<ephemeral, stateVars, running, cancelled, handler, target, ok, done, doomed,
                   overlapped, fd, contents, dl, bootVars>>

\* A file another sweep has removed is waited for.
RemoveWaiting(r, p) ==
    /\ worker[r] = "sweeping"
    /\ p \in victims[r]
    /\ Exists(p)
    /\ victims' = [victims EXCEPT ![r] = @ \ {p}]
    /\ Unlink(p)
    /\ UNCHANGED <<ephemeral, stateVars, jobVars, dl, bootVars>>

\* ... and removes it, unless that fails.
RemoveVictim(r, p) ==
    /\ worker[r] = "sweeping"
    /\ p \in victims[r]
    /\ victims' = [victims EXCEPT ![r] = @ \ {p}]
    /\ Unlink(p) \/ UNCHANGED <<fd, contents>>
    /\ UNCHANGED <<ephemeral, stateVars, jobVars, dl, bootVars>>

\* The goroutine of a run is over, or killed, and its locals are gone.
Forget(rs) ==
    /\ cancelled' = cancelled \ rs
    /\ target' = [r \in Run |-> IF r \in rs THEN NoPath ELSE target[r]]
    /\ ok' = [r \in Run |-> r \notin rs /\ ok[r]]
    /\ done' = [r \in Run |-> IF r \in rs THEN 0 ELSE done[r]]

\* The sweep is over; then untrackRun, and the goroutine ends.
Untrack(r) ==
    /\ worker[r] = "ending" \/ (worker[r] = "sweeping" /\ victims[r] = {})
    /\ worker' = [worker EXCEPT ![r] = "done"]
    /\ running' = running \ {r}
    /\ Forget({r})
    /\ UNCHANGED <<ephemeral, stateVars, handler, doomed, overlapped, fileVars, dl, bootVars>>

-----------------------------------------------------------------------------
(* handleDownload, and the process                                         *)

\* handleDownload finds the run and opens its file; it does not ask for more.
OpenDownload(d, r) ==
    /\ dl[d] = Idle /\ startup = {}
    /\ Listed(r)
    /\ out[r] # NoPath
    /\ Exists(out[r])
    /\ dl' = [dl EXCEPT ![d] = [run |-> r, path |-> out[r], at |-> "sending"]]
    /\ UNCHANGED <<ephemeral, stateVars, jobVars, fileVars, bootVars>>

\* The file is sent.  In ephemeral mode its path is then removed.
EndDownload(d) ==
    /\ dl[d].at = "sending"
    /\ \/ /\ ephemeral /\ Exists(dl[d].path)
          /\ Unlink(dl[d].path)
          /\ dl' = [dl EXCEPT ![d].at = "removed"]
       \/ /\ dl' = [dl EXCEPT ![d] = Idle]
          /\ UNCHANGED <<fd, contents>>
    /\ UNCHANGED <<ephemeral, stateVars, jobVars, victims, bootVars>>

\* ... and UpdateRun empties the run's OutputPath.
ClearOutput(d) ==
    /\ dl[d].at = "removed"
    /\ out' = IF Listed(dl[d].run) THEN [out EXCEPT ![dl[d].run] = NoPath] ELSE out
    /\ UNCHANGED <<hist, shown>>
    /\ Save
    /\ dl' = [dl EXCEPT ![d] = Idle]
    /\ UNCHANGED <<ephemeral, jobVars, fileVars, bootVars>>

\* The process ends, by a signal or a crash, and takes its goroutines with it:
\* Shutdown does not wait for them.  The next one loads the state file as it is
\* and looks for files to prune.
Restart ==
    /\ restarts < MaxRestarts
    /\ restarts' = restarts + 1
    /\ LET loaded == IF ephemeral THEN Empty ELSE saved
       IN  hist' = loaded.hist /\ shown' = loaded.shown /\ out' = loaded.out
    /\ startup' = IF ephemeral \/ Keep = 0 THEN {} ELSE Oldest
    /\ running' = {}
    /\ handler' = [r \in Run |-> IF handler[r] = "new" THEN "new" ELSE "gone"]
    /\ worker' = [r \in Run |-> "none"]
    /\ Forget(Run)
    /\ fd' = [r \in Run |-> NoPath]
    /\ victims' = [r \in Run |-> {}]
    /\ dl' = [d \in Reader |-> Idle]
    /\ UNCHANGED <<ephemeral, saved, doomed, overlapped, contents>>

\* ... and removes them, unless that fails, before it listens.
PruneAtStart(p) ==
    /\ p \in startup
    /\ startup' = startup \ {p}
    /\ Unlink(p) \/ UNCHANGED <<fd, contents>>
    /\ UNCHANGED <<ephemeral, stateVars, jobVars, victims, dl, restarts>>

-----------------------------------------------------------------------------
RunStep(r) ==
    \/ ListFails(r) \/ CreateFile(r) \/ Query(r) \/ Answered(r) \/ Abort(r) \/ Finish(r)
    \/ Uploaded(r) \/ UpdateRun(r) \/ ListVictims(r) \/ (\E p \in Path : RemoveVictim(r, p)) \/ Untrack(r)

Next ==
    \/ \E r \in Run : \E p \in Choice[r] : HandleExport(r, p)
    \/ \E r \in Run : TrackRun(r) \/ GoExport(r) \/ HandleCancel(r) \/ RunStep(r)
    \/ \E d \in Reader, r \in Run : OpenDownload(d, r)
    \/ \E d \in Reader : EndDownload(d) \/ ClearOutput(d)
    \/ Restart \/ \E p \in Path : PruneAtStart(p)

\* The run waits for Prometheus or S3, which may leave it waiting for ever: only the
\* header of an answer has a timeout.  A cancelled context ends every request.
Waiting(r) == worker[r] \in {"listing", "querying", "uploading"} /\ r \notin cancelled

\* A goroutine that has not to wait for an answer is never suspended for ever.
Fairness ==
    \A r \in Run : WF_vars(~Waiting(r) /\ (TrackRun(r) \/ GoExport(r) \/ RunStep(r)))

Spec     == Init /\ [][Next]_vars
FairSpec == Spec /\ Fairness

-----------------------------------------------------------------------------
(* What the runs promise                                                   *)

\* The cancel button reaches every export at work, from before its goroutine
\* starts until it ends, and nothing is left to cancel afterwards.
CancelReaches ==
    \A r \in Run : r \in running <=> Active(r) \/ (handler[r] = "tracked" /\ worker[r] = "none")

\* A run the history shows as running has somebody at work on it, unless its
\* start could not be saved or the process was restarted under it.
RunningIsAtWork ==
    \A r \in Run : Listed(r) /\ shown[r] = "running" =>
        \/ worker[r] \in {"listing", "writing", "querying", "uploading", "finishing"}
        \/ worker[r] = "none" /\ handler[r] \in {"added", "tracked"}
        \/ handler[r] \in {"refused", "gone"}

\* An export cancelled before its loop last looks at the context never ends as a
\* success, whatever its queries and its file do meanwhile.  (A cancel that comes
\* later, in the last metric's query, only costs that metric: it is skipped, and
\* the run a success.)
CancelHonoured == \A r \in doomed : ~ok[r] /\ shown[r] # "success"

\* The file of a success holds its data up to "# EOF" and nobody else's, unless
\* another export has created it anew since or had it open at the same time:
\* downloads, sweeps, cancels, failures and restarts leave no part of a file.
SuccessIsWhole ==
    \A r \in Run : Listed(r) /\ shown[r] = "success" /\ out[r] # NoPath /\ r \in sole[out[r]] =>
        writers[out[r]] = {r} /\ r \in eof[out[r]]

\* A finished run keeps its outcome.  It can only come back as running when the
\* process restarts, in persistent mode, on a state file that a failed save left
\* behind; no other step changes it, whatever has been saved.
FinishedStaysFinished ==
    [][\A r \in Run : Listed(r) /\ shown[r] \in Finished /\ Listed(r)' /\ shown'[r] # shown[r]
         => restarts' # restarts /\ ~ephemeral /\ saved # Memory]_vars

\* As long as exports run one at a time, pruning leaves the Keep newest files:
\* once there are Keep, there are never fewer.
PruneAloneKeeps ==
    [][~overlapped' /\ ~ephemeral /\ Len(files) >= Keep => Len(files') >= Keep]_vars

\* Every export that starts comes to its end, unless the process ends first, if it
\* is not left waiting for an answer for ever: a cancel is enough for that.
EveryRunEnds ==
    \A r \in Run :
        []<>~Waiting(r) => (handler[r] = "added" ~> worker[r] = "done" \/ handler[r] = "gone")

\* "PruneExports keeps the `keep` most recent *.txt.gz files" (prune.go): once
\* there are Keep files, there are never fewer.
PruneKeeps == [][~ephemeral /\ Len(files) >= Keep => Len(files') >= Keep]_vars
=============================================================================
