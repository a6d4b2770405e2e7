------------------------------- MODULE Import -------------------------------
(***************************************************************************)
(* One import run of prom-clip: handleImport and runImport                 *)
(* (internal/promclip/server.go) around Import (import.go), which reads an *)
(* OpenMetrics file line by line, collects the samples by series and sends *)
(* them to the target Prometheus by remote write, a batch at a time.       *)
(*                                                                         *)
(* The other runs of the history and the state file are in ExportJobs.     *)
(***************************************************************************)
EXTENDS Integers, Sequences, FiniteSets

CONSTANTS
    Files,       \* input files: sequences of lines, as parseSampleLine reads them
    BatchSizes,  \* ImportRequest.BatchSeries, after the default
    Groups,      \* ImportRequest.OverrideGroup
    NoGroup      \* OverrideGroup is empty

Kinds == {"sample", "other", "eof"}

ASSUME FileAssumption ==
    \A f \in Files : f \in Seq([kind : Kinds, labels : Seq(Seq(STRING)), time : Nat])
ASSUME BatchAssumption == BatchSizes \subseteq Nat \ {0}

VARIABLES
    file, batchSize, group,  \* the request
    handler,    \* progress of handleImport
    tracked,    \* the run is in Server.running
    cancelled,  \* its context is done
    status,     \* Run.Status; "none" before the run is in the history
    shown,      \* Run.Series and Run.Samples
    worker,     \* progress of runImport
    failed,     \* Import returned an error
    pos,        \* the next line
    batch,      \* series of the request to come: key and line numbers
    seen,       \* key to index in batch
    keys,       \* allKey
    series, samples,  \* ImportResult
    received,   \* the requests that reached the target
    owed        \* history: samples were still to be sent when the run was cancelled

request == <<file, batchSize, group>>
runVars == <<handler, tracked, cancelled, status, shown, owed>>
accVars == <<batch, seen, keys, series, samples>>
vars == <<request, runVars, worker, failed, pos, accVars, received>>

-----------------------------------------------------------------------------
(* Lines and labels                                                        *)

\* parseSampleLine makes a sample of a line, or an error that skips it.
IsSample(i) == file[i].kind = "sample"
IsEOF(i)    == file[i].kind = "eof"

\* The first label is taken for the one to replace.
UpsertFirst(labels, name, value) ==
    IF labels # << >> THEN [labels EXCEPT ![1] = <<name, value>>]
    ELSE Append(labels, <<name, value>>)

\* Replaces the value of the first label of that name, or appends the label.
UpsertLabel(labels, name, value) ==
    IF \E i \in DOMAIN labels : labels[i][1] = name
      THEN [i \in DOMAIN labels |->
              IF labels[i][1] = name /\ \A j \in 1 .. i - 1 : labels[j][1] # name
                THEN <<name, value>> ELSE labels[i]]
      ELSE Append(labels, <<name, value>>)

\* canonicalKey writes the labels one after the other in the order they have.
Key(i) == IF group = NoGroup THEN file[i].labels ELSE UpsertLabel(file[i].labels, "group", group)

\* The samples an import is about: those before the first "# EOF".
Due == {i \in DOMAIN file : IsSample(i) /\ \A k \in 1 .. i : ~IsEOF(k)}

\* A series of a request.
Entry == [key : {Key(i) : i \in Due}, lines : Seq(Due)]

\* The lines whose samples a request carries.
LinesOf(b) == {i \in DOMAIN file : \E e \in DOMAIN b : \E k \in DOMAIN b[e].lines : b[e].lines[k] = i}
Arrived    == UNION {LinesOf(received[r]) : r \in DOMAIN received}

TypeOK ==
    /\ file \in Files /\ batchSize \in BatchSizes /\ group \in Groups
    /\ handler \in {"new", "added", "tracked", "gone"}
    /\ tracked \in BOOLEAN /\ cancelled \in BOOLEAN /\ failed \in BOOLEAN /\ owed \in BOOLEAN
    /\ status \in {"none", "running", "success", "failed"}
    /\ shown \in [series : Nat, samples : Nat]
    /\ worker \in {"none", "opening", "reading", "sending", "flushing", "ending", "ended", "done"}
    /\ pos \in 1 .. Len(file) + 1
    /\ batch \in Seq(Entry) /\ Len(batch) <= batchSize
    /\ DOMAIN seen = {batch[e].key : e \in DOMAIN batch}
    /\ \A k \in DOMAIN seen : seen[k] \in DOMAIN batch /\ batch[seen[k]].key = k
    /\ series \in Nat /\ samples \in Nat
    /\ received \in Seq(Seq(Entry))

Init ==
    /\ file \in Files /\ batchSize \in BatchSizes /\ group \in Groups
    /\ handler = "new" /\ tracked = FALSE /\ cancelled = FALSE /\ owed = FALSE
    /\ status = "none" /\ shown = [series |-> 0, samples |-> 0]
    /\ worker = "none" /\ failed = FALSE
    /\ pos = 1
    /\ batch = << >> /\ seen = << >> /\ keys = {} /\ series = 0 /\ samples = 0
    /\ received = << >>

-----------------------------------------------------------------------------
(* The run                                                                 *)

\* The upload, or the path, is in place and the run enters the history.  If the
\* history cannot be saved the handler stops there.
HandleImport ==
    /\ handler = "new"
    /\ status' = "running"
    /\ handler' \in {"added", "gone"}
    /\ UNCHANGED <<request, tracked, cancelled, shown, owed, worker, failed, pos, accVars, received>>

TrackRun ==
    /\ handler = "added"
    /\ handler' = "tracked"
    /\ tracked' = TRUE
    /\ UNCHANGED <<request, cancelled, status, shown, owed, worker, failed, pos, accVars, received>>

GoImport ==
    /\ handler = "tracked"
    /\ handler' = "gone"
    /\ worker' = "opening"
    /\ UNCHANGED <<request, tracked, cancelled, status, shown, owed, failed, pos, accVars, received>>

\* The user cancels a run that is in the map.
HandleCancel ==
    /\ tracked
    /\ cancelled' = TRUE
    /\ owed' = (owed \/ ~(Due \subseteq Arrived))
    /\ UNCHANGED <<request, handler, tracked, status, shown, worker, failed, pos, accVars, received>>

\* Import has returned: the outcome goes into the history, with the counts that
\* it has come to.
UpdateRun ==
    /\ worker = "ending"
    /\ worker' = "ended"
    /\ status' = IF failed THEN "failed" ELSE "success"
    /\ shown' = [series |-> series, samples |-> samples]
    /\ UNCHANGED <<request, handler, tracked, cancelled, owed, failed, pos, accVars, received>>

UntrackRun ==
    /\ worker = "ended"
    /\ worker' = "done"
    /\ tracked' = FALSE
    /\ UNCHANGED <<request, handler, cancelled, status, shown, owed, failed, pos, accVars, received>>

-----------------------------------------------------------------------------
(* Import                                                                  *)

Fail == failed' = TRUE /\ worker' = "ending"

\* os.Open and gzip.NewReader.
Open ==
    /\ worker = "opening"
    /\ \/ worker' = "reading" /\ UNCHANGED failed
       \/ Fail
    /\ UNCHANGED <<request, runVars, pos, accVars, received>>

More  == worker = "reading" /\ pos <= Len(file)
AtEnd == pos <= Len(file) => IsEOF(pos)

\* Blank lines, comments and lines without a sample are skipped.
Skip ==
    /\ More /\ ~IsSample(pos) /\ ~IsEOF(pos)
    /\ pos' = pos + 1
    /\ UNCHANGED <<request, runVars, worker, failed, accVars, received>>

\* One series too many.
FullLate(b) == Len(b) > batchSize

\* A batch is sent as soon as it has so many series.
Full(b) == Len(b) >= batchSize

\* A sample goes to its series of the batch, or begins one.
Sample ==
    /\ More /\ IsSample(pos)
    /\ LET k == Key(pos) IN
         /\ keys' = keys \cup {k}
         /\ series' = IF k \in keys THEN series ELSE series + 1
         /\ IF k \in DOMAIN seen
              THEN /\ batch' = [batch EXCEPT ![seen[k]].lines = Append(@, pos)]
                   /\ UNCHANGED seen
              ELSE /\ batch' = Append(batch, [key |-> k, lines |-> <<pos>>])
                   /\ seen' = [q \in DOMAIN seen \cup {k} |->
                                  IF q = k THEN Len(batch) + 1 ELSE seen[q]]
    /\ samples' = samples + 1
    /\ pos' = pos + 1
    /\ worker' = IF Full(batch') THEN "sending" ELSE "reading"
    /\ UNCHANGED <<request, runVars, failed, received>>

\* The end of the input; a batch that is not full is forgotten.
EndUnsent ==
    /\ worker = "reading"
    /\ AtEnd
    /\ worker' = "ending"
    /\ UNCHANGED <<request, runVars, failed, pos, accVars, received>>

\* "# EOF", or the end of a file without one: what is left has to be sent.
End ==
    /\ worker = "reading"
    /\ AtEnd
    /\ worker' = IF batch = << >> THEN "ending" ELSE "flushing"
    /\ UNCHANGED <<request, runVars, failed, pos, accVars, received>>

\* The file is cut off within its compressed data, or a line is too long.
ScanFails ==
    /\ worker = "reading"
    /\ Fail
    /\ UNCHANGED <<request, runVars, pos, accVars, received>>

Sending == worker \in {"sending", "flushing"}

\* The context is forgotten.
SendRegardless ==
    /\ Sending
    /\ received' = Append(received, batch)
    /\ batch' = << >> /\ seen' = << >>
    /\ worker' = IF worker = "sending" THEN "reading" ELSE "ending"
    /\ UNCHANGED <<request, runVars, failed, pos, keys, series, samples>>

\* The target takes the batch, and the next one begins.  With its context done a
\* request is not sent.
Send ==
    /\ Sending /\ ~cancelled
    /\ received' = Append(received, batch)
    /\ batch' = << >> /\ seen' = << >>
    /\ worker' = IF worker = "sending" THEN "reading" ELSE "ending"
    /\ UNCHANGED <<request, runVars, failed, pos, keys, series, samples>>

\* The batch is lost, and reading goes on.
SendSkips ==
    /\ Sending
    /\ batch' = << >> /\ seen' = << >>
    /\ worker' = IF worker = "sending" THEN "reading" ELSE "ending"
    /\ UNCHANGED <<request, runVars, failed, pos, keys, series, samples, received>>

\* The request fails, is refused or cut off; it may have reached the target.
SendFails ==
    /\ Sending
    /\ \/ UNCHANGED received
       \/ ~cancelled /\ received' = Append(received, batch)
    /\ Fail
    /\ UNCHANGED <<request, runVars, pos, accVars>>

Next ==
    \/ HandleImport \/ TrackRun \/ GoImport \/ HandleCancel
    \/ Open \/ Skip \/ Sample \/ End \/ ScanFails \/ Send \/ SendFails
    \/ UpdateRun \/ UntrackRun

Spec == Init /\ [][Next]_vars

-----------------------------------------------------------------------------
(* What an import promises                                                 *)

\* What has reached the target are the samples up to a point of the file, however
\* the import ends: none is left out in the middle.
ReceivedIsPrefix ==
    Arrived \subseteq Due /\ \A i \in Due, j \in Arrived : i < j => i \in Arrived

\* A successful import has sent every sample, and says how many and of how many
\* series.
SuccessIsComplete ==
    status = "success" =>
        /\ Arrived = Due
        /\ shown.samples = Cardinality(Due)
        /\ shown.series = Cardinality({Key(i) : i \in Due})

\* An import that is cancelled with samples still to be sent is never a success.
CancelHonoured == owed => status # "success"

\* Where each sample arrived: request, series, sample.
Places ==
    UNION {UNION {{<<r, e, k>> : k \in DOMAIN received[r][e].lines} :
                  e \in DOMAIN received[r]} : r \in DOMAIN received}
LineAt(p) == received[p[1]][p[2]].lines[p[3]]
KeyAt(p)  == received[p[1]][p[2]].key
Earlier(p, q) ==
    p[1] < q[1] \/ (p[1] = q[1] /\ (p[2] < q[2] \/ (p[2] = q[2] /\ p[3] < q[3])))

\* What tells a series from others, without the group if that is replaced.
Identity(i) ==
    {l \in {file[i].labels[n] : n \in DOMAIN file[i].labels} : group = NoGroup \/ l[1] # "group"}

\* The file has the samples of each series in the order of time, and the override
\* makes no two series one.
Orderly ==
    \A i, j \in Due :
        /\ Identity(i) = Identity(j) => file[i].labels = file[j].labels
        /\ Identity(i) = Identity(j) /\ i < j => file[i].time < file[j].time

\* "one series and its samples (already sorted by ts asc)" (protowrite.go): from an
\* orderly file the target gets each series under a key of its own, once in a
\* request, and its samples once each and in the order of time.
SeriesInOrder ==
    Orderly =>
        \A p, q \in Places :
            /\ Identity(LineAt(p)) = Identity(LineAt(q)) <=> KeyAt(p) = KeyAt(q)
            /\ KeyAt(p) = KeyAt(q) /\ p[1] = q[1] => p[2] = q[2]
            /\ KeyAt(p) = KeyAt(q) /\ Earlier(p, q) => file[LineAt(p)].time < file[LineAt(q)].time
=============================================================================
