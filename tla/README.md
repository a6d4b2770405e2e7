# Verification of ssv-prom-exporter

TLA+ models of the concurrent and failure-prone parts of this repository, TLC
configurations that model-check them on small instances, and theorems that
TLAPS proves for every value of the constants. Paths below are relative to the
repository; every definition's source lines are in `PROJECT.json` under `map`.

- [The system](#the-system): components, state, operations, what is hard
- [The modules](#the-modules): how state and actions correspond to the code
- [The runs](#the-runs): what each shows, bounds, fairness
- [The theorems](#the-theorems): what is proved, along which argument
- [Findings](#findings) and [other differences](#other-differences-between-code-and-documentation)
- [Assumptions](#assumptions) and [what is not modelled](#what-is-not-modelled)

## The system

The repository builds two programs.

**ssv-prom-exporter** answers each Prometheus scrape of `/metrics` by querying
the REST API of a DataCore SANsymphony (SSV) server group. Three collectors run
concurrently in every scrape; the performance collector adds a pool of workers.
All of them share one `ssv.Client`.

**prom-clip** is a small web application that exports a time window of a
Prometheus server to a gzipped OpenMetrics file, in the background, and imports
such a file by remote write.

| component | code | state | operations | modules |
|---|---|---|---|---|
| session client | `internal/ssv/client.go` | token and mutex per endpoint; SSV's sessions | `getOne`, `doGet`, `ensureToken`, `openSession`, `invalidateToken`, `closeSession`, `Close` | `Session`, which implements `SingleFlight` |
| endpoint failover | `internal/ssv/client.go` | endpoint list, preferred index and its time stamp | `GetRaw`, `tryAllEndpoints`, `tryOrder`, `markPreferred`, `SetBackups` | `Failover` |
| the client as a whole | `internal/ssv/client.go` | the endpoint objects behind the list, their tokens and sessions | all of the above | `SsvClient`, which implements `Failover`, and `SingleFlight` for each object |
| scrape and collectors | `internal/collectors/*.go` | a mutex per collector, the worker pool and failure count of each scrape | `Collect`, the three `CollectMetrics` | `Scrape` |
| export runs | `internal/promclip/{server,state,export,prune}.go`, `cmd/prom-clip/main.go` | run history and state file, map of cancel functions, goroutines, output files | `handleExport`, `handleCancel`, `runExport`, `Export`, `AddRun`, `UpdateRun`, `PruneExports`, `handleDownload`, restart | `ExportJobs` |
| import runs | `internal/promclip/{import,protowrite,server}.go` | the batch and its index, the counts, samples in the target | `handleImport`, `runImport`, `Import`, `upsertLabel`, `handleCancel` | `Import` |
| starting and installing | `cmd/ssv-prom-exporter/main.go`, `internal/config`, `internal/svc` | settings and where they come from; the SCM's service and the event source | `flag.Parse`, `config.Load`, `mergeConfig`, the modes, `Install`, `Uninstall` | `Startup` |
| serving and stopping | `cmd/ssv-prom-exporter/main.go`, `internal/svc` | HTTP server, context, `runErr`, service status | `Execute`, `runFn`, `serveExporter`, `Close` | `Service` |
| decoding, formatting, S3, file browser, CLI | `types.go`, `dotnetdate.go`, `util.go`, `protowrite.go`, `promclient.go`, `store.go`, `fsbrowse.go`, `cli.go` | none | | not modelled |

### How they interact

- A collector calls `Client.GetRaw`; `GetRaw` walks a snapshot of the endpoint
  list and calls `getOne` on one endpoint after the other; `getOne` needs a
  session of that endpoint. `Failover` takes one `getOne` for one step with an
  outcome, and `Session` has what happens inside it.
- The inventory collector calls `SetBackups` with what `/servers` answered while
  the other collectors' calls are half-way through a walk of the old list.
- Each HTTP request for `/metrics` is a scrape of its own, so scrapes overlap;
  they meet at the mutexes of the inventory and health collectors and in the
  failover list.
- `Close` runs at the end of the process. The HTTP server's `Shutdown` has a
  shorter time limit than a scrape, so `Close` may run with calls in flight:
  `Service` has that order of events and what the process leaves on SSV, `Session`
  what `Close` does to one endpoint under the calls' hands, `SsvClient` what a
  `Close` without calls in flight leaves.
- `-install` bakes arguments into the SCM, which a later process is started
  with, in another environment.
- prom-clip's handlers start goroutines that outlive the request; they share
  the history (`State.mu`), the cancel map (`Server.mu`) and the output
  directory (nobody's lock). The end of the process waits for none of them.

### What is hard, and what makes each component correct

**Session client.** SSV drops sessions at will, and every goroutine keeps its
own copy of the token while it sends a GET. Between the refusal of a token and
`invalidateToken` another goroutine may have replaced it; `Close` takes tokens
away under the goroutines' hands; the mutex is held over a network round trip.
Correct means: one `OpenSession` at a time per endpoint, all goroutines share
the session, a retry never sends the token that was just refused, nobody picks
up a token that is being closed, and every call comes back.

**Failover.** Indices into a snapshot outlive the list they were made for;
deadlines race the backoff timer; the preferred endpoint has a time to live.
Correct means: the index stays in the list, a failed walk tried everything, a
call stops soon after its context ends, and the walk starts where the last
answer came from.

**Scrapes.** The inventory's answers are applied by `SetBackups` long after they
were asked for, and another scrape may have asked in the meantime; lookups fail
one by one, and what depends on two of them is decided when one is missing;
workers send on a channel that is closed after the scrape. Correct means: an
older answer never replaces the failover list, a successful inventory leaves no
server of another group in it, `ssv_up` 1 means that no call failed unseen, no
worker is left behind, and every scrape ends.

**Export runs.** The history is trimmed and saved while runs it drops are still
at work, saves may fail, cancellation can come at any point, two runs can write
to one path, pruning removes files others are writing, a download in ephemeral
mode removes the file, and a crash leaves what the last save wrote. Correct
means: the cancel button reaches whatever is at work, nothing is shown as
running with nobody at work, a run cancelled while its loop has yet to look at
the context never becomes a success, a success that had its file to itself
points to a complete one, only a restart undoes an outcome, and every run ends
that an answer lets end.

**Import runs.** Batches leave while the file is still being read, so whatever
fails in the middle leaves the earlier ones in the target, where they stay; the
index of the batch's series is only good for the present batch; the context is
looked at by nothing but the requests. Correct means: what the target has is the
file up to some point, a success is all of it and is counted right, a cancelled
import is no success as long as something had to be sent, and no series gets its
samples out of order.

**The client as a whole.** `SetBackups` replaces the list after every inventory,
under the hands of calls that hold pointers to the objects of an older one.
Correct means: a pair that stays keeps its object and thereby its session, an
answer that repeats addresses or names the primary yields a proper list, and
what `Close` leaves is only what `SetBackups` dropped, what a stale answer took
from the cache, and what a lost message left behind.

**Starting, serving, stopping.** A setting has four sources and one process
bakes the arguments of another; installing is two steps that can fail apart. A
stop, a failing listener, the scrapes in flight and `Shutdown`'s time limit come
in any order. Correct means: the service runs with what the operator picked,
never without its event source, never as an installer; a stop ends the process,
the exit code tells why it ended, and a session left behind has one of a few
named reasons.

`PROJECT.json` lists the hazards one by one with the line where each bites and
the properties that cover it, or the reason why none does.

## The modules

### Session (`MCSession`, `SessionProofs`)

One endpoint. `mu` and `token` are the endpoint's fields; `pc`, `tok`, `retry`
and `refused` are the locals of each goroutine inside `getOne`; `closer` and
`closeTok` those of `Close`; `issued` and `live` are SSV's side. Tokens are
numbered in the order in which SSV issues them and 0 is the empty token.

`ensureToken` is `UseCachedToken`, or `StartOpen` followed by one of `Opened`,
`OpenFails`, `OpenDenied` and `OpenAnswerLost`: the mutex is held from the
request to the answer, so every other step that needs it waits. `doGet`'s answer
is `GetReturns` or `GetStale`; `InvalidateToken` empties the cache whatever it
holds, as the code does. `MayClose` lets `Close` run at any moment, or, with
`DrainFirst`, only between calls as after a clean shutdown. `Fault` selects what
SSV may do: drop a session, deny an open with 401, lose an answer to an open or
to a close.

`SingleFlight` is what that amounts to for the callers, with no mutex, server or
program counter: one current token, at most one request for another, no token
that comes back, and a call that sends at most two tokens, never one twice.
`SF` in `Session` maps the state to it (`SentTokens` is what a goroutine has
sent in its present call), and `SingleFlightSpec` is checked and proved.

`asked` (the sessions `Close` took), `disturbed` (something happened to a
session) are history variables, used by properties only.

### Failover (`MCFailover`, `FailoverProofs`)

`endpoints`, `preferred` and `age` are the client's fields, `eps`, `start`,
`tried`, `attempt` and `ctx` the locals of each call, `panicked` the end
of the process by an index out of range. `TryOrder` takes the snapshot under the
mutex, `Fails` and `Answers` are the two ways a `getOne` ends, `Answers`
includes `markPreferred` with the index of the snapshot, and `GiveUp`, `Retry`
and `Cancelled` are the branches of `GetRaw`'s loop. A context that ends while
the call waits to retry is `"racing"`: both channels of the `select` may be
ready and Go takes either, so one more walk is possible; a context that ended
before the wait began makes the timer lose, as the timer has not fired yet.

Indices count from 1. `late` counts the walks a call began with its context
done; `answered` and `reshaped` remember which endpoint answered last as long as
`SetBackups` only appended.

### SsvClient (`MCSsvClient`, `SsvClientProofs`)

`Failover`'s variables, and behind the list the objects: `object` and `snapshot`
are the pointers of the list and of each call's copy, `pair` the
`(baseURL, serverHost)` of an object, `token` its token. `step` is where a call
is in `getOne`, `tok` its copy of the token, `retry` that it is in the second
`doGet`. Sessions are numbered as SSV issues them; `owner` is the object each
was issued to and `live` those that still exist. Every action is a step of
`Failover` with its effect on the objects (`Walk`, `OpenIsLost`, `Fails`,
`GetAnswered`, `WalkOver`, `Passes`, `SetBackups`), or one inside a `getOne` or
of SSV (`UseToken`, `Open`, `Opened`, `IsStale`, `InvalidateToken`, `Expire`),
which `Failover` does not see; so `FailoverSpec` says that the objects, and
`SetBackups`' choice out of an answer of `/servers`, are a refinement.
`Backups` is that choice, `Pick` the closure of that name.

`IsStale` is the answer that makes `getOne` call `invalidateToken`: the session
the GET used is gone, or `OpenSession` was answered 401. `InvalidateToken` drops
whatever token the object has by then, as `client.go:507-513` does, and remembers
its session in `cleared`; `lost` are the sessions whose `OpenSession` answer or
`CloseSession` did not arrive. `dropped` remembers the pairs that were ever taken
off the list. `Close` comes once and with no call in flight; it may lose any of
its requests.

### Scrape (`MCScrape`, `ScrapeProofs`)

`pc[s][c]` is where collector `c` of scrape `s` is and `ok[s][c]` what it will
report; `holder` are the mutexes of the inventory and health collectors. The
inventory's locals are `groupsOk`, `serversOk` and `listed`; `jobs`, `todo`,
`calling`, `leaving`, `sem`, `answered` and `failures` are those of the
performance collector and its goroutines. What an answer holds is left out: an
empty snapshot (`client.go:717`) and a missing counter (`performance.go:341`)
count as answered, as in the code, so `UpIsHonest` promises that no call failed
unseen and not that any series is there. `backups` is the last argument of
`SetBackups`, in servers instead of addresses. `now` and `Timeline` are SSV's
side: the lists of servers it has one after the other; `asOf` and `backupsAt`
remember which of them an answer is.

`ServerGroups` and `Servers` are the two lookups whose outcomes and order the
properties tell apart; `Rest` is the remaining six, the group filter,
`SetBackups` and the emitted series. A lookup that fails may still have decoded
a list (`Get` returns both), and the code then emits it. `Lookup` or
`LookupFails` are the performance collector's first seven requests, `Dispatch`
takes a slot and starts a goroutine, which `Answers` or `Fails`, and leaves with
its deferred function (`Leave`). `FanEnds` is `wg.Wait` and the result.

### ExportJobs (`MCExportJobs`, `ExportJobsProofs`)

`hist`, `shown`, `out` are `State.Runs`, `saved` is the state file, `running` is
`Server.running`. `handler` is the progress of `handleExport` for each run,
`worker` the progress of its goroutine, `fd` the file it has open. A file is
described by the runs whose data it holds (`writers`) and the runs whose
`# EOF` it holds (`eof`); `files` orders the paths by modification time.

`HandleExport` (with `AddRun` and the save), `TrackRun` and `GoExport` are the
three steps of the handler; `ListFails`, `CreateFile`, `Query`, `Answered`,
`Abort` and `Finish` are `Export`; `Uploaded` (the upload to S3, for runs that
ask for it), `UpdateRun`, `ListVictims`, `RemoveVictim` and `Untrack` are the
rest of `runExport`. A round of the export loop is two steps: `Query` looks at
the context and sends the query, `Answered` is its answer or its failure, after
which the metric is skipped. A cancel can come between the two: in the last
round it only makes the query fail, and `Finish` follows. What is written to the
buffered writer may or may not have reached the file, so a round may leave the
file as it is. `Restart` is the end of the process, by a signal or
a crash, at any point, with the next start's `LoadState` and its listing of the
files to prune; `startup` are those it has yet to remove (`PruneAtStart`), each
removal being a step that may fail, and the server listens only after them.

`CreateFile` empties a file another run may have open. That run goes on writing
behind a hole, into a file that then belongs to neither: `sole` is the run that
created the file if nobody else has had it open since, and empty when two did.

`doomed` remembers the runs cancelled with a look at the context ahead
(`ChecksAhead`), and `overlapped` whether two exports were at work at the same
time. `Waiting` is a run whose goroutine waits for Prometheus or S3, uncancelled.

### Import (`MCImport`, `ImportProofs`)

One import run. `file`, `batchSize` and `group` are the request; `handler`,
`tracked`, `cancelled`, `status` and `shown` are what `server.go` keeps of the
run; `worker` is the progress of its goroutine and `pos`, `batch`, `seen`,
`keys`, `series`, `samples` are the locals of `Import`. A line is its kind, its
labels in the order they are written, and its time; a series of the batch has
its key and the numbers of its lines instead of the samples. `received` are the
requests that reached the target.

`HandleImport`, `TrackRun` and `GoImport` are the steps of the handler, which
stops after the first if the history cannot be saved. `Skip` and `Sample` are
rounds of the scanner's loop, `End` its end (the `# EOF`, or the end of a file
without one), `ScanFails` an error of the scanner. `Send` and `SendFails` are the
two ways a request ends, in the middle of the loop (`"sending"`) or after it
(`"flushing"`). A request that fails may have reached the target all the same.
`owed` remembers that the run was cancelled with samples still to be sent.

The other runs of the history and its file are in `ExportJobs`: an import takes
part in them as an export does that leaves no file.

### Startup (`MCStartup`, `StartupProofs`)

Processes of the exporter, one after the other. `Launch` is an operator's start
with any flags, modes and environment, `ServiceStarts` the SCM's, with the
arguments in `baked` and an environment of its own. A setting is described by
where its value comes from: `Parsed` is `flag.Parse` over the environment's
defaults, `Merge` is `mergeConfig` (`Overridden` its closure), `LoadFails` a file
that is missing or does not parse. Then the modes in the order in which `main`
looks at them. `service` and `source` are what `CreateService`,
`SourceRegistered`, `RollBack`, `DeleteService` and `RemoveSource` make of the
SCM and of the registry; each may fail. `picked` is what the process that
installed ran with, `torn` that a roll back failed.

### Service (`MCService`, `ServiceProofs`)

One serving process. `handler`, `scm` are `Execute`'s progress and the status
it reported; `ctx`, `run`, `result`, `received` are the context, `runFn`'s
progress and result, and whether `runErr` was received from; `listener` and
`active` are the HTTP server. `listed` and `token` are the client's endpoint
objects and their tokens, `live` SSV's sessions, and `call` is where each scrape
is with its GET: it looks for a token (`UsesToken`, `OpensSession`,
`OpenIsLost`, `OpenFails`), sends it, may be told that its session is gone
(`GetIsStale`), drops the cached token, be it the refused one or not
(`InvalidateToken`), and tries once more. `SetBackups` keeps, drops and makes
endpoint objects. `lost` and `dropped` remember the sessions that had a message
lost, and those whose token was taken from the cache by a stale answer to
another. On the console `Signal` stands for the SCM's `StopControl`, and the
process exits when `runFn` returns. The branches of `Execute`'s `select` are
`HandleStop` and `HandleRunErr`; after an error `HandleRunErr` reports Stopped,
and only `ReturnError` cancels the context and returns the exit code 1. The
branches of `serveExporter`'s `select` are `ServeErr` and `BeginShutdown`. When
both branches of a `select` are ready, either is taken. `ShutdownGivesUp` is the
ten seconds running out, which may happen whenever a scrape is in flight.

Definitions whose comments describe a mistake (`OrderToEnd`,
`AbortAsDone`, ...) are used by no action. Each is what a definition beside it
would be after a plausible slip, and `PROJECT.json` names the property that
catches it.

## The runs

| run | result | shows |
|---|---|---|
| `session` | passes | two goroutines and `Close` with every fault: the endpoint implements `SingleFlight`, nobody picks up a token being closed, and each call returns |
| `session_close` | violation | `CloseEndsEverySession`: a session is leaked when two calls are refused together |
| `failover` | passes | two calls, lists that grow and shrink, deadlines, TTL |
| `failover_index` | violation | `PreferredNamesEndpoint`: an index outside the list, a panic |
| `ssv_client` | passes | the objects behind the list while a backup leaves and comes back and SSV denies, drops or loses a session: a refinement of `Failover`, sessions that are kept, and what `Close` leaves |
| `scrape` | passes | two overlapping scrapes, every lookup may fail, a server of another group appears |
| `export_jobs` | passes | two exports with failing saves and writes, cancellation at every point, downloads, pruning, uploads and queries that may never end, a restart |
| `export_prune` | violation | `PruneKeeps`: concurrent sweeps remove each other's newest file |
| `import` | passes | files in and out of order, with every failure and cancellation, with and without the override |
| `startup` | passes | any sequence of starts, installs, uninstalls and starts by the SCM |
| `config_precedence` | violation | `EnvOutranksFile`: the file replaces a value from the environment |
| `service` | passes | stops, a failing listener, scrapes with stale sessions and refreshes of the list, a `Shutdown` that gives up, lost messages; under the SCM and on the console |

### Bounds and why they are enough

- `session`: two goroutines and three sessions. Every property speaks of one or
  two goroutines and the mutex; three sessions are one to be refused, one opened
  by the retry, and one opened after that one is dropped or closed. When SSV has
  issued all three, opens still fail or are denied, so calls still return.
- `failover`: the lists `<<b1>>` and `<<b1, b2>>` beside the primary alone are
  the least in which a list grows, shrinks, and wraps in the middle. Two retries
  give a first, a middle and a last attempt. `TTL = 1` makes an index young or
  expired.
- `ssv_client`: a backup that leaves and comes back is one object more, so the
  three of `MaxObjects` are the primary's and two of the same pair. The answers
  repeat the backup and name the primary and an unusable address. Two sessions
  are one to be dropped and the one opened in its place, or one for each of two
  objects; when both are issued, opens only fail. One fault (`MaxFaults`) is a
  denied open, a session that ends by itself, or a lost answer: each sends calls
  through the stale path or leaves a session nobody knows, and two calls that are
  refused together need one session to end. A walk on which every endpoint failed
  is repeated in `failover`, so `Retries` is 0 here. The calls are alike, hence
  the symmetry; no property of this run is liveness. The calls have no bound;
  after `Close` or a panic nothing goes on, so the run does not look for
  deadlocks.
- `scrape`: two scrapes are enough to queue at a mutex and to disagree about the
  list, which changes once. Three jobs for two workers are one too many, so the
  dispatching loop waits. Scrapes repeat without limit. A behaviour has the two
  collectors with a mutex, or the one with workers (`MCRegistered`), although
  the program registers all three: within a scrape these two sides share only
  the wait for their end, and their product is needlessly large. The proofs are
  for any subset, the full set included.
- `export_jobs`: `MaxRuns = 1` makes the second run push the first out of the
  history while that may be in any state; `Keep = 1` makes two files one too
  many; `Metrics = 1` has a round to cancel before and after. Two paths are one
  to share and one apart. The first run always takes path `a`: exchanging `a`
  and `b` maps behaviours to behaviours, so nothing is lost. One restart comes
  at every point, and runs may begin after it. Runs are never reused, readers
  and runs come to an end, so this run and its violation runs do not look for
  deadlocks; neither do the failover runs, where a panic ends the process.

- `import`: five files of at most six lines and three series: as `Export` writes
  them, mixed, without the `# EOF`, with samples after it, without samples, and
  with series that only their groups tell apart. Batches of one, two and three
  series end in the middle, at the end, and never before it. One import comes to
  an end, so the run does not look for deadlocks.

- `startup`: two settings, one required and with an environment variable as
  `-url` has, the other `-listen`, without one. All settings are treated alike,
  so a property that speaks of one setting needs no more. Processes follow one
  another without bound, hence every history of installs.
- `service`: two scrapes, so that one can end and another be given up on, and
  one's stale answer can take the token of the other. They may start and end
  without bound. The primary's session may be replaced once while the first is
  still there, and a backup with a session of its own comes and goes. Identities
  of sessions are used again when nothing is left of them, so sessions open
  without bound as well.

The sizes go from a few hundred to 800 000 distinct states, the longest runs
take two minutes.

### Fairness

- `Session`: every request is answered, or times out (`http.Client.Timeout`),
  hence weak fairness of the answers. `TakesMutex` has strong fairness: a
  `sync.Mutex` hands itself over in starvation mode to a goroutine that waited
  more than a millisecond. Nothing is assumed of SSV's faults or of new calls.
- `Failover`: `getOne` ends and the backoff ends, hence weak fairness of both.
- `Scrape`: the goroutines of a scrape go on and its lookups end, by the 30 s
  deadline of `Collect` at the latest: weak fairness. `Begin` has strong
  fairness, for the reason given for `Session`'s mutex: without it a scrape
  could wait for ever behind scrapes that come later. Nothing is assumed of new
  scrapes.
- `Import` states no liveness: the goroutine never waits for anybody but the
  target, whose requests time out after two minutes.
- `Service`: the goroutines go on and `Shutdown` waits no longer than its time
  limit: weak fairness of the starts, of the handler, of the exit and of
  `serveExporter` and `runFn`. No scrape has to end, no listener to fail and
  nobody to ask for a stop; `EndsWhenAsked` holds all the same.
- `SsvClient` and `Startup` state no liveness: the former's is `Session`'s and
  `Failover`'s, the latter has no loop.
- `ExportJobs`: a goroutine that can run does. Its requests need not end: the
  context has no deadline (`server.go:357`), only the header of an answer has a
  timeout (`promclient.go:57`), and neither the rest of it nor the upload
  (`store.go:58`) does. So fairness is of steps outside `Waiting`, and
  `EveryRunEnds` is about runs that are not left in it for ever; a cancel gets
  them out of it, as every request has the run's context. No fairness for the
  user, the browser, or the restart.

## The theorems

`tlapm` checks `SessionProofs`, `FailoverProofs`, `SsvClientProofs`,
`ScrapeProofs`, `ExportJobsProofs`, `ImportProofs`, `StartupProofs` and
`ServiceProofs` completely. The constants are arbitrary, up to the named
`ASSUME`s of the modules: any set of goroutines, sessions, endpoint lists,
addresses, retries, TTL, scrapes, servers, workers, runs, paths, metrics,
history length, pruning limit, restarts, input files, batch sizes, overrides,
settings.

**Session.** `TypeCorrect`, `SingleOpen`, `FreshRetry`, `ClosedTokenGone`,
`OneSession`, `ImplementsSingleFlight`. The invariant adds to the properties that
the mutex is held exactly by the goroutine that is opening, and then no token is cached
(`MutexInv`); that a goroutine about to retry finds an empty cache or another
token than the one it was refused (`RetryInv`); and that while nothing happened
to a session, the only one SSV has is the cached one and nobody is about to drop
it (`SharedInv`). The second is what makes the retry fresh: a token is never
issued twice, so a cache that was emptied once after the refusal cannot hold it
again, whoever fills it. `ImplementsSingleFlight` maps each action to one of
`SingleFlight` or to a stutter; its steps use that invariant, `RetryInv` above
all, since a caller of `SingleFlight` cannot send a token twice.

**Failover.** `TypeCorrect`, `PreferredInRange`, `ExhaustiveWalk`, `SafeGrowth`,
`DeadlineHonoured`, `Stickiness`. `OrderCovers` is the arithmetic of the
wrap-around: for every start and length each index is reached. `SafeGrowth`
needs that every snapshot in use is a prefix of the list while lists only grow;
`DeadlineHonoured` that a late walk runs with a context that is done, not
racing, so that no second one follows.

**SsvClient.** `ImplementsFailover`, `ClientFailsOver`, `ClientSticks`,
`TypeCorrect`, `OneSessionPerKeptPair`, `SingleOpenPerTarget`, `CloseIsThorough`,
`ObjectsAreSingleFlights`.
For the refinement each action is a
step of `Failover` by its form, but for `SetBackups`: that an injective sequence
of the answer's addresses without the primary is one of `BackupLists` is where
`Backups` and the assumptions on addresses are needed. `FP` is `FailoverProofs`
instantiated with the client's variables and `BackupLists`; its assumption on
the backup lists is a lemma here (`BackupsTyped`), so `Failover`'s theorems are
the client's: the four invariants in `ClientFailsOver`, the stickiness in
`ClientSticks`, the walks' types in `TypeCorrect`, to which the invariant adds
that the endpoints of a list or snapshot are the pairs of its objects
(`LinkInv`, `SnapshotOf`: the pair of an object that is allocated never
changes). For the others the
invariant says that the list and the snapshots hold allocated objects of the
pairs `Failover` sees; that two objects of one pair can be only if the pair was
dropped; that an object that is not of the list has a dropped pair; and that an
existing session either is the one its object's token is of, or was dropped after
a stale answer or lost. So `Close`, that sees the tokens of the list alone,
misses no other. `Flight(o)` maps the
state to `SingleFlight` for one object, with the sessions issued to it: a call
that enters or leaves an object changes nothing for the callers of another, and
the pointers it uses are its snapshot's, so a `SetBackups` is a stutter. A
`getOne` that retries after a stale answer counts as a second call of it. A panic
ends all calls at once and is no step of `SingleFlight`, hence the condition
that the process runs, which `GrowthIsSafe` gives while lists only grow.

**Scrape.** `TypeCorrect`, `NoWorkerLeft`, `HonestUp`, `ListMovesOn`,
`NobodyWaitsInVain`. The
invariant adds: `PoolOf`, the slots taken are as many as the goroutines that
have begun and not left, and unless one failed every job is waiting, in flight
or answered, so that at the end `ssv_up` 1 hides no failed call; `MutexOf`, whoever is
past the mutex holds it and has an answer no older than the failover list,
which is why the list moves on only; `Absent`, a collector that is not
registered does nothing. The count of slots is a cardinality, hence the library's
theorems on finite sets. `NobodyWaitsInVain` is what `EveryScrapeEnds` rests on,
for any number of scrapes and workers: `Held`, a mutex is held only by a
collector that is asking SSV under it, so no return keeps it, and `PoolMoves`,
whoever waits for a slot or for the group waits for goroutines that are there.

**ExportJobs.** `TypeCorrect`, `Cancellable`, `NobodyForgotten`,
`CancelIsFinal`, `WholeSuccess`, `FinalOutcome`, `PruningKeeps`. The invariant
(`IInv`) has four strengthenings: `Flow`, a goroutine works only for a tracked run and histories, in memory and in
the file, hold only runs that have begun; `Open`, before `runExport` records an
outcome neither history has one; `Doom`, a doomed run that is still exporting
has its context cancelled and a look at it ahead, so it cannot reach the end of
the loop; `Whole`, a run that is alone with the file it created (`sole`) is the
only one to have it open and data in it, and without its end there it is still
writing or has failed, in memory and in the file. The state file has to be
part of each of them, since a restart makes it the memory. Two more invariants
stand on it (`LimitsKept`): `Limits`, the lists stay within their lengths and
the directory lists no path twice; and `Sweeps`, as long as no two exports were
at work at once, whatever a sweep still has to remove is older than the files to
keep, because a sweep is then alone and nobody writes between its listing and
its last removal. At the start of a process that holds without a condition:
no export begins before the pruning is over.

**Import.** `TypeCorrect`, `PrefixSent`, `WholeImport`, `CancelIsFinal`,
`SamplesInOrder`. The
invariant adds: `Control`, a run that has not failed and is past its loop has
read every sample before the `# EOF`, and has nothing left in the batch once it
ends; `Exact`, as long as nothing failed, what has been read has arrived or is in
the batch; `Counts`, the two counts are cardinalities of what has been read;
`Owing`, a run that owes samples stays cancelled and short of them, because a
cancelled run sends nothing. `Exact` speaks of runs that have not failed only: a
request that failed may or may not have arrived, and either way what arrived
remains a prefix. `OrderKept` is another invariant (`Order`), of any
file: the batch and each request have an entry per key, with the lines of that
key in the order of the file; a request's lines come before those of later
requests and, until something fails, of the batch. In the files `SeriesInOrder`
is about a key stands for a series, the override included (`KeysIdentify`), and
a later line has a later time.

**Startup.** `TypeCorrect`, `StartsAsInstalled`, `OnlyServes`, `NoHalfInstall`.
The invariant ties `baked` to `picked`: the flags baked are exactly the settings
the installer had from the command line, no mode among them, and `-config` is
there if the installer had it; and after parsing, a value is from the command
line exactly if its flag was given, which `Merge` keeps.

**Service.** `TypeCorrect`, `SessionsClosed`, `ExitCode`, `StoppedAfterRun`,
`NoSecondReceive`. The invariant says what each stage of `runFn` has settled:
`serveExporter` returns nil only when the context was cancelled, so `Execute`
never takes a nil result in its loop and its second receive always has something
to wait for; once the server is closed with no scrape in flight none can start,
so what `Close` takes are the last tokens there are. Of a session the invariant
(`SessionInv`) says that it is the one cached by its endpoint, or has one of the
reasons `NoSessionLeft` names: the endpoint is off the list, its token was
dropped, a message was lost. After `Close` only the reasons are left.

Only model-checked: the liveness properties (`CallsReturn` twice,
`EveryScrapeEnds`, `EveryRunEnds`, `EndsWhenAsked`), since TLAPS has no proof
rules here for fairness, and the violations, which are single behaviours.
`OrderKept`, `Limits`, `Sweeps`, `Held` and `PoolMoves` were checked
by TLC on the runs' instances before they were proved; no run repeats it.
`UpsertLabel` and `Without` are written as functions, without `SelectSeq` and
`CHOOSE`, so that the provers can compute with them. The other way round,
`OneOpenInFlight`, `RetryWithAnotherToken`, `SharedSession`, `IndexInRange` and
`CancelReaches` are proved for every instance and need no run.

## Findings

1. **A session is leaked** (`session_close`, `client.go:511`). Two calls are
   refused with the same expired token. The first invalidates it and opens
   another; the second then invalidates that one, which it never used, and opens
   a third. `Close` knows only the last. Comparing the token with the refused
   one in `invalidateToken` would do. `CloseEndsKept` and `NoSessionLeft` except
   such sessions by name: they say that nothing else is left.
2. **An index out of range** (`failover_index`, `client.go:423`). A walk that
   began before `SetBackups` shortened the list marks an index the list no
   longer has, and the log line indexes the list with it.
3. **Concurrent sweeps remove the newest files** (`export_prune`,
   `prune.go:58`). Each of two exports that end together finds the other's file
   older; with `-keep-exports=1` none is left.
4. **The file outranks the environment** (`config_precedence`, `main.go:242`).
   `mergeConfig` spares only what was given on the command line. `config.go:8`
   and the comment above `mergeConfig` say that the environment comes first,
   since it "already pre-fills the flag value"; the flag package does not count
   that as set.

## Other differences between code and documentation

Seen while modelling; no run is about them.

- Every answer renews the time stamp of the preferred backup
  (`client.go:409-410` says so), so under steady scrapes the primary is not
  dialled again "after 5 min" (`README.md:554`, `client.go:138-140`).
  `SticksToLastGood` is what does hold: the primary is first once no answer came
  for the length of the TTL.
- An `OpenSession` answer that cannot be decoded is a plain error and therefore
  transient (`client.go:842`), although `client.go:324`, `client.go:353` and
  `DECISIONS.md:186` say that decode failures end the loop.
- When `/serverGroups` fails and `/servers` answers, the servers of federated
  groups enter the failover list until the next successful inventory
  (`inventory.go:203`, `inventory.go:225`); `CHANGELOG.md:65` says the list is
  restricted to local nodes. `BackupsMoveOn` is what does hold.
- `handleDownload` does not ask for a run's status, so a file that is still
  written is served (`server.go:620` speaks of "a successful export"). The pages
  show the link for a success only.
- `Uninstall` does not stop the service (`svc_windows.go:61` says it does); a
  running service is marked for deletion by the SCM. When `eventlog.Remove`
  fails, the source stays, and neither `-uninstall` (no service) nor `-install`
  (a source, hence a roll back) gets past it: `Startup` has the state.
- `-ping` leaves its session to SSV's expiry (`main.go:143`): only `runFn`
  closes.
- `Execute` drops the error of a `Shutdown` that gave up: the service then ends
  with code 0, the console with 1. When `runFn` fails by itself, Stopped is
  reported with exit code 0 before `Execute` returns 1
  (`svc_windows.go:140-142`).
- An export that is cancelled in its last query is a success without that metric
  (`export.go:77-80`), as is any export with failing queries, although
  `export.go:34-36` speaks of all matching series. `CancelHonoured` is what does
  hold of a cancel.
- Two exports that are given one name write to one file: the second empties it
  under the first (`export.go:61`), and both may be recorded as a success.
- An export whose query or upload stalls in the body runs until it is cancelled:
  nothing else ends it (see Fairness).
- An endpoint that `SetBackups` drops takes its token with it (`client.go:263`);
  its session is left to SSV's expiry, although `client.go:300` speaks of every
  active session.

## Assumptions

- Critical sections without I/O are one step; in `Session` the one with I/O is
  not. SSV calls a session stale only when it is gone.
- `Failover` does not look inside `getOne`, and its error kinds are what
  `isTransient` tells apart.
- The SCM sends Stop and Shutdown only to a service that has reported Running,
  and one of them. Interrogate and other controls change nothing and are left
  out.
- When `Accept` fails, `ListenAndServe` returns and connections that are already
  there are served on, as `net/http` does; `serveExporter` then returns without
  a `Shutdown`, and `NoSessionLeft` excepts that case by name.
- `CreateService`, the event source and their removals are one step each, which
  takes effect or fails. There is one service name; `-svc-name` could keep
  several apart, each of them as the one modelled. No process is killed half-way
  through an install.
- A lookup of a collector is one step of `Scrape` with its outcome; what is
  inside is `Failover`'s and `Session`'s. What SSV answers is its list at the
  time of that step.
- A save of the state file is one step: it is written to a temporary file and
  renamed. It may fail as a whole. A crash is that of the process, not of the
  machine, so what was written is not lost afterwards.
- Listing a directory with its modification times is one step of `PruneExports`;
  each removal is another. Any removal may fail. Removing an open file leaves it
  to whoever has it open, as on POSIX; on Windows the removal fails instead,
  which the model allows too.
- A request of an import takes effect at one point, and a cancellation comes
  before it or after it; a request whose context is done before it begins is not
  sent. So the run that is cancelled during its last request, which then
  succeeds, counts as cancelled too late, and is a success.
- `SeriesInOrder` is about files that have each series' samples in order and
  write its labels always alike, and about overrides that make no two series
  one. Otherwise `canonicalKey`, which does not sort, makes two series of one
  label set, or a series of the batch has samples that are not sorted, as
  `protowrite.go:43` says they are; the comment at `import.go:32` warns of it.
- Run ids are unique (`newRunID` is random).

## What is not modelled

- Bytes on the wire, headers, JSON and metric formatting, log output, HTML.
- Lengths of time: backoff delays, timeouts and the TTL are orders of events.
- Which addresses `acceptIP` takes (`-backup-cidrs`, loopback, IPv6): they are
  usable or not, by a constant.
- Values of settings, their syntax, the YAML decoder, and service names.
- A `Close` in `SsvClient` with calls in flight: it is in `Session` for one
  endpoint, and in `Service` for the process.
- The path of the configuration file: `-config` is taken over at installation as
  it was given, so a relative one would name another file when the SCM starts
  the service in a directory of its own.
- Form validation in prom-clip, the settings stored beside the history, exports
  outside the output directory (never pruned or served), what the upload to S3
  does there (a failure does not change an outcome), how an uploaded file is stored,
  the encoding of a remote write.
- More than one import at a time: imports share nothing but the history.
- The stateless components of the table above: typed getters and decoding,
  label formatting, the Prometheus client, the S3 upload, the directory listing
  and the CLI of prom-clip. Each is a function of its input or a single request,
  with no state of its own that an order of events could spoil; where another
  component depends on one, its outcome is a free choice in that module.
- The text of an export and its parsing: escaping is undone by `parseLabelBlock`,
  and a time stamp survives `sec/1000` and `int64(f*1000)` because a double has
  the digits for the dates of now; only dates near a power of two of seconds
  (2004, 2038) would lose a millisecond.
- The Event Log handler: it formats and writes.
