------------------------------- MODULE Scrape -------------------------------
(***************************************************************************)
(* The scrapes of ssv-prom-exporter (internal/collectors): Collect, which  *)
(* runs its children concurrently and waits for them (scrape.go), the      *)
(* inventory and health collectors, each with a mutex over its whole run   *)
(* (inventory.go, health.go), and the performance collector with its pool  *)
(* of workers (performance.go).  Scrapes may overlap: each HTTP request    *)
(* for /metrics is one.  The server group changes while they run.          *)
(*                                                                         *)
(* A lookup is one step with its outcome; modules Failover and Session     *)
(* have what is inside.  Any lookup may fail, at the deadline all do.      *)
(***************************************************************************)
EXTENDS Integers, Sequences

CONSTANTS
    Scrapes,     \* requests for /metrics that may be in progress at a time
    NoScrape,    \* the holder of an unlocked mutex
    Node,        \* servers of all groups
    Timeline,    \* what SSV lists of them, one list after the other
    Local,       \* those of the group flagged OurGroup; all, if none is flagged
    Object,      \* pools, virtual disks, hosts, ports and disks to ask counters of
    Workers,     \* -perf-workers
    Registered   \* the sets of collectors NewScrape may be given

ASSUME ScrapeAssumption == NoScrape \notin Scrapes
ASSUME NodeAssumption   == Timeline \in Seq(SUBSET Node) /\ Len(Timeline) > 0 /\ Local \subseteq Node
ASSUME PoolAssumption   == Workers \in Nat \ {0} /\ Node \cap Object = {}

Child   == {"inventory", "health", "performance"}
Guarded == {"inventory", "health"}
Stage   == {"idle", "lock", "groups", "servers", "rest", "lookup", "fan", "done"}

ASSUME ChildAssumption == Registered \subseteq SUBSET Child

VARIABLES
    children,   \* Scrape.children
    now,        \* SSV: the list in force
    holder,     \* who holds Inventory.mu and Health.mu
    pc,         \* where each child of each scrape is
    ok,         \* each child's result so far
    groupsOk,   \* inventory: gerr == nil
    serversOk,  \* inventory: serr == nil
    listed,     \* inventory: servers, as Servers returned them
    asOf,       \* inventory: when that was
    shown,      \* inventory: servers the scrape has emitted series of
    backups,    \* the servers the failover list was last made of
    backupsAt,  \* history: when /servers listed them
    jobs,       \* performance: what the scrape asks counters of
    todo,       \* performance: jobs that have not begun
    calling,    \* performance: jobs whose call is in flight
    leaving,    \* performance: goroutines with nothing left but to leave
    sem,        \* performance: slots of the pool that are taken
    answered,   \* performance: jobs whose call was answered
    failures    \* performance: jobs that failed

invVars  == <<groupsOk, serversOk, listed, asOf, shown>>
listVars == <<backups, backupsAt>>
perfVars == <<jobs, todo, calling, leaving, sem, answered, failures>>
vars == <<children, now, holder, pc, ok, invVars, listVars, perfVars>>

TypeOK ==
    /\ children \subseteq Child
    /\ now \in 1 .. Len(Timeline)
    /\ holder \in [Guarded -> Scrapes \cup {NoScrape}]
    /\ pc \in [Scrapes -> [Child -> Stage]]
    /\ ok \in [Scrapes -> [Child -> BOOLEAN]]
    /\ groupsOk \in [Scrapes -> BOOLEAN] /\ serversOk \in [Scrapes -> BOOLEAN]
    /\ listed \in [Scrapes -> SUBSET Node] /\ shown \in [Scrapes -> SUBSET Node]
    /\ asOf \in [Scrapes -> 0 .. now]
    /\ backups \subseteq Node /\ backupsAt \in 0 .. now
    /\ \A part \in {jobs, todo, calling, leaving, answered} :
           part \in [Scrapes -> SUBSET (Node \cup Object)]
    /\ sem \in [Scrapes -> 0 .. Workers]
    /\ failures \in [Scrapes -> Nat]

Init ==
    /\ children \in Registered
    /\ now = 1
    /\ holder = [c \in Guarded |-> NoScrape]
    /\ pc = [s \in Scrapes |-> [c \in Child |-> "idle"]]
    /\ ok = [s \in Scrapes |-> [c \in Child |-> TRUE]]
    /\ groupsOk = [s \in Scrapes |-> TRUE] /\ serversOk = [s \in Scrapes |-> TRUE]
    /\ listed = [s \in Scrapes |-> {}] /\ shown = [s \in Scrapes |-> {}]
    /\ asOf = [s \in Scrapes |-> 0]
    /\ backups = {} /\ backupsAt = 0
    /\ jobs = [s \in Scrapes |-> {}] /\ todo = [s \in Scrapes |-> {}]
    /\ calling = [s \in Scrapes |-> {}] /\ leaving = [s \in Scrapes |-> {}]
    /\ sem = [s \in Scrapes |-> 0]
    /\ answered = [s \in Scrapes |-> {}]
    /\ failures = [s \in Scrapes |-> 0]

-----------------------------------------------------------------------------
(* Collect                                                                 *)

\* What /servers lists.
nodes == Timeline[now]

\* Child c of scrape s goes on to stage t.
Goes(s, c, t) == pc' = [pc EXCEPT ![s][c] = t]

\* Collect starts a goroutine for each child.
Collect(s) ==
    /\ \A c \in children : pc[s][c] = "idle"
    /\ pc' = [pc EXCEPT ![s] = [c \in Child |->
                 IF c \notin children THEN "idle"
                 ELSE IF c \in Guarded THEN "lock" ELSE "lookup"]]
    /\ UNCHANGED <<children, now, holder, ok, invVars, listVars, perfVars>>

\* The child has its result, emits its ssv_up and its duration, and is done.
Done(s, c, good) ==
    /\ ok' = [ok EXCEPT ![s][c] = good]
    /\ Goes(s, c, "done")

\* Collect returns when all children are done, and the registry closes the
\* channel of the metrics.
Return(s) ==
    /\ \A c \in children : pc[s][c] = "done"
    /\ pc' = [pc EXCEPT ![s] = [c \in Child |-> "idle"]]
    /\ ok' = [ok EXCEPT ![s] = [c \in Child |-> TRUE]]
    /\ shown' = [shown EXCEPT ![s] = {}]
    /\ jobs' = [jobs EXCEPT ![s] = {}]
    /\ answered' = [answered EXCEPT ![s] = {}]
    /\ failures' = [failures EXCEPT ![s] = 0]
    /\ UNCHANGED <<children, now, holder, groupsOk, serversOk, listed, asOf, listVars,
                   todo, calling, leaving, sem>>

-----------------------------------------------------------------------------
(* Inventory and health                                                    *)

\* A collector without a mutex.
LockNothing(c, s) == UNCHANGED holder

\* The collector's mutex, taken by s.
Lock(c, s) == holder[c] = NoScrape /\ holder' = [holder EXCEPT ![c] = s]

\* CollectMetrics begins with the mutex.
Begin(s, c) ==
    /\ pc[s][c] = "lock"
    /\ Lock(c, s)
    /\ Goes(s, c, IF c = "inventory" THEN "groups" ELSE "lookup")
    /\ UNCHANGED <<children, now, ok, invVars, listVars, perfVars>>

\* The deferred unlock.
Unlock(c) == holder' = [holder EXCEPT ![c] = NoScrape]

\* The inventory asks /serverGroups.
ServerGroups(s, good) ==
    /\ pc[s]["inventory"] = "groups"
    /\ Goes(s, "inventory", "servers")
    /\ groupsOk' = [groupsOk EXCEPT ![s] = good]
    /\ UNCHANGED <<children, now, holder, ok, serversOk, listed, asOf, shown, listVars, perfVars>>

\* ... then /servers.  An answer with a field of the wrong type is an error, but
\* what could be decoded is returned with it.
Servers(s, good, answer) ==
    /\ pc[s]["inventory"] = "servers"
    /\ good => answer = nodes
    /\ Goes(s, "inventory", "rest")
    /\ serversOk' = [serversOk EXCEPT ![s] = good]
    /\ listed' = [listed EXCEPT ![s] = answer]
    /\ asOf' = [asOf EXCEPT ![s] = now]
    /\ UNCHANGED <<children, now, holder, ok, groupsOk, shown, listVars, perfVars>>

\* The servers that are kept: those of the local group, if both lookups tell.
Kept(s) == IF groupsOk[s] /\ serversOk[s] THEN listed[s] \cap Local ELSE listed[s]

\* Only the other lookups count for the result.
RestOnly(s, good) == good

\* The inventory is up if every lookup was fine.
InventoryOk(s, good) == groupsOk[s] /\ serversOk[s] /\ good

\* ... then six more paths.  With the answers in hand it hands the servers to
\* SetBackups and emits them.
Rest(s, good) ==
    /\ pc[s]["inventory"] = "rest"
    /\ Done(s, "inventory", InventoryOk(s, good))
    /\ IF serversOk[s]
         THEN backups' = Kept(s) /\ backupsAt' = asOf[s]
         ELSE UNCHANGED listVars
    /\ shown' = [shown EXCEPT ![s] = Kept(s)]
    /\ listed' = [listed EXCEPT ![s] = {}]
    /\ asOf' = [asOf EXCEPT ![s] = 0]
    /\ groupsOk' = [groupsOk EXCEPT ![s] = TRUE]
    /\ serversOk' = [serversOk EXCEPT ![s] = TRUE]
    /\ Unlock("inventory")
    /\ UNCHANGED <<children, now, perfVars>>

\* Health asks /monitors and /alerts and emits what it got.
Health(s, good) ==
    /\ pc[s]["health"] = "lookup"
    /\ Done(s, "health", good)
    /\ Unlock("health")
    /\ UNCHANGED <<children, now, invVars, listVars, perfVars>>

-----------------------------------------------------------------------------
(* Performance                                                             *)

\* One lookup that fails leaves nothing to ask counters of.
LookupFails(s) ==
    /\ pc[s]["performance"] = "lookup"
    /\ Done(s, "performance", FALSE)
    /\ UNCHANGED <<children, now, holder, invVars, listVars, perfVars>>

\* LocalServers and six more lookups tell the jobs.
Lookup(s) ==
    /\ pc[s]["performance"] = "lookup"
    /\ jobs' = [jobs EXCEPT ![s] = (nodes \cap Local) \cup Object]
    /\ todo' = [todo EXCEPT ![s] = (nodes \cap Local) \cup Object]
    /\ Goes(s, "performance", "fan")
    /\ UNCHANGED <<children, now, holder, ok, invVars, listVars, calling, leaving, sem,
                   answered, failures>>

\* One slot too many.
SlotOver(s) == sem[s] <= Workers

\* The channel sem has room for one more.
SlotFree(s) == sem[s] < Workers

\* A goroutine is started for one of the jobs, as soon as there is a slot.
Dispatch(s, j) ==
    /\ pc[s]["performance"] = "fan"
    /\ j \in todo[s]
    /\ SlotFree(s)
    /\ sem' = [sem EXCEPT ![s] = @ + 1]
    /\ todo' = [todo EXCEPT ![s] = @ \ {j}]
    /\ calling' = [calling EXCEPT ![s] = @ \cup {j}]
    /\ UNCHANGED <<children, now, holder, pc, ok, invVars, listVars, jobs, leaving, answered,
                   failures>>

\* The call answers, and those of the mapped counters that the answer holds are
\* emitted: all, some or, of an empty snapshot, none.
Answers(s, j) ==
    /\ j \in calling[s]
    /\ calling' = [calling EXCEPT ![s] = @ \ {j}]
    /\ answered' = [answered EXCEPT ![s] = @ \cup {j}]
    /\ leaving' = [leaving EXCEPT ![s] = @ \cup {j}]
    /\ UNCHANGED <<children, now, holder, pc, ok, invVars, listVars, jobs, todo, sem, failures>>

\* A job that fails returns without leaving.
FailsForGood(s, j) ==
    /\ j \in calling[s]
    /\ calling' = [calling EXCEPT ![s] = @ \ {j}]
    /\ failures' = [failures EXCEPT ![s] = @ + 1]
    /\ UNCHANGED <<children, now, holder, pc, ok, invVars, listVars, jobs, todo, leaving, sem,
                   answered>>

\* The call fails, and is counted.
Fails(s, j) ==
    /\ j \in calling[s]
    /\ calling' = [calling EXCEPT ![s] = @ \ {j}]
    /\ failures' = [failures EXCEPT ![s] = @ + 1]
    /\ leaving' = [leaving EXCEPT ![s] = @ \cup {j}]
    /\ UNCHANGED <<children, now, holder, pc, ok, invVars, listVars, jobs, todo, sem, answered>>

\* The goroutine's deferred function frees the slot.
Leave(s, j) ==
    /\ j \in leaving[s]
    /\ leaving' = [leaving EXCEPT ![s] = @ \ {j}]
    /\ sem' = [sem EXCEPT ![s] = @ - 1]
    /\ UNCHANGED <<children, now, holder, pc, ok, invVars, listVars, jobs, todo, calling,
                   answered, failures>>

\* Nobody waits for the workers.
AllStarted(s) == todo[s] = {}

\* All jobs have begun and wg.Wait returns.
AllDone(s) == todo[s] = {} /\ calling[s] = {} /\ leaving[s] = {}

\* CollectMetrics returns, with success if nothing failed.
FanEnds(s) ==
    /\ pc[s]["performance"] = "fan"
    /\ AllDone(s)
    /\ Done(s, "performance", failures[s] = 0)
    /\ UNCHANGED <<children, now, holder, invVars, listVars, perfVars>>

-----------------------------------------------------------------------------
\* Servers join and leave the groups.
Change ==
    /\ now < Len(Timeline)
    /\ now' = now + 1
    /\ UNCHANGED <<children, holder, pc, ok, invVars, listVars, perfVars>>

Guards(s) == \E c \in Guarded : Begin(s, c)
Looks(s) ==
    \/ \E good \in BOOLEAN : ServerGroups(s, good) \/ Rest(s, good) \/ Health(s, good)
    \/ \E good \in BOOLEAN : \E answer \in {{}, nodes} : Servers(s, good, answer)
Performs(s) ==
    \/ LookupFails(s) \/ Lookup(s) \/ FanEnds(s)
    \/ \E j \in Node \cup Object : Dispatch(s, j) \/ Answers(s, j) \/ Fails(s, j) \/ Leave(s, j)

Next ==
    \/ \E s \in Scrapes : Collect(s) \/ Guards(s) \/ Looks(s) \/ Performs(s) \/ Return(s)
    \/ Change

\* The goroutines of a scrape go on as long as one can, and every lookup ends, at
\* the deadline of the scrape if not before.  Whoever waits for a mutex gets it in
\* the end: sync.Mutex hands itself to a goroutine that has waited for long.
Fairness ==
    \A s \in Scrapes :
        /\ WF_vars(Looks(s) \/ Performs(s) \/ Return(s))
        /\ \A c \in Guarded : SF_vars(Begin(s, c))

Spec     == Init /\ [][Next]_vars
FairSpec == Spec /\ Fairness

-----------------------------------------------------------------------------
(* What the scrapes promise                                                *)

\* No worker of a scrape is left when its collector returns: it would send on
\* the channel that the registry has closed.
WorkersInside ==
    \A s \in Scrapes : calling[s] \cup leaving[s] # {} => pc[s]["performance"] = "fan"

\* A tier that reports ssv_up 1 hides no failure: every job's call was answered,
\* and the servers are those of the local group.  (Which counters an answer holds
\* is SSV's affair: one without any is an answer, and no failure to the code.)
UpIsHonest ==
    \A s \in Scrapes :
        /\ ok[s]["performance"] /\ pc[s]["performance"] = "done" => answered[s] = jobs[s]
        /\ ok[s]["inventory"] => shown[s] \subseteq Local

\* Overlapping scrapes never replace the failover list by an older answer, and
\* an inventory that reports ssv_up 1 leaves only servers of the local group in
\* it.  (One that could not read /serverGroups may leave others.)
BackupsMoveOn ==
    [][/\ backupsAt' >= backupsAt
       /\ \A s \in Scrapes :
              pc[s]["inventory"] # "done" /\ pc'[s]["inventory"] = "done" /\ ok'[s]["inventory"]
                => backups' \subseteq Local]_vars

Running(s) == \E c \in children : pc[s][c] # "idle"

\* Every scrape comes to its end, whatever fails and whoever else is scraping.
EveryScrapeEnds ==
    \A s \in Scrapes : Running(s) ~> ~Running(s)

=============================================================================
