------------------------------ MODULE Failover ------------------------------
(***************************************************************************)
(* The endpoint list of the SSV client (internal/ssv/client.go) and the    *)
(* calls that walk it: GetRaw's retry loop, tryAllEndpoints, tryOrder,     *)
(* markPreferred, and the SetBackups the inventory collector runs while    *)
(* the other collectors' calls are in flight.                              *)
(*                                                                         *)
(* Client.mu guards the list and the preferred index, but only for the     *)
(* length of tryOrder, markPreferred or SetBackups: a call works on a      *)
(* SNAPSHOT of the list and comes back with an INDEX into it.  One getOne  *)
(* is one step with one of its outcomes; module Session has its insides.   *)
(*                                                                         *)
(* Indices count from 1 where the code counts from 0, so 1 is the primary. *)
(* Time since preferredTs is counted in ticks up to TTL, where it expires. *)
(***************************************************************************)
EXTENDS Integers, Sequences

CONSTANTS
    Call,         \* goroutines that call GetRaw
    Endpoint,     \* (baseURL, serverHost) pairs
    Primary,      \* the one built from Config
    NoEndpoint,   \* no endpoint has answered yet
    BackupLists,  \* the backup lists SetBackups makes of a /servers answer
    Retries,      \* Config.Retries
    TTL           \* preferredTTL, in ticks

ASSUME EndpointAssumption == Primary \in Endpoint /\ NoEndpoint \notin Endpoint
ASSUME BackupsAssumption  == BackupLists \subseteq Seq(Endpoint \ {Primary})
ASSUME BoundsAssumption   == Retries \in Nat /\ TTL \in Nat \ {0}

VARIABLES
    endpoints,  \* Client.endpoints, primary first
    preferred,  \* Client.preferredIdx
    age,        \* ticks since Client.preferredTs, at most TTL
    pc,         \* where each call is in GetRaw / tryAllEndpoints
    eps,        \* the call's snapshot of the list
    start,      \* where its walk starts
    tried,      \* how many endpoints of the walk have failed
    attempt,    \* GetRaw's attempt
    ctx,        \* its context: live, done, or done while it waits to retry
    late,       \* history: walks the call started with its context done
    panicked,   \* markPreferred indexed outside the list: the process is gone
    answered,   \* history: the endpoint whose answer was last marked preferred,
                \* as long as the list has only been appended to
    reshaped    \* history: SetBackups did something else than append

listVars == <<endpoints, preferred, age, panicked, answered, reshaped>>
walkVars == <<eps, start, tried>>
callVars == <<attempt, ctx, late>>
vars == <<listVars, pc, walkVars, callVars>>

\* A call makes at most Retries + 1 attempts.
TypeOK ==
    /\ endpoints \in Seq(Endpoint)
    /\ preferred \in Nat \ {0}
    /\ age \in 0 .. TTL
    /\ pc \in [Call -> {"idle", "try", "failed", "dead"}]
    /\ eps \in [Call -> Seq(Endpoint)]
    /\ start \in [Call -> Nat]
    /\ tried \in [Call -> Nat]
    /\ attempt \in [Call -> 0 .. Retries]
    /\ ctx \in [Call -> {"live", "racing", "done"}]
    /\ late \in [Call -> Nat]
    /\ panicked \in BOOLEAN
    /\ answered \in Endpoint \cup {NoEndpoint}
    /\ reshaped \in BOOLEAN

Init ==
    /\ endpoints = <<Primary>>
    /\ preferred = 1
    /\ age = TTL
    /\ pc = [g \in Call |-> "idle"]
    /\ eps = [g \in Call |-> <<>>]
    /\ start = [g \in Call |-> 0]
    /\ tried = [g \in Call |-> 0]
    /\ attempt = [g \in Call |-> 0]
    /\ ctx = [g \in Call |-> "live"]
    /\ late = [g \in Call |-> 0]
    /\ panicked = FALSE
    /\ answered = NoEndpoint
    /\ reshaped = FALSE

-----------------------------------------------------------------------------
(* The order of a walk                                                     *)

\* The walk goes from the start to the end of the list, without wrapping.
OrderToEnd(s, k, n) == IF s + k > n THEN n ELSE s + k

\* The k-th index (from 0) of a walk over n endpoints that starts at s.
Order(s, k, n) == ((s - 1 + k) % n) + 1

\* The index a call is at, and the endpoint there in its snapshot.
At(g)     == Order(start[g], tried[g], Len(eps[g]))
Target(g) == eps[g][At(g)]

\* The endpoints that have failed in the call's current walk.
Failed(g) == {eps[g][Order(start[g], k, Len(eps[g]))] : k \in 0 .. tried[g] - 1}

\* The last endpoint of the list never sticks.
SticksButLast == preferred > 1 /\ preferred < Len(endpoints) /\ age < TTL

\* tryOrder starts from the preferred index while it is young and in the list.
Sticks == preferred > 1 /\ preferred <= Len(endpoints) /\ age < TTL

-----------------------------------------------------------------------------
(* GetRaw                                                                  *)

\* tryOrder: a snapshot of the list and of where to start, under Client.mu.
TryOrder(g) ==
    /\ eps' = [eps EXCEPT ![g] = endpoints]
    /\ start' = [start EXCEPT ![g] = IF Sticks THEN preferred ELSE 1]
    /\ tried' = [tried EXCEPT ![g] = 0]
    /\ pc' = [pc EXCEPT ![g] = "try"]

\* GetRaw begins its first walk.
GetRaw(g) ==
    /\ pc[g] = "idle"
    /\ TryOrder(g)
    /\ UNCHANGED <<listVars, callVars>>

\* GetRaw's locals are gone.
Forget(g) ==
    /\ eps' = [eps EXCEPT ![g] = <<>>]
    /\ start' = [start EXCEPT ![g] = 0]
    /\ tried' = [tried EXCEPT ![g] = 0]
    /\ attempt' = [attempt EXCEPT ![g] = 0]
    /\ ctx' = [ctx EXCEPT ![g] = "live"]
    /\ late' = [late EXCEPT ![g] = 0]

\* GetRaw returns.
Return(g) == Forget(g) /\ pc' = [pc EXCEPT ![g] = "idle"]

\* A transient error: on to the next endpoint, if one is left.
NextEndpoint(g) ==
    /\ tried' = [tried EXCEPT ![g] = @ + 1]
    /\ pc' = [pc EXCEPT ![g] = IF tried[g] + 1 = Len(eps[g]) THEN "failed" ELSE "try"]
    /\ UNCHANGED <<listVars, eps, start, attempt, ctx, late>>

\* How a getOne fails.  "network" stands for network errors, timeouts, the
\* context's end and 5xx answers; "decode" for an OpenSession answer that cannot
\* be decoded or holds no token; "rejected" for any 4xx, a second stale-session
\* answer included.
ErrorKind == {"network", "decode", "rejected"}

\* isTransient: every error but an HTTPError below 500.
IsTransient(e) == e # "rejected"

\* getOne fails.  With its context done it fails in the transport.
Fails(g, e) ==
    /\ pc[g] = "try"
    /\ ctx[g] # "live" => e = "network"
    /\ \/ ~IsTransient(e) /\ Return(g) /\ UNCHANGED listVars
       \/ IsTransient(e) /\ NextEndpoint(g)

\* The last attempt is taken for one that has another after it.
GiveUpLate(g) ==
    /\ pc[g] = "failed"
    /\ attempt[g] > Retries
    /\ Return(g)
    /\ UNCHANGED listVars

\* Every endpoint failed on the last attempt.
GiveUp(g) ==
    /\ pc[g] = "failed"
    /\ attempt[g] = Retries
    /\ Return(g)
    /\ UNCHANGED listVars

\* One attempt too many.
MayRetryOnceMore(g) == attempt[g] <= Retries /\ ctx[g] # "done"

\* The backoff ignores the context.
MayRetryBlindly(g) == attempt[g] < Retries

\* The backoff timer can win GetRaw's select unless the context was done when
\* the wait began; when both are ready, select takes either.
MayRetry(g) == attempt[g] < Retries /\ ctx[g] # "done"

\* The backoff is over and the next attempt begins.
Retry(g) ==
    /\ pc[g] = "failed"
    /\ MayRetry(g)
    /\ TryOrder(g)
    /\ attempt' = [attempt EXCEPT ![g] = @ + 1]
    /\ ctx' = [ctx EXCEPT ![g] = IF @ = "live" THEN "live" ELSE "done"]
    /\ late' = [late EXCEPT ![g] = IF ctx[g] = "live" THEN @ ELSE @ + 1]
    /\ UNCHANGED listVars

\* The context ends the wait.
Cancelled(g) ==
    /\ pc[g] = "failed"
    /\ attempt[g] < Retries
    /\ ctx[g] # "live"
    /\ Return(g)
    /\ UNCHANGED listVars

\* The scrape's deadline passes.
Deadline(g) ==
    /\ pc[g] \in {"try", "failed"}
    /\ ctx[g] = "live"
    /\ ctx' = [ctx EXCEPT ![g] = IF pc[g] = "failed" THEN "racing" ELSE "done"]
    /\ UNCHANGED <<listVars, pc, walkVars, attempt, late>>

-----------------------------------------------------------------------------
(* markPreferred, SetBackups, the clock                                    *)

\* Storing i and logging the transition reads the list at the old and the new
\* index; Go panics if one is out of range.
OutOfRange(i) == i # preferred /\ (i > Len(endpoints) \/ preferred > Len(endpoints))

\* The answer marks the endpoint by its position in the walk.
AnswersByPosition(g) ==
    /\ pc[g] = "try"
    /\ ctx[g] = "live"
    /\ preferred' = tried[g] + 1
    /\ age' = 0
    /\ answered' = IF reshaped THEN NoEndpoint ELSE Target(g)
    /\ panicked' = OutOfRange(tried[g] + 1)
    /\ Forget(g)
    /\ pc' = IF OutOfRange(tried[g] + 1) THEN [h \in Call |-> "dead"] ELSE [pc EXCEPT ![g] = "idle"]
    /\ UNCHANGED <<endpoints, reshaped>>

\* getOne gets a body and markPreferred stores the index the snapshot gave.  A
\* panic ends the process, and every call with it.
Answers(g) ==
    /\ pc[g] = "try"
    /\ ctx[g] = "live"
    /\ preferred' = At(g)
    /\ age' = 0
    /\ answered' = IF reshaped THEN NoEndpoint ELSE Target(g)
    /\ panicked' = OutOfRange(At(g))
    /\ Forget(g)
    /\ pc' = IF OutOfRange(At(g)) THEN [h \in Call |-> "dead"] ELSE [pc EXCEPT ![g] = "idle"]
    /\ UNCHANGED <<endpoints, reshaped>>

\* new is old with endpoints added at its end.
Extends(new, old) ==
    Len(old) <= Len(new) /\ \A i \in 1 .. Len(old) : new[i] = old[i]

\* SetBackups replaces the list; an index that fell off its end is reset, any
\* other is kept although it may name another endpoint now.
SetBackups(b) ==
    LET new == <<Primary>> \o b
    IN  /\ ~panicked
        /\ endpoints' = new
        /\ preferred' = IF preferred > Len(new) THEN 1 ELSE preferred
        /\ reshaped' = (reshaped \/ ~Extends(new, endpoints))
        /\ answered' = IF reshaped' THEN NoEndpoint ELSE answered
        /\ UNCHANGED <<age, panicked, pc, walkVars, callVars>>

\* Time passes.
Tick ==
    /\ ~panicked
    /\ age < TTL
    /\ age' = age + 1
    /\ UNCHANGED <<endpoints, preferred, panicked, answered, reshaped, pc, walkVars,
                   callVars>>

-----------------------------------------------------------------------------
GetOne(g)    == Answers(g) \/ \E e \in ErrorKind : Fails(g, e)
AfterWalk(g) == GiveUp(g) \/ Retry(g) \/ Cancelled(g)

Next ==
    \/ \E g \in Call : GetRaw(g) \/ GetOne(g) \/ AfterWalk(g) \/ Deadline(g)
    \/ \E b \in BackupLists : SetBackups(b)
    \/ Tick

\* A call in progress is never suspended for ever: requests time out, the
\* backoff is bounded and Client.mu is held for a few instructions.
Fairness == \A g \in Call : WF_vars(GetOne(g)) /\ WF_vars(AfterWalk(g))

Spec     == Init /\ [][Next]_vars
FairSpec == Spec /\ Fairness

-----------------------------------------------------------------------------
(* What the failover promises                                              *)

\* The index is an index of the list as long as the process runs: SetBackups
\* resets it when it falls off the end, whatever walk is in flight.
IndexInRange == ~panicked => preferred \in 1 .. Len(endpoints)

\* A walk fails only when every endpoint of its snapshot has failed, wherever
\* it started.
WalkIsExhaustive ==
    \A g \in Call : pc[g] = "failed" => Failed(g) = {eps[g][i] : i \in 1 .. Len(eps[g])}

\* While SetBackups only ever appends, no walk is misled: markPreferred stays in
\* range and the preferred index names the endpoint that last answered.
GrowthIsSafe ==
    ~reshaped =>
        /\ ~panicked
        /\ answered # NoEndpoint => endpoints[preferred] = answered

\* GetRaw honours its context: once that is done it walks the list at most once
\* more (the walk whose timer beat the cancellation in the select).
OneWalkAfterDeadline == \A g \in Call : late[g] <= 1

\* Within the TTL a walk starts where the last answer came from, so only the
\* first call of an outage waits for the dead primary (DECISIONS.md); once no
\* answer has come for the TTL it starts with the primary, "detecting recovery"
\* (README).
SticksToLastGood ==
    [][\A g \in Call : pc[g] # "try" /\ pc'[g] = "try" =>
         /\ age < TTL /\ answered # NoEndpoint => eps'[g][start'[g]] = answered
         /\ age = TTL => eps'[g][start'[g]] = Primary]_vars

\* Every call returns, unless the process is gone.
CallsReturn == \A g \in Call : pc[g] = "try" ~> pc[g] \in {"idle", "dead"}

\* preferredIdx is the "index of the last-known-good endpoint" (client.go): an
\* index of the list at all.
PreferredNamesEndpoint == preferred \in 1 .. Len(endpoints)
=============================================================================
