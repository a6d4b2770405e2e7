------------------------------ MODULE SsvClient ------------------------------
(***************************************************************************)
(* The SSV client as a whole (internal/ssv/client.go): module Failover's   *)
(* calls and endpoint list, with the endpoint OBJECTS behind the list.     *)
(* The list and every call's snapshot of it hold pointers: an object has   *)
(* its own token and mutex, SetBackups carries the objects of the pairs    *)
(* that stay into the new list, and a call may go on using an object that  *)
(* has left it.  Close only sees the objects of the list.                  *)
(*                                                                         *)
(* Every step is a step of Failover with its effect on the objects, or one *)
(* inside a getOne, which Failover does not see.  Sessions are numbered in *)
(* the order SSV issues them, to whichever object; 0 is the empty token.   *)
(* Close with calls in flight is module Session's.                         *)
(***************************************************************************)
EXTENDS Integers, Sequences, FiniteSets, SequencesExt

CONSTANTS
    Call, Endpoint, Primary, NoEndpoint, Retries, TTL,  \* as in Failover
    Unusable,      \* addresses acceptIP refuses
    AddressLists,  \* what SetBackups is called with: sequences of addresses
    MaxObjects,    \* bound: endpoint objects allocated in a behaviour
    MaxSessions,   \* bound: sessions SSV issues in a behaviour
    MaxFaults      \* bound: sessions SSV denies, drops or tells nobody of

ASSUME EndpointAssumption == Primary \in Endpoint /\ NoEndpoint \notin Endpoint
ASSUME AddressAssumption == Unusable \cap Endpoint = {}
ASSUME AddressListsAssumption == AddressLists \subseteq Seq(Endpoint \cup Unusable)
ASSUME BoundsAssumption == Retries \in Nat /\ TTL \in Nat \ {0}
ASSUME ObjectAssumption == MaxObjects \in Nat \ {0} /\ MaxSessions \in Nat /\ MaxFaults \in Nat

Object    == 1 .. MaxObjects
NoToken   == 0
SessionId == 1 .. MaxSessions

VARIABLES
    endpoints, preferred, age, panicked, answered, reshaped,  \* Failover's list,
    pc, eps, start, tried, attempt, ctx, late,                \* walks and calls
    object,   \* the object behind each entry of the list
    snapshot, \* the objects behind the entries of each call's snapshot
    pair,     \* the (baseURL, serverHost) of each object, NoEndpoint before it exists
    step,     \* where each call is in getOne
    tok,      \* the copy of the token each call sends
    retry,    \* the call is in getOne's second doGet
    token,    \* endpoint.token of each object
    owner,    \* SSV: the object each session was issued to
    live,     \* SSV: sessions that still exist
    cleared,  \* history: sessions whose token invalidateToken dropped
    lost,     \* history: sessions whose OpenSession answer, or CloseSession, was lost
    faults,   \* history: sessions SSV denied, dropped or told nobody of
    dropped,  \* history: pairs SetBackups has taken off the list
    closed    \* Client.Close has run

walks == <<endpoints, preferred, age, panicked, answered, reshaped,
           pc, eps, start, tried, attempt, ctx, late>>
gets == <<step, tok, retry>>
sessions == <<token, owner, live, cleared, lost, faults>>
vars == <<walks, object, snapshot, pair, gets, sessions, dropped, closed>>

\* The sequences of members of S without repetition.
Lists(S) == UNION {Injection(1 .. k, S) : k \in 0 .. Cardinality(Endpoint)}

\* What SetBackups may make of any list of addresses: pairs of usable addresses,
\* none twice and never the primary's.
BackupLists == Lists(Endpoint \ {Primary})

F == INSTANCE Failover

Allocated == {o \in Object : pair[o] # NoEndpoint}

TypeOK ==
    /\ F!TypeOK
    /\ pair \in [Object -> Endpoint \cup {NoEndpoint}]
    /\ object \in Seq(Allocated)
    /\ snapshot \in [Call -> Seq(Allocated)]
    /\ step \in [Call -> {"none", "ensure", "opening", "sending", "invalidate"}]
    /\ tok \in [Call -> 0 .. MaxSessions] /\ retry \in [Call -> BOOLEAN]
    /\ owner \in Seq(Allocated) /\ Len(owner) <= MaxSessions
    /\ live \cup cleared \cup lost \subseteq DOMAIN owner /\ faults \in 0 .. MaxFaults
    \* The token of an object is of a session of its own, and none that is let go.
    /\ \A o \in Object : token[o] # NoToken =>
          token[o] \in DOMAIN owner \ (cleared \cup lost) /\ owner[token[o]] = o
    /\ dropped \subseteq Endpoint
    /\ closed \in BOOLEAN
    \* The objects are those of the pairs that Failover sees.
    /\ endpoints = [i \in DOMAIN object |-> pair[object[i]]]
    /\ \A g \in Call : eps[g] = [i \in DOMAIN snapshot[g] |-> pair[snapshot[g][i]]]

Init ==
    /\ F!Init
    /\ pair = [o \in Object |-> IF o = 1 THEN Primary ELSE NoEndpoint] /\ object = <<1>>
    /\ snapshot = [g \in Call |-> <<>>]
    /\ step = [g \in Call |-> "none"]
    /\ tok = [g \in Call |-> NoToken] /\ retry = [g \in Call |-> FALSE]
    /\ token = [o \in Object |-> NoToken]
    /\ owner = <<>> /\ live = {} /\ cleared = {} /\ lost = {} /\ faults = 0
    /\ dropped = {}
    /\ closed = FALSE

-----------------------------------------------------------------------------
(* Calls                                                                   *)

\* The object the call's getOne is about.
Target(g) == snapshot[g][F!At(g)]

\* The call looks for a token when it is at an endpoint, and nowhere otherwise;
\* its getOne's locals are gone, as those of a call that died are.
Enter(g) ==
    LET stays(h) == pc'[h] = "try" /\ h # g
    IN  /\ step' = [h \in Call |-> CASE pc'[h] # "try"          -> "none"
                                     [] pc'[h] = "try" /\ h = g -> "ensure"
                                     [] stays(h)                -> step[h]]
        /\ tok' = [h \in Call |-> IF stays(h) THEN tok[h] ELSE NoToken]
        /\ retry' = [h \in Call |-> stays(h) /\ retry[h]]

\* GetRaw's walks take the pointers with the list.
Walk(g) ==
    /\ F!GetRaw(g) \/ F!Retry(g)
    /\ ~closed
    /\ snapshot' = [snapshot EXCEPT ![g] = object]
    /\ Enter(g)
    /\ UNCHANGED <<object, pair, sessions, dropped, closed>>

\* A walk that is over drops its pointers.
Forget(g) ==
    snapshot' = IF eps'[g] = <<>> THEN [snapshot EXCEPT ![g] = <<>>] ELSE snapshot

\* What a step inside a getOne leaves alone.
Inside == UNCHANGED <<walks, object, snapshot, pair, dropped, closed>>

\* The call asks for a session although another call has: no mutex.
OpenUnlocked(g) ==
    /\ step[g] = "ensure"
    /\ token[Target(g)] = NoToken
    /\ step' = [step EXCEPT ![g] = "opening"]
    /\ Inside /\ UNCHANGED <<tok, retry, sessions>>

\* No OpenSession of this object is in flight: its mutex is free.
Unlocked(o) == \A h \in Call : step[h] = "opening" => Target(h) # o

\* ensureToken finds a token, or asks for one and keeps the mutex.
UseToken(g) ==
    /\ step[g] = "ensure"
    /\ Unlocked(Target(g))
    /\ token[Target(g)] # NoToken
    /\ tok' = [tok EXCEPT ![g] = token[Target(g)]]
    /\ step' = [step EXCEPT ![g] = "sending"]
    /\ Inside /\ UNCHANGED <<retry, sessions>>

Open(g) ==
    /\ step[g] = "ensure"
    /\ Unlocked(Target(g))
    /\ token[Target(g)] = NoToken
    /\ step' = [step EXCEPT ![g] = "opening"]
    /\ Inside /\ UNCHANGED <<tok, retry, sessions>>

\* The session SSV issues next.
NextSession == Len(owner) + 1

\* SSV issues it to o.
Issue(o) ==
    /\ NextSession <= MaxSessions
    /\ owner' = Append(owner, o)
    /\ live' = live \cup {NextSession}

\* SSV answers with a session.
Opened(g) ==
    /\ step[g] = "opening"
    /\ ctx[g] = "live"
    /\ Issue(Target(g))
    /\ token' = [token EXCEPT ![Target(g)] = NextSession]
    /\ tok' = [tok EXCEPT ![g] = NextSession]
    /\ step' = [step EXCEPT ![g] = "sending"]
    /\ Inside /\ UNCHANGED <<retry, cleared, lost, faults>>

\* Something goes wrong on SSV's side.
Faulty == faults < MaxFaults /\ faults' = faults + 1

\* A getOne that failed for good: on to the next endpoint, or home.
Leave(g, e) ==
    /\ F!Fails(g, e)
    /\ Forget(g)
    /\ Enter(g)
    /\ UNCHANGED <<object, pair, token, cleared, dropped, closed>>

\* SSV issues a session, but its answer times out, is cut short or cannot be
\* decoded: openSession returns an error and the session stays.
OpenIsLost(g) ==
    /\ step[g] = "opening"
    /\ Issue(Target(g))
    /\ lost' = lost \cup {NextSession}
    /\ \E e \in {"network", "decode"} : Leave(g, e)
    /\ Faulty

\* The OpenSession or the GET fails; among the rejected ones is the stale answer
\* to getOne's second doGet.
Fails(g) ==
    /\ step[g] \in {"opening", "sending"}
    /\ \E e \in F!ErrorKind : Leave(g, e)
    /\ UNCHANGED <<owner, live, lost, faults>>

\* getOne's first doGet gets a stale-session answer (isStaleSession): its
\* OpenSession is answered 401, or the session its GET used is gone.
IsStale(g) ==
    /\ ~retry[g]
    /\ ctx[g] = "live"
    /\ \/ step[g] = "opening" /\ Faulty
       \/ step[g] = "sending" /\ tok[g] \notin live /\ UNCHANGED faults
    /\ step' = [step EXCEPT ![g] = "invalidate"]
    /\ tok' = [tok EXCEPT ![g] = NoToken]
    /\ Inside /\ UNCHANGED <<retry, token, owner, live, cleared, lost>>

\* invalidateToken empties the object's token, whichever it is by now, and
\* getOne calls doGet again.
InvalidateToken(g) ==
    /\ step[g] = "invalidate"
    /\ Unlocked(Target(g))
    /\ cleared' = cleared \cup ({token[Target(g)]} \ {NoToken})
    /\ token' = [token EXCEPT ![Target(g)] = NoToken]
    /\ retry' = [retry EXCEPT ![g] = TRUE]
    /\ step' = [step EXCEPT ![g] = "ensure"]
    /\ Inside /\ UNCHANGED <<tok, owner, live, lost, faults>>

\* The GET is answered.  If markPreferred panics the process is gone.
GetAnswered(g) ==
    /\ step[g] = "sending"
    /\ F!Answers(g)
    /\ Forget(g)
    /\ Enter(g)
    /\ UNCHANGED <<object, pair, sessions, dropped, closed>>

\* The walk is over and GetRaw returns.
WalkOver(g) ==
    /\ F!GiveUp(g) \/ F!Cancelled(g)
    /\ Forget(g)
    /\ UNCHANGED <<object, pair, gets, sessions, dropped, closed>>

\* The deadline of the scrape passes, and time.
Passes ==
    /\ F!Tick \/ \E g \in Call : F!Deadline(g)
    /\ UNCHANGED <<object, snapshot, pair, gets, sessions, dropped, closed>>

\* SSV drops a session by itself: idle timeout, restart, connection reset.
Expire(s) ==
    /\ s \in live
    /\ live' = live \ {s}
    /\ Faulty
    /\ Inside /\ UNCHANGED <<gets, token, owner, cleared, lost>>

-----------------------------------------------------------------------------
(* SetBackups and Close                                                    *)

\* Where an address comes first in the answer.
First(ips, ip) == CHOOSE i \in DOMAIN ips : ips[i] = ip /\ \A j \in 1 .. i - 1 : ips[j] # ip

InOrder(b, ips) == \A i, j \in DOMAIN b : i < j => First(ips, b[i]) < First(ips, b[j])

\* The primary's address is taken for a backup.
BackupsAndPrimary(b, ips) == ToSet(b) = ToSet(ips) \cap Endpoint /\ InOrder(b, ips)

\* The backups SetBackups makes of an answer: its usable addresses without the
\* primary's, each where it comes first.
Backups(b, ips) == ToSet(b) = ToSet(ips) \cap (Endpoint \ {Primary}) /\ InOrder(b, ips)

Fresh(o) == pair[o] = NoEndpoint

\* SetBackups makes new objects of the whole list.
PickNew(new, ids) == \A i, j \in DOMAIN new : Fresh(ids[i]) /\ (i # j => ids[i] # ids[j])

\* pick: the object of the present list, or a new one.
Pick(new, ids) ==
    \A i \in DOMAIN new :
        \/ \E k \in DOMAIN endpoints : endpoints[k] = new[i] /\ ids[i] = object[k]
        \/ /\ \A k \in DOMAIN endpoints : endpoints[k] # new[i]
           /\ Fresh(ids[i])
           /\ \A j \in DOMAIN new \ {i} : ids[j] # ids[i]

\* The list becomes new, its objects ids.
Install(new, ids) ==
    /\ Pick(new, ids)
    /\ object' = ids
    /\ pair' = [o \in Object |-> IF \E i \in DOMAIN new : ids[i] = o
                                   THEN new[CHOOSE i \in DOMAIN new : ids[i] = o]
                                   ELSE pair[o]]
    \* Objects are numbered in the order they are allocated in.
    /\ \A o \in Object \ {1} : pair'[o] # NoEndpoint => pair'[o - 1] # NoEndpoint

SetBackups(ips) ==
    /\ ~closed
    /\ \E b \in Lists(Endpoint) :
          /\ Backups(b, ips)
          /\ F!SetBackups(b)
          /\ \E ids \in [1 .. Len(b) + 1 -> Object] : Install(<<Primary>> \o b, ids)
    /\ dropped' = dropped \cup (ToSet(endpoints) \ ToSet(endpoints'))
    /\ UNCHANGED <<snapshot, gets, sessions, closed>>

\* The sessions whose tokens closeSession takes.
Taken == {token[o] : o \in ToSet(object)} \ {NoToken}

\* Some of the CloseSession requests reach SSV, the others are lost.
Terminate ==
    \E S \in SUBSET Taken : live' = live \ S /\ lost' = lost \cup (Taken \ S)

\* Close terminates the sessions and leaves the tokens where they are.
CloseKeepingTokens ==
    /\ ~closed /\ ~panicked
    /\ \A g \in Call : pc[g] = "idle"
    /\ Terminate
    /\ closed' = TRUE
    /\ UNCHANGED <<walks, object, snapshot, pair, gets, token, owner, cleared, faults, dropped>>

\* Close, when the HTTP server's shutdown was given the time for every call to
\* return; module Session has the Close that does not wait.
Close ==
    /\ ~closed /\ ~panicked
    /\ \A g \in Call : pc[g] = "idle"
    /\ Terminate
    /\ token' = [o \in Object |-> IF o \in ToSet(object) THEN NoToken ELSE token[o]]
    /\ closed' = TRUE
    /\ UNCHANGED <<walks, object, snapshot, pair, gets, owner, cleared, faults, dropped>>

-----------------------------------------------------------------------------
GetOne(g) ==
    \/ UseToken(g) \/ Open(g) \/ Opened(g) \/ OpenIsLost(g) \/ Fails(g)
    \/ IsStale(g) \/ InvalidateToken(g) \/ GetAnswered(g)

Next ==
    \/ \E g \in Call : Walk(g) \/ GetOne(g) \/ WalkOver(g)
    \/ Passes
    \/ \E s \in live : Expire(s)
    \/ \E ips \in AddressLists : SetBackups(ips)
    \/ Close

Spec == Init /\ [][Next]_vars

-----------------------------------------------------------------------------
(* What the client promises                                                *)

\* The client is a Failover: whatever addresses /servers names, the list handed
\* on is one of BackupLists, and nothing the endpoint objects do disturbs a walk.
FailoverSpec == F!Spec

\* "SetBackups does not trigger a re-auth on every inventory refresh"
\* (client.go): a pair that stays in the list has one object, and every session
\* it was given but the one its token is of was dropped after a stale answer or
\* lost on the way, however many refreshes and calls there are.
KeptPairsShareSession ==
    ~closed =>
        \A o, q \in Allocated : pair[o] = pair[q] /\ pair[o] \notin dropped =>
            /\ o = q
            /\ \A s \in DOMAIN owner : owner[s] = o => s = token[o] \/ s \in cleared \cup lost

\* "we never fire two parallel OpenSession calls for the same target"
\* (client.go), as far as it is true: only a pair that left the list and came
\* back, as another object, can have two in flight.
OneOpenPerTarget ==
    \A g, h \in Call :
        step[g] = "opening" /\ step[h] = "opening" /\ pair[Target(g)] = pair[Target(h)]
            => g = h \/ pair[Target(g)] \in dropped

\* "Close terminates every active session" (client.go), as far as it is true:
\* a session it leaves is one that invalidateToken dropped, whose OpenSession
\* answer or CloseSession was lost, or of an object SetBackups has dropped.
CloseEndsKept ==
    closed => \A s \in live :
        \/ s \in cleared \cup lost
        \/ pair[owner[s]] \in dropped /\ owner[s] \notin ToSet(object)
=============================================================================
