--------------------------- MODULE SsvClientProofs ---------------------------
(***************************************************************************)
(* Theorems about module SsvClient, for any number of calls, addresses,    *)
(* answers and objects: it implements Failover, and what holds of the      *)
(* sessions of the endpoint objects.                                       *)
(***************************************************************************)
EXTENDS SsvClient, TLAPS

-----------------------------------------------------------------------------
(* Failover                                                                *)

\* What SetBackups makes of an answer is one of the lists Failover knows.
LEMMA BackupsListed ==
    ASSUME NEW ips, NEW b \in Lists(Endpoint), Backups(b, ips)
    PROVE  b \in BackupLists
<1>1. PICK k \in 0 .. Cardinality(Endpoint) : b \in Injection(1 .. k, Endpoint)
  BY DEF Lists
<1>2. \A i \in 1 .. k : b[i] \in Endpoint \ {Primary}
  BY <1>1 DEF Backups, ToSet, Injection
<1>3. b \in Injection(1 .. k, Endpoint \ {Primary})
  BY <1>1, <1>2 DEF Injection
<1> QED
  BY <1>1, <1>3 DEF Lists, BackupLists

\* What Failover does not see.
LEMMA Unseen == ASSUME UNCHANGED walks PROVE UNCHANGED F!vars
  BY DEF walks, F!vars, F!listVars, F!walkVars, F!callVars

LEMMA StepImplements == ASSUME [Next]_vars PROVE [F!Next]_F!vars
<1>1. CASE \E g \in Call : Walk(g)
  BY <1>1 DEF Walk, F!Next, F!AfterWalk
<1>2. CASE \E g \in Call : \/ UseToken(g) \/ Open(g) \/ Opened(g)
                           \/ IsStale(g) \/ InvalidateToken(g)
  BY <1>2, Unseen DEF UseToken, Open, Opened, IsStale, InvalidateToken, Inside
<1>3. CASE \E g \in Call : OpenIsLost(g) \/ Fails(g) \/ GetAnswered(g)
  <2>1. {"network", "decode"} \subseteq F!ErrorKind
    BY DEF F!ErrorKind
  <2> QED
    BY <1>3, <2>1 DEF OpenIsLost, Fails, Leave, GetAnswered, F!Next, F!GetOne
<1>4. CASE \E g \in Call : WalkOver(g)
  BY <1>4 DEF WalkOver, F!Next, F!AfterWalk
<1>5. CASE Passes
  BY <1>5 DEF Passes, F!Next
<1>6. CASE \E ips \in AddressLists : SetBackups(ips)
  BY <1>6, BackupsListed DEF SetBackups, F!Next
<1>7. CASE Close \/ \E s \in live : Expire(s)
  BY <1>7, Unseen DEF Close, Expire, Inside
<1>8. CASE UNCHANGED vars
  BY <1>8, Unseen DEF vars
<1> QED
  BY <1>1, <1>2, <1>3, <1>4, <1>5, <1>6, <1>7, <1>8 DEF Next, GetOne

\* With its endpoint objects the client still walks, marks and replaces as
\* Failover does: what module Failover promises holds of it.
THEOREM ImplementsFailover == Spec => FailoverSpec
<1>1. Init => F!Init
  BY DEF Init
<1>2. [Next]_vars => [F!Next]_F!vars
  BY StepImplements
<1> QED
  BY <1>1, <1>2, PTL DEF Spec, FailoverSpec, F!Spec

-----------------------------------------------------------------------------
(* What Failover promises                                                  *)

\* Module Failover with its theorems, about the client's walks.
FP == INSTANCE FailoverProofs

\* SetBackups' lists are what Failover assumes of them.
LEMMA BackupsTyped == BackupLists \subseteq Seq(Endpoint \ {Primary})
<1> SUFFICES ASSUME NEW b \in BackupLists PROVE b \in Seq(Endpoint \ {Primary})
  OBVIOUS
<1>1. PICK k \in 0 .. Cardinality(Endpoint) : b \in Injection(1 .. k, Endpoint \ {Primary})
  BY DEF BackupLists, Lists
<1>2. b \in [1 .. k -> Endpoint \ {Primary}]
  BY <1>1 DEF Injection
<1> QED
  BY <1>2

\* F and FP are the same module twice, once without its proofs.
LEMMA SameStep == ASSUME [F!Next]_F!vars PROVE [FP!Next]_FP!vars
<1> USE DEF F!listVars, FP!listVars, F!walkVars, FP!walkVars, F!callVars, FP!callVars
<1>1. UNCHANGED F!vars => UNCHANGED FP!vars
  BY DEF F!vars, FP!vars
<1>2. ASSUME NEW g \in Call, F!GetRaw(g) \/ F!Retry(g) PROVE FP!Next
  <2>1. F!TryOrder(g) <=> FP!TryOrder(g)
    BY DEF F!TryOrder, FP!TryOrder, F!Sticks, FP!Sticks
  <2> QED
    BY <1>2, <2>1 DEF F!GetRaw, FP!GetRaw, F!Retry, FP!Retry, F!MayRetry, FP!MayRetry,
                      FP!Next, FP!AfterWalk
<1>3. ASSUME NEW g \in Call
      PROVE  (F!Forget(g) <=> FP!Forget(g)) /\ (F!Return(g) <=> FP!Return(g))
  BY DEF F!Forget, FP!Forget, F!Return, FP!Return
<1>4. ASSUME NEW g \in Call, F!Answers(g) PROVE FP!Next
  <2>1. F!At(g) = FP!At(g) /\ F!Target(g) = FP!Target(g)
    BY DEF F!At, FP!At, F!Order, FP!Order, F!Target, FP!Target
  <2>2. F!OutOfRange(F!At(g)) = FP!OutOfRange(FP!At(g))
    BY <2>1 DEF F!OutOfRange, FP!OutOfRange
  <2>3. FP!Answers(g)
    BY <1>3, <1>4, <2>1, <2>2 DEF F!Answers, FP!Answers
  <2> QED
    BY <2>3 DEF FP!Next, FP!GetOne
<1>5. ASSUME NEW g \in Call, NEW e \in F!ErrorKind, F!Fails(g, e) PROVE FP!Next
  <2>1. e \in FP!ErrorKind /\ (F!IsTransient(e) <=> FP!IsTransient(e))
    BY DEF F!ErrorKind, FP!ErrorKind, F!IsTransient, FP!IsTransient
  <2>2. F!NextEndpoint(g) <=> FP!NextEndpoint(g)
    BY DEF F!NextEndpoint, FP!NextEndpoint
  <2> QED
    BY <1>3, <1>5, <2>1, <2>2 DEF F!Fails, FP!Fails, FP!Next, FP!GetOne
<1>6. ASSUME NEW g \in Call, F!GiveUp(g) \/ F!Cancelled(g) \/ F!Deadline(g) PROVE FP!Next
  BY <1>3, <1>6 DEF F!GiveUp, FP!GiveUp, F!Cancelled, FP!Cancelled, F!Deadline, FP!Deadline,
                    FP!Next, FP!AfterWalk
<1>7. ASSUME NEW b \in BackupLists, F!SetBackups(b) PROVE FP!Next
  BY <1>7 DEF F!SetBackups, FP!SetBackups, F!Extends, FP!Extends, FP!Next
<1>8. ASSUME F!Tick PROVE FP!Next
  BY <1>8 DEF F!Tick, FP!Tick, FP!Next
<1> QED
  BY <1>1, <1>2, <1>4, <1>5, <1>6, <1>7, <1>8 DEF F!Next, F!GetOne, F!AfterWalk

LEMMA ClientWalks == Spec => FP!Spec
<1>1. F!Init => FP!Init
  BY DEF F!Init, FP!Init
<1> QED
  BY <1>1, SameStep, ImplementsFailover, PTL DEF FailoverSpec, F!Spec, FP!Spec

\* Failover's theorems hold of the client with its endpoint objects: the index
\* stays in the list, a walk that fails has tried all of its snapshot, a list
\* that grows misleads nobody, and a call honours its deadline.
THEOREM ClientFailsOver ==
    Spec => [](F!IndexInRange /\ F!WalkIsExhaustive /\ F!GrowthIsSafe /\ F!OneWalkAfterDeadline)
<1>1. FP!IndexInRange <=> F!IndexInRange
  BY DEF FP!IndexInRange, F!IndexInRange
<1>2. FP!WalkIsExhaustive <=> F!WalkIsExhaustive
  BY DEF FP!WalkIsExhaustive, F!WalkIsExhaustive, FP!Failed, F!Failed, FP!Order, F!Order
<1>3. FP!GrowthIsSafe <=> F!GrowthIsSafe
  BY DEF FP!GrowthIsSafe, F!GrowthIsSafe
<1>4. FP!OneWalkAfterDeadline <=> F!OneWalkAfterDeadline
  BY DEF FP!OneWalkAfterDeadline, F!OneWalkAfterDeadline
<1>5. Spec => [](FP!IndexInRange /\ FP!WalkIsExhaustive /\ FP!GrowthIsSafe
                   /\ FP!OneWalkAfterDeadline)
  BY ClientWalks, FP!PreferredInRange, FP!ExhaustiveWalk, FP!SafeGrowth, FP!DeadlineHonoured,
     EndpointAssumption, BoundsAssumption, BackupsTyped, PTL
<1> QED
  BY <1>1, <1>2, <1>3, <1>4, <1>5, PTL

\* And its stickiness: within the TTL the client's walks start where the last
\* answer came from.
THEOREM ClientSticks == Spec => F!SticksToLastGood
<1>1. FP!SticksToLastGood => F!SticksToLastGood
  <2>1. UNCHANGED FP!vars => UNCHANGED F!vars
    BY DEF FP!vars, F!vars, FP!listVars, F!listVars, FP!walkVars, F!walkVars, FP!callVars, F!callVars
  <2> DEFINE Starts == \A g \in Call : pc[g] # "try" /\ pc'[g] = "try" =>
                         /\ age < TTL /\ answered # NoEndpoint => eps'[g][start'[g]] = answered
                         /\ age = TTL => eps'[g][start'[g]] = Primary
  <2>2. [Starts]_FP!vars => [Starts]_F!vars
    BY <2>1
  <2> QED
    BY <2>2, PTL DEF FP!SticksToLastGood, F!SticksToLastGood
<1> QED
  BY <1>1, ClientWalks, FP!Stickiness, EndpointAssumption, BoundsAssumption, BackupsTyped, PTL

-----------------------------------------------------------------------------
(* The inductive invariant                                                 *)

\* What the proofs need of Failover's part.
WalkTypes ==
    /\ pc \in [Call -> {"idle", "try", "failed", "dead"}]
    /\ endpoints \in Seq(Endpoint) /\ Len(endpoints) >= 1
    /\ preferred \in Nat
    /\ eps \in [Call -> Seq(Endpoint)]
    /\ start \in [Call -> Nat] /\ tried \in [Call -> Nat]

ObjectTypes ==
    /\ pair \in [Object -> Endpoint \cup {NoEndpoint}]
    /\ object \in Seq(Allocated)
    /\ snapshot \in [Call -> Seq(Allocated)]
    /\ step \in [Call -> {"none", "ensure", "opening", "sending", "invalidate"}]
    /\ tok \in [Call -> 0 .. MaxSessions] /\ retry \in [Call -> BOOLEAN]
    /\ dropped \subseteq Endpoint
    /\ closed \in BOOLEAN

SessionTypes ==
    /\ token \in [Object -> 0 .. MaxSessions]
    /\ owner \in Seq(Allocated) /\ Len(owner) <= MaxSessions
    /\ live \subseteq DOMAIN owner /\ cleared \subseteq DOMAIN owner /\ lost \subseteq DOMAIN owner
    /\ faults \in 0 .. MaxFaults

\* The endpoints of a call's snapshot are the pairs of its objects.
SnapshotOf(g) ==
    /\ Len(snapshot[g]) = Len(eps[g])
    /\ \A i \in DOMAIN eps[g] : eps[g][i] = pair[snapshot[g][i]]

\* Every list of endpoints is one of objects.
LinkInv ==
    /\ Len(object) = Len(endpoints)
    /\ \A i \in DOMAIN endpoints : endpoints[i] = pair[object[i]]
    /\ \A g \in Call : SnapshotOf(g)

\* A call is in a getOne when it is at an endpoint of its walk, and in none once
\* the client is closed.
StepInv ==
    \A g \in Call :
        /\ step[g] # "none" <=> pc[g] = "try"
        /\ pc[g] = "try" => Len(eps[g]) >= 1 /\ start[g] >= 1
        /\ closed => pc[g] = "idle"

\* No pair is in the list twice, and one that never left it has no other object.
ListInv ==
    /\ \A i, j \in DOMAIN endpoints : endpoints[i] = endpoints[j] => i = j
    /\ \A o \in Allocated : pair[o] \notin dropped => \E i \in DOMAIN object : object[i] = o

\* An object's token is of a session of its own that the client has not let go.
TokenInv ==
    \A o \in Object : token[o] # NoToken =>
        token[o] \in DOMAIN owner \ (cleared \cup lost) /\ owner[token[o]] = o

\* The client has the token of every session it has not let go, until Close takes
\* those of the list.
SessionInv ==
    \A s \in DOMAIN owner : s \notin cleared \cup lost =>
        IF closed THEN s \in live => \A i \in DOMAIN object : object[i] # owner[s]
                  ELSE s = token[owner[s]]

\* The mutex: nobody else opens a session for an object, and it has none yet.
MutexInv ==
    \A g \in Call : step[g] = "opening" =>
        /\ token[Target(g)] = NoToken
        /\ \A h \in Call : step[h] = "opening" /\ Target(h) = Target(g) => h = g

Issued == SessionTypes /\ TokenInv /\ SessionInv

IInv == WalkTypes /\ ObjectTypes /\ LinkInv /\ StepInv /\ ListInv /\ Issued /\ MutexInv

LEMMA InitIInv == Init => IInv
<1> SUFFICES ASSUME Init PROVE IInv
  OBVIOUS
<1> USE EndpointAssumption, ObjectAssumption DEF Init, F!Init
<1>1. 1 \in Object /\ 1 \in Allocated /\ \A o \in Allocated : o = 1
  BY DEF Object, Allocated
<1>2. WalkTypes
  BY DEF WalkTypes
<1>3. ObjectTypes
  <2>1. pair \in [Object -> Endpoint \cup {NoEndpoint}] /\ object \in Seq(Allocated)
    BY <1>1
  <2>2. snapshot \in [Call -> Seq(Allocated)]
    OBVIOUS
  <2>3. step \in [Call -> {"none", "ensure", "opening", "sending", "invalidate"}]
    OBVIOUS
  <2>4. tok \in [Call -> 0 .. MaxSessions]
    BY DEF NoToken
  <2>5. retry \in [Call -> BOOLEAN] /\ closed \in BOOLEAN
    OBVIOUS
  <2> QED
    BY <2>1, <2>2, <2>3, <2>4, <2>5 DEF ObjectTypes
<1>4. LinkInv /\ StepInv
  BY <1>1 DEF LinkInv, SnapshotOf, StepInv
<1>5. ListInv
  BY <1>1 DEF ListInv
<1>6. SessionTypes
  BY DEF SessionTypes, NoToken
<1>7. TokenInv /\ SessionInv /\ MutexInv
  BY DEF TokenInv, SessionInv, MutexInv
<1> QED
  BY <1>2, <1>3, <1>4, <1>5, <1>6, <1>7 DEF IInv, Issued

\* A call in a getOne is at an object of its snapshot.
LEMMA TargetAllocated ==
    ASSUME IInv, NEW g \in Call, step[g] # "none"
    PROVE  /\ F!At(g) \in DOMAIN snapshot[g]
           /\ Target(g) \in Allocated
<1> DEFINE n == Len(eps[g])
<1>1. n \in Nat \ {0} /\ start[g] \in Nat \ {0} /\ tried[g] \in Nat
  BY DEF IInv, WalkTypes, StepInv
<1>2. start[g] - 1 + tried[g] \in Nat
  BY <1>1
<1>3. (start[g] - 1 + tried[g]) % n \in 0 .. n - 1
  BY <1>1, <1>2
<1>4. F!At(g) \in 1 .. n
  BY <1>1, <1>3 DEF F!At, F!Order
<1>5. snapshot[g] \in Seq(Allocated) /\ Len(snapshot[g]) = n
  BY DEF IInv, ObjectTypes, LinkInv, SnapshotOf
<1> QED
  BY <1>4, <1>5 DEF Target

\* No session is issued, ends or changes hands.
LEMMA SessionsStay ==
    ASSUME IInv, UNCHANGED <<sessions, object, pair, closed>>
    PROVE  Issued' /\ UNCHANGED token
<1>1. Allocated' = Allocated
  BY DEF Allocated
<1> QED
  BY <1>1 DEF IInv, Issued, SessionTypes, TokenInv, SessionInv, sessions

\* A session is issued that the client does not learn of.
LEMMA SessionLost ==
    ASSUME IInv, NEW g \in Call, step[g] = "opening", Issue(Target(g)), Faulty,
           lost' = lost \cup {NextSession}, UNCHANGED <<token, cleared, object, pair, closed>>
    PROVE  Issued'
<1>1. Allocated' = Allocated
  BY DEF Allocated
<1>2. /\ token \in [Object -> 0 .. MaxSessions] /\ owner \in Seq(Allocated)
      /\ live \subseteq DOMAIN owner /\ cleared \subseteq DOMAIN owner /\ lost \subseteq DOMAIN owner
      /\ faults \in 0 .. MaxFaults
  BY DEF IInv, Issued, SessionTypes
<1>3. /\ Len(owner) + 1 <= MaxSessions /\ owner' = Append(owner, Target(g))
      /\ live' = live \cup {Len(owner) + 1} /\ lost' = lost \cup {Len(owner) + 1}
      /\ faults < MaxFaults /\ faults' = faults + 1
  BY DEF Issue, NextSession, Faulty
<1>4. Target(g) \in Allocated
  BY TargetAllocated
<1>5. /\ DOMAIN owner' = DOMAIN owner \cup {Len(owner) + 1} /\ Len(owner') = Len(owner) + 1
      /\ \A s \in DOMAIN owner : owner'[s] = owner[s] /\ s # Len(owner) + 1
      /\ owner' \in Seq(Allocated)
  BY <1>2, <1>3, <1>4
<1>6. SessionTypes'
  BY <1>1, <1>2, <1>3, <1>5, ObjectAssumption DEF SessionTypes
<1>7. TokenInv'
  BY <1>2, <1>3, <1>5 DEF IInv, Issued, TokenInv
<1>8. SessionInv'
  <2>1. ~closed
    BY DEF IInv, StepInv
  <2> QED
    BY <1>2, <1>3, <1>5, <2>1 DEF IInv, Issued, SessionInv
<1> QED
  BY <1>6, <1>7, <1>8 DEF Issued

\* A step of calls only, in which nobody asks for a session.
LEMMA CallStep ==
    ASSUME IInv, WalkTypes', StepInv', Issued',
           UNCHANGED <<endpoints, object, pair, token, dropped, closed>>,
           snapshot' \in [Call -> Seq(Allocated)],
           step' \in [Call -> {"none", "ensure", "opening", "sending", "invalidate"}],
           tok' \in [Call -> 0 .. MaxSessions], retry' \in [Call -> BOOLEAN],
           \A h \in Call : SnapshotOf(h)',
           \A h \in Call : step'[h] = "opening" => step[h] = "opening" /\ Target(h)' = Target(h)
    PROVE  IInv'
<1>1. Allocated' = Allocated
  BY DEF Allocated
<1>2. ObjectTypes'
  BY <1>1 DEF IInv, ObjectTypes
<1>3. LinkInv'
  BY DEF IInv, LinkInv, SnapshotOf
<1>4. ListInv'
  BY <1>1 DEF IInv, ListInv
<1>5. MutexInv'
  BY DEF IInv, MutexInv
<1> QED
  BY <1>2, <1>3, <1>4, <1>5 DEF IInv

\* Where Enter leaves the calls.
Moves(g) == step' = [h \in Call |-> CASE pc'[h] # "try"            -> "none"
                                     [] pc'[h] = "try" /\ h = g   -> "ensure"
                                     [] pc'[h] = "try" /\ h # g   -> step[h]]

\* What a call that enters or leaves an endpoint does to its locals.
LEMMA EnterLocals ==
    ASSUME IInv, NEW g \in Call, Enter(g)
    PROVE  Moves(g) /\ tok' \in [Call -> 0 .. MaxSessions] /\ retry' \in [Call -> BOOLEAN]
BY ObjectAssumption DEF IInv, ObjectTypes, Enter, Moves, NoToken

\* A call begins a walk.
LEMMA WalkStep == ASSUME IInv, NEW g \in Call, Walk(g) PROVE IInv'
<1>1. /\ pc[g] \in {"idle", "failed"} /\ ~closed
      /\ pc' = [pc EXCEPT ![g] = "try"] /\ eps' = [eps EXCEPT ![g] = endpoints]
      /\ tried' = [tried EXCEPT ![g] = 0]
      /\ start' = [start EXCEPT ![g] = IF F!Sticks THEN preferred ELSE 1]
      /\ UNCHANGED <<endpoints, preferred>>
  BY DEF Walk, F!GetRaw, F!Retry, F!TryOrder, F!listVars
<1>2. F!Sticks => preferred > 1
  BY DEF F!Sticks
<1>3. WalkTypes'
  BY <1>1 DEF IInv, WalkTypes
<1>4. step' = [step EXCEPT ![g] = "ensure"]
  <2>1. step \in [Call -> {"none", "ensure", "opening", "sending", "invalidate"}] /\ pc \in [Call -> {"idle", "try", "failed", "dead"}]
    BY DEF IInv, ObjectTypes, WalkTypes
  <2>2. \A h \in Call : pc[h] # "try" => step[h] = "none"
    BY DEF IInv, StepInv
  <2>3. Moves(g)
    BY EnterLocals DEF Walk
  <2>4. step'[g] = "ensure"
    BY <1>1, <2>1, <2>3 DEF Moves
  <2>5. ASSUME NEW h \in Call, h # g PROVE step'[h] = step[h]
    <3>1. pc'[h] = pc[h]
      BY <1>1, <2>1, <2>5
    <3>2. CASE pc[h] # "try"
      BY <3>1, <3>2, <2>2, <2>3 DEF Moves
    <3>3. CASE pc[h] = "try"
      BY <3>1, <3>3, <2>3, <2>5 DEF Moves
    <3> QED
      BY <3>2, <3>3
  <2> QED
    BY <2>1, <2>3, <2>4, <2>5 DEF Moves
<1>5. StepInv'
  <2>1. ~closed'
    BY <1>1 DEF Walk
  <2> QED
    BY <1>1, <1>2, <1>4, <2>1 DEF IInv, StepInv, WalkTypes, ObjectTypes
<1>6. /\ snapshot' = [snapshot EXCEPT ![g] = object]
      /\ UNCHANGED <<endpoints, object, pair, sessions, dropped, closed>>
  BY <1>1 DEF Walk
<1>7. snapshot' \in [Call -> Seq(Allocated)] /\ step' \in [Call -> {"none", "ensure", "opening", "sending", "invalidate"}]
  BY <1>4, <1>6 DEF IInv, ObjectTypes
<1>8. \A h \in Call : SnapshotOf(h)'
  BY <1>1, <1>6 DEF IInv, LinkInv, SnapshotOf, ObjectTypes, WalkTypes
<1>9. ASSUME NEW h \in Call, step'[h] = "opening"
      PROVE  step[h] = "opening" /\ Target(h)' = Target(h)
  <2>1. h # g /\ step[h] = "opening"
    BY <1>4, <1>9 DEF IInv, ObjectTypes
  <2> QED
    BY <1>1, <1>6, <2>1 DEF Target, F!At, IInv, WalkTypes, ObjectTypes
<1>10. /\ Issued' /\ UNCHANGED token
       /\ tok' \in [Call -> 0 .. MaxSessions] /\ retry' \in [Call -> BOOLEAN]
  BY <1>6, SessionsStay, EnterLocals DEF Walk
<1> QED
  BY <1>1, <1>3, <1>5, <1>6, <1>7, <1>8, <1>9, <1>10, CallStep

\* An endpoint's outcome: the call goes on in its walk or leaves it, and every
\* other call goes on or dies.
LEMMA OutcomeStep ==
    ASSUME IInv, NEW g \in Call, pc[g] \in {"try", "failed"}, WalkTypes', Issued', Forget(g), Moves(g),
           tok' \in [Call -> 0 .. MaxSessions], retry' \in [Call -> BOOLEAN],
           UNCHANGED <<endpoints, object, pair, token, dropped, closed>>,
           eps'[g] \in {eps[g], <<>>},
           pc'[g] = "try" => eps'[g] = eps[g] /\ start'[g] = start[g] /\ pc[g] = "try",
           \A h \in Call \ {g} :
               /\ eps'[h] = eps[h] /\ start'[h] = start[h] /\ tried'[h] = tried[h]
               /\ pc'[h] \in {pc[h], "dead"}
    PROVE  IInv'
<1>1. /\ pc \in [Call -> {"idle", "try", "failed", "dead"}] /\ snapshot \in [Call -> Seq(Allocated)]
      /\ step \in [Call -> {"none", "ensure", "opening", "sending", "invalidate"}]
      /\ pc' \in [Call -> {"idle", "try", "failed", "dead"}]
  BY DEF IInv, WalkTypes, ObjectTypes
<1>2. step' \in [Call -> {"none", "ensure", "opening", "sending", "invalidate"}]
  BY <1>1 DEF Moves
<1>3. StepInv'
  <2>0. ~closed'
    BY DEF IInv, StepInv
  <2> SUFFICES ASSUME NEW h \in Call
               PROVE  /\ step'[h] # "none" <=> pc'[h] = "try"
                      /\ pc'[h] = "try" => Len(eps'[h]) >= 1 /\ start'[h] >= 1
    BY <2>0 DEF StepInv
  <2>1. CASE h = g
    BY <1>1, <2>1 DEF Moves, IInv, StepInv
  <2>2. CASE h # g
    BY <1>1, <2>2 DEF Moves, IInv, StepInv
  <2> QED
    BY <2>1, <2>2
<1>4. snapshot' \in [Call -> Seq(Allocated)] /\ \A h \in Call \ {g} : snapshot'[h] = snapshot[h]
  BY <1>1 DEF Forget
<1>5. ASSUME NEW h \in Call PROVE SnapshotOf(h)'
  <2>1. CASE h # g
    <3>1. SnapshotOf(h) /\ snapshot'[h] = snapshot[h] /\ eps'[h] = eps[h] /\ pair' = pair
      BY <1>4, <2>1 DEF IInv, LinkInv
    <3> QED
      BY <3>1 DEF SnapshotOf
  <2>2. CASE h = g /\ eps'[g] = <<>>
    BY <1>1, <2>2 DEF Forget, SnapshotOf
  <2>3. CASE h = g /\ eps'[g] = eps[g] /\ eps'[g] # <<>>
    BY <1>1, <2>3 DEF Forget, IInv, LinkInv, SnapshotOf
  <2> QED
    BY <2>1, <2>2, <2>3
<1>6. ASSUME NEW h \in Call, step'[h] = "opening"
      PROVE  step[h] = "opening" /\ Target(h)' = Target(h)
  <2>1. h # g
    BY <1>6 DEF Moves
  <2>2. step[h] = "opening"
    BY <1>6, <2>1 DEF Moves
  <2> QED
    BY <1>4, <2>1, <2>2 DEF Target, F!At
<1> QED
  BY <1>2, <1>3, <1>4, <1>5, <1>6, CallStep

LEMMA LeaveStep ==
    ASSUME IInv, NEW g \in Call, NEW e \in F!ErrorKind, Leave(g, e), Issued'
    PROVE  IInv'
<1> USE DEF IInv, WalkTypes
<1>0. /\ Moves(g) /\ tok' \in [Call -> 0 .. MaxSessions] /\ retry' \in [Call -> BOOLEAN]
      /\ Forget(g) /\ UNCHANGED <<object, pair, token, dropped, closed>>
  BY EnterLocals DEF Leave
<1>1. F!Fails(g, e)
  BY DEF Leave
<1>2. pc[g] = "try"
  BY <1>1 DEF F!Fails
<1>3. CASE F!Return(g) /\ UNCHANGED F!listVars
  <2>1. /\ eps' = [eps EXCEPT ![g] = <<>>] /\ start' = [start EXCEPT ![g] = 0]
        /\ tried' = [tried EXCEPT ![g] = 0] /\ pc' = [pc EXCEPT ![g] = "idle"]
        /\ UNCHANGED <<endpoints, preferred>>
    BY <1>3 DEF F!Return, F!Forget, F!listVars
  <2>2. WalkTypes'
    BY <2>1
  <2> QED
    BY <1>0, <1>2, <2>1, <2>2, OutcomeStep
<1>4. CASE F!NextEndpoint(g)
  <2>1. /\ tried' = [tried EXCEPT ![g] = @ + 1]
        /\ pc' = [pc EXCEPT ![g] = IF tried[g] + 1 = Len(eps[g]) THEN "failed" ELSE "try"]
        /\ UNCHANGED <<endpoints, preferred, eps, start>>
    BY <1>4 DEF F!NextEndpoint, F!listVars
  <2>2. WalkTypes'
    BY <2>1
  <2> QED
    BY <1>0, <1>2, <2>1, <2>2, OutcomeStep
<1> QED
  BY <1>1, <1>3, <1>4 DEF F!Fails

LEMMA FailsStep == ASSUME IInv, NEW g \in Call, Fails(g) \/ OpenIsLost(g) PROVE IInv'
<1>1. CASE Fails(g)
  <2>1. PICK e \in F!ErrorKind : Leave(g, e)
    BY <1>1 DEF Fails
  <2>2. UNCHANGED <<sessions, object, pair, closed>>
    BY <1>1, <2>1 DEF Fails, Leave, sessions
  <2> QED
    BY <2>1, <2>2, SessionsStay, LeaveStep
<1>2. CASE OpenIsLost(g)
  <2>1. PICK e \in {"network", "decode"} : Leave(g, e)
    BY <1>2 DEF OpenIsLost
  <2>2. e \in F!ErrorKind
    BY <2>1 DEF F!ErrorKind
  <2>3. Issued'
    BY <1>2, <2>1, SessionLost DEF OpenIsLost, Leave
  <2> QED
    BY <2>1, <2>2, <2>3, LeaveStep
<1> QED
  BY <1>1, <1>2

LEMMA GetAnsweredStep == ASSUME IInv, NEW g \in Call, GetAnswered(g) PROVE IInv'
<1> USE DEF IInv, WalkTypes
<1>1. /\ pc[g] = "try" /\ preferred' = F!At(g)
      /\ eps' = [eps EXCEPT ![g] = <<>>] /\ start' = [start EXCEPT ![g] = 0]
      /\ tried' = [tried EXCEPT ![g] = 0] /\ UNCHANGED endpoints
      /\ pc' = IF F!OutOfRange(F!At(g)) THEN [h \in Call |-> "dead"] ELSE [pc EXCEPT ![g] = "idle"]
  BY DEF GetAnswered, F!Answers, F!Forget
<1>2. F!At(g) \in Nat
  <2>1. step[g] # "none" /\ snapshot[g] \in Seq(Allocated)
    BY DEF GetAnswered, ObjectTypes
  <2> QED
    BY <2>1, TargetAllocated
<1>3. WalkTypes'
  BY <1>1, <1>2
<1>4. pc'[g] # "try" /\ \A h \in Call \ {g} : pc'[h] \in {pc[h], "dead"}
  BY <1>1
<1>5. UNCHANGED <<object, pair, sessions, dropped, closed>> /\ Forget(g) /\ Enter(g)
  BY DEF GetAnswered
<1>6. /\ Issued' /\ UNCHANGED token /\ Moves(g)
      /\ tok' \in [Call -> 0 .. MaxSessions] /\ retry' \in [Call -> BOOLEAN]
  BY <1>5, SessionsStay, EnterLocals
<1> QED
  BY <1>1, <1>3, <1>4, <1>5, <1>6, OutcomeStep

LEMMA WalkOverStep == ASSUME IInv, NEW g \in Call, WalkOver(g) PROVE IInv'
<1> USE DEF IInv, WalkTypes
<1>1. /\ pc[g] = "failed" /\ eps' = [eps EXCEPT ![g] = <<>>] /\ start' = [start EXCEPT ![g] = 0]
      /\ tried' = [tried EXCEPT ![g] = 0] /\ pc' = [pc EXCEPT ![g] = "idle"]
      /\ UNCHANGED <<endpoints, preferred>>
  BY DEF WalkOver, F!GiveUp, F!Cancelled, F!Return, F!Forget, F!listVars
<1>2. WalkTypes'
  BY <1>1
<1>3. Moves(g)
  <2>1. step \in [Call -> {"none", "ensure", "opening", "sending", "invalidate"}] /\ step' = step
    BY DEF ObjectTypes, WalkOver, gets
  <2>2. \A h \in Call : step[h] # "none" <=> pc[h] = "try"
    BY DEF StepInv
  <2>3. ASSUME NEW h \in Call
        PROVE  step[h] = CASE pc'[h] # "try"          -> "none"
                           [] pc'[h] = "try" /\ h = g -> "ensure"
                           [] pc'[h] = "try" /\ h # g -> step[h]
    BY <1>1, <2>1, <2>2
  <2> QED
    BY <2>1, <2>3 DEF Moves
<1>4. /\ Issued' /\ UNCHANGED token
      /\ tok' \in [Call -> 0 .. MaxSessions] /\ retry' \in [Call -> BOOLEAN]
  BY SessionsStay DEF WalkOver, gets, ObjectTypes
<1> QED
  BY <1>1, <1>2, <1>3, <1>4, OutcomeStep DEF WalkOver

\* Inside a getOne the walk does not move.
LEMMA WalksStay ==
    ASSUME IInv, UNCHANGED walks PROVE WalkTypes'
  BY DEF IInv, WalkTypes, walks

\* Inside a getOne, without a word from SSV about sessions, a step moves one call.
LEMMA InsideStep ==
    ASSUME IInv, NEW g \in Call, Inside, step[g] # "none",
           NEW x \in {"ensure", "sending", "invalidate"}, step' = [step EXCEPT ![g] = x],
           tok' \in [Call -> 0 .. MaxSessions], retry' \in [Call -> BOOLEAN],
           Issued', \A o \in Object : token'[o] # NoToken => token'[o] = token[o]
    PROVE  IInv'
<1>1. UNCHANGED <<pc, eps, start, tried, endpoints, object, snapshot, pair, dropped, closed>>
  BY DEF Inside, walks
<1>2. WalkTypes'
  BY WalksStay DEF Inside
<1>3. Allocated' = Allocated /\ \A h \in Call : Target(h)' = Target(h)
  BY <1>1 DEF Allocated, Target, F!At
<1>4. ObjectTypes' /\ StepInv'
  BY <1>1, <1>3 DEF IInv, ObjectTypes, StepInv
<1>5. LinkInv' /\ ListInv'
  BY <1>1, <1>3 DEF IInv, LinkInv, SnapshotOf, ListInv
<1>6. MutexInv'
  <2> SUFFICES ASSUME NEW h \in Call, step'[h] = "opening"
               PROVE  /\ token'[Target(h)] = NoToken
                      /\ \A k \in Call : step'[k] = "opening" /\ Target(k) = Target(h) => k = h
    BY <1>3 DEF MutexInv
  <2>1. step[h] = "opening" /\ \A k \in Call : step'[k] = "opening" => step[k] = "opening"
    BY DEF IInv, ObjectTypes
  <2>2. Target(h) \in Object
    BY <2>1, TargetAllocated DEF Allocated
  <2> QED
    BY <2>1, <2>2 DEF IInv, MutexInv
<1> QED
  BY <1>2, <1>4, <1>5, <1>6 DEF IInv

LEMMA UseTokenStep == ASSUME IInv, NEW g \in Call, UseToken(g) PROVE IInv'
<1>1. /\ step[g] # "none" /\ step' = [step EXCEPT ![g] = "sending"] /\ Inside
      /\ tok' = [tok EXCEPT ![g] = token[Target(g)]] /\ UNCHANGED <<retry, sessions>>
  BY DEF UseToken
<1>2. Target(g) \in Object
  BY <1>1, TargetAllocated DEF Allocated
<1>3. tok' \in [Call -> 0 .. MaxSessions] /\ retry' \in [Call -> BOOLEAN]
  BY <1>1, <1>2 DEF IInv, ObjectTypes, Issued, SessionTypes
<1>4. Issued' /\ UNCHANGED token
  BY <1>1, SessionsStay DEF Inside
<1> QED
  BY <1>1, <1>3, <1>4, InsideStep

LEMMA IsStaleStep == ASSUME IInv, NEW g \in Call, IsStale(g) PROVE IInv'
<1>1. /\ step[g] # "none" /\ step' = [step EXCEPT ![g] = "invalidate"] /\ Inside
      /\ tok' = [tok EXCEPT ![g] = NoToken] /\ UNCHANGED <<retry, token, owner, live, cleared, lost>>
      /\ faults' = faults \/ (faults < MaxFaults /\ faults' = faults + 1)
  BY DEF IsStale, Faulty
<1>2. tok' \in [Call -> 0 .. MaxSessions] /\ retry' \in [Call -> BOOLEAN]
  BY <1>1, ObjectAssumption DEF IInv, ObjectTypes, NoToken
<1>3. UNCHANGED <<object, pair, closed>> /\ Allocated' = Allocated
  BY <1>1 DEF Inside, Allocated
<1>4. SessionTypes'
  BY <1>1, <1>3, ObjectAssumption DEF IInv, Issued, SessionTypes
<1>5. TokenInv' /\ SessionInv'
  BY <1>1, <1>3 DEF IInv, Issued, TokenInv, SessionInv
<1> QED
  BY <1>1, <1>2, <1>4, <1>5, InsideStep DEF Issued

LEMMA InvalidateStep == ASSUME IInv, NEW g \in Call, InvalidateToken(g) PROVE IInv'
<1> DEFINE o == Target(g)
<1>1. /\ step[g] # "none" /\ step' = [step EXCEPT ![g] = "ensure"] /\ Inside
      /\ cleared' = cleared \cup ({token[o]} \ {NoToken}) /\ token' = [token EXCEPT ![o] = NoToken]
      /\ retry' = [retry EXCEPT ![g] = TRUE] /\ UNCHANGED <<tok, owner, live, lost, faults>>
  BY DEF InvalidateToken
<1>2. o \in Object /\ ~closed
  BY <1>1, TargetAllocated DEF Allocated, IInv, StepInv
<1> HIDE DEF o
<1>3. UNCHANGED <<object, pair, closed>> /\ Allocated' = Allocated
  BY <1>1 DEF Inside, Allocated
<1>4. /\ token \in [Object -> 0 .. MaxSessions] /\ cleared \subseteq DOMAIN owner
      /\ token[o] # NoToken => token[o] \in DOMAIN owner /\ owner[token[o]] = o
  BY <1>2 DEF IInv, Issued, SessionTypes, TokenInv
<1>5. token' \in [Object -> 0 .. MaxSessions] /\ cleared' \subseteq DOMAIN owner
  <2>1. NoToken \in 0 .. MaxSessions
    BY ObjectAssumption DEF NoToken
  <2> QED
    BY <1>1, <1>4, <2>1
<1>6. SessionTypes'
  BY <1>1, <1>3, <1>5 DEF IInv, Issued, SessionTypes
<1>7. TokenInv'
  <2> SUFFICES ASSUME NEW q \in Object, token'[q] # NoToken
               PROVE  token'[q] \in DOMAIN owner \ (cleared' \cup lost) /\ owner[token'[q]] = q
    BY <1>1 DEF TokenInv
  <2>1. q # o /\ token'[q] = token[q]
    BY <1>1, <1>4
  <2>2. token[q] \in DOMAIN owner \ (cleared \cup lost) /\ owner[token[q]] = q
    BY <2>1 DEF IInv, Issued, TokenInv
  <2> QED
    BY <1>1, <1>4, <2>1, <2>2
<1>8. SessionInv'
  <2> SUFFICES ASSUME NEW s \in DOMAIN owner, s \notin cleared' \cup lost PROVE s = token'[owner[s]]
    BY <1>1, <1>2, <1>3 DEF SessionInv
  <2>1. s = token[owner[s]]
    BY <1>1, <1>2 DEF IInv, Issued, SessionInv
  <2>2. owner[s] \in Object
    BY DEF IInv, Issued, SessionTypes, Allocated
  <2>3. s # NoToken
    BY DEF NoToken, IInv, Issued, SessionTypes
  <2> QED
    BY <1>1, <1>4, <2>1, <2>2, <2>3
<1>9. retry' \in [Call -> BOOLEAN] /\ tok' \in [Call -> 0 .. MaxSessions]
  BY <1>1 DEF IInv, ObjectTypes
<1> QED
  BY <1>1, <1>4, <1>6, <1>7, <1>8, <1>9, InsideStep DEF Issued

LEMMA OpenStep == ASSUME IInv, NEW g \in Call, Open(g) PROVE IInv'
<1>1. /\ step' = [step EXCEPT ![g] = "opening"] /\ step[g] = "ensure"
      /\ UNCHANGED <<pc, eps, start, tried, endpoints, object, snapshot, pair, tok, retry, dropped, closed>>
  BY DEF Open, Inside, walks
<1>2. WalkTypes'
  BY WalksStay DEF Open, Inside
<1>3. Allocated' = Allocated /\ \A h \in Call : Target(h)' = Target(h)
  BY <1>1 DEF Allocated, Target, F!At
<1>4. ObjectTypes' /\ StepInv'
  BY <1>1, <1>3 DEF IInv, ObjectTypes, StepInv
<1>5. LinkInv' /\ ListInv'
  BY <1>1, <1>3 DEF IInv, LinkInv, SnapshotOf, ListInv
<1>6. Issued' /\ UNCHANGED token
  BY <1>1, SessionsStay DEF Open
<1>7. MutexInv'
  BY <1>1, <1>3, <1>6 DEF IInv, MutexInv, ObjectTypes, Open, Unlocked
<1> QED
  BY <1>2, <1>4, <1>5, <1>6, <1>7 DEF IInv

LEMMA OpenedStep == ASSUME IInv, NEW g \in Call, Opened(g) PROVE IInv'
<1> DEFINE o == Target(g)
           n == Len(owner) + 1
<1>1. /\ step' = [step EXCEPT ![g] = "sending"] /\ step[g] = "opening"
      /\ token' = [token EXCEPT ![o] = n] /\ tok' = [tok EXCEPT ![g] = n]
      /\ n <= MaxSessions /\ owner' = Append(owner, o) /\ live' = live \cup {n}
      /\ UNCHANGED <<pc, eps, start, tried, endpoints, object, snapshot, pair, dropped, closed>>
      /\ UNCHANGED <<retry, cleared, lost, faults>>
  BY DEF Opened, Issue, NextSession, Inside, walks
<1>2. WalkTypes'
  BY WalksStay DEF Opened, Inside
<1>3. o \in Allocated /\ o \in Object
  BY <1>1, TargetAllocated DEF Allocated
<1>4. Allocated' = Allocated /\ \A h \in Call : Target(h)' = Target(h)
  BY <1>1 DEF Allocated, Target, F!At
<1>5. ~closed
  BY <1>1 DEF IInv, StepInv
<1>6. token[o] = NoToken
  BY <1>1 DEF IInv, MutexInv
<1>7. /\ token \in [Object -> 0 .. MaxSessions] /\ owner \in Seq(Allocated)
      /\ live \subseteq DOMAIN owner /\ cleared \subseteq DOMAIN owner /\ lost \subseteq DOMAIN owner
  BY DEF IInv, Issued, SessionTypes
<1> HIDE DEF o
<1>8. /\ DOMAIN owner' = DOMAIN owner \cup {n} /\ Len(owner') = n /\ owner'[n] = o
      /\ \A s \in DOMAIN owner : owner'[s] = owner[s] /\ s # n
      /\ owner' \in Seq(Allocated) /\ n \in 1 .. MaxSessions
  BY <1>1, <1>3, <1>7, ObjectAssumption
<1> HIDE DEF n
<1>9. ObjectTypes'
  BY <1>1, <1>4, <1>8 DEF IInv, ObjectTypes
<1>10. StepInv' /\ LinkInv' /\ ListInv'
  BY <1>1, <1>4 DEF IInv, StepInv, ObjectTypes, LinkInv, SnapshotOf, ListInv
<1>11. SessionTypes'
  BY <1>1, <1>3, <1>4, <1>7, <1>8 DEF IInv, Issued, SessionTypes
<1>12. TokenInv'
  BY <1>1, <1>3, <1>7, <1>8 DEF IInv, Issued, TokenInv
<1>13. SessionInv'
  <2> SUFFICES ASSUME NEW s \in DOMAIN owner', s \notin cleared \cup lost PROVE s = token'[owner'[s]]
    BY <1>1, <1>5 DEF SessionInv
  <2>1. CASE s = n
    BY <1>1, <1>3, <1>7, <1>8, <2>1
  <2>2. CASE s # n
    <3>1. s \in DOMAIN owner /\ owner'[s] = owner[s] /\ s = token[owner[s]]
      BY <1>5, <1>8, <2>2 DEF IInv, Issued, SessionInv
    <3>2. owner[s] \in Object /\ s # NoToken
      BY <1>7, <3>1 DEF Allocated, NoToken
    <3> QED
      BY <1>1, <1>6, <1>7, <3>1, <3>2
  <2> QED
    BY <2>1, <2>2
<1>14. MutexInv'
  <2> SUFFICES ASSUME NEW h \in Call, step'[h] = "opening"
               PROVE  /\ token'[Target(h)] = NoToken
                      /\ \A k \in Call : step'[k] = "opening" /\ Target(k) = Target(h) => k = h
    BY <1>4 DEF MutexInv
  <2>1. h # g /\ step[h] = "opening"
    BY <1>1 DEF IInv, ObjectTypes
  <2>2. Target(h) # o /\ Target(h) \in Object
    BY <1>1, <2>1, TargetAllocated DEF IInv, MutexInv, Allocated, o
  <2> QED
    BY <1>1, <1>7, <2>1, <2>2 DEF IInv, MutexInv, ObjectTypes
<1> QED
  BY <1>2, <1>9, <1>10, <1>11, <1>12, <1>13, <1>14 DEF IInv, Issued

LEMMA PassesStep == ASSUME IInv, Passes PROVE IInv'
<1>1. /\ UNCHANGED <<pc, eps, start, tried, endpoints, preferred>>
      /\ UNCHANGED <<object, snapshot, pair, step, tok, retry, sessions, dropped, closed>>
  BY DEF Passes, F!Tick, F!Deadline, F!listVars, F!walkVars, gets
<1>2. WalkTypes' /\ StepInv'
  BY <1>1 DEF IInv, WalkTypes, StepInv
<1>3. \A h \in Call : step'[h] = "opening" => step[h] = "opening" /\ Target(h)' = Target(h)
  BY <1>1 DEF Target, F!At
<1>4. /\ \A h \in Call : SnapshotOf(h)'
      /\ snapshot' \in [Call -> Seq(Allocated)]
      /\ step' \in [Call -> {"none", "ensure", "opening", "sending", "invalidate"}]
      /\ tok' \in [Call -> 0 .. MaxSessions] /\ retry' \in [Call -> BOOLEAN]
  BY <1>1 DEF IInv, LinkInv, SnapshotOf, ObjectTypes
<1>5. Issued' /\ UNCHANGED token
  BY <1>1, SessionsStay
<1> QED
  BY <1>1, <1>2, <1>3, <1>4, <1>5, CallStep

LEMMA ExpireStep == ASSUME IInv, NEW s \in live, Expire(s) PROVE IInv'
<1>1. /\ UNCHANGED <<pc, eps, start, tried, endpoints, preferred>>
      /\ UNCHANGED <<object, snapshot, pair, step, tok, retry, dropped, closed>>
      /\ UNCHANGED <<token, owner, cleared, lost>> /\ live' = live \ {s}
      /\ faults < MaxFaults /\ faults' = faults + 1
  BY DEF Expire, Inside, Faulty, walks, gets
<1>2. WalkTypes' /\ StepInv'
  BY <1>1 DEF IInv, WalkTypes, StepInv
<1>3. \A h \in Call : step'[h] = "opening" => step[h] = "opening" /\ Target(h)' = Target(h)
  BY <1>1 DEF Target, F!At
<1>4. /\ \A h \in Call : SnapshotOf(h)'
      /\ snapshot' \in [Call -> Seq(Allocated)]
      /\ step' \in [Call -> {"none", "ensure", "opening", "sending", "invalidate"}]
      /\ tok' \in [Call -> 0 .. MaxSessions] /\ retry' \in [Call -> BOOLEAN]
  BY <1>1 DEF IInv, LinkInv, SnapshotOf, ObjectTypes
<1>5. Allocated' = Allocated
  BY <1>1 DEF Allocated
<1>6. SessionTypes'
  BY <1>1, <1>5, ObjectAssumption DEF IInv, Issued, SessionTypes
<1>7. TokenInv' /\ SessionInv'
  BY <1>1 DEF IInv, Issued, TokenInv, SessionInv
<1> QED
  BY <1>1, <1>2, <1>3, <1>4, <1>6, <1>7, CallStep DEF Issued

LEMMA CloseStep == ASSUME IInv, Close PROVE IInv'
<1>1. PICK S \in SUBSET Taken : live' = live \ S /\ lost' = lost \cup (Taken \ S)
  BY DEF Close, Terminate
<1>2. /\ \A g \in Call : pc[g] = "idle"
      /\ token' = [o \in Object |-> IF o \in ToSet(object) THEN NoToken ELSE token[o]]
      /\ closed' = TRUE /\ ~closed
      /\ UNCHANGED <<pc, eps, start, tried, endpoints, object, snapshot, pair, step, tok, retry, dropped>>
      /\ UNCHANGED <<owner, cleared, faults>>
  BY DEF Close, walks, gets
<1>3. WalkTypes'
  BY WalksStay DEF Close
<1>4. Allocated' = Allocated /\ \A h \in Call : Target(h)' = Target(h)
  BY <1>2 DEF Allocated, Target, F!At
<1>5. ObjectTypes' /\ StepInv' /\ LinkInv' /\ ListInv'
  BY <1>2, <1>4 DEF IInv, ObjectTypes, StepInv, LinkInv, SnapshotOf, ListInv
<1>6. MutexInv'
  BY <1>2 DEF IInv, StepInv, MutexInv
<1>7. \A i \in DOMAIN object : object[i] \in ToSet(object) /\ object[i] \in Object
  BY DEF ToSet, IInv, ObjectTypes, Allocated
<1>8. /\ token \in [Object -> 0 .. MaxSessions] /\ owner \in Seq(Allocated)
      /\ live \subseteq DOMAIN owner /\ lost \subseteq DOMAIN owner
  BY DEF IInv, Issued, SessionTypes
<1>9. ToSet(object) \subseteq Object
  BY DEF ToSet, IInv, ObjectTypes, Allocated
<1>10. \A s \in Taken : s \in DOMAIN owner /\ owner[s] \in ToSet(object) /\ s = token[owner[s]]
  BY <1>9 DEF Taken, IInv, Issued, TokenInv
<1>11. SessionTypes'
  <2>1. token' \in [Object -> 0 .. MaxSessions]
    BY <1>2, <1>8, ObjectAssumption DEF NoToken
  <2>2. live' \subseteq DOMAIN owner /\ lost' \subseteq DOMAIN owner
    BY <1>1, <1>8, <1>10
  <2> QED
    BY <1>2, <1>4, <2>1, <2>2 DEF IInv, Issued, SessionTypes
<1>12. TokenInv'
  <2> SUFFICES ASSUME NEW o \in Object, token'[o] # NoToken
               PROVE  token'[o] \in DOMAIN owner \ (cleared \cup lost') /\ owner[token'[o]] = o
    BY <1>2 DEF TokenInv
  <2>1. o \notin ToSet(object) /\ token'[o] = token[o]
    BY <1>2
  <2>2. token[o] \in DOMAIN owner \ (cleared \cup lost) /\ owner[token[o]] = o
    BY <2>1 DEF IInv, Issued, TokenInv
  <2> QED
    BY <1>1, <1>10, <2>1, <2>2
<1>13. SessionInv'
  <2> SUFFICES ASSUME NEW s \in DOMAIN owner, s \notin cleared \cup lost', s \in live',
                      NEW i \in DOMAIN object, object[i] = owner[s]
               PROVE  FALSE
    BY <1>2 DEF SessionInv
  <2>1. s = token[owner[s]]
    BY <1>1, <1>2 DEF IInv, Issued, SessionInv
  <2>2. s # NoToken /\ owner[s] \in ToSet(object)
    BY <1>7, <1>8 DEF NoToken
  <2>3. s \in Taken
    BY <2>1, <2>2 DEF Taken
  <2> QED
    BY <1>1, <2>3
<1> QED
  BY <1>3, <1>5, <1>6, <1>11, <1>12, <1>13 DEF IInv, Issued

-----------------------------------------------------------------------------
(* SetBackups                                                              *)

\* The list SetBackups installs: the primary and its backups, none twice.
LEMMA NewList ==
    ASSUME NEW ips, NEW b \in Lists(Endpoint), Backups(b, ips)
    PROVE  LET new == <<Primary>> \o b
           IN  /\ new \in Seq(Endpoint) /\ Len(new) = Len(b) + 1
               /\ DOMAIN new = 1 .. Len(b) + 1
               /\ \A i, j \in DOMAIN new : new[i] = new[j] => i = j
<1> DEFINE new == <<Primary>> \o b
<1>1. PICK k \in 0 .. Cardinality(Endpoint) : b \in Injection(1 .. k, Endpoint)
  BY DEF Lists
<1>2. k \in Nat /\ b \in [1 .. k -> Endpoint] /\ IsInjective(b)
  BY <1>1 DEF Injection
<1>3. b \in Seq(Endpoint) /\ Len(b) = k
  BY <1>2
<1>4. \A i, j \in 1 .. k : b[i] = b[j] => i = j
  BY <1>2 DEF IsInjective
<1>5. \A i \in 1 .. k : b[i] # Primary
  BY <1>2 DEF Backups, ToSet
<1>6. new \in Seq(Endpoint) /\ Len(new) = k + 1 /\ DOMAIN new = 1 .. k + 1
  BY <1>3, EndpointAssumption
<1>7. new[1] = Primary /\ \A i \in 2 .. k + 1 : new[i] = b[i - 1] /\ i - 1 \in 1 .. k
  BY <1>2, <1>3
<1>8. \A i, j \in 1 .. k + 1 : new[i] = new[j] => i = j
  BY <1>2, <1>4, <1>5, <1>7
<1> QED
  BY <1>3, <1>6, <1>8

\* What Install does to objects and pairs.
LEMMA Installed ==
    ASSUME IInv, NEW new \in Seq(Endpoint), NEW ids \in [DOMAIN new -> Object],
           \A i, j \in DOMAIN new : new[i] = new[j] => i = j,
           Install(new, ids)
    PROVE  /\ \A i \in DOMAIN new : pair'[ids[i]] = new[i]
           /\ \A o \in Allocated : pair'[o] = pair[o]
           /\ \A o \in Object : pair[o] = NoEndpoint /\ pair'[o] # NoEndpoint
                 => \E i \in DOMAIN new : ids[i] = o
           /\ \A i \in DOMAIN new, k \in DOMAIN endpoints : endpoints[k] = new[i] => ids[i] = object[k]
           /\ pair' \in [Object -> Endpoint \cup {NoEndpoint}]
<1>1. /\ \A k \in DOMAIN endpoints : object[k] \in Allocated /\ pair[object[k]] = endpoints[k]
      /\ \A k, l \in DOMAIN endpoints : endpoints[k] = endpoints[l] => k = l
      /\ pair \in [Object -> Endpoint \cup {NoEndpoint}]
  BY DEF IInv, ObjectTypes, LinkInv, ListInv, WalkTypes
<1>2. Pick(new, ids)
  BY DEF Install
<1>3. \A i \in DOMAIN new, k \in DOMAIN endpoints : endpoints[k] = new[i] => ids[i] = object[k]
  BY <1>1, <1>2 DEF Pick
<1>4. ASSUME NEW i \in DOMAIN new, NEW j \in DOMAIN new, ids[i] = ids[j]
      PROVE  i = j
  <2>1. CASE \E k \in DOMAIN endpoints : endpoints[k] = new[i] /\ ids[i] = object[k]
    <3>1. PICK k \in DOMAIN endpoints : endpoints[k] = new[i] /\ ids[i] = object[k]
      BY <2>1
    <3>2. CASE \E l \in DOMAIN endpoints : endpoints[l] = new[j] /\ ids[j] = object[l]
      <4>1. PICK l \in DOMAIN endpoints : endpoints[l] = new[j] /\ ids[j] = object[l]
        BY <3>2
      <4>2. endpoints[k] = endpoints[l]
        BY <1>1, <1>4, <3>1, <4>1
      <4> QED
        BY <3>1, <4>1, <4>2
    <3>3. CASE ~\E l \in DOMAIN endpoints : endpoints[l] = new[j] /\ ids[j] = object[l]
      BY <1>2, <1>4, <3>3 DEF Pick
    <3> QED
      BY <3>2, <3>3
  <2>2. CASE ~\E k \in DOMAIN endpoints : endpoints[k] = new[i] /\ ids[i] = object[k]
    BY <1>2, <1>4, <2>2 DEF Pick
  <2> QED
    BY <2>1, <2>2
<1>5. pair' = [o \in Object |-> IF \E i \in DOMAIN new : ids[i] = o
                               THEN new[CHOOSE i \in DOMAIN new : ids[i] = o]
                               ELSE pair[o]]
  BY DEF Install
<1>6. ASSUME NEW i \in DOMAIN new PROVE pair'[ids[i]] = new[i]
  <2>1. (CHOOSE j \in DOMAIN new : ids[j] = ids[i]) = i
    BY <1>4
  <2> QED
    BY <1>5, <2>1
<1>7. ASSUME NEW o \in Allocated PROVE pair'[o] = pair[o]
  <2>0. o \in Object /\ pair[o] # NoEndpoint
    BY DEF Allocated
  <2>1. CASE \E i \in DOMAIN new : ids[i] = o
    <3>1. PICK i \in DOMAIN new : ids[i] = o
      BY <2>1
    <3>2. PICK k \in DOMAIN endpoints : endpoints[k] = new[i] /\ ids[i] = object[k]
      BY <1>2, <2>0, <3>1 DEF Pick, Fresh
    <3> QED
      BY <1>1, <1>6, <3>1, <3>2
  <2>2. CASE ~\E i \in DOMAIN new : ids[i] = o
    BY <1>5, <2>0, <2>2
  <2> QED
    BY <2>1, <2>2
<1>8. \A o \in Object : pair[o] = NoEndpoint /\ pair'[o] # NoEndpoint
                           => \E i \in DOMAIN new : ids[i] = o
  BY <1>5
<1>9. pair' \in [Object -> Endpoint \cup {NoEndpoint}]
  <2>1. \A i \in DOMAIN new : new[i] \in Endpoint
    OBVIOUS
  <2>2. ASSUME NEW o \in Object PROVE pair'[o] \in Endpoint \cup {NoEndpoint}
    <3>1. CASE \E i \in DOMAIN new : ids[i] = o
      BY <1>6, <2>1, <3>1
    <3>2. CASE ~\E i \in DOMAIN new : ids[i] = o
      BY <1>1, <1>5, <3>2
    <3> QED
      BY <3>1, <3>2
  <2> QED
    BY <1>5, <2>2
<1> QED
  BY <1>3, <1>6, <1>7, <1>8, <1>9

LEMMA SetBackupsStep == ASSUME IInv, NEW ips \in AddressLists, SetBackups(ips) PROVE IInv'
<1>0. PICK b \in Lists(Endpoint) :
          /\ Backups(b, ips) /\ F!SetBackups(b)
          /\ \E ids \in [1 .. Len(b) + 1 -> Object] : Install(<<Primary>> \o b, ids)
  BY DEF SetBackups
<1>1. PICK ids \in [1 .. Len(b) + 1 -> Object] : Install(<<Primary>> \o b, ids)
  BY <1>0
<1> DEFINE new == <<Primary>> \o b
<1>2. /\ new \in Seq(Endpoint) /\ Len(new) = Len(b) + 1 /\ DOMAIN new = 1 .. Len(b) + 1
      /\ \A i, j \in DOMAIN new : new[i] = new[j] => i = j
  BY <1>0, NewList
<1>3. /\ endpoints' = new /\ object' = ids /\ ~closed
      /\ preferred' \in {preferred, 1}
      /\ dropped' = dropped \cup (ToSet(endpoints) \ ToSet(new))
      /\ UNCHANGED <<pc, eps, start, tried, snapshot, step, tok, retry, closed>>
      /\ UNCHANGED <<token, owner, live, cleared, lost, faults>>
  BY <1>0, <1>1 DEF SetBackups, F!SetBackups, Install, gets, sessions, F!walkVars
<1> HIDE DEF new
<1>4. ids \in [DOMAIN new -> Object]
  BY <1>2
<1>5. Install(new, ids)
  BY <1>1 DEF new
<1>6. /\ \A i \in DOMAIN new : pair'[ids[i]] = new[i]
      /\ \A o \in Allocated : pair'[o] = pair[o]
      /\ \A o \in Object : pair[o] = NoEndpoint /\ pair'[o] # NoEndpoint
            => \E i \in DOMAIN new : ids[i] = o
      /\ \A i \in DOMAIN new, k \in DOMAIN endpoints : endpoints[k] = new[i] => ids[i] = object[k]
      /\ pair' \in [Object -> Endpoint \cup {NoEndpoint}]
  BY <1>2, <1>4, <1>5, Installed
<1>7. Allocated \subseteq Allocated' /\ \A i \in DOMAIN new : ids[i] \in Allocated'
  <2>1. \A i \in DOMAIN new : new[i] # NoEndpoint
    BY <1>2, EndpointAssumption
  <2> QED
    BY <1>4, <1>6, <2>1 DEF Allocated
<1>8. WalkTypes'
  BY <1>2, <1>3 DEF IInv, WalkTypes
<1>9. ObjectTypes'
  <2>1. object' \in Seq(Allocated') /\ Len(object') = Len(new)
    BY <1>2, <1>3, <1>4, <1>7
  <2>2. snapshot' \in [Call -> Seq(Allocated')]
    <3>1. \A g \in Call : snapshot[g] \in Seq(Allocated')
      BY <1>7 DEF IInv, ObjectTypes
    <3> QED
      BY <1>3, <3>1 DEF IInv, ObjectTypes
  <2>3. ToSet(endpoints) \subseteq Endpoint
    BY DEF IInv, WalkTypes, ToSet
  <2> QED
    BY <1>3, <1>6, <1>7, <2>1, <2>2, <2>3 DEF IInv, ObjectTypes
<1>10. LinkInv'
  <2>1. Len(object') = Len(endpoints')
    BY <1>2, <1>3, <1>4
  <2>2. ASSUME NEW g \in Call PROVE SnapshotOf(g)'
    <3>1. SnapshotOf(g) /\ snapshot'[g] = snapshot[g] /\ eps'[g] = eps[g]
      BY <1>3 DEF IInv, LinkInv
    <3>2. \A i \in DOMAIN snapshot[g] : snapshot[g][i] \in Allocated
      BY DEF IInv, ObjectTypes
    <3>3. DOMAIN eps[g] = DOMAIN snapshot[g]
      BY <3>1 DEF IInv, ObjectTypes, WalkTypes, SnapshotOf
    <3> QED
      BY <1>6, <3>1, <3>2, <3>3 DEF SnapshotOf
  <2> QED
    BY <1>2, <1>3, <1>6, <2>1, <2>2 DEF IInv, LinkInv
<1>11. StepInv'
  BY <1>3 DEF IInv, StepInv
<1>12. ListInv'
  <2>1. \A i, j \in DOMAIN endpoints' : endpoints'[i] = endpoints'[j] => i = j
    BY <1>2, <1>3
  <2>2. ASSUME NEW o \in Allocated', pair'[o] \notin dropped'
        PROVE  \E i \in DOMAIN object' : object'[i] = o
    <3>1. CASE o \in Allocated
      <4>1. PICK k \in DOMAIN object : object[k] = o
        BY <1>3, <1>6, <2>2, <3>1 DEF IInv, ListInv
      <4>2. k \in DOMAIN endpoints /\ endpoints[k] = pair'[o]
        BY <1>6, <3>1, <4>1 DEF IInv, LinkInv, ObjectTypes, WalkTypes
      <4>3. endpoints[k] \in ToSet(new)
        BY <1>3, <2>2, <4>2 DEF ToSet
      <4>4. PICK i \in DOMAIN new : new[i] = endpoints[k]
        BY <4>3 DEF ToSet
      <4> QED
        BY <1>2, <1>3, <1>4, <1>6, <4>1, <4>2, <4>4
    <3>2. CASE o \notin Allocated
      BY <1>2, <1>3, <1>4, <1>6, <2>2, <3>2 DEF Allocated
    <3> QED
      BY <3>1, <3>2
  <2> QED
    BY <2>1, <2>2 DEF ListInv
<1>13. Issued'
  <2>1. owner \in Seq(Allocated')
    BY <1>7 DEF IInv, Issued, SessionTypes
  <2> QED
    BY <1>3, <2>1 DEF IInv, Issued, SessionTypes, TokenInv, SessionInv
<1>14. MutexInv'
  <2>1. \A g \in Call : Target(g)' = Target(g)
    BY <1>3 DEF Target, F!At
  <2> QED
    BY <1>3, <2>1 DEF IInv, MutexInv
<1> QED
  BY <1>8, <1>9, <1>10, <1>11, <1>12, <1>13, <1>14 DEF IInv

-----------------------------------------------------------------------------
(* The theorems                                                            *)

LEMMA StepInvariant == ASSUME IInv, [Next]_vars PROVE IInv'
<1>1. CASE \E g \in Call : Walk(g) \/ GetOne(g) \/ WalkOver(g)
  BY <1>1, WalkStep, UseTokenStep, OpenStep, OpenedStep, FailsStep, IsStaleStep, InvalidateStep,
     GetAnsweredStep, WalkOverStep DEF GetOne
<1>2. CASE Passes
  BY <1>2, PassesStep
<1>3. CASE \E ips \in AddressLists : SetBackups(ips)
  BY <1>3, SetBackupsStep
<1>4. CASE Close \/ \E s \in live : Expire(s)
  BY <1>4, CloseStep, ExpireStep
<1>5. CASE UNCHANGED vars
  <2>1. /\ UNCHANGED <<pc, eps, start, tried, endpoints, preferred, object, snapshot, pair>>
        /\ UNCHANGED <<step, tok, retry, sessions, dropped, closed>>
    BY <1>5 DEF vars, walks, gets
  <2>2. Allocated' = Allocated /\ \A g \in Call : Target(g)' = Target(g)
    BY <2>1 DEF Allocated, Target, F!At
  <2>3. WalkTypes' /\ ObjectTypes' /\ LinkInv' /\ StepInv'
    BY <2>1, <2>2 DEF IInv, WalkTypes, ObjectTypes, LinkInv, SnapshotOf, StepInv
  <2>4. Issued' /\ UNCHANGED token
    BY <2>1, SessionsStay
  <2>5. ListInv' /\ MutexInv'
    BY <2>1, <2>2, <2>4 DEF IInv, ListInv, MutexInv
  <2> QED
    BY <2>3, <2>4, <2>5 DEF IInv
<1> QED
  BY <1>1, <1>2, <1>3, <1>4, <1>5 DEF Next

THEOREM Invariance == Spec => []IInv
<1>1. IInv /\ [Next]_vars => IInv'
  BY StepInvariant
<1> QED
  BY <1>1, InitIInv, PTL DEF Spec

LEMMA SameObject ==
    ASSUME IInv, NEW o \in Allocated, NEW q \in Allocated, pair[o] = pair[q], pair[o] \notin dropped
    PROVE  o = q
<1>1. PICK i \in DOMAIN object : object[i] = o
  BY DEF IInv, ListInv
<1>2. PICK j \in DOMAIN object : object[j] = q
  BY DEF IInv, ListInv
<1>3. i \in DOMAIN endpoints /\ j \in DOMAIN endpoints
  BY DEF IInv, LinkInv, ObjectTypes, WalkTypes
<1>4. endpoints[i] = pair[o] /\ endpoints[j] = pair[q]
  BY <1>1, <1>2, <1>3 DEF IInv, LinkInv
<1>5. i = j
  BY <1>3, <1>4 DEF IInv, ListInv
<1> QED
  BY <1>1, <1>2, <1>5

\* What the client's state looks like: Failover's part has Failover's types, every
\* list of endpoints is that of the pairs of its objects, and an object's token is
\* of a session issued to that object which the client has not let go.
THEOREM TypeCorrect == Spec => []TypeOK
<1>1. FP!TypeOK => F!TypeOK
  BY DEF FP!TypeOK, F!TypeOK
<1>2. IInv /\ F!TypeOK => TypeOK
  <2> SUFFICES ASSUME IInv, F!TypeOK PROVE TypeOK
    OBVIOUS
  <2>1. endpoints = [i \in DOMAIN object |-> pair[object[i]]]
    <3>1. endpoints \in Seq(Endpoint) /\ object \in Seq(Allocated) /\ Len(object) = Len(endpoints)
      BY DEF IInv, WalkTypes, ObjectTypes, LinkInv
    <3>2. DOMAIN endpoints = DOMAIN object
      BY <3>1
    <3> QED
      BY <3>1, <3>2 DEF IInv, LinkInv
  <2>2. ASSUME NEW g \in Call
        PROVE  eps[g] = [i \in DOMAIN snapshot[g] |-> pair[snapshot[g][i]]]
    BY DEF IInv, WalkTypes, ObjectTypes, LinkInv, SnapshotOf
  <2> QED
    BY <2>1, <2>2 DEF IInv, ObjectTypes, Issued, SessionTypes, TokenInv, TypeOK
<1> QED
  BY <1>1, <1>2, ClientWalks, Invariance, FP!TypeCorrect,
     EndpointAssumption, BoundsAssumption, BackupsTyped, PTL

\* A pair that never left the list has one object, and whatever refreshes and calls
\* there were, it was given another session only after the last was dropped for a
\* stale answer or lost on the way.
THEOREM OneSessionPerKeptPair == Spec => []KeptPairsShareSession
<1>1. IInv => KeptPairsShareSession
  <2> SUFFICES ASSUME IInv, ~closed, NEW o \in Allocated, NEW q \in Allocated,
                      pair[o] = pair[q], pair[o] \notin dropped
               PROVE  /\ o = q
                      /\ \A s \in DOMAIN owner :
                            owner[s] = o => s = token[o] \/ s \in cleared \cup lost
    BY DEF KeptPairsShareSession
  <2>1. o = q
    BY SameObject
  <2> QED
    BY <2>1 DEF IInv, Issued, SessionInv
<1> QED
  BY <1>1, Invariance, PTL

\* Two OpenSession calls for one target are in flight at once only if SetBackups
\* dropped it and took it up again.
THEOREM SingleOpenPerTarget == Spec => []OneOpenPerTarget
<1>1. IInv => OneOpenPerTarget
  <2> SUFFICES ASSUME IInv, NEW g \in Call, NEW h \in Call, step[g] = "opening", step[h] = "opening",
                      pair[Target(g)] = pair[Target(h)], pair[Target(g)] \notin dropped
               PROVE  g = h
    BY DEF OneOpenPerTarget
  <2>1. Target(g) \in Allocated /\ Target(h) \in Allocated
    BY TargetAllocated
  <2>2. Target(g) = Target(h)
    BY <2>1, SameObject
  <2> QED
    BY <2>2 DEF IInv, MutexInv
<1> QED
  BY <1>1, Invariance, PTL

\* Close leaves no session but those the client had let go, for a stale answer or a
\* lost message, and those of endpoints SetBackups dropped.
THEOREM CloseIsThorough == Spec => []CloseEndsKept
<1>1. IInv => CloseEndsKept
  <2> SUFFICES ASSUME IInv, closed, NEW s \in live, s \notin cleared \cup lost
               PROVE  pair[owner[s]] \in dropped /\ owner[s] \notin ToSet(object)
    BY DEF CloseEndsKept
  <2>1. s \in DOMAIN owner /\ owner[s] \in Allocated
    BY DEF IInv, Issued, SessionTypes
  <2>2. \A i \in DOMAIN object : object[i] # owner[s]
    BY <2>1 DEF IInv, Issued, SessionInv
  <2> QED
    BY <2>1, <2>2 DEF IInv, ListInv, ToSet
<1> QED
  BY <1>1, Invariance, PTL

-----------------------------------------------------------------------------
(* Every object is a SingleFlight                                          *)

\* A request for a session of object o is under way.
Asks(o) == \E g \in Call : step[g] = "opening" /\ Target(g) = o

\* What the calls are sending to o.
Sent(o) == [g \in Call |-> IF step[g] = "sending" /\ Target(g) = o THEN <<tok[g]>> ELSE <<>>]

\* The sessions SSV issued to o.
IssuedTo(o) == {s \in DOMAIN owner : owner[s] = o}

\* A getOne that tries again counts as two calls of SingleFlight here; that its
\* second doGet sends another token is Session's to show.
Flight(o) == INSTANCE SingleFlight WITH
    Caller  <- Call,
    Token   <- SessionId,
    NoToken <- NoToken,
    current <- token[o],
    opening <- Asks(o),
    past    <- IssuedTo(o),
    sent    <- Sent(o)

\* Whoever asks o or sends to it, other than g, goes on with that.
OthersStay(g) ==
    \A h \in Call \ {g} :
        step'[h] = step[h] /\ (step[h] # "none" => Target(h)' = Target(h) /\ tok'[h] = tok[h])

LEMMA FlightStays ==
    ASSUME NEW o \in Object, NEW g \in Call, OthersStay(g),
           token'[o] = token[o], IssuedTo(o)' = IssuedTo(o),
           step[g] \in {"opening", "sending"} => Target(g) # o,
           step'[g] \in {"opening", "sending"} => Target(g)' # o
    PROVE  UNCHANGED Flight(o)!vars
<1>1. \A h \in Call : /\ step'[h] = "opening" /\ Target(h)' = o <=> step[h] = "opening" /\ Target(h) = o
                      /\ step'[h] = "sending" /\ Target(h)' = o <=> step[h] = "sending" /\ Target(h) = o
  BY DEF OthersStay
<1>2. \A h \in Call : step[h] = "sending" /\ Target(h) = o => tok'[h] = tok[h]
  BY DEF OthersStay
<1>3. Asks(o)' = Asks(o) /\ Sent(o)' = Sent(o)
  BY <1>1, <1>2 DEF Asks, Sent
<1> QED
  BY <1>3 DEF Flight!vars

\* A step inside g's getOne disturbs nobody else.
LEMMA InsideOthers ==
    ASSUME IInv, NEW g \in Call, Inside, NEW x, step' = [step EXCEPT ![g] = x],
           \A h \in Call \ {g} : tok'[h] = tok[h]
    PROVE  OthersStay(g) /\ step'[g] = x /\ \A h \in Call : Target(h)' = Target(h)
BY DEF IInv, ObjectTypes, OthersStay, Inside, walks, Target, F!At

LEMMA UseTokenFlight ==
    ASSUME IInv, NEW o \in Object, NEW g \in Call, UseToken(g)
    PROVE  [Flight(o)!Next]_(Flight(o)!vars)
<1>1. /\ step[g] = "ensure" /\ step' = [step EXCEPT ![g] = "sending"]
      /\ tok' = [tok EXCEPT ![g] = token[Target(g)]] /\ UNCHANGED <<token, owner>>
      /\ Unlocked(Target(g)) /\ token[Target(g)] # NoToken /\ Inside
  BY DEF UseToken, sessions
<1>2. /\ step \in [Call -> {"none", "ensure", "opening", "sending", "invalidate"}]
      /\ tok \in [Call -> 0 .. MaxSessions]
  BY DEF IInv, ObjectTypes
<1>3. OthersStay(g) /\ step'[g] = "sending" /\ \A h \in Call : Target(h)' = Target(h)
  BY <1>1, <1>2, InsideOthers
<1>4. IssuedTo(o)' = IssuedTo(o) /\ token'[o] = token[o]
  BY <1>1 DEF IssuedTo
<1>5. CASE Target(g) = o
  <2>1. ~Asks(o) /\ Asks(o)' = Asks(o)
    BY <1>1, <1>2, <1>3, <1>5 DEF Asks, Unlocked
  <2>2. Sent(o)[g] = <<>> /\ Sent(o)' = [Sent(o) EXCEPT ![g] = <<token[o]>>]
    BY <1>1, <1>2, <1>3, <1>5 DEF Sent
  <2>3. Flight(o)!Reuse(g)
    BY <1>1, <1>4, <1>5, <2>1, <2>2 DEF Flight!Reuse, Flight!Send
  <2> QED
    BY <2>3 DEF Flight!Next
<1>6. CASE Target(g) # o
  BY <1>1, <1>3, <1>4, <1>6, FlightStays
<1> QED
  BY <1>5, <1>6

LEMMA OpenFlight ==
    ASSUME IInv, NEW o \in Object, NEW g \in Call, Open(g)
    PROVE  [Flight(o)!Next]_(Flight(o)!vars)
<1>1. /\ step[g] = "ensure" /\ step' = [step EXCEPT ![g] = "opening"]
      /\ UNCHANGED <<tok, token, owner>> /\ Unlocked(Target(g)) /\ token[Target(g)] = NoToken /\ Inside
  BY DEF Open, sessions
<1>2. step \in [Call -> {"none", "ensure", "opening", "sending", "invalidate"}]
  BY DEF IInv, ObjectTypes
<1>3. OthersStay(g) /\ step'[g] = "opening" /\ \A h \in Call : Target(h)' = Target(h)
  BY <1>1, <1>2, InsideOthers
<1>4. IssuedTo(o)' = IssuedTo(o) /\ token'[o] = token[o]
  BY <1>1 DEF IssuedTo
<1>5. CASE Target(g) = o
  <2>1. Asks(o) = FALSE /\ Asks(o)' = TRUE
    BY <1>1, <1>2, <1>3, <1>5 DEF Asks, Unlocked
  <2>2. Sent(o)' = Sent(o)
    BY <1>1, <1>2, <1>3 DEF Sent
  <2>3. Flight(o)!Ask
    BY <1>1, <1>4, <1>5, <2>1, <2>2 DEF Flight!Ask
  <2> QED
    BY <2>3 DEF Flight!Next
<1>6. CASE Target(g) # o
  BY <1>1, <1>3, <1>4, <1>6, FlightStays
<1> QED
  BY <1>5, <1>6

\* What a session that is issued to o means for each object.
LEMMA IssueFlight ==
    ASSUME IInv, NEW o \in Object, NEW q \in Object, Issue(o)
    PROVE  /\ NextSession \in SessionId \ IssuedTo(o)
           /\ IssuedTo(q)' = IF q = o THEN IssuedTo(q) \cup {NextSession} ELSE IssuedTo(q)
<1> DEFINE n == Len(owner) + 1
<1>1. owner \in Seq(Object)
  BY DEF IInv, Issued, SessionTypes, Allocated
<1>2. /\ DOMAIN owner = 1 .. Len(owner) /\ DOMAIN owner' = DOMAIN owner \cup {n} /\ owner'[n] = o
      /\ \A s \in DOMAIN owner : owner'[s] = owner[s] /\ s # n
      /\ n \in SessionId
  BY <1>1, ObjectAssumption DEF Issue, NextSession, SessionId
<1> HIDE DEF n
<1>3. n = NextSession
  BY DEF n, NextSession
<1> QED
  BY <1>2, <1>3 DEF IssuedTo

LEMMA OpenedFlight ==
    ASSUME IInv, NEW o \in Object, NEW g \in Call, Opened(g)
    PROVE  [Flight(o)!Next]_(Flight(o)!vars)
<1> DEFINE n == NextSession
<1>1. /\ step[g] = "opening" /\ step' = [step EXCEPT ![g] = "sending"] /\ Inside
      /\ token' = [token EXCEPT ![Target(g)] = n] /\ tok' = [tok EXCEPT ![g] = n]
      /\ Issue(Target(g))
  BY DEF Opened
<1>2. /\ step \in [Call -> {"none", "ensure", "opening", "sending", "invalidate"}]
      /\ tok \in [Call -> 0 .. MaxSessions] /\ token \in [Object -> 0 .. MaxSessions]
      /\ Target(g) \in Object
  BY <1>1, TargetAllocated DEF IInv, ObjectTypes, Issued, SessionTypes, Allocated
<1>3. n \in SessionId \ IssuedTo(Target(g))
  BY <1>1, <1>2, IssueFlight
<1> HIDE DEF n
<1>4. OthersStay(g) /\ step'[g] = "sending" /\ \A h \in Call : Target(h)' = Target(h)
  BY <1>1, <1>2, InsideOthers
<1>5. CASE Target(g) = o
  <2>1. Asks(o) = TRUE /\ Asks(o)' = FALSE
    BY <1>1, <1>2, <1>4, <1>5 DEF Asks, IInv, MutexInv
  <2>2. Sent(o)[g] = <<>> /\ Sent(o)' = [Sent(o) EXCEPT ![g] = <<n>>]
    BY <1>1, <1>2, <1>4, <1>5 DEF Sent
  <2>3. token'[o] = n /\ IssuedTo(o)' = IssuedTo(o) \cup {n}
    BY <1>1, <1>2, <1>5, IssueFlight DEF n
  <2>4. Flight(o)!Receive(g, n)
    BY <1>3, <1>5, <2>1, <2>2, <2>3 DEF Flight!Receive, Flight!Send
  <2> QED
    BY <1>3, <2>4 DEF Flight!Next
<1>6. CASE Target(g) # o
  <2>1. token'[o] = token[o] /\ IssuedTo(o)' = IssuedTo(o)
    BY <1>1, <1>2, <1>6, IssueFlight
  <2> QED
    BY <1>1, <1>4, <1>6, <2>1, FlightStays
<1> QED
  BY <1>5, <1>6

\* A call leaves the endpoint it is at: its request for a session is over, with or
\* without one issued, or its GET.
LEMMA LeaveFlight ==
    ASSUME IInv, NEW o \in Object, NEW g \in Call, step[g] \in {"opening", "sending"},
           step'[g] \in {"none", "ensure", "invalidate"}, OthersStay(g), UNCHANGED token,
           \/ UNCHANGED owner
           \/ step[g] = "opening" /\ Issue(Target(g))
    PROVE  [Flight(o)!Next]_(Flight(o)!vars)
<1>1. /\ step \in [Call -> {"none", "ensure", "opening", "sending", "invalidate"}]
      /\ Target(g) \in Object
  BY TargetAllocated DEF IInv, ObjectTypes, Allocated
<1>2. IssuedTo(o)' = IssuedTo(o) \/ /\ step[g] = "opening" /\ Target(g) = o
                                    /\ \E t \in SessionId \ IssuedTo(o) : IssuedTo(o)' = IssuedTo(o) \cup {t}
  <2>1. CASE UNCHANGED owner
    BY <2>1 DEF IssuedTo
  <2>2. CASE step[g] = "opening" /\ Issue(Target(g))
    BY <1>1, <2>2, IssueFlight
  <2> QED
    BY <2>1, <2>2
<1>3. CASE Target(g) = o /\ step[g] = "opening"
  <2>1. Asks(o) = TRUE /\ Asks(o)' = FALSE
    BY <1>1, <1>3 DEF Asks, OthersStay, IInv, MutexInv
  <2>2. Sent(o)' = Sent(o)
    BY <1>1, <1>3 DEF Sent, OthersStay
  <2>3. Flight(o)!Miss(g)
    BY <1>2, <2>1, <2>2 DEF Flight!Miss
  <2> QED
    BY <2>3 DEF Flight!Next
<1>4. CASE Target(g) = o /\ step[g] = "sending"
  <2>1. Asks(o)' = Asks(o)
    BY <1>1, <1>4 DEF Asks, OthersStay
  <2>2. Sent(o)' = [Sent(o) EXCEPT ![g] = <<>>]
    BY <1>1, <1>4 DEF Sent, OthersStay
  <2>3. Flight(o)!Return(g)
    BY <1>2, <1>4, <2>1, <2>2 DEF Flight!Return
  <2> QED
    BY <2>3 DEF Flight!Next
<1>5. CASE Target(g) # o
  BY <1>2, <1>5, FlightStays
<1> QED
  BY <1>3, <1>4, <1>5

LEMMA IsStaleFlight ==
    ASSUME IInv, NEW o \in Object, NEW g \in Call, IsStale(g)
    PROVE  [Flight(o)!Next]_(Flight(o)!vars)
<1>1. /\ step[g] \in {"opening", "sending"} /\ step' = [step EXCEPT ![g] = "invalidate"] /\ Inside
      /\ tok' = [tok EXCEPT ![g] = NoToken] /\ UNCHANGED <<token, owner>>
  BY DEF IsStale
<1>2. OthersStay(g) /\ step'[g] = "invalidate"
  BY <1>1, InsideOthers DEF IInv, ObjectTypes
<1> QED
  BY <1>1, <1>2, LeaveFlight

LEMMA InvalidateFlight ==
    ASSUME IInv, NEW o \in Object, NEW g \in Call, InvalidateToken(g)
    PROVE  [Flight(o)!Next]_(Flight(o)!vars)
<1>1. /\ step[g] = "invalidate" /\ step' = [step EXCEPT ![g] = "ensure"] /\ Inside
      /\ token' = [token EXCEPT ![Target(g)] = NoToken] /\ UNCHANGED <<tok, owner>>
      /\ Unlocked(Target(g))
  BY DEF InvalidateToken
<1>2. OthersStay(g) /\ step'[g] = "ensure" /\ \A h \in Call : Target(h)' = Target(h)
  BY <1>1, InsideOthers
<1>3. IssuedTo(o)' = IssuedTo(o) /\ token \in [Object -> 0 .. MaxSessions]
  BY <1>1 DEF IssuedTo, IInv, Issued, SessionTypes
<1>4. step \in [Call -> {"none", "ensure", "opening", "sending", "invalidate"}]
  BY DEF IInv, ObjectTypes
<1>5. CASE Target(g) = o
  <2>1. Asks(o) = FALSE /\ Asks(o)' = FALSE /\ Sent(o)' = Sent(o)
    BY <1>1, <1>2, <1>4, <1>5 DEF Asks, Sent, Unlocked
  <2>2. Flight(o)!Discard
    BY <1>1, <1>3, <1>5, <2>1 DEF Flight!Discard
  <2> QED
    BY <2>2 DEF Flight!Next
<1>6. CASE Target(g) # o
  <2>1. token'[o] = token[o]
    BY <1>1, <1>3, <1>6
  <2> QED
    BY <1>1, <1>2, <1>3, <1>6, <2>1, FlightStays
<1> QED
  BY <1>5, <1>6

\* A call that enters or leaves an endpoint disturbs no other.
LEMMA EnterOthers ==
    ASSUME IInv, NEW g \in Call, Enter(g), WalkTypes',
           \A h \in Call \ {g} : /\ pc'[h] = pc[h] /\ snapshot'[h] = snapshot[h] /\ eps'[h] = eps[h]
                                 /\ start'[h] = start[h] /\ tried'[h] = tried[h]
    PROVE  OthersStay(g) /\ step'[g] \in {"none", "ensure"}
<1>1. step'[g] \in {"none", "ensure"}
  BY DEF Enter
<1>2. ASSUME NEW h \in Call \ {g}
      PROVE  /\ step'[h] = step[h] /\ Target(h)' = Target(h)
             /\ step[h] # "none" => tok'[h] = tok[h]
  BY DEF Enter, IInv, StepInv, Target, F!At
<1> QED
  BY <1>1, <1>2 DEF OthersStay

\* As long as the process runs.
LEMMA FlightStep ==
    ASSUME IInv, [Next]_vars, ~panicked', NEW o \in Object
    PROVE  [Flight(o)!Next]_(Flight(o)!vars)
<1> USE DEF IInv, WalkTypes
<1>0. /\ WalkTypes' /\ snapshot \in [Call -> Seq(Allocated)]
      /\ step \in [Call -> {"none", "ensure", "opening", "sending", "invalidate"}]
  BY StepInvariant DEF ObjectTypes
<1>1. ASSUME NEW g \in Call, Walk(g) PROVE UNCHANGED Flight(o)!vars
  <2>1. /\ pc[g] \in {"idle", "failed"} /\ pc' = [pc EXCEPT ![g] = "try"]
        /\ eps' = [eps EXCEPT ![g] = endpoints] /\ snapshot' = [snapshot EXCEPT ![g] = object]
        /\ \A h \in Call \ {g} : start'[h] = start[h] /\ tried'[h] = tried[h]
        /\ Enter(g) /\ UNCHANGED <<token, owner>>
    BY <1>1 DEF Walk, F!GetRaw, F!Retry, F!TryOrder, sessions
  <2>2. OthersStay(g) /\ step'[g] \in {"none", "ensure"}
    BY <1>0, <2>1, EnterOthers
  <2>3. step[g] = "none" /\ IssuedTo(o)' = IssuedTo(o)
    BY <1>0, <2>1 DEF StepInv, IssuedTo
  <2> QED
    BY <2>1, <2>2, <2>3, FlightStays
<1>2. ASSUME NEW g \in Call, OpenIsLost(g) \/ Fails(g) \/ GetAnswered(g)
      PROVE  [Flight(o)!Next]_(Flight(o)!vars)
  <2>1. /\ step[g] \in {"opening", "sending"} /\ Enter(g) /\ Forget(g) /\ UNCHANGED token
        /\ UNCHANGED owner \/ (step[g] = "opening" /\ Issue(Target(g)))
    BY <1>2 DEF OpenIsLost, Fails, Leave, GetAnswered, sessions
  <2>2. \A h \in Call \ {g} : snapshot'[h] = snapshot[h]
    BY <1>0, <2>1 DEF Forget
  <2>3. \A h \in Call \ {g} : /\ pc'[h] = pc[h] /\ eps'[h] = eps[h]
                              /\ start'[h] = start[h] /\ tried'[h] = tried[h]
    <3>1. ASSUME NEW e, F!Fails(g, e)
          PROVE  \A h \in Call \ {g} : /\ pc'[h] = pc[h] /\ eps'[h] = eps[h]
                                       /\ start'[h] = start[h] /\ tried'[h] = tried[h]
      BY <3>1 DEF F!Fails, F!Return, F!Forget, F!NextEndpoint
    <3>2. ASSUME F!Answers(g)
          PROVE  \A h \in Call \ {g} : /\ pc'[h] = pc[h] /\ eps'[h] = eps[h]
                                       /\ start'[h] = start[h] /\ tried'[h] = tried[h]
      BY <3>2 DEF F!Answers, F!Forget
    <3> QED
      BY <1>2, <3>1, <3>2 DEF OpenIsLost, Fails, Leave, GetAnswered
  <2>4. OthersStay(g) /\ step'[g] \in {"none", "ensure"}
    BY <1>0, <2>1, <2>2, <2>3, EnterOthers
  <2> QED
    BY <2>1, <2>4, LeaveFlight
<1>3. ASSUME NEW g \in Call, WalkOver(g) PROVE UNCHANGED Flight(o)!vars
  <2>1. /\ pc[g] = "failed" /\ Forget(g) /\ UNCHANGED <<step, tok, token, owner>>
        /\ \A h \in Call \ {g} : eps'[h] = eps[h] /\ start'[h] = start[h] /\ tried'[h] = tried[h]
    BY <1>3 DEF WalkOver, F!GiveUp, F!Cancelled, F!Return, F!Forget, gets, sessions
  <2>2. \A h \in Call \ {g} : snapshot'[h] = snapshot[h]
    BY <1>0, <2>1 DEF Forget
  <2>3. OthersStay(g) /\ step[g] = "none" /\ step'[g] = "none"
    BY <1>0, <2>1, <2>2 DEF OthersStay, Target, F!At, StepInv
  <2>4. IssuedTo(o)' = IssuedTo(o)
    BY <2>1 DEF IssuedTo
  <2> QED
    BY <2>1, <2>3, <2>4, FlightStays
\* Nothing that concerns the calls' endpoints.
<1>4. ASSUME UNCHANGED <<step, tok, owner>>, token'[o] = token[o],
             \A h \in Call : Target(h)' = Target(h)
      PROVE  UNCHANGED Flight(o)!vars
  <2>1. Asks(o)' = Asks(o) /\ Sent(o)' = Sent(o) /\ IssuedTo(o)' = IssuedTo(o)
    BY <1>4 DEF Asks, Sent, IssuedTo
  <2> QED
    BY <1>4, <2>1 DEF Flight!vars
<1>5. ASSUME Passes \/ (\E s \in live : Expire(s)) \/ (\E ips \in AddressLists : SetBackups(ips))
      PROVE  UNCHANGED Flight(o)!vars
  <2>1. UNCHANGED <<step, tok, owner, token, eps, start, tried, snapshot>>
    BY <1>5 DEF Passes, F!Tick, F!Deadline, Expire, Inside, walks, SetBackups, F!SetBackups,
                F!walkVars, gets, sessions
  <2> QED
    BY <1>4, <2>1 DEF Target, F!At
<1>6. ASSUME Close PROVE [Flight(o)!Next]_(Flight(o)!vars)
  <2>1. /\ \A g \in Call : pc[g] = "idle"
        /\ token' = [q \in Object |-> IF q \in ToSet(object) THEN NoToken ELSE token[q]]
        /\ UNCHANGED <<step, tok, owner, eps, start, tried, snapshot>>
    BY <1>6 DEF Close, walks, gets
  <2>2. CASE o \in ToSet(object)
    <3>1. Asks(o) = FALSE /\ Asks(o)' = FALSE /\ Sent(o)' = Sent(o) /\ IssuedTo(o)' = IssuedTo(o)
      BY <1>0, <2>1 DEF Asks, Sent, StepInv, IssuedTo
    <3>2. Flight(o)!Discard
      BY <2>1, <2>2, <3>1 DEF Flight!Discard
    <3> QED
      BY <3>2 DEF Flight!Next
  <2>3. CASE o \notin ToSet(object)
    BY <1>4, <2>1, <2>3 DEF Target, F!At
  <2> QED
    BY <2>2, <2>3
<1>7. CASE UNCHANGED vars
  BY <1>4, <1>7 DEF vars, walks, gets, sessions, Target, F!At
<1> QED
  BY <1>1, <1>2, <1>3, <1>5, <1>6, <1>7, UseTokenFlight, OpenFlight, OpenedFlight, IsStaleFlight,
     InvalidateFlight DEF Next, GetOne

\* For the callers that use an endpoint object, whatever list or snapshot they have
\* it from, it is a SingleFlight, as long as the process runs: one request for a
\* token at a time, all share it, and one that a stale answer or Close took never
\* comes back.
THEOREM ObjectsAreSingleFlights ==
    ASSUME NEW o \in Object
    PROVE  Spec /\ [](~panicked) => Flight(o)!Spec
<1>1. Init => Flight(o)!Init
  <2> SUFFICES ASSUME Init PROVE Flight(o)!Init
    OBVIOUS
  <2>1. Asks(o) = FALSE /\ Sent(o) = [g \in Call |-> <<>>] /\ IssuedTo(o) = {}
    BY DEF Init, Asks, Sent, IssuedTo
  <2> QED
    BY <2>1 DEF Init, Flight!Init
<1>2. IInv /\ [Next]_vars /\ (~panicked)' => [Flight(o)!Next]_(Flight(o)!vars)
  BY FlightStep
<1> QED
  BY <1>1, <1>2, Invariance, PTL DEF Spec, Flight!Spec
=============================================================================
