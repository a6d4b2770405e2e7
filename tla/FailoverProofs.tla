--------------------------- MODULE FailoverProofs ---------------------------
(***************************************************************************)
(* Theorems about module Failover, for any number of calls, any set of     *)
(* backup lists, any Retries and any TTL.                                  *)
(***************************************************************************)
EXTENDS Failover, TLAPS

-----------------------------------------------------------------------------
(* The walk                                                                *)

LEMMA ModSmall == ASSUME NEW n \in Nat \ {0}, NEW a \in 0 .. n - 1 PROVE a % n = a
  OBVIOUS

LEMMA ModWrap == ASSUME NEW n \in Nat \ {0}, NEW a \in 0 .. n - 1 PROVE (a + n) % n = a
  OBVIOUS

\* tryOrder never leaves the list.
LEMMA OrderRange ==
    ASSUME NEW n \in Nat \ {0}, NEW s \in 1 .. n, NEW k \in Nat
    PROVE  Order(s, k, n) \in 1 .. n
<1>1. s - 1 + k \in Nat
  OBVIOUS
<1>2. (s - 1 + k) % n \in 0 .. n - 1
  BY <1>1
<1> QED
  BY <1>2 DEF Order

\* tryOrder reaches every index, wherever it starts.
LEMMA OrderCovers ==
    ASSUME NEW n \in Nat \ {0}, NEW s \in 1 .. n, NEW i \in 1 .. n
    PROVE  \E k \in 0 .. n - 1 : Order(s, k, n) = i
<1>1. CASE s <= i
  <2>1. i - s \in 0 .. n - 1 /\ s - 1 + (i - s) = i - 1 /\ i - 1 \in 0 .. n - 1
    BY <1>1
  <2>2. (i - 1) % n = i - 1
    BY <2>1, ModSmall
  <2>3. Order(s, i - s, n) = i
    BY <2>1, <2>2 DEF Order
  <2> QED
    BY <2>1, <2>3
<1>2. CASE i < s
  <2>1. i - s + n \in 0 .. n - 1 /\ s - 1 + (i - s + n) = (i - 1) + n /\ i - 1 \in 0 .. n - 1
    BY <1>2
  <2>2. ((i - 1) + n) % n = i - 1
    BY <2>1, ModWrap
  <2>3. Order(s, i - s + n, n) = i
    BY <2>1, <2>2 DEF Order
  <2> QED
    BY <2>1, <2>3
<1> QED
  BY <1>1, <1>2

-----------------------------------------------------------------------------
(* The inductive invariant                                                 *)

\* The list is never empty: it starts with the primary.
ListInv == Len(endpoints) >= 1 /\ endpoints[1] = Primary

\* A walk is inside its snapshot until all of it has failed.
WalkOf(g) ==
    pc[g] \in {"try", "failed"} =>
        /\ Len(eps[g]) >= 1
        /\ start[g] \in 1 .. Len(eps[g])
        /\ pc[g] = "try" => tried[g] < Len(eps[g])
        /\ pc[g] = "failed" => tried[g] = Len(eps[g])
WalkInv == \A g \in Call : WalkOf(g)

\* A late walk runs with its context done, so it is the last.
LateOf(g) ==
    /\ late[g] <= 1
    /\ late[g] = 1 => ctx[g] = "done"
    /\ pc[g] = "idle" => late[g] = 0
    /\ ctx[g] = "racing" => pc[g] \in {"failed", "dead"}
LateInv == \A g \in Call : LateOf(g)

\* While the list only grows, every snapshot in use is a prefix of it.
GrowthInv ==
    /\ GrowthIsSafe
    /\ reshaped => answered = NoEndpoint
    /\ ~reshaped => \A g \in Call : pc[g] \in {"try", "failed"} => Extends(endpoints, eps[g])
    /\ panicked => \A g \in Call : pc[g] = "dead"

IInv == TypeOK /\ ListInv /\ WalkInv /\ LateInv /\ IndexInRange /\ GrowthInv

LEMMA InitIInv == Init => IInv
<1> SUFFICES ASSUME Init PROVE IInv
  OBVIOUS
<1> USE EndpointAssumption, BoundsAssumption DEF Init
<1>1. TypeOK
  <2>1. endpoints \in Seq(Endpoint) /\ eps \in [Call -> Seq(Endpoint)]
    OBVIOUS
  <2>2. /\ start \in [Call -> Nat] /\ tried \in [Call -> Nat] /\ late \in [Call -> Nat]
        /\ attempt \in [Call -> 0 .. Retries]
    OBVIOUS
  <2>3. /\ pc \in [Call -> {"idle", "try", "failed", "dead"}]
        /\ ctx \in [Call -> {"live", "racing", "done"}]
        /\ panicked \in BOOLEAN /\ reshaped \in BOOLEAN
    OBVIOUS
  <2>4. preferred \in Nat \ {0} /\ age \in 0 .. TTL
    OBVIOUS
  <2> QED
    BY <2>1, <2>2, <2>3, <2>4 DEF TypeOK
<1>2. ListInv /\ WalkInv /\ LateInv /\ IndexInRange /\ GrowthInv
  BY DEF ListInv, WalkInv, WalkOf, LateInv, LateOf, IndexInRange, GrowthInv, GrowthIsSafe
<1> QED
  BY <1>1, <1>2 DEF IInv

\* The list SetBackups builds.
LEMMA NewList ==
    ASSUME NEW b \in BackupLists
    PROVE  /\ <<Primary>> \o b \in Seq(Endpoint)
           /\ Len(<<Primary>> \o b) >= 1
           /\ (<<Primary>> \o b)[1] = Primary
<1>1. b \in Seq(Endpoint)
  BY BackupsAssumption
<1> QED
  BY <1>1, EndpointAssumption

\* A call that begins a walk, whatever else the step does.
LEMMA OrderLocals ==
    ASSUME IInv, ~panicked, NEW g \in Call, TryOrder(g), UNCHANGED listVars
    PROVE  /\ pc' \in [Call -> {"idle", "try", "failed", "dead"}]
           /\ eps' \in [Call -> Seq(Endpoint)]
           /\ start' \in [Call -> Nat]
           /\ tried' \in [Call -> Nat]
           /\ ListInv' /\ WalkInv' /\ IndexInRange' /\ GrowthInv'
<1> USE DEF IInv, TypeOK, TryOrder, listVars
<1>1. Len(endpoints) \in Nat /\ (IF Sticks THEN preferred ELSE 1) \in 1 .. Len(endpoints)
  BY DEF ListInv, Sticks
<1>2. /\ pc' \in [Call -> {"idle", "try", "failed", "dead"}]
      /\ eps' \in [Call -> Seq(Endpoint)]
      /\ start' \in [Call -> Nat]
      /\ tried' \in [Call -> Nat]
  BY <1>1
<1>3. ListInv' /\ IndexInRange'
  BY DEF ListInv, IndexInRange
<1>4. ASSUME NEW h \in Call PROVE WalkOf(h)'
  BY <1>1 DEF WalkInv, WalkOf, ListInv
<1>5. GrowthInv'
  <2>1. ASSUME ~reshaped, NEW h \in Call, pc'[h] \in {"try", "failed"}
        PROVE  Extends(endpoints, eps'[h])
    BY <2>1, <1>1 DEF GrowthInv, Extends
  <2>2. GrowthIsSafe'
    BY DEF GrowthInv, GrowthIsSafe
  <2> QED
    BY <2>1, <2>2 DEF GrowthInv, Extends
<1> QED
  BY <1>2, <1>3, <1>4, <1>5 DEF WalkInv

\* A call that returns, whatever else the step does.
LEMMA ReturnLocals ==
    ASSUME TypeOK, NEW g \in Call, Forget(g)
    PROVE  /\ eps' \in [Call -> Seq(Endpoint)]
           /\ start' \in [Call -> Nat]
           /\ tried' \in [Call -> Nat]
           /\ attempt' \in [Call -> 0 .. Retries]
           /\ ctx' \in [Call -> {"live", "racing", "done"}]
           /\ late' \in [Call -> Nat]
<1>1. <<>> \in Seq(Endpoint) /\ 0 \in 0 .. Retries
  BY BoundsAssumption
<1> QED
  BY <1>1 DEF TypeOK, Forget

LEMMA ReturnStep ==
    ASSUME IInv, NEW g \in Call, pc[g] \in {"try", "failed"}, Return(g), UNCHANGED listVars
    PROVE  IInv'
<1> USE DEF IInv, Return, listVars
<1>1. TypeOK'
  BY ReturnLocals DEF TypeOK
<1>2. ListInv' /\ IndexInRange'
  BY DEF ListInv, IndexInRange
<1>3. WalkInv' /\ LateInv'
  BY DEF TypeOK, Forget, WalkInv, WalkOf, LateInv, LateOf
<1>4. GrowthInv'
  BY DEF TypeOK, Forget, GrowthInv, GrowthIsSafe, Extends
<1> QED
  BY <1>1, <1>2, <1>3, <1>4

LEMMA GetRawStep == ASSUME IInv, NEW g \in Call, GetRaw(g) PROVE IInv'
<1> USE DEF IInv, GetRaw, callVars
<1>1. ~panicked
  BY DEF GrowthInv
<1>2. TypeOK'
  BY <1>1, OrderLocals DEF TypeOK, listVars
<1>3. LateInv'
  BY DEF TypeOK, TryOrder, LateInv, LateOf
<1> QED
  BY <1>1, <1>2, <1>3, OrderLocals

LEMMA RetryStep == ASSUME IInv, NEW g \in Call, Retry(g) PROVE IInv'
<1> USE DEF IInv, Retry, MayRetry
<1>1. ~panicked
  BY DEF GrowthInv
<1>2. TypeOK'
  <2>1. attempt' \in [Call -> 0 .. Retries]
    BY BoundsAssumption DEF TypeOK
  <2>2. ctx' \in [Call -> {"live", "racing", "done"}] /\ late' \in [Call -> Nat]
    BY DEF TypeOK
  <2> QED
    BY <1>1, <2>1, <2>2, OrderLocals DEF TypeOK, listVars
<1>3. LateInv'
  <2> SUFFICES ASSUME NEW h \in Call PROVE LateOf(h)'
    BY DEF LateInv
  <2>1. LateOf(g) /\ LateOf(h) /\ late[g] \in Nat
    BY DEF LateInv, TypeOK
  <2>2. CASE h # g
    BY <2>1, <2>2 DEF TypeOK, TryOrder, LateOf
  <2>3. CASE h = g /\ ctx[g] = "live"
    BY <2>1, <2>3 DEF TypeOK, TryOrder, LateOf
  <2>4. CASE h = g /\ ctx[g] = "racing"
    <3>1. late[g] = 0
      BY <2>1, <2>4 DEF LateOf
    <3> QED
      BY <2>4, <3>1 DEF TypeOK, TryOrder, LateOf
  <2> QED
    BY <2>2, <2>3, <2>4 DEF TypeOK
<1> QED
  BY <1>1, <1>2, <1>3, OrderLocals

LEMMA NextEndpointStep ==
    ASSUME IInv, NEW g \in Call, pc[g] = "try", NextEndpoint(g)
    PROVE  IInv'
<1> USE DEF IInv, NextEndpoint, listVars
<1>1. TypeOK'
  BY DEF TypeOK
<1>2. ListInv' /\ IndexInRange'
  BY DEF ListInv, IndexInRange
<1>3. WalkInv'
  <2> SUFFICES ASSUME NEW h \in Call PROVE WalkOf(h)'
    BY DEF WalkInv
  <2>1. WalkOf(g) /\ WalkOf(h) /\ tried[g] \in Nat /\ Len(eps[g]) \in Nat
    BY DEF WalkInv, TypeOK
  <2> QED
    BY <2>1 DEF TypeOK, WalkOf
<1>4. LateInv'
  BY DEF TypeOK, LateInv, LateOf
<1>5. GrowthInv'
  BY DEF TypeOK, GrowthInv, GrowthIsSafe, Extends
<1> QED
  BY <1>1, <1>2, <1>3, <1>4, <1>5

\* The answer's index lies in the snapshot; if that is a prefix of the list, it
\* names the endpoint that answered and nothing is out of range.
LEMMA AnswersStep == ASSUME IInv, NEW g \in Call, Answers(g) PROVE IInv'
<1> USE DEF IInv, Answers
<1>1. At(g) \in 1 .. Len(eps[g]) /\ Len(eps[g]) \in Nat /\ Len(endpoints) \in Nat
  <2>1. /\ start[g] \in 1 .. Len(eps[g]) /\ tried[g] \in Nat
        /\ Len(eps[g]) \in Nat \ {0} /\ Len(endpoints) \in Nat
    BY DEF WalkInv, WalkOf, TypeOK
  <2> QED
    BY <2>1, OrderRange DEF At
<1>2. Target(g) \in Endpoint
  BY <1>1 DEF Target, TypeOK
<1>3. TypeOK'
  <2>1. pc' \in [Call -> {"idle", "try", "failed", "dead"}]
    BY DEF TypeOK
  <2>2. panicked' \in BOOLEAN
    BY DEF OutOfRange
  <2>3. age' \in 0 .. TTL /\ preferred' \in Nat \ {0} /\ answered' \in Endpoint \cup {NoEndpoint}
    BY <1>1, <1>2, BoundsAssumption DEF TypeOK
  <2> QED
    BY <2>1, <2>2, <2>3, ReturnLocals DEF TypeOK
<1>4. ListInv'
  BY DEF ListInv
<1>5. WalkInv' /\ LateInv'
  BY DEF TypeOK, Forget, WalkInv, WalkOf, LateInv, LateOf
<1>6. IndexInRange'
  <2>1. ~panicked /\ preferred \in 1 .. Len(endpoints)
    BY DEF GrowthInv, IndexInRange
  <2>2. ~OutOfRange(At(g)) => At(g) \in 1 .. Len(endpoints)
    BY <1>1, <2>1 DEF OutOfRange
  <2> QED
    BY <2>2 DEF IndexInRange
<1>7. GrowthInv'
  <2>1. ASSUME ~reshaped PROVE GrowthIsSafe'
    <3>1. ~panicked /\ Extends(endpoints, eps[g]) /\ preferred \in 1 .. Len(endpoints)
      BY <2>1 DEF GrowthInv, GrowthIsSafe, IndexInRange
    <3>2. At(g) \in 1 .. Len(endpoints) /\ endpoints[At(g)] = Target(g)
      BY <1>1, <3>1 DEF Extends, Target
    <3>3. ~OutOfRange(At(g))
      BY <3>1, <3>2 DEF OutOfRange
    <3> QED
      BY <2>1, <3>2, <3>3 DEF GrowthIsSafe
  <2>2. ASSUME ~reshaped, NEW h \in Call, pc'[h] \in {"try", "failed"}
        PROVE  Extends(endpoints, eps'[h])
    BY <2>2 DEF TypeOK, GrowthInv, Forget
  <2>3. panicked' => \A h \in Call : pc'[h] = "dead"
    OBVIOUS
  <2>4. GrowthIsSafe' /\ endpoints' = endpoints /\ reshaped' = reshaped
    BY <2>1 DEF GrowthIsSafe
  <2> QED
    BY <2>2, <2>3, <2>4 DEF GrowthInv, Extends
<1> QED
  BY <1>3, <1>4, <1>5, <1>6, <1>7

LEMMA SetBackupsStep == ASSUME IInv, NEW b \in BackupLists, SetBackups(b) PROVE IInv'
<1> DEFINE new == <<Primary>> \o b
<1> USE DEF IInv, SetBackups
<1>1. new \in Seq(Endpoint) /\ Len(new) \in Nat /\ Len(new) >= 1 /\ new[1] = Primary
  BY NewList
<1>2. endpoints' = new
  OBVIOUS
<1> HIDE DEF new
<1>3. TypeOK'
  <2>1. preferred' \in Nat \ {0} /\ reshaped' \in BOOLEAN
    BY DEF TypeOK
  <2>2. answered' \in Endpoint \cup {NoEndpoint}
    BY DEF TypeOK
  <2> QED
    BY <1>1, <1>2, <2>1, <2>2 DEF TypeOK, walkVars, callVars
<1>4. ListInv'
  BY <1>1, <1>2 DEF ListInv
<1>5. WalkInv' /\ LateInv'
  BY DEF WalkInv, WalkOf, LateInv, LateOf, walkVars, callVars
<1>6. IndexInRange'
  BY <1>1, <1>2 DEF IndexInRange, TypeOK, new
<1>7. GrowthInv'
  <2>1. ASSUME ~reshaped' PROVE ~reshaped /\ Extends(new, endpoints)
    BY <2>1, <1>2 DEF new
  <2>2. ASSUME ~reshaped', NEW h \in Call, pc'[h] \in {"try", "failed"}
        PROVE  Extends(new, eps'[h])
    <3>1. Extends(new, endpoints) /\ Extends(endpoints, eps[h])
      BY <2>1, <2>2 DEF GrowthInv
    <3>2. Len(eps[h]) \in Nat /\ Len(endpoints) \in Nat
      BY DEF TypeOK
    <3>3. Extends(new, eps[h])
      BY <1>1, <3>1, <3>2 DEF Extends
    <3> QED
      BY <3>3 DEF walkVars
  <2>3. ASSUME ~reshaped' PROVE GrowthIsSafe'
    <3>1. Extends(new, endpoints) /\ preferred \in 1 .. Len(endpoints)
      BY <2>1, <2>3 DEF GrowthInv, GrowthIsSafe, IndexInRange
    <3>2. preferred' = preferred /\ new[preferred] = endpoints[preferred]
      BY <1>1, <3>1 DEF Extends, TypeOK, new
    <3> QED
      BY <1>2, <2>1, <2>3, <3>2 DEF GrowthInv, GrowthIsSafe
  <2>4. GrowthIsSafe'
    BY <2>3 DEF GrowthIsSafe
  <2>5. ~panicked'
    OBVIOUS
  <2> QED
    BY <1>2, <2>2, <2>4, <2>5 DEF GrowthInv
<1> QED
  BY <1>3, <1>4, <1>5, <1>6, <1>7

LEMMA ClockStep == ASSUME IInv, Tick \/ UNCHANGED vars PROVE IInv'
<1> USE DEF IInv, Tick, vars, listVars, walkVars, callVars
<1>1. TypeOK'
  BY BoundsAssumption DEF TypeOK
<1>2. ListInv' /\ IndexInRange'
  BY DEF ListInv, IndexInRange
<1>3. WalkInv' /\ LateInv'
  BY DEF WalkInv, WalkOf, LateInv, LateOf
<1>4. GrowthInv'
  BY DEF GrowthInv, GrowthIsSafe, Extends
<1> QED
  BY <1>1, <1>2, <1>3, <1>4

LEMMA DeadlineStep == ASSUME IInv, NEW g \in Call, Deadline(g) PROVE IInv'
<1> USE DEF IInv, Deadline, listVars, walkVars
<1>1. TypeOK'
  BY DEF TypeOK
<1>2. ListInv' /\ IndexInRange'
  BY DEF ListInv, IndexInRange
<1>3. WalkInv' /\ LateInv'
  BY DEF TypeOK, WalkInv, WalkOf, LateInv, LateOf
<1>4. GrowthInv'
  BY DEF GrowthInv, GrowthIsSafe, Extends
<1> QED
  BY <1>1, <1>2, <1>3, <1>4

\* IInv holds in every state of the client.
THEOREM Invariance == Spec => []IInv
<1>1. ASSUME IInv, [Next]_vars PROVE IInv'
  <2>1. ASSUME NEW g \in Call, GetOne(g) PROVE IInv'
    <3>1. CASE Answers(g)
      BY <3>1, AnswersStep, <1>1
    <3>2. ASSUME NEW e \in ErrorKind, Fails(g, e) PROVE IInv'
      <4>1. CASE ~IsTransient(e)
        BY <1>1, <3>2, <4>1, ReturnStep DEF Fails
      <4>2. CASE IsTransient(e)
        BY <1>1, <3>2, <4>2, NextEndpointStep DEF Fails
      <4> QED
        BY <4>1, <4>2
    <3> QED
      BY <2>1, <3>1, <3>2 DEF GetOne
  <2>2. ASSUME NEW g \in Call, AfterWalk(g) PROVE IInv'
    BY <1>1, <2>2, RetryStep, ReturnStep DEF AfterWalk, GiveUp, Cancelled
  <2> QED
    BY <1>1, <2>1, <2>2, GetRawStep, DeadlineStep, SetBackupsStep, ClockStep DEF Next
<1> QED
  BY InitIInv, <1>1, PTL DEF Spec

\* Types, and the bound on a call's attempts, for every Retries.
THEOREM TypeCorrect == Spec => []TypeOK
<1>1. IInv => TypeOK
  BY DEF IInv
<1> QED
  BY Invariance, <1>1, PTL

\* preferredIdx is an index of the list as long as the process runs, whatever
\* lists SetBackups is given and whatever walks are in flight.
THEOREM PreferredInRange == Spec => []IndexInRange
<1>1. IInv => IndexInRange
  BY DEF IInv
<1> QED
  BY Invariance, <1>1, PTL

\* A failed walk tried every endpoint of its snapshot, from wherever it started.
THEOREM ExhaustiveWalk == Spec => []WalkIsExhaustive
<1>1. IInv => WalkIsExhaustive
  <2> SUFFICES ASSUME IInv, NEW g \in Call, pc[g] = "failed"
               PROVE  Failed(g) = {eps[g][i] : i \in 1 .. Len(eps[g])}
    BY DEF WalkIsExhaustive
  <2> DEFINE n == Len(eps[g])
  <2>1. n \in Nat \ {0} /\ start[g] \in 1 .. n /\ tried[g] = n
    BY DEF IInv, WalkInv, WalkOf, TypeOK
  <2>2. ASSUME NEW k \in 0 .. n - 1 PROVE Order(start[g], k, n) \in 1 .. n
    <3>1. k \in Nat
      BY <2>1
    <3> QED
      BY <2>1, <3>1, OrderRange
  <2>3. \A i \in 1 .. n : \E k \in 0 .. n - 1 : Order(start[g], k, n) = i
    BY <2>1, OrderCovers
  <2>4. Failed(g) = {eps[g][Order(start[g], k, n)] : k \in 0 .. n - 1}
    BY <2>1 DEF Failed
  <2> QED
    BY <2>2, <2>3, <2>4
<1> QED
  BY Invariance, <1>1, PTL

\* SetBackups cannot mislead a walk as long as it only appends.
THEOREM SafeGrowth == Spec => []GrowthIsSafe
<1>1. IInv => GrowthIsSafe
  BY DEF IInv, GrowthInv
<1> QED
  BY Invariance, <1>1, PTL

\* GetRaw starts at most one walk after its context is done.
THEOREM DeadlineHonoured == Spec => []OneWalkAfterDeadline
<1>1. IInv => OneWalkAfterDeadline
  BY DEF IInv, LateInv, LateOf, OneWalkAfterDeadline
<1> QED
  BY Invariance, <1>1, PTL

\* The stickiness of DECISIONS.md: a walk begun within the TTL starts where the
\* last answer came from, one begun after it with the primary.
THEOREM Stickiness == Spec => SticksToLastGood
<1>1. ASSUME IInv, [Next]_vars, NEW g \in Call,
             pc[g] # "try", pc'[g] = "try"
      PROVE  /\ age < TTL /\ answered # NoEndpoint => eps'[g][start'[g]] = answered
             /\ age = TTL => eps'[g][start'[g]] = Primary
  <2>1. GetRaw(g) \/ Retry(g)
    <3>1. ASSUME NEW h \in Call, h # g,
                 GetRaw(h) \/ GetOne(h) \/ AfterWalk(h) \/ Deadline(h)
          PROVE  pc'[g] \in {pc[g], "dead"}
      <4>1. CASE GetRaw(h) \/ Retry(h)
        BY <1>1, <3>1, <4>1 DEF IInv, TypeOK, GetRaw, Retry, TryOrder
      <4>2. CASE Answers(h)
        BY <1>1, <3>1, <4>2 DEF IInv, TypeOK, Answers
      <4>3. ASSUME NEW e \in ErrorKind, Fails(h, e) PROVE pc'[g] = pc[g]
        BY <1>1, <3>1, <4>3 DEF IInv, TypeOK, Fails, NextEndpoint, Return
      <4>4. CASE GiveUp(h) \/ Cancelled(h) \/ Deadline(h)
        BY <1>1, <3>1, <4>4 DEF IInv, TypeOK, GiveUp, Cancelled, Deadline, Return
      <4> QED
        BY <3>1, <4>1, <4>2, <4>3, <4>4 DEF GetOne, AfterWalk
    <3>2. ~GetOne(g) /\ ~GiveUp(g) /\ ~Cancelled(g) /\ ~Deadline(g)
      BY <1>1 DEF IInv, TypeOK, GetOne, Answers, Fails, GiveUp, Cancelled, Deadline, Return
    <3>3. ASSUME Tick \/ UNCHANGED vars \/ \E b \in BackupLists : SetBackups(b) PROVE pc' = pc
      BY <3>3 DEF Tick, vars, SetBackups
    <3> QED
      BY <1>1, <3>1, <3>2, <3>3 DEF Next, AfterWalk
  <2>2. TryOrder(g) /\ UNCHANGED listVars
    BY <2>1 DEF GetRaw, Retry
  <2>3. eps'[g] = endpoints /\ start'[g] = IF Sticks THEN preferred ELSE 1
    BY <1>1, <2>2 DEF TryOrder, IInv, TypeOK
  <2>4. ASSUME age < TTL, answered # NoEndpoint PROVE eps'[g][start'[g]] = answered
    <3>1. /\ ~reshaped /\ ~panicked
          /\ preferred \in 1 .. Len(endpoints)
          /\ endpoints[preferred] = answered
      BY <1>1, <2>4 DEF IInv, GrowthInv, GrowthIsSafe, IndexInRange
    <3>2. start'[g] = preferred
      BY <2>3, <2>4, <3>1 DEF Sticks
    <3> QED
      BY <2>3, <3>1, <3>2
  <2>5. ASSUME age = TTL PROVE eps'[g][start'[g]] = Primary
    <3>1. ~Sticks
      BY <2>5, BoundsAssumption DEF Sticks
    <3> QED
      BY <1>1, <2>3, <3>1 DEF IInv, ListInv
  <2> QED
    BY <2>4, <2>5
<1>2. IInv /\ [Next]_vars =>
        [\A g \in Call : pc[g] # "try" /\ pc'[g] = "try" =>
           /\ age < TTL /\ answered # NoEndpoint => eps'[g][start'[g]] = answered
           /\ age = TTL => eps'[g][start'[g]] = Primary]_vars
  BY <1>1
<1> QED
  BY Invariance, <1>2, PTL DEF Spec, SticksToLastGood
=============================================================================
