---------------------------- MODULE ScrapeProofs ----------------------------
(***************************************************************************)
(* Theorems about module Scrape, for any number of overlapping scrapes,    *)
(* servers, objects and workers, and any subset of the collectors.         *)
(***************************************************************************)
EXTENDS Scrape, FiniteSetTheorems, TLAPS

-----------------------------------------------------------------------------
(* The inductive invariant                                                 *)

\* A collector that is not registered does nothing.
Absent == \A s \in Scrapes : \A c \in Child \ children : pc[s][c] = "idle"

\* The slots are those of the goroutines that have begun and not left; without a
\* failure every job is waiting, in flight or answered.
PoolOf(s) ==
    /\ todo[s] \cap calling[s] = {} /\ todo[s] \cap leaving[s] = {} /\ calling[s] \cap leaving[s] = {}
    /\ IsFiniteSet(calling[s] \cup leaving[s])
    /\ sem[s] = Cardinality(calling[s] \cup leaving[s])
    /\ pc[s]["performance"] # "fan" => todo[s] = {} /\ calling[s] = {} /\ leaving[s] = {}
    /\ pc[s]["performance"] \in {"idle", "lookup"} => answered[s] = {}
    /\ failures[s] = 0 => jobs[s] = todo[s] \cup calling[s] \cup answered[s]
Pool == \A s \in Scrapes : PoolOf(s)

\* Who is past Lock has the mutex; an answer of /servers still in hand is not
\* older than the failover list.
MutexOf(s) ==
    /\ pc[s]["inventory"] \in {"groups", "servers", "rest"} => holder["inventory"] = s
    /\ pc[s]["health"] = "lookup" => holder["health"] = s
    /\ pc[s]["inventory"] = "rest" => backupsAt <= asOf[s]
Mutex == \A s \in Scrapes : MutexOf(s)

IInv == TypeOK /\ Absent /\ Pool /\ Mutex /\ UpIsHonest

LEMMA NodesTyped == ASSUME TypeOK PROVE nodes \in SUBSET Node
  BY NodeAssumption DEF TypeOK, nodes

LEMMA InitIInv == Init => IInv
<1> SUFFICES ASSUME Init PROVE IInv
  OBVIOUS
<1>1. TypeOK
  BY ScrapeAssumption, NodeAssumption, PoolAssumption, ChildAssumption
  DEF Init, TypeOK, Child, Guarded, Stage
<1>2. Absent /\ Mutex /\ UpIsHonest
  BY DEF Init, Absent, Mutex, MutexOf, UpIsHonest, Child
<1>3. Pool
  <2>1. IsFiniteSet({}) /\ Cardinality({}) = 0
    BY FS_EmptySet
  <2> QED
    BY <2>1 DEF Init, Pool, PoolOf, Child
<1> QED
  BY <1>1, <1>2, <1>3 DEF IInv

-----------------------------------------------------------------------------
(* Every action keeps it                                                   *)

\* The collectors of an idle scrape set out; nobody holds anything yet.
LEMMA CollectInv == ASSUME IInv, NEW s \in Scrapes, Collect(s) PROVE IInv'
<1> USE DEF Collect, invVars, listVars, perfVars
<1>1. TypeOK'
  BY NodesTyped DEF IInv, TypeOK, Child, Guarded, Stage
<1>2. Absent'
  BY DEF IInv, TypeOK, Absent, Child, Guarded
<1>3. Pool'
  <2> SUFFICES ASSUME NEW q \in Scrapes PROVE PoolOf(q)'
    BY DEF Pool
  <2>1. PoolOf(q)
    BY DEF IInv, Pool
  <2> QED
    BY <2>1 DEF IInv, TypeOK, Absent, PoolOf, Child, Guarded
<1>4. Mutex'
  BY ScrapeAssumption DEF IInv, TypeOK, Mutex, MutexOf, Child, Guarded
<1>5. UpIsHonest'
  BY DEF IInv, TypeOK, Absent, Pool, PoolOf, UpIsHonest, Child, Guarded
<1> QED
  BY <1>1, <1>2, <1>3, <1>4, <1>5 DEF IInv

\* All its collectors are done: what the scrape had is gone with it.
LEMMA ReturnInv == ASSUME IInv, NEW s \in Scrapes, Return(s) PROVE IInv'
<1> USE DEF Return, invVars, listVars, perfVars
<1>0. todo[s] = {} /\ calling[s] = {} /\ leaving[s] = {}
  BY DEF IInv, Absent, Pool, PoolOf, Child
<1>1. TypeOK'
  BY <1>0 DEF IInv, TypeOK, Child, Guarded, Stage
<1>2. Absent'
  BY DEF IInv, TypeOK, Absent, Child, Guarded
<1>3. Pool'
  <2> SUFFICES ASSUME NEW q \in Scrapes PROVE PoolOf(q)'
    BY DEF Pool
  <2>1. PoolOf(q)
    BY DEF IInv, Pool
  <2> QED
    BY <1>0, <2>1 DEF IInv, TypeOK, Absent, PoolOf, Child, Guarded
<1>4. Mutex'
  BY ScrapeAssumption DEF IInv, TypeOK, Mutex, MutexOf, Child, Guarded
<1>5. UpIsHonest'
  BY DEF IInv, TypeOK, Absent, Pool, PoolOf, UpIsHonest, Child, Guarded
<1> QED
  BY <1>1, <1>2, <1>3, <1>4, <1>5 DEF IInv

\* The mutex was free, so nobody was past it.
LEMMA BeginInv == ASSUME IInv, NEW s \in Scrapes, NEW c \in Guarded, Begin(s, c) PROVE IInv'
<1> USE DEF Begin, Lock, Goes, invVars, listVars, perfVars
<1>1. TypeOK'
  BY NodesTyped DEF IInv, TypeOK, Child, Guarded, Stage
<1>2. Absent'
  BY DEF IInv, TypeOK, Absent, Child, Guarded
<1>3. Pool'
  <2> SUFFICES ASSUME NEW q \in Scrapes PROVE PoolOf(q)'
    BY DEF Pool
  <2>1. PoolOf(q)
    BY DEF IInv, Pool
  <2> QED
    BY <2>1 DEF IInv, TypeOK, Absent, PoolOf, Child, Guarded
<1>4. Mutex'
  BY ScrapeAssumption DEF IInv, TypeOK, Mutex, MutexOf, Child, Guarded
<1>5. UpIsHonest'
  BY DEF IInv, TypeOK, Absent, Pool, PoolOf, UpIsHonest, Child, Guarded
<1> QED
  BY <1>1, <1>2, <1>3, <1>4, <1>5 DEF IInv

\* The inventory goes on with the mutex.
LEMMA ServerGroupsInv ==
    ASSUME IInv, NEW s \in Scrapes, NEW good \in BOOLEAN, ServerGroups(s, good)
    PROVE  IInv'
<1> USE DEF ServerGroups, Goes, invVars, listVars, perfVars
<1>1. TypeOK'
  BY NodesTyped DEF IInv, TypeOK, Child, Guarded, Stage
<1>2. Absent'
  BY DEF IInv, TypeOK, Absent, Child, Guarded
<1>3. Pool'
  <2> SUFFICES ASSUME NEW q \in Scrapes PROVE PoolOf(q)'
    BY DEF Pool
  <2>1. PoolOf(q)
    BY DEF IInv, Pool
  <2> QED
    BY <2>1 DEF IInv, TypeOK, Absent, PoolOf, Child, Guarded
<1>4. Mutex'
  BY ScrapeAssumption DEF IInv, TypeOK, Mutex, MutexOf, Child, Guarded
<1>5. UpIsHonest'
  BY DEF IInv, TypeOK, Absent, Pool, PoolOf, UpIsHonest, Child, Guarded
<1> QED
  BY <1>1, <1>2, <1>3, <1>4, <1>5 DEF IInv

\* The answer is of now: the failover list cannot be younger.
LEMMA ServersInv ==
    ASSUME IInv, NEW s \in Scrapes, NEW good \in BOOLEAN, NEW answer \in {{}, nodes}, Servers(s, good, answer)
    PROVE  IInv'
<1> USE DEF Servers, Goes, invVars, listVars, perfVars
<1>1. TypeOK'
  BY NodesTyped DEF IInv, TypeOK, Child, Guarded, Stage
<1>2. Absent'
  BY DEF IInv, TypeOK, Absent, Child, Guarded
<1>3. Pool'
  <2> SUFFICES ASSUME NEW q \in Scrapes PROVE PoolOf(q)'
    BY DEF Pool
  <2>1. PoolOf(q)
    BY DEF IInv, Pool
  <2> QED
    BY <2>1 DEF IInv, TypeOK, Absent, PoolOf, Child, Guarded
<1>4. Mutex'
  BY ScrapeAssumption DEF IInv, TypeOK, Mutex, MutexOf, Child, Guarded
<1>5. UpIsHonest'
  BY DEF IInv, TypeOK, Absent, Pool, PoolOf, UpIsHonest, Child, Guarded
<1> QED
  BY <1>1, <1>2, <1>3, <1>4, <1>5 DEF IInv

\* The failover list becomes the answer in hand; nobody else has one.
LEMMA RestInv == ASSUME IInv, NEW s \in Scrapes, NEW good \in BOOLEAN, Rest(s, good) PROVE IInv'
<1> USE DEF Rest, Done, Goes, Unlock, Kept, InventoryOk, invVars, listVars, perfVars
<1>0. Kept(s) \subseteq Node
  BY DEF IInv, TypeOK
<1>1. TypeOK'
  BY <1>0 DEF IInv, TypeOK, Child, Guarded, Stage
<1>2. Absent'
  BY DEF IInv, TypeOK, Absent, Child, Guarded
<1>3. Pool'
  <2> SUFFICES ASSUME NEW q \in Scrapes PROVE PoolOf(q)'
    BY DEF Pool
  <2>1. PoolOf(q)
    BY DEF IInv, Pool
  <2> QED
    BY <2>1 DEF IInv, TypeOK, Absent, PoolOf, Child, Guarded
<1>4. Mutex'
  BY ScrapeAssumption DEF IInv, TypeOK, Mutex, MutexOf, Child, Guarded
<1>5. UpIsHonest'
  BY DEF IInv, TypeOK, Absent, Pool, PoolOf, UpIsHonest, Child, Guarded
<1> QED
  BY <1>1, <1>2, <1>3, <1>4, <1>5 DEF IInv

\* Whoever is past the mutex leaves it.
LEMMA HealthInv ==
    ASSUME IInv, NEW s \in Scrapes, NEW good \in BOOLEAN, Health(s, good)
    PROVE  IInv'
<1> USE DEF Health, Done, Goes, Unlock, invVars, listVars, perfVars
<1>1. TypeOK'
  BY NodesTyped DEF IInv, TypeOK, Child, Guarded, Stage
<1>2. Absent'
  BY DEF IInv, TypeOK, Absent, Child, Guarded
<1>3. Pool'
  <2> SUFFICES ASSUME NEW q \in Scrapes PROVE PoolOf(q)'
    BY DEF Pool
  <2>1. PoolOf(q)
    BY DEF IInv, Pool
  <2> QED
    BY <2>1 DEF IInv, TypeOK, Absent, PoolOf, Child, Guarded
<1>4. Mutex'
  BY ScrapeAssumption DEF IInv, TypeOK, Mutex, MutexOf, Child, Guarded
<1>5. UpIsHonest'
  BY DEF IInv, TypeOK, Absent, Pool, PoolOf, UpIsHonest, Child, Guarded
<1> QED
  BY <1>1, <1>2, <1>3, <1>4, <1>5 DEF IInv

\* Nothing has begun, and nothing will.
LEMMA LookupFailsInv == ASSUME IInv, NEW s \in Scrapes, LookupFails(s) PROVE IInv'
<1> USE DEF LookupFails, Done, Goes, invVars, listVars, perfVars
<1>1. TypeOK'
  BY NodesTyped DEF IInv, TypeOK, Child, Guarded, Stage
<1>2. Absent'
  BY DEF IInv, TypeOK, Absent, Child, Guarded
<1>3. Pool'
  <2> SUFFICES ASSUME NEW q \in Scrapes PROVE PoolOf(q)'
    BY DEF Pool
  <2>1. PoolOf(q)
    BY DEF IInv, Pool
  <2> QED
    BY <2>1 DEF IInv, TypeOK, Absent, PoolOf, Child, Guarded
<1>4. Mutex'
  BY ScrapeAssumption DEF IInv, TypeOK, Mutex, MutexOf, Child, Guarded
<1>5. UpIsHonest'
  BY DEF IInv, TypeOK, Absent, Pool, PoolOf, UpIsHonest, Child, Guarded
<1> QED
  BY <1>1, <1>2, <1>3, <1>4, <1>5 DEF IInv

\* All jobs wait.
LEMMA LookupInv == ASSUME IInv, NEW s \in Scrapes, Lookup(s) PROVE IInv'
<1> USE DEF Lookup, Goes, invVars, listVars, perfVars
<1>0. calling[s] = {} /\ leaving[s] = {} /\ answered[s] = {} /\ nodes \subseteq Node
  BY NodesTyped DEF IInv, Pool, PoolOf
<1>1. TypeOK'
  <2>1. jobs' \in [Scrapes -> SUBSET (Node \cup Object)] /\ todo' \in [Scrapes -> SUBSET (Node \cup Object)]
    BY <1>0 DEF IInv, TypeOK
  <2>2. pc' \in [Scrapes -> [Child -> Stage]]
    BY DEF IInv, TypeOK, Child, Stage
  <2> QED
    BY <2>1, <2>2 DEF IInv, TypeOK
<1>2. Absent'
  BY DEF IInv, TypeOK, Absent, Child, Guarded
<1>3. Pool'
  <2> SUFFICES ASSUME NEW q \in Scrapes PROVE PoolOf(q)'
    BY DEF Pool
  <2>1. PoolOf(q)
    BY DEF IInv, Pool
  <2> QED
    BY <1>0, <2>1 DEF IInv, TypeOK, Absent, PoolOf, Child, Guarded
<1>4. Mutex'
  BY ScrapeAssumption DEF IInv, TypeOK, Mutex, MutexOf, Child, Guarded
<1>5. UpIsHonest'
  BY DEF IInv, TypeOK, Absent, Pool, PoolOf, UpIsHonest, Child, Guarded
<1> QED
  BY <1>1, <1>2, <1>3, <1>4, <1>5 DEF IInv

\* One slot more for one goroutine more.
LEMMA DispatchInv ==
    ASSUME IInv, NEW s \in Scrapes, NEW j \in Node \cup Object, Dispatch(s, j)
    PROVE  IInv'
<1> USE DEF Dispatch, SlotFree, invVars, listVars, perfVars
<1>0. PoolOf(s) /\ sem[s] \in Nat /\ sem[s] + 1 \in 0 .. Workers
  BY PoolAssumption DEF IInv, TypeOK, Pool
<1>1. TypeOK'
  <2>1. sem' \in [Scrapes -> 0 .. Workers]
    BY <1>0 DEF IInv, TypeOK
  <2>2. todo' \in [Scrapes -> SUBSET (Node \cup Object)] /\ calling' \in [Scrapes -> SUBSET (Node \cup Object)]
    BY DEF IInv, TypeOK
  <2> QED
    BY <2>1, <2>2 DEF IInv, TypeOK, nodes
<1>2. Absent'
  BY DEF IInv, TypeOK, Absent, Child, Guarded
<1>3. Pool'
  <2> SUFFICES ASSUME NEW q \in Scrapes PROVE PoolOf(q)'
    BY DEF Pool
  <2>1. PoolOf(q)
    BY DEF IInv, Pool
  <2>2. CASE q = s
    <3>1. /\ calling'[s] \cup leaving'[s] = (calling[s] \cup leaving[s]) \cup {j}
          /\ j \notin calling[s] \cup leaving[s]
          /\ sem'[s] = sem[s] + 1
      BY <1>0 DEF IInv, TypeOK, PoolOf
    <3>2. /\ IsFiniteSet((calling[s] \cup leaving[s]) \cup {j})
          /\ Cardinality((calling[s] \cup leaving[s]) \cup {j}) = Cardinality(calling[s] \cup leaving[s]) + 1
      BY <1>0, <3>1, FS_AddElement DEF PoolOf
    <3>3. /\ todo'[s] = todo[s] \ {j} /\ calling'[s] = calling[s] \cup {j} /\ j \in todo[s]
          /\ leaving' = leaving /\ answered' = answered /\ jobs' = jobs /\ failures' = failures /\ pc' = pc
          /\ pc[s]["performance"] = "fan"
      BY DEF IInv, TypeOK
    <3>4. sem'[s] = Cardinality(calling'[s] \cup leaving'[s]) /\ IsFiniteSet(calling'[s] \cup leaving'[s])
      BY <1>0, <3>1, <3>2 DEF PoolOf
    <3>5. /\ todo'[s] \cap calling'[s] = {} /\ todo'[s] \cap leaving'[s] = {}
          /\ calling'[s] \cap leaving'[s] = {}
          /\ failures[s] = 0 => jobs[s] = todo'[s] \cup calling'[s] \cup answered[s]
      BY <1>0, <3>1, <3>3 DEF PoolOf
    <3> HIDE DEF Dispatch
    <3> QED
      BY <2>2, <3>3, <3>4, <3>5 DEF PoolOf
  <2>3. CASE q # s
    BY <2>1, <2>3 DEF IInv, TypeOK, PoolOf
  <2> QED
    BY <2>2, <2>3
<1>4. Mutex'
  BY ScrapeAssumption DEF IInv, TypeOK, Mutex, MutexOf, Child, Guarded
<1>5. UpIsHonest'
  BY DEF IInv, TypeOK, Absent, Pool, PoolOf, UpIsHonest, Child, Guarded
<1> QED
  BY <1>1, <1>2, <1>3, <1>4, <1>5 DEF IInv

\* The job is answered; its goroutine keeps the slot.
LEMMA AnswersInv ==
    ASSUME IInv, NEW s \in Scrapes, NEW j \in Node \cup Object, Answers(s, j)
    PROVE  IInv'
<1> USE DEF Answers, invVars, listVars, perfVars
<1>1. TypeOK'
  BY NodesTyped DEF IInv, TypeOK, Child, Guarded, Stage
<1>2. Absent'
  BY DEF IInv, TypeOK, Absent, Child, Guarded
<1>3. Pool'
  <2> SUFFICES ASSUME NEW q \in Scrapes PROVE PoolOf(q)'
    BY DEF Pool
  <2>1. PoolOf(q)
    BY DEF IInv, Pool
  <2>2. CASE q = s
    <3>1. /\ calling'[s] = calling[s] \ {j} /\ leaving'[s] = leaving[s] \cup {j} /\ j \in calling[s]
          /\ answered'[s] = answered[s] \cup {j} /\ failures' = failures
      BY DEF IInv, TypeOK
    <3>2. calling'[s] \cup leaving'[s] = calling[s] \cup leaving[s]
      BY <3>1
    <3>3. todo' = todo /\ sem' = sem /\ jobs' = jobs /\ pc' = pc
      OBVIOUS
    <3> QED
      BY <2>1, <2>2, <3>1, <3>2, <3>3 DEF PoolOf
  <2>3. CASE q # s
    BY <2>1, <2>3 DEF IInv, TypeOK, PoolOf
  <2> QED
    BY <2>2, <2>3
<1>4. Mutex'
  BY ScrapeAssumption DEF IInv, TypeOK, Mutex, MutexOf, Child, Guarded
<1>5. UpIsHonest'
  <2>1. pc[s]["performance"] # "done"
    BY DEF IInv, Pool, PoolOf
  <2>2. \A q \in Scrapes \ {s} : answered'[q] = answered[q]
    BY DEF IInv, TypeOK
  <2> QED
    BY <2>1, <2>2 DEF IInv, UpIsHonest
<1> QED
  BY <1>1, <1>2, <1>3, <1>4, <1>5 DEF IInv

\* The job is counted; its goroutine keeps the slot.
LEMMA FailsInv ==
    ASSUME IInv, NEW s \in Scrapes, NEW j \in Node \cup Object, Fails(s, j)
    PROVE  IInv'
<1> USE DEF Fails, invVars, listVars, perfVars
<1>1. TypeOK'
  BY NodesTyped DEF IInv, TypeOK, Child, Guarded, Stage
<1>2. Absent'
  BY DEF IInv, TypeOK, Absent, Child, Guarded
<1>3. Pool'
  <2> SUFFICES ASSUME NEW q \in Scrapes PROVE PoolOf(q)'
    BY DEF Pool
  <2>1. PoolOf(q)
    BY DEF IInv, Pool
  <2>2. CASE q = s
    <3>1. /\ calling'[s] = calling[s] \ {j} /\ leaving'[s] = leaving[s] \cup {j} /\ j \in calling[s]
          /\ answered' = answered /\ failures'[s] # 0
      BY DEF IInv, TypeOK
    <3>2. calling'[s] \cup leaving'[s] = calling[s] \cup leaving[s]
      BY <3>1
    <3>3. todo' = todo /\ sem' = sem /\ jobs' = jobs /\ pc' = pc
      OBVIOUS
    <3> QED
      BY <2>1, <2>2, <3>1, <3>2, <3>3 DEF PoolOf
  <2>3. CASE q # s
    BY <2>1, <2>3 DEF IInv, TypeOK, PoolOf
  <2> QED
    BY <2>2, <2>3
<1>4. Mutex'
  BY ScrapeAssumption DEF IInv, TypeOK, Mutex, MutexOf, Child, Guarded
<1>5. UpIsHonest'
  BY DEF IInv, TypeOK, Absent, Pool, PoolOf, UpIsHonest, Child, Guarded
<1> QED
  BY <1>1, <1>2, <1>3, <1>4, <1>5 DEF IInv

\* The goroutine frees the slot that it took.
LEMMA LeaveInv ==
    ASSUME IInv, NEW s \in Scrapes, NEW j \in Node \cup Object, Leave(s, j)
    PROVE  IInv'
<1> USE DEF Leave, invVars, listVars, perfVars
<1>0. /\ calling'[s] \cup leaving'[s] = (calling[s] \cup leaving[s]) \ {j}
      /\ IsFiniteSet((calling[s] \cup leaving[s]) \ {j})
      /\ sem'[s] = sem[s] - 1
      /\ sem'[s] = Cardinality((calling[s] \cup leaving[s]) \ {j})
  <2>1. PoolOf(s) /\ j \in calling[s] \cup leaving[s] /\ j \notin calling[s]
    BY DEF IInv, Pool, PoolOf
  <2>2. /\ IsFiniteSet((calling[s] \cup leaving[s]) \ {j})
        /\ Cardinality((calling[s] \cup leaving[s]) \ {j}) = sem[s] - 1
    BY <2>1, FS_RemoveElement DEF PoolOf
  <2>3. sem'[s] = sem[s] - 1 /\ calling'[s] = calling[s] /\ leaving'[s] = leaving[s] \ {j}
    BY DEF IInv, TypeOK
  <2> QED
    BY <2>1, <2>2, <2>3
<1>1. TypeOK'
  <2>1. sem'[s] \in Nat /\ sem[s] \in 0 .. Workers
    BY <1>0, FS_CardinalityType DEF IInv, TypeOK
  <2>2. sem'[s] \in 0 .. Workers
    BY <1>0, <2>1, PoolAssumption
  <2>3. sem' \in [Scrapes -> 0 .. Workers]
    BY <2>2 DEF IInv, TypeOK
  <2>4. leaving' \in [Scrapes -> SUBSET (Node \cup Object)]
    BY DEF IInv, TypeOK
  <2> QED
    BY <2>3, <2>4 DEF IInv, TypeOK
<1>2. Absent'
  BY DEF IInv, TypeOK, Absent, Child, Guarded
<1>3. Pool'
  <2> SUFFICES ASSUME NEW q \in Scrapes PROVE PoolOf(q)'
    BY DEF Pool
  <2>1. PoolOf(q)
    BY DEF IInv, Pool
  <2>2. CASE q = s
    BY <1>0, <2>1, <2>2 DEF IInv, TypeOK, PoolOf
  <2>3. CASE q # s
    BY <2>1, <2>3 DEF IInv, TypeOK, PoolOf
  <2> QED
    BY <2>2, <2>3
<1>4. Mutex'
  BY ScrapeAssumption DEF IInv, TypeOK, Mutex, MutexOf, Child, Guarded
<1>5. UpIsHonest'
  BY DEF IInv, TypeOK, Absent, Pool, PoolOf, UpIsHonest, Child, Guarded
<1> QED
  BY <1>1, <1>2, <1>3, <1>4, <1>5 DEF IInv

\* Nothing waits and nothing is in flight: all is answered, or something failed.
LEMMA FanEndsInv == ASSUME IInv, NEW s \in Scrapes, FanEnds(s) PROVE IInv'
<1> USE DEF FanEnds, Done, Goes, AllDone, invVars, listVars, perfVars
<1>1. TypeOK'
  BY NodesTyped DEF IInv, TypeOK, Child, Guarded, Stage
<1>2. Absent'
  BY DEF IInv, TypeOK, Absent, Child, Guarded
<1>3. Pool'
  <2> SUFFICES ASSUME NEW q \in Scrapes PROVE PoolOf(q)'
    BY DEF Pool
  <2>1. PoolOf(q)
    BY DEF IInv, Pool
  <2> QED
    BY <2>1 DEF IInv, TypeOK, Absent, PoolOf, Child, Guarded
<1>4. Mutex'
  BY ScrapeAssumption DEF IInv, TypeOK, Mutex, MutexOf, Child, Guarded
<1>5. UpIsHonest'
  <2>1. failures[s] = 0 => answered[s] = jobs[s]
    BY DEF IInv, Pool, PoolOf
  <2>2. ok'[s]["performance"] => failures[s] = 0
    BY DEF IInv, TypeOK, Child
  <2>3. /\ \A q \in Scrapes : ok'[q]["inventory"] = ok[q]["inventory"]
        /\ \A q \in Scrapes \ {s} : ok'[q] = ok[q] /\ pc'[q] = pc[q]
    BY DEF IInv, TypeOK, Child
  <2> QED
    BY <2>1, <2>2, <2>3 DEF IInv, UpIsHonest
<1> QED
  BY <1>1, <1>2, <1>3, <1>4, <1>5 DEF IInv

\* What was listed gets older.
LEMMA ChangeInv == ASSUME IInv, Change PROVE IInv'
<1> USE DEF Change, invVars, listVars, perfVars
<1>1. TypeOK'
  BY NodesTyped DEF IInv, TypeOK, Child, Guarded, Stage
<1>2. Absent'
  BY DEF IInv, TypeOK, Absent, Child, Guarded
<1>3. Pool'
  <2> SUFFICES ASSUME NEW q \in Scrapes PROVE PoolOf(q)'
    BY DEF Pool
  <2>1. PoolOf(q)
    BY DEF IInv, Pool
  <2> QED
    BY <2>1 DEF IInv, TypeOK, Absent, PoolOf, Child, Guarded
<1>4. Mutex'
  BY ScrapeAssumption DEF IInv, TypeOK, Mutex, MutexOf, Child, Guarded
<1>5. UpIsHonest'
  BY DEF IInv, TypeOK, Absent, Pool, PoolOf, UpIsHonest, Child, Guarded
<1> QED
  BY <1>1, <1>2, <1>3, <1>4, <1>5 DEF IInv

LEMMA StepInv == ASSUME IInv, [Next]_vars PROVE IInv'
<1>1. CASE UNCHANGED vars
  BY <1>1 DEF vars, invVars, listVars, perfVars, IInv, TypeOK, Absent, Pool, PoolOf, Mutex, MutexOf,
              UpIsHonest, nodes
<1>2. ASSUME NEW s \in Scrapes, Looks(s) PROVE IInv'
  BY <1>2, ServerGroupsInv, ServersInv, RestInv, HealthInv DEF Looks
<1>3. ASSUME NEW s \in Scrapes, Performs(s) PROVE IInv'
  BY <1>3, LookupFailsInv, LookupInv, DispatchInv, AnswersInv, FailsInv, LeaveInv, FanEndsInv
  DEF Performs
<1>4. ASSUME NEW s \in Scrapes, Collect(s) \/ Guards(s) \/ Return(s) PROVE IInv'
  BY <1>4, CollectInv, BeginInv, ReturnInv DEF Guards
<1> QED
  BY <1>1, <1>2, <1>3, <1>4, ChangeInv DEF Next

-----------------------------------------------------------------------------
(* The theorems                                                            *)

\* The invariant holds in every reachable state: InitIInv and StepInv.
THEOREM Invariance == Spec => []IInv
<1>1. IInv /\ [Next]_vars => IInv'
  BY StepInv
<1> QED
  BY InitIInv, <1>1, PTL DEF Spec

\* Every value is of its kind; in particular the slots taken of a pool are between
\* none and the workers: performance.go, sem.
THEOREM TypeCorrect == Spec => []TypeOK
<1>1. IInv => TypeOK
  BY DEF IInv
<1> QED
  BY <1>1, Invariance, PTL

\* No worker outlives its collector: performance.go, wg.Wait.
THEOREM NoWorkerLeft == Spec => []WorkersInside
<1>1. IInv => WorkersInside
  BY DEF IInv, Pool, PoolOf, WorkersInside
<1> QED
  BY <1>1, Invariance, PTL

\* ssv_up 1 is for a tier with no failed call and nothing foreign: the results of
\* the inventory and of the performance collector.
THEOREM HonestUp == Spec => []UpIsHonest
<1>1. IInv => UpIsHonest
  BY DEF IInv
<1> QED
  BY <1>1, Invariance, PTL

\* Only Rest touches the failover list, with an answer that is not older.
LEMMA ListStep == ASSUME IInv, [Next]_vars PROVE backupsAt' >= backupsAt
<1> USE DEF listVars
<1>0. backupsAt \in Nat
  BY NodeAssumption DEF IInv, TypeOK
<1>1. ASSUME NEW s \in Scrapes, NEW good \in BOOLEAN, Rest(s, good) PROVE backupsAt' >= backupsAt
  BY <1>0, <1>1 DEF Rest, IInv, TypeOK, Mutex, MutexOf
<1>2. ASSUME NEW s \in Scrapes, Looks(s) PROVE backupsAt' >= backupsAt
  BY <1>0, <1>1, <1>2 DEF Looks, ServerGroups, Servers, Health
<1>3. ASSUME NEW s \in Scrapes, Performs(s) PROVE backupsAt' >= backupsAt
  <2>1. ASSUME NEW j \in Node \cup Object, Dispatch(s, j) \/ Answers(s, j) \/ Fails(s, j) \/ Leave(s, j)
        PROVE  UNCHANGED backupsAt
    BY <2>1 DEF Dispatch, Answers, Fails, Leave
  <2>2. LookupFails(s) => UNCHANGED backupsAt
    BY DEF LookupFails
  <2>3. Lookup(s) => UNCHANGED backupsAt
    BY DEF Lookup
  <2>4. FanEnds(s) => UNCHANGED backupsAt
    BY DEF FanEnds
  <2> QED
    BY <1>0, <1>3, <2>1, <2>2, <2>3, <2>4 DEF Performs
<1>4. ASSUME NEW s \in Scrapes, Collect(s) \/ Guards(s) \/ Return(s) PROVE backupsAt' >= backupsAt
  BY <1>0, <1>4 DEF Collect, Guards, Begin, Return
<1>5. CASE Change \/ UNCHANGED vars
  BY <1>0, <1>5 DEF Change, vars
<1> QED
  BY <1>2, <1>3, <1>4, <1>5 DEF Next

\* Only Rest ends an inventory, with SetBackups before its result.
LEMMA LocalStep ==
    ASSUME IInv, [Next]_vars, NEW s \in Scrapes,
           pc[s]["inventory"] # "done", pc'[s]["inventory"] = "done", ok'[s]["inventory"]
    PROVE  backups' \subseteq Local
<1>0. /\ pc \in [Scrapes -> [Child -> Stage]] /\ ok \in [Scrapes -> [Child -> BOOLEAN]]
      /\ "inventory" \in Child /\ "health" \in Child /\ "performance" \in Child
      /\ Guarded \subseteq Child
      /\ pc[s]["inventory"] # "done" /\ pc'[s]["inventory"] = "done"
  BY DEF IInv, TypeOK, Child, Guarded
\* A step of another scrape or another collector does not end it.
<1>1. ASSUME NEW q \in Scrapes, NEW c \in Child, NEW t, Goes(q, c, t)
      PROVE  q = s /\ c = "inventory" /\ t = "done"
  BY <1>0, <1>1 DEF Goes
<1>2. ASSUME NEW q \in Scrapes, NEW good \in BOOLEAN, Rest(q, good) PROVE backups' \subseteq Local
  <2>1. Goes(q, "inventory", "done") /\ ok' = [ok EXCEPT ![q]["inventory"] = InventoryOk(q, good)]
    BY <1>2 DEF Rest, Done
  <2>2. q = s
    BY <1>0, <1>1, <2>1
  <2>3. ok'[s]["inventory"] = InventoryOk(s, good)
    BY <1>0, <2>1, <2>2
  <2>4. groupsOk[s] /\ serversOk[s]
    BY <2>3 DEF InventoryOk
  <2> QED
    BY <1>2, <2>2, <2>4 DEF Rest, Kept
<1>3. ASSUME NEW q \in Scrapes, Looks(q) PROVE backups' \subseteq Local
  <2>1. ASSUME NEW good \in BOOLEAN PROVE ~Health(q, good)
    BY <1>0, <1>1 DEF Health, Done
  <2>2. ASSUME NEW good \in BOOLEAN PROVE ~ServerGroups(q, good)
    BY <1>0, <1>1 DEF ServerGroups
  <2>3. ASSUME NEW good \in BOOLEAN, NEW answer \in {{}, nodes} PROVE ~Servers(q, good, answer)
    BY <1>0, <1>1 DEF Servers
  <2> QED
    BY <1>2, <1>3, <2>1, <2>2, <2>3 DEF Looks
<1>4. ASSUME NEW q \in Scrapes PROVE ~Performs(q)
  <2>1. ASSUME NEW j \in Node \cup Object
        PROVE  ~Dispatch(q, j) /\ ~Answers(q, j) /\ ~Fails(q, j) /\ ~Leave(q, j)
    BY <1>0 DEF Dispatch, Answers, Fails, Leave
  <2>2. ~LookupFails(q) /\ ~FanEnds(q) /\ ~Lookup(q)
    BY <1>0, <1>1 DEF LookupFails, FanEnds, Lookup, Done
  <2> QED
    BY <2>1, <2>2 DEF Performs
<1>5. ASSUME NEW q \in Scrapes PROVE ~Collect(q) /\ ~Guards(q) /\ ~Return(q)
  <2>1. ~Collect(q)
    <3>1. ASSUME Collect(q)
          PROVE  pc'[s] = pc[s] \/ pc'[s]["inventory"] \in {"idle", "lock", "lookup"}
      BY <1>0, <3>1 DEF Collect
    <3> QED
      BY <1>0, <3>1
  <2>2. ~Return(q)
    <3>1. ASSUME Return(q) PROVE pc'[s] = pc[s] \/ pc'[s]["inventory"] = "idle"
      BY <1>0, <3>1 DEF Return
    <3> QED
      BY <1>0, <3>1
  <2>3. ASSUME NEW c \in Guarded PROVE ~Begin(q, c)
    BY <1>0, <1>1 DEF Begin
  <2> QED
    BY <2>1, <2>2, <2>3 DEF Guards
<1>6. ~Change /\ ~UNCHANGED vars
  BY <1>0 DEF Change, vars
<1> QED
  BY <1>3, <1>4, <1>5, <1>6 DEF Next

\* An older answer of /servers never replaces the failover list: the mutex around
\* Inventory.CollectMetrics.  After a successful inventory it is of local servers.
THEOREM ListMovesOn == Spec => BackupsMoveOn
<1>1. ASSUME IInv, [Next]_vars
      PROVE  /\ backupsAt' >= backupsAt
             /\ \A s \in Scrapes :
                    pc[s]["inventory"] # "done" /\ pc'[s]["inventory"] = "done" /\ ok'[s]["inventory"]
                      => backups' \subseteq Local
  BY <1>1, ListStep, LocalStep
<1>2. IInv /\ [Next]_vars =>
        [/\ backupsAt' >= backupsAt
         /\ \A s \in Scrapes :
                pc[s]["inventory"] # "done" /\ pc'[s]["inventory"] = "done" /\ ok'[s]["inventory"]
                  => backups' \subseteq Local]_vars
  BY <1>1
<1> QED
  BY <1>2, Invariance, PTL DEF Spec, BackupsMoveOn

-----------------------------------------------------------------------------
(* Nobody waits in vain                                                    *)

\* Whoever holds a mutex is asking SSV for something: no way out of a collector
\* keeps it.
Held ==
    \A c \in Guarded : holder[c] # NoScrape =>
        pc[holder[c]][c] \in {"groups", "servers", "rest", "lookup"}

\* The dispatching loop and wg.Wait wait for goroutines that are there: a full pool
\* is full of calls in flight and of goroutines about to leave.
PoolMoves ==
    \A s \in Scrapes : pc[s]["performance"] = "fan" /\ ~AllDone(s) =>
        SlotFree(s) \/ calling[s] \cup leaving[s] # {}

LEMMA HeldStep == ASSUME IInv, Held, [Next]_vars PROVE Held'
<1> USE DEF IInv, TypeOK, Child, Guarded, Stage, Held
<1>1. ASSUME NEW s \in Scrapes, Collect(s) PROVE Held'
  BY <1>1 DEF Absent, Collect
<1>2. ASSUME NEW s \in Scrapes, Return(s) PROVE Held'
  <2>1. \A c \in Guarded : pc[s][c] \in {"done", "idle"}
    BY <1>2 DEF Absent, Return
  <2>2. \A c \in Guarded : holder[c] # NoScrape => holder[c] \in Scrapes \ {s}
    BY <2>1
  <2>3. UNCHANGED holder /\ \A q \in Scrapes \ {s} : pc'[q] = pc[q]
    BY <1>2 DEF Return
  <2> QED
    BY <2>2, <2>3
<1>3. ASSUME NEW s \in Scrapes, NEW c \in Guarded, Begin(s, c) PROVE Held'
  BY <1>3 DEF Begin, Lock, Goes
<1>4. ASSUME NEW s \in Scrapes, NEW good \in BOOLEAN, ServerGroups(s, good) PROVE Held'
  BY <1>4 DEF ServerGroups, Goes
<1>5. ASSUME NEW s \in Scrapes, NEW good \in BOOLEAN, NEW answer, Servers(s, good, answer)
      PROVE  Held'
  BY <1>5 DEF Servers, Goes
<1>6. ASSUME NEW s \in Scrapes, NEW good \in BOOLEAN, Rest(s, good) PROVE Held'
  BY <1>6, ScrapeAssumption DEF Rest, Done, Goes, Unlock, Mutex, MutexOf
<1>7. ASSUME NEW s \in Scrapes, NEW good \in BOOLEAN, Health(s, good) PROVE Held'
  BY <1>7, ScrapeAssumption DEF Health, Done, Goes, Unlock, Mutex, MutexOf
<1>8. ASSUME NEW s \in Scrapes, Performs(s) PROVE Held'
  <2>1. UNCHANGED holder /\ \A q \in Scrapes, c \in Guarded : pc'[q][c] = pc[q][c]
    <3>1. ASSUME LookupFails(s) \/ Lookup(s) \/ FanEnds(s)
          PROVE  UNCHANGED holder /\ \E t : Goes(s, "performance", t)
      BY <3>1 DEF LookupFails, Lookup, FanEnds, Done
    <3>2. ASSUME NEW t, Goes(s, "performance", t)
          PROVE  \A q \in Scrapes, c \in Guarded : pc'[q][c] = pc[q][c]
      BY <3>2 DEF Goes
    <3>3. ASSUME NEW j \in Node \cup Object, Dispatch(s, j) \/ Answers(s, j) \/ Fails(s, j) \/ Leave(s, j)
          PROVE  UNCHANGED <<holder, pc>>
      BY <3>3 DEF Dispatch, Answers, Fails, Leave
    <3> QED
      BY <1>8, <3>1, <3>2, <3>3 DEF Performs
  <2> QED
    BY <2>1
<1>9. CASE Change \/ UNCHANGED vars
  BY <1>9 DEF Change, vars
<1> QED
  BY <1>1, <1>2, <1>3, <1>4, <1>5, <1>6, <1>7, <1>8, <1>9 DEF Next, Guards, Looks

LEMMA PoolGoesOn == ASSUME IInv PROVE PoolMoves
<1> SUFFICES ASSUME NEW s \in Scrapes, calling[s] \cup leaving[s] = {} PROVE SlotFree(s)
  BY DEF PoolMoves
<1>1. sem[s] = 0
  BY FS_EmptySet DEF IInv, Pool, PoolOf
<1> QED
  BY <1>1, PoolAssumption DEF SlotFree

\* What EveryScrapeEnds rests on, for any number of scrapes and workers: a scrape
\* waits for a mutex only while another scrape's collector asks SSV under it, and
\* for a slot or for wg only while there are goroutines to give one back.
THEOREM NobodyWaitsInVain == Spec => [](Held /\ PoolMoves)
<1>1. Init => Held
  BY DEF Init, Held
<1>2. IInv /\ Held /\ [Next]_vars => Held'
  BY HeldStep
<1>3. IInv => PoolMoves
  BY PoolGoesOn
<1> QED
  BY <1>1, <1>2, <1>3, Invariance, PTL DEF Spec
=============================================================================
