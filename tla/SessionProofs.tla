--------------------------- MODULE SessionProofs ---------------------------
(***************************************************************************)
(* Theorems about module Session, for any number of goroutines, any bound  *)
(* on sessions and any faults.  The invariants the runs check are not      *)
(* inductive: IInv adds who holds the mutex, that a token is never cached  *)
(* while it is held, and where each copy of a token can come from.         *)
(***************************************************************************)
EXTENDS Session, TLAPS

\* The mutex is held exactly by the goroutine whose OpenSession is in flight,
\* and only while no token is cached.
MutexInv ==
    /\ \A c \in Caller : pc[c] = "opening" <=> mu = c
    /\ mu # Nobody => token = NoToken

\* A retrying goroutine can no longer find the token it was refused with.
RetryOf(c) ==
    /\ pc[c] = "sending" => tok[c] \in 1 .. issued
    /\ retry[c] => pc[c] # "idle"
    /\ retry[c] /\ pc[c] \in {"ensure", "opening"} => token = NoToken \/ token # refused[c]
    /\ retry[c] /\ pc[c] = "sending" => tok[c] # refused[c]
RetryInv == \A c \in Caller : RetryOf(c)

\* While nothing was disturbed, SSV's only session is the cached one and nobody
\* is about to drop it.
SharedInv ==
    ~disturbed =>
        /\ issued <= 1
        /\ live = 1 .. issued
        /\ token = issued
        /\ closer # "closing"
        /\ \A c \in Caller : pc[c] # "invalidate"

IInv == TypeOK /\ MutexInv /\ RetryInv /\ CachedTokenNotClosed /\ SharedInv

LEMMA InitIInv == Init => IInv
<1> SUFFICES ASSUME Init PROVE IInv
  OBVIOUS
<1> USE CallerAssumption, SessionAssumption DEF Init, NoToken
<1>1. TypeOK
  <2>1. 0 \in 0 .. MaxSessions /\ 0 \in 0 .. 0 /\ {} \subseteq 1 .. 0
    OBVIOUS
  <2>2. /\ pc \in [Caller -> {"idle", "ensure", "opening", "sending", "invalidate"}]
        /\ tok \in [Caller -> 0 .. issued]
        /\ refused \in [Caller -> 0 .. issued]
        /\ retry \in [Caller -> BOOLEAN]
    BY <2>1
  <2> QED
    BY <2>1, <2>2 DEF TypeOK
<1>2. MutexInv /\ RetryInv
  BY DEF MutexInv, RetryInv, RetryOf
<1>3. CachedTokenNotClosed /\ SharedInv
  BY DEF CachedTokenNotClosed, SharedInv
<1> QED
  BY <1>1, <1>2, <1>3 DEF IInv

\* The locals of a call that returns keep their types.
LEMMA ReturnsType ==
    ASSUME TypeOK, NEW c \in Caller, Returns(c), issued' = issued
    PROVE  /\ pc' \in [Caller -> {"idle", "ensure", "opening", "sending", "invalidate"}]
           /\ tok' \in [Caller -> 0 .. issued']
           /\ retry' \in [Caller -> BOOLEAN]
           /\ refused' \in [Caller -> 0 .. issued']
<1>1. 0 \in 0 .. issued
  BY SessionAssumption DEF TypeOK
<1> QED
  BY <1>1 DEF TypeOK, Returns, NoToken

\* The type invariant is inductive by itself: a token is only ever copied from
\* the number of the last session issued.
LEMMA TypeStep == TypeOK /\ [Next]_vars => TypeOK'
<1> SUFFICES ASSUME TypeOK, [Next]_vars PROVE TypeOK'
  OBVIOUS
<1> USE SessionAssumption DEF NoToken, callVars, closeVars, serverVars
<1>1. ASSUME NEW c \in Caller, GetOne(c) PROVE TypeOK'
  BY <1>1 DEF TypeOK, GetOne
<1>2. ASSUME NEW c \in Caller, UseCachedToken(c) PROVE TypeOK'
  BY <1>2 DEF TypeOK, UseCachedToken
<1>3. ASSUME NEW c \in Caller, StartOpen(c) PROVE TypeOK'
  BY <1>3 DEF TypeOK, StartOpen
<1>4. ASSUME NEW c \in Caller, InvalidateToken(c) PROVE TypeOK'
  BY <1>4 DEF TypeOK, InvalidateToken
<1>5. ASSUME NEW c \in Caller, Opened(c) PROVE TypeOK'
  BY <1>5 DEF TypeOK, Opened, Issue
<1>6. ASSUME NEW c \in Caller, OpenFails(c) PROVE TypeOK'
  BY <1>6 DEF TypeOK, OpenFails, Returns
<1>7. ASSUME NEW c \in Caller, OpenDenied(c) PROVE TypeOK'
  <2>1. CASE retry[c]
    <3>1. Returns(c) /\ issued' = issued
      BY <1>7, <2>1 DEF OpenDenied, StaleAnswer
    <3> QED
      BY <1>7, <3>1, ReturnsType DEF TypeOK, OpenDenied
  <2>2. CASE ~retry[c]
    BY <1>7, <2>2 DEF TypeOK, OpenDenied, StaleAnswer
  <2> QED
    BY <2>1, <2>2
<1>8. ASSUME NEW c \in Caller, OpenAnswerLost(c) PROVE TypeOK'
  BY <1>8 DEF TypeOK, OpenAnswerLost, Issue, Returns
<1>9. ASSUME NEW c \in Caller, GetReturns(c) PROVE TypeOK'
  BY <1>9 DEF TypeOK, GetReturns, Returns
<1>10. ASSUME NEW c \in Caller, GetStale(c) PROVE TypeOK'
  <2>1. CASE retry[c]
    <3>1. Returns(c) /\ issued' = issued
      BY <1>10, <2>1 DEF GetStale, StaleAnswer
    <3> QED
      BY <1>10, <3>1, ReturnsType DEF TypeOK, GetStale
  <2>2. CASE ~retry[c]
    BY <1>10, <2>2 DEF TypeOK, GetStale, StaleAnswer
  <2> QED
    BY <2>1, <2>2
<1>11. ASSUME CloseTakesToken PROVE TypeOK'
  BY <1>11 DEF TypeOK, CloseTakesToken
<1>12. ASSUME CloseFindsNone PROVE TypeOK'
  BY <1>12 DEF TypeOK, CloseFindsNone
<1>13. ASSUME CloseAnswered PROVE TypeOK'
  <2>1. live' \subseteq 1 .. issued
    BY <1>13 DEF TypeOK, CloseAnswered
  <2> QED
    BY <1>13, <2>1 DEF TypeOK, CloseAnswered
<1>14. ASSUME NEW s \in SessionId, Expire(s) PROVE TypeOK'
  BY <1>14 DEF TypeOK, Expire
<1>15. CASE UNCHANGED vars
  BY <1>15 DEF TypeOK, vars
<1> QED
  BY <1>1, <1>2, <1>3, <1>4, <1>5, <1>6, <1>7, <1>8, <1>9, <1>10, <1>11, <1>12,
     <1>13, <1>14, <1>15 DEF Next, TakesMutex, OpenAnswered, GetAnswered

LEMMA MutexStep == IInv /\ TypeOK' /\ [Next]_vars => MutexInv'
<1> SUFFICES ASSUME IInv, TypeOK', [Next]_vars PROVE MutexInv'
  OBVIOUS
<1> USE CallerAssumption DEF IInv, TypeOK, MutexInv, NoToken, Unlocked,
                             callVars, closeVars, serverVars
<1>1. ASSUME NEW c \in Caller, GetOne(c) PROVE MutexInv'
  BY <1>1 DEF GetOne
<1>2. ASSUME NEW c \in Caller, TakesMutex(c) PROVE MutexInv'
  BY <1>2 DEF TakesMutex, UseCachedToken, StartOpen, InvalidateToken
<1>3. ASSUME NEW c \in Caller, OpenAnswered(c) PROVE MutexInv'
  BY <1>3 DEF OpenAnswered, Opened, OpenFails, OpenDenied, OpenAnswerLost,
              StaleAnswer, Returns, Issue
<1>4. ASSUME NEW c \in Caller, GetAnswered(c) PROVE MutexInv'
  BY <1>4 DEF GetAnswered, GetReturns, GetStale, StaleAnswer, Returns
<1>5. ASSUME CloseTakesToken \/ CloseFindsNone \/ CloseAnswered PROVE MutexInv'
  BY <1>5 DEF CloseTakesToken, CloseFindsNone, CloseAnswered
<1>6. ASSUME NEW s \in SessionId, Expire(s) PROVE MutexInv'
  BY <1>6 DEF Expire
<1>7. CASE UNCHANGED vars
  BY <1>7 DEF vars
<1> QED
  BY <1>1, <1>2, <1>3, <1>4, <1>5, <1>6, <1>7 DEF Next

LEMMA RetryStep == IInv /\ TypeOK' /\ [Next]_vars => RetryInv'
<1> SUFFICES ASSUME IInv, TypeOK', [Next]_vars, NEW d \in Caller
             PROVE  RetryOf(d)'
  BY DEF RetryInv
<1> USE DEF IInv, TypeOK, RetryInv, RetryOf, NoToken, callVars, closeVars, serverVars
<1>1. ASSUME NEW c \in Caller, GetOne(c) PROVE RetryOf(d)'
  BY <1>1 DEF GetOne
<1>2. ASSUME NEW c \in Caller, UseCachedToken(c) PROVE RetryOf(d)'
  <2>1. token \in 1 .. issued
    BY <1>2 DEF UseCachedToken
  <2>2. CASE c = d
    BY <1>2, <2>1, <2>2 DEF UseCachedToken
  <2>3. CASE c # d
    BY <1>2, <2>3 DEF UseCachedToken
  <2> QED
    BY <2>2, <2>3
<1>3. ASSUME NEW c \in Caller, StartOpen(c) PROVE RetryOf(d)'
  BY <1>3 DEF StartOpen
<1>4. ASSUME NEW c \in Caller, InvalidateToken(c) PROVE RetryOf(d)'
  BY <1>4 DEF InvalidateToken
<1>5. ASSUME NEW c \in Caller, Opened(c) PROVE RetryOf(d)'
  BY <1>5 DEF Opened, Issue
<1>6. ASSUME NEW c \in Caller, OpenAnswered(c), ~Opened(c) PROVE RetryOf(d)'
  BY <1>6 DEF OpenAnswered, OpenFails, OpenDenied, OpenAnswerLost, StaleAnswer, Returns, Issue
<1>7. ASSUME NEW c \in Caller, GetAnswered(c) PROVE RetryOf(d)'
  BY <1>7 DEF GetAnswered, GetReturns, GetStale, StaleAnswer, Returns
<1>8. ASSUME CloseTakesToken \/ CloseFindsNone \/ CloseAnswered PROVE RetryOf(d)'
  <2>1. CASE CloseTakesToken
    BY <2>1 DEF CloseTakesToken
  <2>2. CASE CloseFindsNone
    BY <2>2 DEF CloseFindsNone
  <2>3. CASE CloseAnswered
    BY <2>3 DEF CloseAnswered
  <2> QED
    BY <1>8, <2>1, <2>2, <2>3
<1>9. ASSUME NEW s \in SessionId, Expire(s) PROVE RetryOf(d)'
  BY <1>9 DEF Expire
<1>10. CASE UNCHANGED vars
  BY <1>10 DEF vars
<1> QED
  BY <1>1, <1>2, <1>3, <1>4, <1>5, <1>6, <1>7, <1>8, <1>9, <1>10 DEF Next, TakesMutex

LEMMA CloseStep == IInv /\ TypeOK' /\ [Next]_vars => CachedTokenNotClosed'
<1> SUFFICES ASSUME IInv, TypeOK', [Next]_vars PROVE CachedTokenNotClosed'
  OBVIOUS
<1> USE SessionAssumption DEF IInv, TypeOK, CachedTokenNotClosed, NoToken, callVars, closeVars, serverVars
<1>1. ASSUME NEW c \in Caller, GetOne(c) \/ TakesMutex(c) \/ GetAnswered(c)
      PROVE  CachedTokenNotClosed'
  BY <1>1 DEF GetOne, TakesMutex, UseCachedToken, StartOpen, InvalidateToken,
              GetAnswered, GetReturns, GetStale
<1>2. ASSUME NEW c \in Caller, OpenAnswered(c) PROVE CachedTokenNotClosed'
  BY <1>2 DEF OpenAnswered, Opened, OpenFails, OpenDenied, OpenAnswerLost, Issue
<1>3. ASSUME CloseTakesToken \/ CloseFindsNone \/ CloseAnswered PROVE CachedTokenNotClosed'
  BY <1>3 DEF CloseTakesToken, CloseFindsNone, CloseAnswered
<1>4. ASSUME NEW s \in SessionId, Expire(s) PROVE CachedTokenNotClosed'
  BY <1>4 DEF Expire
<1>5. CASE UNCHANGED vars
  BY <1>5 DEF vars
<1> QED
  BY <1>1, <1>2, <1>3, <1>4, <1>5 DEF Next

\* The first session is opened when none was issued; from then on the token is
\* cached, so no goroutine finds the cache empty or its GET refused.
LEMMA SharedStep == IInv /\ TypeOK' /\ [Next]_vars => SharedInv'
<1> SUFFICES ASSUME IInv, TypeOK', [Next]_vars, ~disturbed' PROVE SharedInv'
  BY DEF SharedInv
<1> USE SessionAssumption, CallerAssumption
        DEF IInv, TypeOK, MutexInv, RetryInv, RetryOf, SharedInv, NoToken, callVars, closeVars, serverVars
<1>1. ASSUME NEW c \in Caller, GetOne(c) PROVE SharedInv'
  BY <1>1 DEF GetOne
<1>2. ASSUME NEW c \in Caller, TakesMutex(c) PROVE SharedInv'
  BY <1>2 DEF TakesMutex, UseCachedToken, StartOpen, InvalidateToken
<1>3. ASSUME NEW c \in Caller, Opened(c) PROVE SharedInv'
  <2>1. ~disturbed /\ token = 0
    BY <1>3 DEF Opened
  <2>2. issued = 0 /\ live = {} /\ issued' = 1 /\ live' = {1} /\ token' = 1
    BY <1>3, <2>1 DEF Opened, Issue
  <2> QED
    BY <1>3, <2>1, <2>2 DEF Opened
<1>4. ASSUME NEW c \in Caller, OpenAnswered(c), ~Opened(c) PROVE SharedInv'
  BY <1>4 DEF OpenAnswered, OpenFails, OpenDenied, OpenAnswerLost, Returns
<1>5. ASSUME NEW c \in Caller, GetReturns(c) PROVE SharedInv'
  BY <1>5 DEF GetReturns, Returns
<1>6. ASSUME NEW c \in Caller, GetStale(c) PROVE SharedInv'
  BY <1>6 DEF GetStale
<1>7. ASSUME CloseTakesToken \/ CloseFindsNone \/ CloseAnswered PROVE SharedInv'
  <2>1. CASE CloseTakesToken
    BY <2>1 DEF CloseTakesToken
  <2>2. CASE CloseFindsNone
    BY <2>2 DEF CloseFindsNone
  <2>3. CASE CloseAnswered
    BY <2>3 DEF CloseAnswered
  <2> QED
    BY <1>7, <2>1, <2>2, <2>3
<1>8. ASSUME NEW s \in SessionId, Expire(s) PROVE SharedInv'
  BY <1>8 DEF Expire
<1>9. CASE UNCHANGED vars
  BY <1>9 DEF vars
<1> QED
  BY <1>1, <1>2, <1>3, <1>4, <1>5, <1>6, <1>7, <1>8, <1>9 DEF Next, GetAnswered

\* IInv holds in every state of the endpoint.
THEOREM Invariance == Spec => []IInv
<1>1. IInv /\ [Next]_vars => IInv'
  BY TypeStep, MutexStep, RetryStep, CloseStep, SharedStep DEF IInv
<1> QED
  BY InitIInv, <1>1, PTL DEF Spec

\* Every token in use was issued by SSV, for any number of goroutines.
THEOREM TypeCorrect == Spec => []TypeOK
<1>1. IInv => TypeOK
  BY DEF IInv
<1> QED
  BY Invariance, <1>1, PTL

\* ensureToken's promise: at most one OpenSession in flight per endpoint.
THEOREM SingleOpen == Spec => []OneOpenInFlight
<1>1. IInv => OneOpenInFlight
  BY DEF IInv, MutexInv, OneOpenInFlight
<1> QED
  BY Invariance, <1>1, PTL

\* getOne's promise: the retry carries another token than the refused one.
THEOREM FreshRetry == Spec => []RetryWithAnotherToken
<1>1. IInv => RetryWithAnotherToken
  BY DEF IInv, RetryInv, RetryOf, RetryWithAnotherToken
<1> QED
  BY Invariance, <1>1, PTL

\* closeSession's promise: no goroutine finds a token that is being closed.
THEOREM ClosedTokenGone == Spec => []CachedTokenNotClosed
<1>1. IInv => CachedTokenNotClosed
  BY DEF IInv
<1> QED
  BY Invariance, <1>1, PTL

\* The cache works: one session serves every goroutine until SSV or Close ends it.
THEOREM OneSession == Spec => []SharedSession
<1>1. IInv => SharedSession
  BY DEF IInv, SharedInv, SharedSession
<1> QED
  BY Invariance, <1>1, PTL

-----------------------------------------------------------------------------
(* The endpoint implements SingleFlight                                    *)

\* getOne's locals are those of a fresh call until its first doGet is refused.
LocalsInv == \A c \in Caller : ~retry[c] /\ pc[c] # "invalidate" => refused[c] = NoToken

LEMMA LocalsStep == LocalsInv /\ TypeOK /\ [Next]_vars => LocalsInv'
<1> SUFFICES ASSUME LocalsInv, TypeOK, [Next]_vars, NEW d \in Caller
             PROVE  ~retry'[d] /\ pc'[d] # "invalidate" => refused'[d] = NoToken
  BY DEF LocalsInv
<1> USE DEF LocalsInv, TypeOK, callVars, closeVars, serverVars
<1>1. ASSUME NEW c \in Caller, GetOne(c) \/ TakesMutex(c)
      PROVE  ~retry'[d] /\ pc'[d] # "invalidate" => refused'[d] = NoToken
  BY <1>1 DEF GetOne, TakesMutex, UseCachedToken, StartOpen, InvalidateToken
<1>2. ASSUME NEW c \in Caller, OpenAnswered(c)
      PROVE  ~retry'[d] /\ pc'[d] # "invalidate" => refused'[d] = NoToken
  BY <1>2 DEF OpenAnswered, Opened, OpenFails, OpenDenied, OpenAnswerLost, StaleAnswer, Returns
<1>3. ASSUME NEW c \in Caller, GetAnswered(c)
      PROVE  ~retry'[d] /\ pc'[d] # "invalidate" => refused'[d] = NoToken
  BY <1>3 DEF GetAnswered, GetReturns, GetStale, StaleAnswer, Returns
<1>4. CASE CloseTakesToken \/ CloseFindsNone \/ CloseAnswered \/ (\E s \in SessionId : Expire(s))
  BY <1>4 DEF CloseTakesToken, CloseFindsNone, CloseAnswered, Expire
<1>5. CASE UNCHANGED vars
  BY <1>5 DEF vars
<1> QED
  BY <1>1, <1>2, <1>3, <1>4, <1>5 DEF Next

\* What every caller has sent, as SingleFlight sees it.
Sent == [c \in Caller |-> SentTokens(c)]

\* A goroutine whose locals stay has sent what it had sent.
LEMMA SentStays ==
    ASSUME NEW c \in Caller, pc'[c] = "sending" <=> pc[c] = "sending",
           tok'[c] = tok[c], refused'[c] = refused[c]
    PROVE  SentTokens(c)' = SentTokens(c)
  BY DEF SentTokens

\* getOne returned: nothing is sent any more.
LEMMA SentNothing ==
    ASSUME TypeOK, NEW c \in Caller, Returns(c)
    PROVE  Sent' = [Sent EXCEPT ![c] = <<>>]
<1>1. \A d \in Caller \ {c} : SentTokens(d)' = SentTokens(d)
  BY SentStays DEF TypeOK, Returns
<1>2. SentTokens(c)' = <<>>
  BY DEF TypeOK, Returns, SentTokens
<1> QED
  BY <1>1, <1>2 DEF Sent

\* A goroutine that looked for a token and got t sends it, and t is new to it.
LEMMA SendStep ==
    ASSUME IInv, LocalsInv, NEW c \in Caller, NEW t \in SessionId,
           pc[c] \in {"ensure", "opening"}, retry[c] => t # refused[c],
           pc' = [pc EXCEPT ![c] = "sending"], tok' = [tok EXCEPT ![c] = t], refused' = refused
    PROVE  SF!Send(c, t)
<1>0. TypeOK /\ pc[c] # "sending" /\ pc[c] # "invalidate"
  BY DEF IInv
<1>1. \A d \in Caller \ {c} : SentTokens(d)' = SentTokens(d)
  BY <1>0, SentStays DEF TypeOK
<1>2. pc'[c] = "sending" /\ tok'[c] = t /\ refused'[c] = refused[c]
  BY <1>0 DEF TypeOK
<1>3. CASE refused[c] = NoToken
  <2>1. SentTokens(c) = <<>> /\ SentTokens(c)' = <<t>>
    BY <1>0, <1>2, <1>3 DEF SentTokens
  <2>2. Sent[c] = <<>> /\ Sent' = [Sent EXCEPT ![c] = <<t>>]
    BY <1>1, <2>1 DEF Sent
  <2> QED
    BY <2>2 DEF SF!Send, Sent
<1>4. CASE refused[c] # NoToken
  <2>1. refused[c] \in SessionId \ {t}
    BY <1>0, <1>4, SessionAssumption DEF TypeOK, LocalsInv, SessionId, NoToken
  <2>2. SentTokens(c) = <<refused[c]>> /\ SentTokens(c)' = <<refused[c], t>>
    BY <1>0, <1>2, <1>4 DEF SentTokens
  <2>3. Sent[c] = <<refused[c]>> /\ Sent' = [Sent EXCEPT ![c] = <<refused[c], t>>]
    BY <1>1, <2>2 DEF Sent
  <2> QED
    BY <2>1, <2>3 DEF SF!Send, Sent
<1> QED
  BY <1>3, <1>4

\* The first doGet of c was refused: what it sent is what it had sent.
LEMMA SentRefused ==
    ASSUME IInv, LocalsInv, NEW c \in Caller, ~retry[c],
           \/ pc[c] = "sending" /\ refused' = [refused EXCEPT ![c] = tok[c]]
           \/ pc[c] = "opening" /\ refused' = [refused EXCEPT ![c] = NoToken],
           pc' = [pc EXCEPT ![c] = "invalidate"], tok' = tok
    PROVE  Sent' = Sent
<1>1. \A d \in Caller \ {c} : SentTokens(d)' = SentTokens(d)
  BY SentStays DEF IInv, TypeOK
<1>2. refused[c] = NoToken /\ pc'[c] = "invalidate"
  BY DEF LocalsInv, IInv, TypeOK
<1>3. pc[c] = "sending" => tok[c] # NoToken
  BY SessionAssumption DEF IInv, TypeOK, RetryInv, RetryOf, NoToken
<1>4. CASE pc[c] = "sending"
  <2>1. refused'[c] = tok[c]
    BY <1>4 DEF IInv, TypeOK
  <2>2. SentTokens(c) = <<tok[c]>> /\ SentTokens(c)' = <<tok[c]>>
    BY <1>2, <1>3, <1>4, <2>1 DEF SentTokens
  <2> QED
    BY <1>1, <2>2 DEF Sent
<1>5. CASE pc[c] = "opening"
  <2>1. refused'[c] = NoToken
    BY <1>5 DEF IInv, TypeOK
  <2>2. SentTokens(c) = <<>> /\ SentTokens(c)' = <<>>
    BY <1>2, <1>5, <2>1 DEF SentTokens
  <2> QED
    BY <1>1, <2>2 DEF Sent
<1> QED
  BY <1>4, <1>5

\* An OpenSession is in flight exactly while the mutex is held.
Opening == \E c \in Caller : pc[c] = "opening"

LEMMA OpeningHeld == TypeOK /\ MutexInv => (Opening <=> mu # Nobody)
  BY CallerAssumption DEF TypeOK, MutexInv, Opening

\* Every step of the endpoint is a step of SingleFlight or changes nothing of it.
LEMMA SingleFlightStep ==
    IInv /\ IInv' /\ LocalsInv /\ LocalsInv' /\ [Next]_vars => [SF!Next]_(SF!vars)
<1> SUFFICES ASSUME IInv, IInv', LocalsInv, LocalsInv', [Next]_vars
             PROVE  SF!Next \/ (UNCHANGED <<token, issued>> /\ Sent' = Sent /\ (Opening' <=> Opening))
  BY DEF SF!vars, Sent, Opening
<1>0. /\ TypeOK /\ TypeOK' /\ RetryInv
      /\ Opening <=> mu # Nobody
      /\ Opening' <=> mu' # Nobody
  <2>1. Opening' <=> mu' # Nobody
    BY CallerAssumption DEF IInv, TypeOK, MutexInv, Opening
  <2> QED
    BY <2>1, OpeningHeld DEF IInv
<1> USE DEF callVars, closeVars, serverVars
<1>1. ASSUME NEW c \in Caller, GetOne(c) PROVE UNCHANGED <<token, issued, mu>> /\ Sent' = Sent
  <2>1. \A d \in Caller : SentTokens(d)' = SentTokens(d)
    BY <1>0, <1>1, SentStays DEF GetOne, TypeOK
  <2> QED
    BY <1>1, <2>1 DEF GetOne, Sent
<1>2. ASSUME NEW c \in Caller, UseCachedToken(c) PROVE SF!Reuse(c)
  <2>1. token \in SessionId /\ (retry[c] => token # refused[c])
    BY <1>0, <1>2, SessionAssumption DEF UseCachedToken, TypeOK, RetryInv, RetryOf, SessionId, NoToken
  <2>2. SF!Send(c, token)
    BY <1>2, <2>1, SendStep DEF UseCachedToken
  <2>3. token # NoToken /\ mu = Nobody /\ UNCHANGED <<token, issued, mu>>
    BY <1>2 DEF UseCachedToken, Unlocked
  <2> QED
    BY <1>0, <2>2, <2>3 DEF SF!Reuse, Opening
<1>3. ASSUME NEW c \in Caller, StartOpen(c) PROVE SF!Ask
  <2>1. \A d \in Caller : SentTokens(d)' = SentTokens(d)
    BY <1>0, <1>3, SentStays DEF StartOpen, TypeOK
  <2>2. Sent' = Sent
    BY <2>1 DEF Sent
  <2>3. token = NoToken /\ mu = Nobody /\ mu' # Nobody /\ UNCHANGED <<token, issued>>
    BY <1>3, CallerAssumption DEF StartOpen, Unlocked
  <2> QED
    BY <1>0, <2>2, <2>3 DEF SF!Ask, Opening, Sent
<1>4. ASSUME NEW c \in Caller, InvalidateToken(c) PROVE SF!Discard
  <2>1. \A d \in Caller : SentTokens(d)' = SentTokens(d)
    BY <1>0, <1>4, SentStays DEF InvalidateToken, TypeOK
  <2>2. Sent' = Sent
    BY <2>1 DEF Sent
  <2>3. token' = NoToken /\ mu = Nobody /\ UNCHANGED <<mu, issued>>
    BY <1>4 DEF InvalidateToken, Unlocked
  <2> QED
    BY <1>0, <2>2, <2>3 DEF SF!Discard, Opening, Sent
<1>5. ASSUME NEW c \in Caller, Opened(c) PROVE \E t \in SessionId : SF!Receive(c, t)
  <2>0. issued + 1 \in SessionId
    BY <1>0, <1>5, SessionAssumption DEF Opened, Issue, TypeOK, SessionId
  <2>1. PICK t \in SessionId : t = issued + 1
    BY <2>0
  <2>2. t # refused[c] /\ t \notin 1 .. issued
    BY <1>0, <2>1 DEF TypeOK
  <2>3. SF!Send(c, t)
    BY <1>5, <2>1, <2>2, SendStep DEF Opened
  <2>4. mu' = Nobody /\ token' = t /\ 1 .. issued' = (1 .. issued) \cup {t}
    BY <1>0, <1>5, <2>1 DEF Opened, Issue, TypeOK
  <2>5. Opening
    BY <1>5 DEF Opened, Opening
  <2>6. SF!Receive(c, t)
    BY <1>0, <2>2, <2>3, <2>4, <2>5 DEF SF!Receive, Opening
  <2> QED
    BY <2>6
<1>6. ASSUME NEW c \in Caller, OpenFails(c) \/ OpenDenied(c) \/ OpenAnswerLost(c) PROVE SF!Miss(c)
  <2>1. Opening /\ mu' = Nobody /\ token' = token
    BY <1>6 DEF OpenFails, OpenDenied, OpenAnswerLost, Opening
  <2>2. issued' = issued \/ (issued' = issued + 1 /\ issued + 1 \in SessionId)
    BY <1>0, <1>6 DEF OpenFails, OpenDenied, OpenAnswerLost, Issue, TypeOK, SessionId
  <2>3. 1 .. issued' = 1 .. issued
          \/ \E t \in SessionId \ (1 .. issued) : 1 .. issued' = (1 .. issued) \cup {t}
    <3>1. CASE issued' = issued
      BY <3>1
    <3>2. CASE issued' = issued + 1 /\ issued + 1 \in SessionId
      <4>1. issued \in Nat
        BY <1>0 DEF TypeOK
      <4>2. issued + 1 \notin 1 .. issued /\ 1 .. (issued + 1) = (1 .. issued) \cup {issued + 1}
        BY <4>1
      <4> QED
        BY <3>2, <4>2
    <3> QED
      BY <2>2, <3>1, <3>2
  <2>4. Sent' = Sent \/ Sent' = [Sent EXCEPT ![c] = <<>>]
    <3>1. CASE Returns(c)
      BY <1>0, <3>1, SentNothing
    <3>2. CASE ~Returns(c)
      BY <1>6, <3>2, SentRefused DEF OpenFails, OpenDenied, OpenAnswerLost, StaleAnswer
    <3> QED
      BY <3>1, <3>2
  <2> QED
    BY <1>0, <2>1, <2>3, <2>4 DEF SF!Miss, Opening, Sent
<1>7. ASSUME NEW c \in Caller, Returns(c), UNCHANGED <<mu, token, issued>> PROVE SF!Return(c)
  BY <1>0, <1>7, SentNothing DEF SF!Return, Opening, Sent
<1>8. ASSUME NEW c \in Caller, GetStale(c), ~Returns(c)
      PROVE  UNCHANGED <<token, issued, mu>> /\ Sent' = Sent
  BY <1>8, SentRefused DEF GetStale, StaleAnswer
<1>9. ASSUME UNCHANGED callVars PROVE Sent' = Sent /\ (Opening' <=> Opening)
  BY <1>9 DEF Sent, SentTokens, Opening
<1>10. ASSUME CloseTakesToken PROVE SF!Discard
  BY <1>0, <1>9, <1>10 DEF CloseTakesToken, Unlocked, SF!Discard, Opening, Sent
<1>11. CASE CloseFindsNone \/ CloseAnswered \/ (\E s \in SessionId : Expire(s))
  BY <1>9, <1>11 DEF CloseFindsNone, CloseAnswered, Expire
<1>12. CASE UNCHANGED vars
  BY <1>9, <1>12 DEF vars
<1> QED
  <2>1. ASSUME NEW c \in Caller, GetOne(c) \/ TakesMutex(c) \/ OpenAnswered(c) \/ GetAnswered(c)
        PROVE  SF!Next \/ (UNCHANGED <<token, issued>> /\ Sent' = Sent /\ (Opening' <=> Opening))
    <3>1. CASE GetOne(c)
      BY <1>0, <1>1, <3>1
    <3>2. CASE TakesMutex(c)
      BY <1>2, <1>3, <1>4, <3>2 DEF TakesMutex, SF!Next
    <3>3. CASE OpenAnswered(c)
      <4>1. CASE Opened(c)
        BY <1>5, <4>1 DEF SF!Next
      <4>2. CASE ~Opened(c)
        BY <1>6, <3>3, <4>2 DEF OpenAnswered, SF!Next
      <4> QED
        BY <4>1, <4>2
    <3>4. CASE GetAnswered(c)
      <4>1. UNCHANGED <<mu, token, issued>>
        BY <3>4 DEF GetAnswered, GetReturns, GetStale
      <4>2. CASE Returns(c)
        BY <1>7, <4>1, <4>2 DEF SF!Next
      <4>3. CASE ~Returns(c)
        BY <1>0, <1>8, <3>4, <4>3 DEF GetAnswered, GetReturns
      <4> QED
        BY <4>2, <4>3
    <3> QED
      BY <2>1, <3>1, <3>2, <3>3, <3>4
  <2>2. CASE CloseTakesToken
    BY <1>10, <2>2 DEF SF!Next
  <2> QED
    BY <1>11, <1>12, <2>1, <2>2 DEF Next

\* The endpoint implements SingleFlight, for any number of goroutines, sessions
\* and faults.
THEOREM ImplementsSingleFlight == Spec => SingleFlightSpec
<1>1. Init => LocalsInv /\ SF!Init
  BY DEF Init, LocalsInv, SF!Init, SentTokens, NoToken
<1>2. LocalsInv /\ IInv /\ [Next]_vars => LocalsInv'
  BY LocalsStep DEF IInv
<1> QED
  BY Invariance, SingleFlightStep, <1>1, <1>2, PTL DEF Spec, SingleFlightSpec, SF!Spec
=============================================================================
