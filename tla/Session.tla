------------------------------ MODULE Session ------------------------------
(***************************************************************************)
(* One endpoint of the SSV client (internal/ssv/client.go): the session    *)
(* token it caches, the mutex that guards the token, the goroutines that   *)
(* issue GETs through it, Close, and the sessions SSV keeps on its side.   *)
(*                                                                         *)
(* ensureToken holds endpoint.mu across the OpenSession round trip, so the *)
(* open is two steps (request, answer) with the mutex held in between.     *)
(* The other critical sections do no I/O and are one step each.  The GET   *)
(* itself runs with no lock held: any number of goroutines may have one in *)
(* flight, each with its own copy of the token.                            *)
(*                                                                         *)
(* Sessions are numbered in the order SSV issues them; 0 is the empty      *)
(* token.  The error a call returns is not told apart here: module         *)
(* Failover classifies it.                                                 *)
(***************************************************************************)
EXTENDS Integers

CONSTANTS
    Caller,       \* goroutines that call getOne on this endpoint
    Nobody,       \* the holder of an unlocked mutex
    MaxSessions,  \* bound: sessions SSV issues in a behaviour
    Fault,        \* what may go wrong on the SSV side, a subset of FaultKind
    DrainFirst    \* Close runs only once every call has returned

FaultKind == {"expire", "denied", "lostOpen", "lostClose"}

ASSUME CallerAssumption  == Nobody \notin Caller
ASSUME SessionAssumption == MaxSessions \in Nat
ASSUME FaultAssumption   == Fault \subseteq FaultKind /\ DrainFirst \in BOOLEAN

NoToken   == 0
SessionId == 1 .. MaxSessions

VARIABLES
    mu,        \* holder of endpoint.mu while a network call is made under it
    token,     \* endpoint.token
    pc,        \* where each goroutine is in getOne / doGet / ensureToken
    tok,       \* the copy of the token each goroutine sends
    retry,     \* the goroutine is in getOne's second doGet
    refused,   \* the token getOne's first doGet was refused with
    closer,    \* progress of Client.Close on this endpoint
    closeTok,  \* closeSession's copy of the token
    issued,    \* SSV: number of sessions issued so far
    live,      \* SSV: sessions that still exist
    asked,     \* history: sessions closeSession took, to terminate them
    disturbed  \* history: a session expired, was closed, was lost or denied

callVars   == <<pc, tok, retry, refused>>
closeVars  == <<closer, closeTok, asked>>
serverVars == <<issued, live, disturbed>>
vars == <<mu, token, callVars, closeVars, serverVars>>

\* No token is in use that SSV did not issue.
TypeOK ==
    /\ mu \in Caller \cup {Nobody}
    /\ token \in 0 .. issued
    /\ pc \in [Caller -> {"idle", "ensure", "opening", "sending", "invalidate"}]
    /\ tok \in [Caller -> 0 .. issued]
    /\ retry \in [Caller -> BOOLEAN]
    /\ refused \in [Caller -> 0 .. issued]
    /\ closer \in {"running", "closing", "closed"}
    /\ closeTok \in 0 .. issued
    /\ issued \in 0 .. MaxSessions
    /\ live \subseteq 1 .. issued
    /\ asked \subseteq 1 .. issued
    /\ disturbed \in BOOLEAN

Init ==
    /\ mu = Nobody
    /\ token = NoToken
    /\ pc = [c \in Caller |-> "idle"]
    /\ tok = [c \in Caller |-> NoToken]
    /\ retry = [c \in Caller |-> FALSE]
    /\ refused = [c \in Caller |-> NoToken]
    /\ closer = "running"
    /\ closeTok = NoToken
    /\ issued = 0
    /\ live = {}
    /\ asked = {}
    /\ disturbed = FALSE

-----------------------------------------------------------------------------
(* getOne                                                                  *)

\* getOne calls doGet for the first time.  Close comes after the HTTP server
\* stopped accepting, so only a scrape Shutdown gave up on still starts calls.
GetOne(c) ==
    /\ pc[c] = "idle"
    /\ DrainFirst => closer = "running"
    /\ pc' = [pc EXCEPT ![c] = "ensure"]
    /\ UNCHANGED <<mu, token, tok, retry, refused, closeVars, serverVars>>

\* getOne returns to its caller, and its locals are gone.
Returns(c) ==
    /\ pc' = [pc EXCEPT ![c] = "idle"]
    /\ tok' = [tok EXCEPT ![c] = NoToken]
    /\ retry' = [retry EXCEPT ![c] = FALSE]
    /\ refused' = [refused EXCEPT ![c] = NoToken]

\* getOne tries again after every stale answer.
StaleAnswerForever(c, t) ==
    /\ pc' = [pc EXCEPT ![c] = "invalidate"]
    /\ refused' = [refused EXCEPT ![c] = t]
    /\ UNCHANGED <<tok, retry>>

\* doGet came back with a stale-session error (isStaleSession), having sent t:
\* getOne drops the token and tries again, once.
StaleAnswer(c, t) ==
    IF retry[c]
      THEN Returns(c)
      ELSE /\ pc' = [pc EXCEPT ![c] = "invalidate"]
           /\ refused' = [refused EXCEPT ![c] = t]
           /\ UNCHANGED <<tok, retry>>

-----------------------------------------------------------------------------
(* ensureToken and openSession                                             *)

\* ep.mu can be taken.
Unlocked == mu = Nobody

\* ensureToken finds a token.
UseCachedToken(c) ==
    /\ pc[c] = "ensure"
    /\ Unlocked
    /\ token # NoToken
    /\ tok' = [tok EXCEPT ![c] = token]
    /\ pc' = [pc EXCEPT ![c] = "sending"]
    /\ UNCHANGED <<mu, token, retry, refused, closeVars, serverVars>>

\* ensureToken finds none and sends OpenSession, keeping the mutex.
StartOpen(c) ==
    /\ pc[c] = "ensure"
    /\ Unlocked
    /\ token = NoToken
    /\ mu' = c
    /\ pc' = [pc EXCEPT ![c] = "opening"]
    /\ UNCHANGED <<token, tok, retry, refused, closeVars, serverVars>>

\* SSV issues the next session.
Issue ==
    /\ issued < MaxSessions
    /\ issued' = issued + 1
    /\ live' = live \cup {issued + 1}

\* OpenSession succeeds: the token is cached and the mutex released.
Opened(c) ==
    /\ pc[c] = "opening"
    /\ Issue
    /\ token' = issued + 1
    /\ tok' = [tok EXCEPT ![c] = issued + 1]
    /\ mu' = Nobody
    /\ pc' = [pc EXCEPT ![c] = "sending"]
    /\ UNCHANGED <<retry, refused, closeVars, disturbed>>

\* ensureToken caches what openSession returned without looking at the error.
OpenFailsCaching(c) ==
    /\ pc[c] = "opening"
    /\ mu' = Nobody
    /\ token' = issued + 1
    /\ Returns(c)
    /\ UNCHANGED <<closeVars, serverVars>>

\* OpenSession fails before SSV issues anything: connection error, timeout,
\* 5xx, a 4xx other than 401.  getOne returns the error.
OpenFails(c) ==
    /\ pc[c] = "opening"
    /\ mu' = Nobody
    /\ Returns(c)
    /\ UNCHANGED <<token, closeVars, serverVars>>

\* OpenSession is answered 401, which isStaleSession takes for a stale session.
OpenDenied(c) ==
    /\ pc[c] = "opening"
    /\ "denied" \in Fault
    /\ disturbed' = TRUE
    /\ mu' = Nobody
    /\ StaleAnswer(c, NoToken)
    /\ UNCHANGED <<token, closeVars, issued, live>>

\* SSV issues a session but its answer is cut short, cannot be decoded, or
\* carries no token: openSession returns a plain error and the session stays.
OpenAnswerLost(c) ==
    /\ pc[c] = "opening"
    /\ "lostOpen" \in Fault
    /\ Issue
    /\ disturbed' = TRUE
    /\ mu' = Nobody
    /\ Returns(c)
    /\ UNCHANGED <<token, closeVars>>

-----------------------------------------------------------------------------
(* doGet's answer and invalidateToken                                      *)

\* The GET returns a body, or an error that is not a stale session.  A body
\* comes only from a session that is live.
GetReturns(c) ==
    /\ pc[c] = "sending"
    /\ Returns(c)
    /\ UNCHANGED <<mu, token, closeVars, serverVars>>

\* The GET is answered 401 or 400 "not valid for this connection".
GetStale(c) ==
    /\ pc[c] = "sending"
    /\ tok[c] \notin live
    /\ StaleAnswer(c, tok[c])
    /\ UNCHANGED <<mu, token, closeVars, serverVars>>

\* getOne retries with the token still cached.
InvalidateNothing(c) ==
    /\ pc[c] = "invalidate"
    /\ Unlocked
    /\ retry' = [retry EXCEPT ![c] = TRUE]
    /\ pc' = [pc EXCEPT ![c] = "ensure"]
    /\ UNCHANGED <<mu, token, tok, refused, closeVars, serverVars>>

\* invalidateToken empties the cache, whichever token it holds by now, and
\* getOne calls doGet again.
InvalidateToken(c) ==
    /\ pc[c] = "invalidate"
    /\ Unlocked
    /\ token' = NoToken
    /\ retry' = [retry EXCEPT ![c] = TRUE]
    /\ pc' = [pc EXCEPT ![c] = "ensure"]
    /\ UNCHANGED <<mu, tok, refused, closeVars, serverVars>>

-----------------------------------------------------------------------------
(* Close, and SSV by itself                                                *)

\* Close comes after the calls have returned (DrainFirst), or when the HTTP
\* server gave up waiting for them.
MayClose == closer # "closing" /\ (DrainFirst => \A c \in Caller : pc[c] = "idle")

\* closeSession leaves the token in place while it terminates the session.
CloseKeepsToken ==
    /\ MayClose
    /\ Unlocked
    /\ token # NoToken
    /\ closer' = "closing"
    /\ closeTok' = token
    /\ asked' = asked \cup {token}
    /\ disturbed' = TRUE
    /\ UNCHANGED <<mu, token, callVars, issued, live>>

\* closeSession takes the token out of the endpoint and posts CloseSession.
CloseTakesToken ==
    /\ MayClose
    /\ Unlocked
    /\ token # NoToken
    /\ closer' = "closing"
    /\ closeTok' = token
    /\ asked' = asked \cup {token}
    /\ token' = NoToken
    /\ disturbed' = TRUE
    /\ UNCHANGED <<mu, callVars, issued, live>>

\* closeSession finds no token and has nothing to do.
CloseFindsNone ==
    /\ MayClose
    /\ Unlocked
    /\ token = NoToken
    /\ closer' = "closed"
    /\ UNCHANGED <<mu, token, callVars, closeTok, asked, serverVars>>

\* The CloseSession request reaches SSV or is lost; Close goes on either way.
CloseAnswered ==
    /\ closer = "closing"
    /\ \/ live' = live \ {closeTok}
       \/ "lostClose" \in Fault /\ UNCHANGED live
    /\ closer' = "closed"
    /\ closeTok' = NoToken
    /\ UNCHANGED <<mu, token, callVars, asked, issued, disturbed>>

\* SSV drops a session by itself: idle timeout, restart, connection reset.
Expire(s) ==
    /\ "expire" \in Fault
    /\ s \in live
    /\ live' = live \ {s}
    /\ disturbed' = TRUE
    /\ UNCHANGED <<mu, token, callVars, closeVars, issued>>

-----------------------------------------------------------------------------
TakesMutex(c)   == UseCachedToken(c) \/ StartOpen(c) \/ InvalidateToken(c)
OpenAnswered(c) == Opened(c) \/ OpenFails(c) \/ OpenDenied(c) \/ OpenAnswerLost(c)
GetAnswered(c)  == GetReturns(c) \/ GetStale(c)

Next ==
    \/ \E c \in Caller : GetOne(c) \/ TakesMutex(c) \/ OpenAnswered(c) \/ GetAnswered(c)
    \/ CloseTakesToken
    \/ CloseFindsNone
    \/ CloseAnswered
    \/ \E s \in SessionId : Expire(s)

\* Every request is answered or times out (http.Client.Timeout); a goroutine
\* that waits for a sync.Mutex is handed it eventually (starvation mode).
Fairness ==
    /\ \A c \in Caller : WF_vars(OpenAnswered(c)) /\ WF_vars(GetAnswered(c))
    /\ \A c \in Caller : SF_vars(TakesMutex(c))
    /\ WF_vars(CloseAnswered)

Spec     == Init /\ [][Next]_vars
FairSpec == Spec /\ Fairness

-----------------------------------------------------------------------------
(* What the endpoint promises                                              *)

\* The tokens goroutine c sent in its present call: the one its first doGet was
\* refused with, if it had one, and the one that is on its way.
SentTokens(c) ==
    CASE pc[c] = "sending" /\ refused[c] = NoToken -> <<tok[c]>>
      [] pc[c] = "sending" /\ refused[c] # NoToken -> <<refused[c], tok[c]>>
      [] pc[c] # "sending" /\ refused[c] = NoToken -> <<>>
      [] pc[c] # "sending" /\ refused[c] # NoToken -> <<refused[c]>>

SF == INSTANCE SingleFlight WITH
    Token   <- SessionId,
    current <- token,
    opening <- \E c \in Caller : pc[c] = "opening",
    past    <- 1 .. issued,
    sent    <- [c \in Caller |-> SentTokens(c)]

\* The endpoint implements SingleFlight: whatever the interleaving of callers,
\* Close and SSV's answers, one OpenSession is under way, no token returns once
\* it is dropped, and no call sends the same token twice or a third one.
SingleFlightSpec == SF!Spec

\* ensureToken never has two OpenSession calls in flight for one endpoint.
OneOpenInFlight ==
    \A c, d \in Caller : pc[c] = "opening" /\ pc[d] = "opening" => c = d

\* The retry after a stale answer never sends the token that was just refused,
\* however the other goroutines and Close interleave with it.
RetryWithAnotherToken ==
    \A c \in Caller : pc[c] = "sending" /\ retry[c] => tok[c] # refused[c]

\* closeSession clears the token up-front, so a goroutine that looks for a
\* token never finds one that Close is terminating or has terminated.
CachedTokenNotClosed == token \notin asked

\* Goroutines share one session: SSV issues a second one only after it dropped
\* or denied one, lost an answer, or the client closed one.
SharedSession == disturbed \/ issued <= 1

\* Every getOne returns: neither the mutex nor the retry keeps it for ever.
CallsReturn == \A c \in Caller : pc[c] # "idle" ~> pc[c] = "idle"

\* "Close terminates every active session" (client.go): once Close is over and
\* no call is left, SSV keeps no session of this client.
CloseEndsEverySession ==
    closer = "closed" /\ (\A c \in Caller : pc[c] = "idle") => live = {}
=============================================================================
