--------------------------- MODULE ServiceProofs ---------------------------
(***************************************************************************)
(* Theorems about module Service, for any set of scrapes and any faults.   *)
(* IInv relates the three goroutines: what the handler and main may assume *)
(* of runFn, what runFn may assume of the listener and the scrapes.        *)
(***************************************************************************)
EXTENDS Service, TLAPS

\* The status reported is that of the handler, and the console has none.
HandlerInv ==
    /\ handler = "new" <=> scm = "none"
    /\ handler = "started" <=> scm = "StartPending"
    /\ handler = "loop" <=> scm = "Running"
    /\ handler = "stopping" <=> scm = "StopPending"
    /\ handler \in {"failing", "returned"} <=> scm = "Stopped"
    /\ handler # "new" => mode = "service" /\ run # "none"
    /\ mode = "service" /\ handler = "new" => run = "none"

\* runFn's result: when there is one, and what it says.
ResultInv ==
    /\ run \in {"closing", "done"} <=> result # "none"
    /\ received => run = "done"
    /\ received <=> handler \in {"failing", "returned"}
    /\ handler = "failing" => result = "error"
    /\ handler \in {"started", "loop"} => ~ctx /\ run # "shutdown" /\ result # "nil"
    /\ exited => run = "done" /\ (mode = "service" => handler = "returned")
    /\ result = "error" => ListenerFailed \/ gaveUp
    /\ run = "none" => ~stop /\ ~ctx
    /\ ctx /\ run # "done" => stop
    /\ run = "shutdown" \/ result = "nil" => stop
    /\ handler = "stopping" => stop
    /\ handler = "returned" /\ ~stop => code = 1
    /\ code = 1 => result = "error"
    /\ mode = "console" /\ exited /\ result = "error" => code = 1

\* The listener and the scrapes while runFn goes through its end.
ListenerInv ==
    /\ run = "none" => listener = "down"
    /\ run = "shutdown" => listener = "closed"
    /\ run \in {"closing", "done"} => listener \in {"closed", "unbound", "broken"}
    /\ run \in {"closing", "done"} => active = {} \/ gaveUp \/ listener = "broken"

\* Only an active scrape makes a call; a cached token is for its endpoint; and a
\* session whose token is not cached has one of the named reasons.
CallInv    == \A s \in Scrape : call[s].at # "idle" => s \in active
TokenInv   == \A o \in Object : token[o] # NoToken => Of[token[o]] = o
SessionInv == \A e \in live :
    token[Of[e]] = e \/ Of[e] \notin listed \/ e \in dropped \/ e \in lost

WalkInv == CallInv /\ TokenInv /\ SessionInv

IInv == TypeOK /\ HandlerInv /\ ResultInv /\ ListenerInv /\ WalkInv

LEMMA InitIInv == Init => IInv
<1> SUFFICES ASSUME Init PROVE IInv
  OBVIOUS
<1>1. TypeOK
  BY ObjectAssumption DEF Init, TypeOK, Idle, Call
<1>2. HandlerInv
  BY DEF Init, HandlerInv
<1>3. ResultInv
  BY DEF Init, ResultInv
<1>4. ListenerInv
  BY DEF Init, ListenerInv
<1>5. WalkInv
  BY DEF Init, WalkInv, CallInv, TokenInv, SessionInv, Idle
<1> QED
  BY <1>1, <1>2, <1>3, <1>4, <1>5 DEF IInv

\* The steps of the handler, runFn and the listener leave the sessions alone.
LEMMA ControlStep ==
    ASSUME IInv, UNCHANGED ssvVars, UNCHANGED active \/ \E s \in Scrape : ScrapeStarts(s) \/ ScrapeEnds(s)
    PROVE  WalkInv'
<1>1. CASE UNCHANGED active
  BY <1>1 DEF ssvVars, IInv, WalkInv, CallInv, TokenInv, SessionInv
<1>2. ASSUME NEW s \in Scrape, ScrapeStarts(s) PROVE WalkInv'
  BY <1>2 DEF ScrapeStarts, ssvVars, IInv, WalkInv, CallInv, TokenInv, SessionInv
<1>3. ASSUME NEW s \in Scrape, ScrapeEnds(s) PROVE WalkInv'
  BY <1>3 DEF ScrapeEnds, ssvVars, IInv, WalkInv, CallInv, TokenInv, SessionInv, Idle
<1> QED
  BY <1>1, <1>2, <1>3

\* The steps of a call leave the control alone.
LEMMA RestStep ==
    ASSUME IInv, UNCHANGED restVars
    PROVE  HandlerInv' /\ ResultInv' /\ ListenerInv'
  BY DEF restVars, scmVars, httpVars, exitVars, IInv, HandlerInv, ResultInv, ListenerInv, ListenerFailed

\* One step per action of theirs.
LEMMA ControlIInv ==
    ASSUME IInv, Starts \/ Asked \/ Handles \/ Listens \/ ListenFails
                   \/ ServeErr \/ BeginShutdown \/ ShutdownDone \/ ShutdownGivesUp
    PROVE  IInv'
<1> USE DEF scmVars, httpVars, ssvVars, exitVars,
            TypeOK, HandlerInv, ResultInv, ListenerInv, ListenerFailed
<1>0. TypeOK /\ HandlerInv /\ ResultInv /\ ListenerInv
  BY DEF IInv
<1>1. CASE StartService
  <2>1. TypeOK' /\ HandlerInv'
    BY <1>0, <1>1 DEF StartService
  <2>2. ResultInv' /\ ListenerInv'
    BY <1>0, <1>1 DEF StartService
  <2>3. WalkInv'
    BY <1>1, ControlStep DEF StartService
  <2> QED
    BY <2>1, <2>2, <2>3 DEF IInv
<1>2. CASE ReportRunning
  <2>1. TypeOK' /\ HandlerInv'
    BY <1>0, <1>2 DEF ReportRunning
  <2>2. ResultInv' /\ ListenerInv'
    BY <1>0, <1>2 DEF ReportRunning
  <2>3. WalkInv'
    BY <1>2, ControlStep DEF ReportRunning
  <2> QED
    BY <2>1, <2>2, <2>3 DEF IInv
<1>3. CASE StartConsole
  <2>1. TypeOK' /\ HandlerInv'
    BY <1>0, <1>3 DEF StartConsole
  <2>2. ResultInv' /\ ListenerInv'
    BY <1>0, <1>3 DEF StartConsole
  <2>3. WalkInv'
    BY <1>3, ControlStep DEF StartConsole
  <2> QED
    BY <2>1, <2>2, <2>3 DEF IInv
<1>4. CASE StopControl
  <2>1. TypeOK' /\ HandlerInv'
    BY <1>0, <1>4 DEF StopControl
  <2>2. ResultInv' /\ ListenerInv'
    BY <1>0, <1>4 DEF StopControl
  <2>3. WalkInv'
    BY <1>4, ControlStep DEF StopControl
  <2> QED
    BY <2>1, <2>2, <2>3 DEF IInv
<1>5. CASE Signal
  <2>1. TypeOK' /\ HandlerInv'
    BY <1>0, <1>5 DEF Signal
  <2>2. ResultInv' /\ ListenerInv'
    BY <1>0, <1>5 DEF Signal
  <2>3. WalkInv'
    BY <1>5, ControlStep DEF Signal
  <2> QED
    BY <2>1, <2>2, <2>3 DEF IInv
<1>6. CASE HandleStop
  <2>1. TypeOK' /\ HandlerInv'
    BY <1>0, <1>6 DEF HandleStop
  <2>2. ResultInv' /\ ListenerInv'
    BY <1>0, <1>6 DEF HandleStop
  <2>3. WalkInv'
    BY <1>6, ControlStep DEF HandleStop
  <2> QED
    BY <2>1, <2>2, <2>3 DEF IInv
<1>7. CASE HandleRunErr
  <2>1. TypeOK' /\ HandlerInv'
    BY <1>0, <1>7 DEF HandleRunErr, HasResult
  <2>2. ResultInv' /\ ListenerInv'
    BY <1>0, <1>7 DEF HandleRunErr, HasResult
  <2>3. WalkInv'
    BY <1>7, ControlStep DEF HandleRunErr, HasResult
  <2> QED
    BY <2>1, <2>2, <2>3 DEF IInv
<1>8. CASE ReturnError
  <2>1. TypeOK' /\ HandlerInv'
    BY <1>0, <1>8 DEF ReturnError
  <2>2. ResultInv' /\ ListenerInv'
    BY <1>0, <1>8 DEF ReturnError
  <2>3. WalkInv'
    BY <1>8, ControlStep DEF ReturnError
  <2> QED
    BY <2>1, <2>2, <2>3 DEF IInv
<1>9. CASE StopDone
  <2>1. TypeOK' /\ HandlerInv'
    BY <1>0, <1>9 DEF StopDone, HasResult
  <2>2. ResultInv' /\ ListenerInv'
    BY <1>0, <1>9 DEF StopDone, HasResult
  <2>3. WalkInv'
    BY <1>9, ControlStep DEF StopDone, HasResult
  <2> QED
    BY <2>1, <2>2, <2>3 DEF IInv
<1>10. CASE Listens
  <2>1. TypeOK' /\ HandlerInv'
    BY <1>0, <1>10 DEF Listens
  <2>2. ResultInv' /\ ListenerInv'
    BY <1>0, <1>10 DEF Listens
  <2>3. WalkInv'
    BY <1>10, ControlStep DEF Listens
  <2> QED
    BY <2>1, <2>2, <2>3 DEF IInv
<1>11. CASE ListenFails
  <2>1. TypeOK' /\ HandlerInv'
    BY <1>0, <1>11 DEF ListenFails
  <2>2. ResultInv' /\ ListenerInv'
    BY <1>0, <1>11 DEF ListenFails
  <2>3. WalkInv'
    BY <1>11, ControlStep DEF ListenFails
  <2> QED
    BY <2>1, <2>2, <2>3 DEF IInv
<1>12. CASE ServeErr
  <2>1. TypeOK' /\ HandlerInv'
    BY <1>0, <1>12 DEF ServeErr, Returns
  <2>2. ResultInv' /\ ListenerInv'
    BY <1>0, <1>12 DEF ServeErr, Returns
  <2>3. WalkInv'
    BY <1>12, ControlStep DEF ServeErr, Returns
  <2> QED
    BY <2>1, <2>2, <2>3 DEF IInv
<1>13. CASE BeginShutdown
  <2>1. TypeOK' /\ HandlerInv'
    BY <1>0, <1>13 DEF BeginShutdown
  <2>2. ResultInv' /\ ListenerInv'
    BY <1>0, <1>13 DEF BeginShutdown
  <2>3. WalkInv'
    BY <1>13, ControlStep DEF BeginShutdown
  <2> QED
    BY <2>1, <2>2, <2>3 DEF IInv
<1>14. CASE ShutdownDone
  <2>1. TypeOK' /\ HandlerInv'
    BY <1>0, <1>14 DEF ShutdownDone, Returns
  <2>2. ResultInv' /\ ListenerInv'
    BY <1>0, <1>14 DEF ShutdownDone, Returns
  <2>3. WalkInv'
    BY <1>14, ControlStep DEF ShutdownDone, Returns
  <2> QED
    BY <2>1, <2>2, <2>3 DEF IInv
<1>15. CASE ShutdownGivesUp
  <2>1. TypeOK' /\ HandlerInv'
    BY <1>0, <1>15 DEF ShutdownGivesUp, Returns
  <2>2. ResultInv' /\ ListenerInv'
    BY <1>0, <1>15 DEF ShutdownGivesUp, Returns
  <2>3. WalkInv'
    BY <1>15, ControlStep DEF ShutdownGivesUp, Returns
  <2> QED
    BY <2>1, <2>2, <2>3 DEF IInv
<1> QED
  BY <1>1, <1>2, <1>3, <1>4, <1>5, <1>6, <1>7, <1>8, <1>9, <1>10, <1>11, <1>12, <1>13, <1>14, <1>15 DEF Starts, Asked, Handles

\* The process takes its scrapes with it.
LEMMA ExitIInv == ASSUME IInv, Exit PROVE IInv'
<1> USE DEF Exit, scmVars, httpVars, exitVars
<1>1. TypeOK'
  BY ObjectAssumption DEF IInv, TypeOK, Idle, Call
<1>2. HandlerInv' /\ ResultInv' /\ ListenerInv'
  BY DEF IInv, TypeOK, HandlerInv, ResultInv, ListenerInv, ListenerFailed
<1>3. WalkInv'
  BY DEF IInv, WalkInv, CallInv, TokenInv, SessionInv, Idle
<1> QED
  BY <1>1, <1>2, <1>3 DEF IInv

\* Close: what it knows of is ended or lost, and what it does not know of has its
\* reason already.
LEMMA CloseIInv == ASSUME IInv, CloseSessions PROVE IInv'
<1>1. PICK failed \in SUBSET (Known \cap live) :
         /\ live' = live \ (Known \ failed)
         /\ lost' = (lost \cup failed) \cap live'
         /\ dropped' = dropped \cap live'
  BY DEF CloseSessions
<1>2. /\ token' = [o \in Object |-> IF o \in listed THEN NoToken ELSE token[o]]
      /\ UNCHANGED <<call, listed>> /\ run = "closing" /\ run' = "done"
      /\ UNCHANGED <<mode, scmVars, stop, ctx, result, received, gaveUp, httpVars, exitVars>>
  BY DEF CloseSessions
<1>3. TypeOK'
  BY <1>1, <1>2 DEF IInv, TypeOK, scmVars, httpVars, exitVars
<1>4. HandlerInv' /\ ResultInv' /\ ListenerInv'
  BY <1>2 DEF IInv, HandlerInv, ResultInv, ListenerInv, ListenerFailed, scmVars, httpVars, exitVars
<1>5. CallInv' /\ TokenInv'
  BY <1>2 DEF IInv, WalkInv, CallInv, TokenInv, httpVars
<1>6. ASSUME NEW e \in live'
      PROVE  token'[Of[e]] = e \/ Of[e] \notin listed \/ e \in dropped' \/ e \in lost'
  <2>1. e \in live /\ e \in Session /\ Of[e] \in Object
    BY <1>1, <1>6, SessionAssumption DEF IInv, TypeOK
  <2>2. CASE e \in Known
    BY <1>1, <1>6, <2>2
  <2>3. CASE e \notin Known
    <3>1. token[Of[e]] = e => Of[e] \notin listed
      BY <2>1, <2>3 DEF Known
    <3> QED
      BY <1>1, <1>6, <2>1, <3>1 DEF IInv, WalkInv, SessionInv
  <2> QED
    BY <2>2, <2>3
<1> QED
  BY <1>2, <1>3, <1>4, <1>5, <1>6 DEF IInv, WalkInv, SessionInv

\* Scrapes come and go.
LEMMA ScrapeIInv == ASSUME IInv, NEW s \in Scrape, ScrapeStarts(s) \/ ScrapeEnds(s) PROVE IInv'
<1>1. TypeOK'
  BY DEF ScrapeStarts, ScrapeEnds, IInv, TypeOK, scmVars, httpVars, ssvVars, exitVars
<1>2. HandlerInv' /\ ResultInv' /\ ListenerInv'
  BY DEF ScrapeStarts, ScrapeEnds, IInv, HandlerInv, ResultInv, ListenerInv, ListenerFailed,
         scmVars, httpVars, ssvVars, exitVars
<1>3. WalkInv'
  BY ControlStep DEF ScrapeStarts, ScrapeEnds
<1> QED
  BY <1>1, <1>2, <1>3 DEF IInv

\* A call that touches no session.
LEMMA CallIInv ==
    ASSUME IInv, NEW s \in Scrape, GetStarts(s) \/ UsesToken(s) \/ OpenFails(s) \/ GetEnds(s) \/ GetIsStale(s)
    PROVE  IInv'
<1>1. /\ UNCHANGED restVars /\ UNCHANGED <<listed, token, live, lost, dropped>>
  BY DEF GetStarts, UsesToken, OpenFails, GetEnds, GetIsStale
<1>2. /\ call' \in [Scrape -> Call]
      /\ \A c \in Scrape : call'[c].at # "idle" => call[c].at # "idle" \/ c \in active
  <2>1. TypeOK /\ Idle \in Call /\ Idle.at = "idle"
    BY ObjectAssumption DEF IInv, Idle, Call
  <2>2. CASE Ends(s)
    BY <2>1, <2>2 DEF Ends, TypeOK, Call
  <2>3. CASE GetStarts(s)
    <3>1. PICK o \in listed : call' = [call EXCEPT ![s] = [Idle EXCEPT !.at = "asks", !.ep = o]]
      BY <2>3 DEF GetStarts
    <3>2. [Idle EXCEPT !.at = "asks", !.ep = o] \in Call
      BY <2>1, <3>1 DEF TypeOK, Call, Idle
    <3> QED
      BY <2>1, <2>3, <3>1, <3>2 DEF GetStarts, TypeOK
  <2>4. CASE UsesToken(s) /\ ~Ends(s)
    <3>1. call' = [call EXCEPT ![s].at = "sent", ![s].sent = token[call[s].ep]] /\ call[s].at = "asks"
      BY <2>4 DEF UsesToken, Sends
    <3>2. call[s] \in Call /\ token[call[s].ep] \in Session \cup {NoToken}
      BY <2>1 DEF TypeOK, Call
    <3> QED
      BY <2>1, <3>1, <3>2 DEF TypeOK, Call
  <2>5. CASE OpenFails(s) /\ ~Ends(s)
    BY <2>1, <2>5 DEF OpenFails, Asks, TypeOK, Call
  <2>6. CASE GetIsStale(s)
    BY <2>1, <2>6 DEF GetIsStale, TypeOK, Call
  <2> QED
    BY <2>2, <2>3, <2>4, <2>5, <2>6 DEF GetEnds
<1>3. TypeOK'
  BY <1>1, <1>2 DEF IInv, TypeOK, restVars, scmVars, httpVars, exitVars
<1>4. WalkInv'
  BY <1>1, <1>2 DEF IInv, WalkInv, CallInv, TokenInv, SessionInv, restVars, httpVars
<1> QED
  BY <1>1, <1>3, <1>4, RestStep DEF IInv

\* A session is opened for an endpoint that has no token, and its token cached or
\* lost; no scrape is active after an orderly end.
LEMMA OpenIInv ==
    ASSUME IInv, NEW s \in Scrape, NEW e \in Session, OpensSession(s, e) \/ OpenIsLost(s, e)
    PROVE  IInv'
<1> DEFINE o == call[s].ep
<1>1. /\ UNCHANGED restVars /\ UNCHANGED <<listed, dropped>>
      /\ token[o] = NoToken /\ Of[e] = o /\ live' = live \cup {e} /\ call[s].at \in {"asks", "asksAgain"}
      /\ \/ token' = [token EXCEPT ![o] = e] /\ lost' = lost
         \/ token' = token /\ lost' = lost \cup {e}
  BY DEF OpensSession, OpenIsLost, Opens, Asks
<1>2. /\ TypeOK /\ s \in active /\ o \in Object /\ Idle \in Call /\ call[s] \in Call
  BY <1>1, ObjectAssumption DEF IInv, WalkInv, CallInv, TypeOK, Call, Idle
<1>3. /\ call' \in [Scrape -> Call]
      /\ \A c \in Scrape : call'[c].at # "idle" => call[c].at # "idle"
  <2>1. CASE Ends(s)
    BY <1>2, <2>1 DEF Ends, TypeOK, Idle
  <2>2. CASE call[s].at = "asks" /\ call' = [call EXCEPT ![s].at = "sent", ![s].sent = e]
    BY <1>2, <2>2 DEF TypeOK, Call
  <2> QED
    BY <2>1, <2>2 DEF OpensSession, OpenIsLost, Sends
<1>4. token' \in [Object -> Session \cup {NoToken}]
  BY <1>1, <1>2 DEF TypeOK
<1>5. /\ listener \notin {"down", "unbound"}
      /\ ~(run = "done" /\ ~gaveUp /\ listener # "broken")
  BY <1>2 DEF IInv, TypeOK, ListenerInv
<1>6. TypeOK'
  BY <1>1, <1>2, <1>3, <1>4, <1>5 DEF TypeOK, restVars, scmVars, httpVars, exitVars
<1>7. CallInv'
  BY <1>1, <1>3 DEF IInv, WalkInv, CallInv, restVars, httpVars
<1>8. TokenInv'
  BY <1>1, <1>2 DEF IInv, WalkInv, TokenInv, TypeOK
<1>9. SessionInv'
  <2> SUFFICES ASSUME NEW f \in live'
               PROVE  token'[Of[f]] = f \/ Of[f] \notin listed \/ f \in dropped \/ f \in lost'
    BY <1>1 DEF SessionInv
  <2>1. CASE f = e
    BY <1>1, <1>2, <2>1 DEF TypeOK
  <2>2. CASE f # e
    <3>1. /\ f \in live /\ f \in Session /\ Of[f] \in Object /\ f # NoToken
          /\ token[Of[f]] = f \/ Of[f] \notin listed \/ f \in dropped \/ f \in lost
      BY <1>1, <1>2, <2>2, SessionAssumption DEF IInv, WalkInv, SessionInv, TypeOK
    <3>2. token[Of[f]] = f => token'[Of[f]] = f
      BY <1>1, <1>2, <3>1 DEF TypeOK
    <3> QED
      BY <1>1, <3>1, <3>2
  <2> QED
    BY <2>1, <2>2
<1> QED
  BY <1>1, <1>6, <1>7, <1>8, <1>9, RestStep DEF IInv, WalkInv

\* The session whose token goes is remembered as dropped.
LEMMA InvalidateIInv == ASSUME IInv, NEW s \in Scrape, InvalidateToken(s) PROVE IInv'
<1> DEFINE o == call[s].ep
<1>1. /\ UNCHANGED restVars /\ UNCHANGED <<listed, live, lost>>
      /\ token' = [token EXCEPT ![o] = NoToken] /\ dropped' = dropped \cup ({token[o]} \cap live)
      /\ call' = [call EXCEPT ![s].at = "asksAgain"] /\ call[s].at = "stale"
  BY DEF InvalidateToken
<1>2. TypeOK /\ o \in Object /\ call[s] \in Call
  BY DEF IInv, TypeOK, Call
<1>3. /\ call' \in [Scrape -> Call] /\ token' \in [Object -> Session \cup {NoToken}]
      /\ \A c \in Scrape : call'[c].at # "idle" => call[c].at # "idle"
  BY <1>1, <1>2 DEF TypeOK, Call
<1>4. TypeOK'
  BY <1>1, <1>2, <1>3 DEF TypeOK, restVars, scmVars, httpVars, exitVars
<1>5. CallInv' /\ TokenInv'
  BY <1>1, <1>2, <1>3 DEF IInv, WalkInv, CallInv, TokenInv, TypeOK, restVars, httpVars
<1>6. SessionInv'
  <2> SUFFICES ASSUME NEW e \in live
               PROVE  token'[Of[e]] = e \/ Of[e] \notin listed \/ e \in dropped' \/ e \in lost
    BY <1>1 DEF SessionInv
  <2>1. Of[e] \in Object /\ (token[Of[e]] = e \/ Of[e] \notin listed \/ e \in dropped \/ e \in lost)
    BY <1>2, SessionAssumption DEF IInv, WalkInv, SessionInv, TypeOK
  <2>2. Of[e] # o => token'[Of[e]] = token[Of[e]]
    BY <1>1, <1>2, <2>1 DEF TypeOK
  <2> QED
    BY <1>1, <2>1, <2>2
<1> QED
  BY <1>1, <1>4, <1>5, <1>6, RestStep DEF IInv, WalkInv

\* An object that joins the list has no session; no scrape refreshes after an
\* orderly end.
LEMMA SetBackupsIInv == ASSUME IInv, NEW s \in Scrape, SetBackups(s) PROVE IInv'
<1>1. PICK l \in SUBSET Object : Primary \in l /\ (\A o \in l \ listed : New(o)) /\ listed' = l
  BY DEF SetBackups
<1>2. s \in active /\ UNCHANGED restVars /\ UNCHANGED <<call, token, live, lost, dropped>>
  BY DEF SetBackups
<1>3. ~(run = "done" /\ ~gaveUp /\ listener # "broken")
  BY <1>2 DEF IInv, ListenerInv
<1>4. TypeOK'
  BY <1>1, <1>2, <1>3 DEF IInv, TypeOK, restVars, scmVars, httpVars, exitVars
<1>5. CallInv' /\ TokenInv'
  BY <1>2 DEF IInv, WalkInv, CallInv, TokenInv, restVars, httpVars
<1>6. SessionInv'
  BY <1>1, <1>2 DEF IInv, WalkInv, SessionInv, New
<1> QED
  BY <1>2, <1>4, <1>5, <1>6, RestStep DEF IInv, WalkInv

\* A session that is gone needs no reason.
LEMMA ExpiresIInv == ASSUME IInv, NEW e \in Session, Expires(e) PROVE IInv'
<1>1. /\ UNCHANGED restVars /\ UNCHANGED <<call, listed, token>>
      /\ live' = live \ {e} /\ lost' = lost \ {e} /\ dropped' = dropped \ {e}
  BY DEF Expires
<1>2. TypeOK'
  BY <1>1 DEF IInv, TypeOK, restVars, scmVars, httpVars, exitVars
<1>3. WalkInv'
  BY <1>1 DEF IInv, WalkInv, CallInv, TokenInv, SessionInv, restVars, httpVars
<1> QED
  BY <1>1, <1>2, <1>3, RestStep DEF IInv

\* IInv is inductive.
LEMMA StepIInv == IInv /\ [Next]_vars => IInv'
<1> SUFFICES ASSUME IInv, [Next]_vars PROVE IInv'
  OBVIOUS
<1>1. CASE UNCHANGED vars
  <2>1. TypeOK' /\ WalkInv'
    BY <1>1 DEF vars, scmVars, httpVars, ssvVars, exitVars, IInv, TypeOK, WalkInv, CallInv, TokenInv,
                SessionInv
  <2>2. UNCHANGED restVars
    BY <1>1 DEF vars, restVars
  <2> QED
    BY <2>1, <2>2, RestStep DEF IInv
<1>2. ASSUME NEW s \in Scrape, Ensures(s) PROVE IInv'
  BY <1>2, CallIInv, OpenIInv DEF Ensures
<1>3. CASE Requests
  BY <1>2, <1>3, ScrapeIInv, CallIInv, InvalidateIInv, SetBackupsIInv DEF Requests
<1> QED
  BY <1>1, <1>3, ControlIInv, ExitIInv, CloseIInv, ExpiresIInv DEF Next, Server, Terminated

\* IInv holds in every state of the process.
THEOREM Invariance == Spec => []IInv
  BY InitIInv, StepIInv, PTL DEF Spec

\* The state is well-formed: no scrape unheard, and no token kept after an orderly end.
THEOREM TypeCorrect == Spec => []TypeOK
<1>1. IInv => TypeOK
  BY DEF IInv
<1> QED
  BY Invariance, <1>1, PTL

\* An orderly end leaves no session on SSV but those that were dropped, lost or of
\* endpoints that are gone, for any number of scrapes and objects.
THEOREM SessionsClosed == Spec => []NoSessionLeft
<1>1. IInv => NoSessionLeft
  <2> SUFFICES ASSUME IInv, scm = "Stopped" \/ exited, ~gaveUp, listener # "broken", NEW e \in live
               PROVE  Of[e] \notin listed \/ e \in dropped \/ e \in lost
    BY DEF NoSessionLeft
  <2>1. run = "done" /\ \A o \in listed : token[o] = NoToken
    BY DEF IInv, TypeOK, HandlerInv, ResultInv
  <2>2. e # NoToken
    BY SessionAssumption DEF IInv, TypeOK
  <2> QED
    BY <2>1, <2>2 DEF IInv, WalkInv, SessionInv
<1> QED
  BY Invariance, <1>1, PTL

\* The exit code tells a failure from a stop on request.
THEOREM ExitCode == Spec => []ExitCodeTells
<1>1. IInv => ExitCodeTells
  BY DEF IInv, TypeOK, HandlerInv, ResultInv, ExitCodeTells
<1> QED
  BY Invariance, <1>1, PTL

\* "Run waits for runFn to return before reporting Stopped" (svc_windows.go).
THEOREM StoppedAfterRun == Spec => [](scm = "Stopped" => run = "done")
<1>1. IInv => (scm = "Stopped" => run = "done")
  BY DEF IInv, HandlerInv, ResultInv
<1> QED
  BY Invariance, <1>1, PTL

\* The handler never receives from runErr a second time: the result it waits for
\* after its loop is still to come or still to be received.
THEOREM NoSecondReceive == Spec => [](handler = "stopping" => ~received)
<1>1. IInv => (handler = "stopping" => ~received)
  BY DEF IInv, ResultInv
<1> QED
  BY Invariance, <1>1, PTL
=============================================================================
