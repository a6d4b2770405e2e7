------------------------------- MODULE Service -------------------------------
(***************************************************************************)
(* The life of a serving process (cmd/ssv-prom-exporter/main.go from runFn *)
(* on, and Execute of internal/svc/svc_windows.go): the Service Control    *)
(* Manager's handler or the console's signal context, runFn, serveExporter *)
(* and its listener, the scrapes in flight, and the sessions Close has to  *)
(* end before the process is gone.                                         *)
(*                                                                         *)
(* The goroutines meet in the channel runErr (of capacity one), the        *)
(* context ctx and http.Server; each step of one of them is an action.     *)
(* A scrape makes one GET of one endpoint at a time: a walk over several,  *)
(* and calls that run at once, are as if there were more scrapes.  Which   *)
(* endpoint comes next is left to Failover, the answers to Session.        *)
(***************************************************************************)
CONSTANTS
    Scrape,   \* requests for /metrics that may be in flight
    Object,   \* endpoint objects; SetBackups makes new ones
    Primary,  \* the one that is never dropped
    Session,  \* bound: the sessions SSV can hold for this process, with their tokens
    Of,       \* the object each of them is for
    NoToken,  \* endpoint.token is empty
    Fault     \* what may go wrong, a subset of FaultKind

FaultKind == {"listen", "expire", "lostOpen", "lostClose"}

ASSUME ObjectAssumption  == Primary \in Object
ASSUME SessionAssumption == Of \in [Session -> Object] /\ NoToken \notin Session
ASSUME FaultAssumption   == Fault \subseteq FaultKind

VARIABLES
    mode,      \* "service" or "console"
    handler,   \* where Execute is (mode "service")
    scm,       \* the status last reported to the SCM
    stop,      \* the SCM or a signal asked the process to stop
    ctx,       \* ctx is cancelled
    run,       \* where runFn and serveExporter are
    result,    \* what serveExporter returned
    received,  \* runErr has been received from
    listener,  \* ListenAndServe
    active,    \* scrapes in flight
    call,      \* where each scrape is with its GET
    listed,    \* Client.endpoints
    token,     \* endpoint.token
    live,      \* sessions SSV holds
    lost,      \* history: those whose CloseSession, or OpenSession's answer, was lost
    dropped,   \* history: those whose token invalidateToken took from the cache
    gaveUp,    \* history: Shutdown gave up on scrapes in flight
    exited,    \* the process is gone
    code       \* the exit code: the service's, or the process'

scmVars  == <<handler, scm>>
httpVars == <<listener, active>>
ssvVars  == <<call, listed, token, live, lost, dropped>>
exitVars == <<exited, code>>
vars == <<mode, scmVars, stop, ctx, run, result, received, gaveUp, httpVars, ssvVars, exitVars>>

Idle == [at |-> "idle", ep |-> Primary, sent |-> NoToken]

Call == [at : {"idle", "asks", "sent", "stale", "asksAgain"}, ep : Object,
         sent : Session \cup {NoToken}]

TypeOK ==
    /\ mode \in {"service", "console"}
    /\ handler \in {"new", "started", "loop", "stopping", "failing", "returned"}
    /\ scm \in {"none", "StartPending", "Running", "StopPending", "Stopped"}
    /\ run \in {"none", "serving", "shutdown", "closing", "done"}
    /\ result \in {"none", "nil", "error"}
    /\ listener \in {"down", "up", "unbound", "broken", "closed"}
    /\ active \subseteq Scrape
    /\ stop \in BOOLEAN /\ ctx \in BOOLEAN /\ received \in BOOLEAN /\ exited \in BOOLEAN
    /\ gaveUp \in BOOLEAN /\ code \in {0, 1}
    /\ call \in [Scrape -> Call]
    /\ listed \subseteq Object /\ Primary \in listed
    /\ token \in [Object -> Session \cup {NoToken}]
    /\ live \subseteq Session /\ lost \subseteq live /\ dropped \subseteq live
    \* No scrape where nothing ever listened, and no token left by an orderly end.
    /\ listener \in {"down", "unbound"} => active = {} /\ live = {}
    /\ run = "done" /\ ~gaveUp /\ listener # "broken" => \A o \in listed : token[o] = NoToken

Init ==
    /\ mode \in {"service", "console"}
    /\ handler = "new" /\ scm = "none"
    /\ stop = FALSE /\ ctx = FALSE
    /\ run = "none" /\ result = "none" /\ received = FALSE /\ gaveUp = FALSE
    /\ listener = "down" /\ active = {}
    /\ call = [s \in Scrape |-> Idle]
    /\ listed = {Primary}
    /\ token = [o \in Object |-> NoToken]
    /\ live = {} /\ lost = {} /\ dropped = {}
    /\ exited = FALSE /\ code = 0

-----------------------------------------------------------------------------
(* The SCM's handler: Execute                                              *)

\* Execute reports StartPending and starts runFn's goroutine.
StartService ==
    /\ mode = "service" /\ handler = "new"
    /\ handler' = "started"
    /\ scm' = "StartPending"
    /\ run' = "serving"
    /\ UNCHANGED <<mode, stop, ctx, result, received, gaveUp, httpVars, ssvVars, exitVars>>

\* It reports Running and enters its loop.
ReportRunning ==
    /\ handler = "started"
    /\ handler' = "loop"
    /\ scm' = "Running"
    /\ UNCHANGED <<mode, stop, ctx, run, result, received, gaveUp, httpVars, ssvVars, exitVars>>

\* The SCM sends Stop or Shutdown, which it does to a service that accepts them.
StopControl ==
    /\ scm = "Running" /\ ~stop
    /\ stop' = TRUE
    /\ UNCHANGED <<mode, scmVars, ctx, run, result, received, gaveUp, httpVars, ssvVars, exitVars>>

\* The loop takes the request but nobody tells runFn.
HandleStopUncancelled ==
    /\ handler = "loop" /\ stop
    /\ handler' = "stopping"
    /\ scm' = "StopPending"
    /\ UNCHANGED <<mode, stop, ctx, run, result, received, gaveUp, httpVars, ssvVars, exitVars>>

\* The loop takes the request: StopPending, cancel.
HandleStop ==
    /\ handler = "loop" /\ stop
    /\ handler' = "stopping"
    /\ scm' = "StopPending"
    /\ ctx' = TRUE
    /\ UNCHANGED <<mode, stop, run, result, received, gaveUp, httpVars, ssvVars, exitVars>>

\* runFn's result can be received from runErr.
HasResult == run = "done" /\ ~received

\* The loop takes runFn's result.  An error is reported as Stopped at once; nil
\* breaks the loop, and the handler will receive from runErr again.
HandleRunErr ==
    /\ handler = "loop" /\ HasResult
    /\ received' = TRUE
    /\ IF result = "error"
         THEN handler' = "failing" /\ scm' = "Stopped" /\ UNCHANGED ctx
         ELSE handler' = "stopping" /\ scm' = "StopPending" /\ ctx' = TRUE
    /\ UNCHANGED <<mode, stop, run, result, gaveUp, httpVars, ssvVars, exitVars>>

\* ... then cancel, and the exit code of the service is 1.
ReturnError ==
    /\ handler = "failing"
    /\ handler' = "returned"
    /\ ctx' = TRUE /\ code' = 1
    /\ UNCHANGED <<mode, scm, stop, run, result, received, gaveUp, httpVars, ssvVars, exited>>

\* After the loop: runFn's result, whatever it is, and Stopped.
StopDone ==
    /\ handler = "stopping" /\ HasResult
    /\ received' = TRUE
    /\ handler' = "returned"
    /\ scm' = "Stopped"
    /\ UNCHANGED <<mode, stop, ctx, run, result, gaveUp, httpVars, ssvVars, exitVars>>

-----------------------------------------------------------------------------
(* The console: signal.NotifyContext around runFn                          *)

StartConsole ==
    /\ mode = "console" /\ run = "none"
    /\ run' = "serving"
    /\ UNCHANGED <<mode, scmVars, stop, ctx, result, received, gaveUp, httpVars, ssvVars, exitVars>>

\* Ctrl-C or SIGTERM cancels the context; another one changes nothing.
Signal ==
    /\ mode = "console" /\ run # "none" /\ ~exited /\ ~stop
    /\ stop' = TRUE /\ ctx' = TRUE
    /\ UNCHANGED <<mode, scmVars, run, result, received, gaveUp, httpVars, ssvVars, exitVars>>

\* main returns: after svc.Run, or after runFn with its result as exit status.
Exit ==
    /\ ~exited
    /\ \/ handler = "returned" /\ UNCHANGED code
       \/ mode = "console" /\ run = "done" /\ code' = IF result = "error" THEN 1 ELSE 0
    /\ exited' = TRUE
    /\ active' = {} /\ call' = [s \in Scrape |-> Idle]
    /\ UNCHANGED <<mode, scmVars, stop, ctx, run, result, received, gaveUp, listener,
                   listed, token, live, lost, dropped>>

-----------------------------------------------------------------------------
(* serveExporter and runFn                                                 *)

\* The listener goroutine binds the address ...
Listens ==
    /\ listener = "down" /\ run = "serving"
    /\ listener' = "up"
    /\ UNCHANGED <<mode, scmVars, stop, ctx, run, result, received, gaveUp, active, ssvVars, exitVars>>

\* ... or cannot, or Accept fails for good: its connections stay, and the
\* requests that come in on them are served.
ListenFails ==
    /\ "listen" \in Fault /\ run = "serving"
    /\ \/ listener = "down" /\ listener' = "unbound"
       \/ listener = "up" /\ listener' = "broken"
    /\ UNCHANGED <<mode, scmVars, stop, ctx, run, result, received, gaveUp, active, ssvVars, exitVars>>

\* ListenAndServe has returned an error.
ListenerFailed == listener \in {"unbound", "broken"}

\* serveExporter returns r, and runFn goes on to close the sessions.
Returns(r) == run' = "closing" /\ result' = r

\* The select takes the listener's error for the end of a shutdown.
ServeErrIgnored ==
    /\ run = "serving" /\ ListenerFailed
    /\ Returns("nil")
    /\ UNCHANGED <<mode, scmVars, stop, ctx, received, gaveUp, httpVars, ssvVars, exitVars>>

\* The select takes the listener's error.  It is never ErrServerClosed here: only
\* serveExporter itself shuts the server down.
ServeErr ==
    /\ run = "serving" /\ ListenerFailed
    /\ Returns("error")
    /\ UNCHANGED <<mode, scmVars, stop, ctx, received, gaveUp, httpVars, ssvVars, exitVars>>

\* The select takes the cancelled context, also if the listener has failed by
\* then: Shutdown closes the listener and the idle connections.
BeginShutdown ==
    /\ run = "serving" /\ ctx
    /\ run' = "shutdown"
    /\ listener' = "closed"
    /\ UNCHANGED <<mode, scmVars, stop, ctx, result, received, gaveUp, active, ssvVars, exitVars>>

\* serveExporter closes the server without waiting for anybody.
ShutdownAtOnce ==
    /\ run = "shutdown"
    /\ Returns("nil")
    /\ UNCHANGED <<mode, scmVars, stop, ctx, received, gaveUp, httpVars, ssvVars, exitVars>>

\* Shutdown returns when no scrape is in flight ...
ShutdownDone ==
    /\ run = "shutdown" /\ active = {}
    /\ Returns("nil")
    /\ UNCHANGED <<mode, scmVars, stop, ctx, received, gaveUp, httpVars, ssvVars, exitVars>>

\* ... or after ten seconds, which a scrape may well take.
ShutdownGivesUp ==
    /\ run = "shutdown" /\ active # {}
    /\ Returns("error")
    /\ gaveUp' = TRUE
    /\ UNCHANGED <<mode, scmVars, stop, ctx, received, httpVars, ssvVars, exitVars>>

\* The sessions the client knows of: of the endpoints it has, the cached ones.
Known == {e \in Session : \E o \in listed : token[o] = e}

\* client.Close ends the sessions but leaves the tokens.
CloseSessionsKeeping ==
    /\ run = "closing"
    /\ run' = "done"
    /\ live' = live \ Known /\ lost' = lost \ Known /\ dropped' = dropped \ Known
    /\ UNCHANGED <<mode, scmVars, stop, ctx, result, received, gaveUp, httpVars,
                   call, listed, token, exitVars>>

\* client.Close takes every token of the list and ends its session, unless the
\* request is lost or refused: nobody looks at the answer.
CloseSessions ==
    /\ run = "closing"
    /\ run' = "done"
    /\ token' = [o \in Object |-> IF o \in listed THEN NoToken ELSE token[o]]
    /\ \E failed \in IF "lostClose" \in Fault THEN SUBSET (Known \cap live) ELSE {{}} :
          /\ live' = live \ (Known \ failed)
          /\ lost' = (lost \cup failed) \cap live'
          /\ dropped' = dropped \cap live'
    /\ UNCHANGED <<mode, scmVars, stop, ctx, result, received, gaveUp, httpVars,
                   call, listed, exitVars>>

-----------------------------------------------------------------------------
(* Scrapes                                                                 *)

ScrapeStarts(s) ==
    /\ listener \in {"up", "broken"} /\ ~exited
    /\ s \notin active
    /\ active' = active \cup {s}
    /\ UNCHANGED <<mode, scmVars, stop, ctx, run, result, received, gaveUp, listener, ssvVars, exitVars>>

\* promhttp's handler is through with its collectors.
ScrapeEnds(s) ==
    /\ s \in active
    /\ call[s] = Idle
    /\ active' = active \ {s}
    /\ UNCHANGED <<mode, scmVars, stop, ctx, run, result, received, gaveUp, listener, ssvVars, exitVars>>

\* All that is not of the scrapes' calls and sessions.
restVars == <<mode, scmVars, stop, ctx, run, result, received, gaveUp, httpVars, exitVars>>

\* A GET for an endpoint of the list, which may be dropped from it meanwhile.
GetStarts(s) ==
    /\ s \in active /\ call[s] = Idle
    /\ \E o \in listed : call' = [call EXCEPT ![s] = [Idle EXCEPT !.at = "asks", !.ep = o]]
    /\ UNCHANGED <<restVars, listed, token, live, lost, dropped>>

Asks(s) == call[s].at \in {"asks", "asksAgain"}

\* The GET is answered or has failed.
Ends(s) == call' = [call EXCEPT ![s] = Idle]

\* The GET of s is sent with the token of e.  A second one ends the call, whatever
\* SSV says to it.
Sends(s, e) ==
    \/ call[s].at = "asks" /\ call' = [call EXCEPT ![s].at = "sent", ![s].sent = e]
    \/ call[s].at = "asksAgain" /\ Ends(s)

\* ensureToken has one in the cache.
UsesToken(s) ==
    /\ Asks(s) /\ token[call[s].ep] # NoToken
    /\ Sends(s, token[call[s].ep])
    /\ UNCHANGED <<restVars, listed, token, live, lost, dropped>>

\* ensureToken finds none: e is a new session, whose token nobody has.
Opens(s, e) ==
    /\ Asks(s) /\ token[call[s].ep] = NoToken
    /\ Of[e] = call[s].ep
    /\ e \notin live
    /\ \A o \in Object : token[o] # e
    /\ \A c \in Scrape : call[c].sent # e
    /\ live' = live \cup {e}

\* It is opened under the endpoint's mutex, even after Close.
OpensSession(s, e) ==
    /\ Opens(s, e)
    /\ token' = [token EXCEPT ![call[s].ep] = e]
    /\ Sends(s, e)
    /\ UNCHANGED <<restVars, listed, lost, dropped>>

\* ... SSV opens it, but the answer does not arrive or cannot be read ...
OpenIsLost(s, e) ==
    /\ "lostOpen" \in Fault
    /\ Opens(s, e)
    /\ lost' = lost \cup {e}
    /\ Ends(s)
    /\ UNCHANGED <<restVars, listed, token, dropped>>

\* ... or it does not.  A 401 counts as a stale session.
OpenFails(s) ==
    /\ Asks(s) /\ token[call[s].ep] = NoToken
    /\ \/ Ends(s)
       \/ call[s].at = "asks" /\ call' = [call EXCEPT ![s].at = "stale"]
    /\ UNCHANGED <<restVars, listed, token, live, lost, dropped>>

\* SSV answers the GET, or it fails.
GetEnds(s) ==
    /\ call[s].at = "sent"
    /\ Ends(s)
    /\ UNCHANGED <<restVars, listed, token, live, lost, dropped>>

\* SSV does not know the session any more.
GetIsStale(s) ==
    /\ call[s].at = "sent"
    /\ call[s].sent \notin live
    /\ call' = [call EXCEPT ![s].at = "stale", ![s].sent = NoToken]
    /\ UNCHANGED <<restVars, listed, token, live, lost, dropped>>

\* invalidateToken drops the token that is cached, be it the refused one or one
\* another call has got since, whose session is then forgotten.
InvalidateToken(s) ==
    /\ call[s].at = "stale"
    /\ token' = [token EXCEPT ![call[s].ep] = NoToken]
    /\ dropped' = dropped \cup ({token[call[s].ep]} \cap live)
    /\ call' = [call EXCEPT ![s].at = "asksAgain"]
    /\ UNCHANGED <<restVars, listed, live, lost>>

\* Nobody knows o, so it can stand for an object SetBackups makes.
New(o) ==
    /\ token[o] = NoToken
    /\ \A e \in live : Of[e] # o
    /\ \A c \in Scrape : call[c].at # "idle" => call[c].ep # o

\* A scrape's refresh: SetBackups keeps the objects of the pairs it is given again
\* and makes new ones for the others.
SetBackups(s) ==
    /\ s \in active
    /\ \E l \in SUBSET Object :
          /\ Primary \in l /\ \A o \in l \ listed : New(o)
          /\ listed' = l
    /\ UNCHANGED <<restVars, call, token, live, lost, dropped>>

\* SSV ends a session, for its age or because it restarts.
Expires(e) ==
    /\ "expire" \in Fault
    /\ e \in live /\ ~exited
    /\ live' = live \ {e} /\ lost' = lost \ {e} /\ dropped' = dropped \ {e}
    /\ UNCHANGED <<restVars, call, listed, token>>

-----------------------------------------------------------------------------
\* The process is gone.
Terminated == exited /\ UNCHANGED vars

Starts    == StartService \/ ReportRunning \/ StartConsole
Asked     == StopControl \/ Signal
Handles   == HandleStop \/ HandleRunErr \/ ReturnError \/ StopDone
Server    == ServeErr \/ BeginShutdown \/ ShutdownDone \/ ShutdownGivesUp \/ CloseSessions
Ensures(s) ==
    UsesToken(s) \/ OpenFails(s) \/ \E e \in Session : OpensSession(s, e) \/ OpenIsLost(s, e)
Requests  == \E s \in Scrape :
    \/ ScrapeStarts(s) \/ ScrapeEnds(s) \/ GetStarts(s) \/ Ensures(s) \/ GetEnds(s)
    \/ GetIsStale(s) \/ InvalidateToken(s) \/ SetBackups(s)

Next ==
    \/ Starts \/ Asked \/ Handles \/ Exit
    \/ Listens \/ ListenFails \/ Server
    \/ Requests \/ \E e \in Session : Expires(e)
    \/ Terminated

\* Goroutines that can go on do; Shutdown waits no longer than its deadline.  No
\* scrape has to end, no listener to fail and nobody to ask for a stop.
Fairness == WF_vars(Starts) /\ WF_vars(Handles) /\ WF_vars(Exit) /\ WF_vars(Server)

Spec     == Init /\ [][Next]_vars
FairSpec == Spec /\ Fairness

-----------------------------------------------------------------------------
(* What the process promises                                               *)

\* "close every active SSV session before the process exits" (main.go): however
\* stop requests, scrapes, refreshes, stale answers and the listener interleave,
\* the sessions left when Stopped is reported or the process is gone are those of
\* endpoints SetBackups has dropped, those whose token another call's stale answer
\* has taken from the cache, and those whose request or answer was lost; unless
\* Shutdown gave up on a scrape, or Accept failed and left connections behind.
NoSessionLeft ==
    scm = "Stopped" \/ exited =>
        \/ \A e \in live : Of[e] \notin listed \/ e \in dropped \/ e \in lost
        \/ gaveUp \/ listener = "broken"

\* Stopping on request is no failure, failing is no success: a process that
\* nobody stopped ends with code 1, and one that ends with 1 had a reason.
ExitCodeTells ==
    exited =>
        /\ ~stop => code = 1
        /\ code = 1 => ListenerFailed \/ gaveUp

\* A process that is asked to stop, or whose listener fails, ends, with nobody
\* left waiting for a result that was received before.
EndsWhenAsked == stop \/ ListenerFailed ~> exited
=============================================================================
