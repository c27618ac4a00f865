--------------------------- MODULE ServiceDaemon ---------------------------
(***************************************************************************)
(* The life of a long-running service process: Application.run(), the      *)
(* signal handling and graceful drain of Daemon.ts, and the HTTP server of *)
(* Service.ts, with ProxyService.ts as the subclass that overrides         *)
(* aboutToQuit().                                                          *)
(*                                                                         *)
(* Boot runs without an await that does I/O from the registration of the   *)
(* signal handlers in init() to the call of server.listen() in start(), so *)
(* a signal finds either no handler or a server that is being opened.      *)
(* Fastify is external: close() stops accepting and resolves when the      *)
(* requests under way have been answered.                                  *)
(***************************************************************************)
EXTENDS Naturals, FiniteSets

CONSTANTS Requests,    \* HTTP requests clients send in the life of the process
          MaxSignals   \* bound on the SIGINTs and SIGTERMs it is sent

ASSUME DaemonAssumption == IsFiniteSet(Requests) /\ MaxSignals \in Nat

VARIABLES kind,      \* "service", or "proxy": whose aboutToQuit() closes only its
                     \* WebSocket server
          phase,     \* "boot", "listening" (listen() is awaited), "ready", "exited"
          code,      \* how it exited: "success" (0), "failure" (1), "killed" by the
                     \* default disposition of a signal, or "none"
          shuttingDown,  \* the field of that name
          timer,     \* the force timer is armed
          closing,   \* server.close() has been called
          req,       \* where each request is
          signals    \* the signals sent so far

daemonVars == <<kind, phase, code, shuttingDown, timer, closing, req, signals>>

DInit ==
  /\ kind \in {"service", "proxy"}
  /\ phase = "boot" /\ code = "none"
  /\ shuttingDown = FALSE /\ timer = FALSE /\ closing = FALSE
  /\ req = [r \in Requests |-> "new"]
  /\ signals = 0

InFlight == {r \in Requests : req[r] = "underway"}

\* process.exit(): whatever was under way is cut off.
ExitWith(c) ==
  /\ phase' = "exited" /\ code' = c /\ timer' = FALSE
  /\ req' = [r \in Requests |-> IF req[r] = "underway" THEN "cut" ELSE req[r]]

-----------------------------------------------------------------------------
(* Boot                                                                    *)

\* config(), init() and start() up to the await of listen(); an exception in any
\* of them is fatal.
Boot ==
  /\ phase = "boot"
  /\ \/ phase' = "listening" /\ UNCHANGED <<code, timer, req>>
     \/ ExitWith("failure")
  /\ UNCHANGED <<kind, shuttingDown, closing, signals>>

\* listen() resolves, also when a shutdown has begun meanwhile.
Listening ==
  /\ phase = "listening"
  /\ phase' = "ready"
  /\ UNCHANGED <<kind, code, shuttingDown, timer, closing, req, signals>>

\* listen() rejects: the port is taken, or close() has come between.
ListenFails ==
  /\ phase = "listening"
  /\ ExitWith("failure")
  /\ UNCHANGED <<kind, shuttingDown, closing, signals>>

-----------------------------------------------------------------------------
(* Requests                                                                *)

\* A client connects: the route's handler runs to its first await.  Once the
\* server is closing it is turned away.
Arrive(r) ==
  /\ phase = "ready" /\ req[r] = "new"
  /\ req' = [req EXCEPT ![r] = IF closing THEN "refused" ELSE "underway"]
  /\ UNCHANGED <<kind, phase, code, shuttingDown, timer, closing, signals>>

\* processEndpoint() replies: what execute() returned, or a 400 or a 500.
Reply(r) ==
  /\ phase = "ready" /\ req[r] = "underway"
  /\ req' = [req EXCEPT ![r] = "answered"]
  /\ UNCHANGED <<kind, phase, code, shuttingDown, timer, closing, signals>>

-----------------------------------------------------------------------------
(* Shutdown                                                                *)

\* Variants: the force timer is not armed; Service's aboutToQuit() does not await
\* the close of its server.
OnSignalTrustingly ==
  IF shuttingDown THEN UNCHANGED <<phase, code, timer, closing, req, shuttingDown>>
  ELSE /\ shuttingDown' = TRUE /\ closing' = TRUE
       /\ UNCHANGED <<phase, code, timer, req>>

OnSignalInHaste ==
  /\ ~shuttingDown /\ shuttingDown' = TRUE /\ closing' = TRUE
  /\ ExitWith("success")

\* onSignalShutdown() and doShutdown(): once.  A service awaits server.close();
\* the proxy's aboutToQuit() has nothing to await, so exit follows at once.
OnSignalShutdown ==
  IF shuttingDown THEN UNCHANGED <<phase, code, timer, closing, req, shuttingDown>>
  ELSE /\ shuttingDown' = TRUE
       /\ \/ /\ kind = "service"
             /\ closing' = TRUE /\ timer' = TRUE
             /\ UNCHANGED <<phase, code, req>>
          \/ /\ kind = "proxy"
             /\ ExitWith("success") /\ UNCHANGED closing

\* SIGINT or SIGTERM.  Before init() there is no handler and the process dies.
Signal ==
  /\ phase # "exited" /\ signals < MaxSignals
  /\ signals' = signals + 1
  /\ \/ /\ phase = "boot"
        /\ ExitWith("killed") /\ UNCHANGED <<shuttingDown, closing>>
     \/ /\ phase # "boot"
        /\ OnSignalShutdown
  /\ UNCHANGED kind

\* server.close() is done (or has failed, which is only logged): stop( 0 ).
Closed ==
  /\ phase \in {"listening", "ready"} /\ closing /\ InFlight = {}
  /\ ExitWith("success")
  /\ UNCHANGED <<kind, shuttingDown, closing, signals>>

\* Ten seconds have passed.
ForceExit ==
  /\ phase # "exited" /\ timer
  /\ ExitWith("failure")
  /\ UNCHANGED <<kind, shuttingDown, closing, signals>>

DNext ==
  \/ Boot \/ Listening \/ ListenFails
  \/ \E r \in Requests : Arrive(r) \/ Reply(r)
  \/ Signal \/ Closed \/ ForceExit

\* A timer that is armed fires.  Nothing obliges execute() to return, listen() to
\* settle or anybody to send a signal.
DSpec == DInit /\ [][DNext]_daemonVars /\ WF_daemonVars(ForceExit)

-----------------------------------------------------------------------------
(* Properties                                                              *)

DTypeOK ==
  /\ kind \in {"service", "proxy"}
  /\ phase \in {"boot", "listening", "ready", "exited"}
  /\ code \in {"none", "success", "failure", "killed"}
  /\ shuttingDown \in BOOLEAN /\ timer \in BOOLEAN /\ closing \in BOOLEAN
  /\ req \in [Requests -> {"new", "underway", "answered", "refused", "cut"}]
  /\ signals \in 0..MaxSignals
  /\ timer => shuttingDown

\* `gracefully close the HTTP server (stop accepting + drain in-flight) before the
\* Daemon exits' (Service.ts:271): a service that reports success has cut off no
\* request, however many signals it got and whenever they came.
CleanExitIsDrained ==
  kind = "service" /\ code = "success" => \A r \in Requests : req[r] # "cut"

\* `if aboutToQuit() hangs, force the process to exit' (Daemon.ts:67): the first
\* signal is the end of the process, whatever the requests under way do.
ShutdownEnds == shuttingDown ~> phase = "exited"

\* `Override and call super.aboutToQuit()' (Daemon.ts:126), to `drain in-flight
\* work': no process of either kind exits with success over a request under way.
SuccessIsDrained == code = "success" => \A r \in Requests : req[r] # "cut"
=============================================================================
