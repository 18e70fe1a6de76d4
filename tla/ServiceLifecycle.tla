-------------------------- MODULE ServiceLifecycle --------------------------
(***************************************************************************)
(* The life of one service process, metadata/cmd/main.go,                  *)
(* rating/cmd/main.go or movie/cmd/main.go: register with Consul, report   *)
(* healthy every second, serve, and shut down on a signal; and the Consul  *)
(* agent's TTL check of the instance, which decides whether clients find   *)
(* it (pkg/discovery/consul).                                              *)
(*                                                                         *)
(* Five goroutines run: main, the heartbeat, the one that waits for the    *)
(* signal, and the servers of metrics and HTTP; each request has one more. *)
(* logger.Fatal, which the metrics server may call at any time, and an     *)
(* unhandled signal end the process without main's deferred Deregister.    *)
(*                                                                         *)
(* Consul and grpc-go are external.  Consul: a registered check starts     *)
(* critical, PassTTL makes it passing for TTL seconds and fails without a  *)
(* check.  grpc-go: GracefulStop closes the listener and waits for pending *)
(* RPCs; Serve then returns nil, or ErrServerStopped if it was called on a *)
(* server already stopped.                                                 *)
(***************************************************************************)
EXTENDS Naturals

CONSTANTS GrpcRequest, HttpRequest,
          Heartbeats,     \* metadata and rating: TRUE; movie: FALSE
          TTL,            \* seconds a passing check lasts, "5s" in the code
          MaxLate,        \* bound: seconds a heartbeat may be late
          MaxMisses       \* bound: reports that fail in a row

ASSUME LifecycleConstantsOK ==
  /\ GrpcRequest \cap HttpRequest = {}
  /\ Heartbeats \in BOOLEAN
  /\ TTL \in Nat \ {0} /\ MaxLate \in Nat /\ MaxMisses \in Nat
  /\ (MaxMisses + 1) * (MaxLate + 1) < TTL   \* reports get through within a TTL

Req == GrpcRequest \cup HttpRequest

VARIABLES
  main,          \* where main is, or how the process ended
  sigChan,       \* the signal channel holds a signal
  stopper,       \* the goroutine that waits for it
  heart,         \* the heartbeat goroutine: about to report, or asleep
  late,          \* seconds since it was due
  misses,        \* its last reports that failed
  http,          \* the HTTP server accepts
  req,           \* the requests
  check,         \* Consul: the check of this instance
  left,          \* the seconds a passing check has left
  deregistered   \* what became of the deferred Deregister

vars == <<main, sigChan, stopper, heart, late, misses, http, req,
          check, left, deregistered>>

beat   == <<heart, late, misses>>
consul == <<check, left>>

SettingUp    == {"boot", "configured", "connected", "traced"}
Unregistered == SettingUp \cup {"measured"}
Starting     == Unregistered \cup {"registered", "loaded", "listening", "notified"}
Running      == {"serving", "waiting", "deferring", "closing"}
Ended        == {"exited", "fatal", "serverStopped", "killed"}
Alive        == main \notin Ended

Init ==
  /\ main = "boot"
  /\ sigChan = FALSE
  /\ stopper = "none"
  /\ heart = "none" /\ late = 0 /\ misses = 0
  /\ http = FALSE
  /\ req = [r \in Req |-> "none"]
  /\ check = "none" /\ left = 0
  /\ deregistered = "no"

\* The process ends: no goroutine of it goes on, pending requests are cut off.
End(how) ==
  /\ main' = how
  /\ http' = FALSE
  /\ req' = [r \in Req |-> IF req[r] = "pending" THEN "aborted" ELSE req[r]]
  /\ heart' = "none" /\ late' = 0 /\ misses' = 0

\* Consul's agent: a check of its own for each instance, critical at first, and
\* passing for TTL seconds after a report.
RegisterCheck   == check' = "critical" /\ left' = 0
DeregisterCheck == check' = "none" /\ left' = 0
PassTTL         == check' = "passing" /\ left' = TTL

(***************************************************************************)
(* main                                                                    *)
(***************************************************************************)

\* main goes on, and nothing else that the model keeps changes.
Proceed(from, to) ==
  /\ main = from
  /\ main' = to
  /\ UNCHANGED <<sigChan, stopper, beat, http, req, consul, deregistered>>

\* The configuration: a file, opened and decoded.
Configure == Proceed("boot", "configured")

\* consul.NewRegistry: a client, which does not call Consul yet.
NewRegistry == Proceed("configured", "connected")

\* tracing.NewTracerWithLogger.
StartTracing == Proceed("connected", "traced")

\* The metrics, and the goroutine of their server: from here on it may end the
\* process at any time (MetricsFail).
StartMetrics == Proceed("traced", "measured")

\* An error of the configuration, the client or the tracer is fatal, and Consul
\* has seen nothing yet.
SetUpFails ==
  /\ main \in {"boot", "configured", "connected"}
  /\ End("fatal")
  /\ UNCHANGED <<sigChan, stopper, consul, deregistered>>

\* Mutant: no heartbeat is started.
RegisterOnly ==
  /\ main = "measured"
  /\ main' = "registered"
  /\ RegisterCheck
  /\ UNCHANGED <<sigChan, stopper, beat, http, req, deregistered>>

\* registry.Register, and the start of the heartbeat.
Register ==
  /\ main = "measured"
  /\ main' = "registered"
  /\ RegisterCheck
  /\ heart' = IF Heartbeats THEN "due" ELSE "none"
  /\ UNCHANGED <<sigChan, stopper, late, misses, http, req, deregistered>>

\* An error of Register is fatal; Consul may have made the record all the same.
RegisterFails ==
  /\ main = "measured"
  /\ check' \in {"none", "critical"} /\ left' = 0
  /\ End("fatal")
  /\ UNCHANGED <<sigChan, stopper, deregistered>>

\* Certificates; metadata and rating start the goroutine of their HTTP server.
Load == Proceed("registered", "loaded")

\* httpServer.ListenAndServe; an error is only logged.
ServeHTTP ==
  /\ Heartbeats /\ main \in (Starting \cup Running) \ (Unregistered \cup {"registered"})
  /\ ~http
  /\ http' = TRUE
  /\ UNCHANGED <<main, sigChan, stopper, beat, req, consul, deregistered>>

\* A certificate is missing or bad: logger.Fatal.
LoadFails ==
  /\ main = "registered"
  /\ End("fatal")
  /\ UNCHANGED <<sigChan, stopper, consul, deregistered>>

\* net.Listen, and the gRPC server.
Listen == Proceed("loaded", "listening")

\* The port is taken: logger.Fatal, while the HTTP server may be running.
ListenFails ==
  /\ main = "loaded"
  /\ End("fatal")
  /\ UNCHANGED <<sigChan, stopper, consul, deregistered>>

\* signal.Notify, and the start of the goroutine that waits.
Notify ==
  /\ main = "listening"
  /\ main' = "notified"
  /\ stopper' = "wait"
  /\ UNCHANGED <<sigChan, beat, http, req, consul, deregistered>>

\* srv.Serve on a server that is not stopped.
Serve ==
  /\ main = "notified" /\ stopper = "wait"
  /\ main' = "serving"
  /\ UNCHANGED <<sigChan, stopper, beat, http, req, consul, deregistered>>

\* srv.Serve on a stopped server: ErrServerStopped, logger.Fatal.
ServeAfterStop ==
  /\ main = "notified" /\ stopper # "wait"
  /\ End("serverStopped")
  /\ UNCHANGED <<sigChan, stopper, consul, deregistered>>

\* Serve returns nil when GracefulStop has finished.
ServeReturns ==
  /\ main = "serving" /\ stopper \in {"stopped", "done"}
  /\ main' = "waiting"
  /\ UNCHANGED <<sigChan, stopper, beat, http, req, consul, deregistered>>

\* wg.Wait, and the return of main.
WaitReturns ==
  /\ main = "waiting" /\ stopper = "done"
  /\ main' = "deferring"
  /\ UNCHANGED <<sigChan, stopper, beat, http, req, consul, deregistered>>

\* The first deferred call; its error is dropped.  The heartbeat still runs.
Deregister ==
  /\ main = "deferring"
  /\ main' = "closing"
  /\ \/ DeregisterCheck /\ deregistered' = "ok"
     \/ UNCHANGED consul /\ deregistered' = "failed"
  /\ UNCHANGED <<sigChan, stopper, beat, http, req>>

\* The other deferred calls, and the end of the process.
Exit ==
  /\ main = "closing"
  /\ End("exited")
  /\ UNCHANGED <<sigChan, stopper, consul, deregistered>>

\* logger.Fatal in the goroutine of the metrics server, which may fail at any time.
MetricsFail ==
  /\ Alive /\ main \notin SettingUp
  /\ End("fatal")
  /\ UNCHANGED <<sigChan, stopper, consul, deregistered>>

Kill ==
  /\ Alive
  /\ End("killed")
  /\ UNCHANGED <<sigChan, stopper, consul, deregistered>>

(***************************************************************************)
(* The signal and the goroutine that waits for it                          *)
(***************************************************************************)

\* Before Notify a signal ends the process; after it, one is kept.
Signal ==
  /\ Alive
  /\ \/ /\ stopper = "none"
        /\ End("killed")
        /\ UNCHANGED sigChan
     \/ /\ stopper # "none"
        /\ sigChan' = TRUE
        /\ UNCHANGED <<main, beat, http, req>>
  /\ UNCHANGED <<stopper, consul, deregistered>>

\* <-sigChan, cancel(), and GracefulStop, which closes the gRPC listener.
StopStarts ==
  /\ Alive /\ stopper = "wait" /\ sigChan
  /\ sigChan' = FALSE
  /\ stopper' = "stopping"
  /\ UNCHANGED <<main, beat, http, req, consul, deregistered>>

\* Mutant: Stop, which waits for nothing.
StopReturnsAtOnce ==
  /\ Alive /\ stopper = "stopping"
  /\ stopper' = "stopped"
  /\ UNCHANGED <<main, sigChan, beat, http, req, consul, deregistered>>

\* GracefulStop returns: no gRPC request is pending.
StopReturns ==
  /\ Alive /\ stopper = "stopping"
  /\ \A r \in GrpcRequest : req[r] # "pending"
  /\ stopper' = "stopped"
  /\ UNCHANGED <<main, sigChan, beat, http, req, consul, deregistered>>

\* Mutant: wg.Done is missing.
StopDoneMissing ==
  /\ Alive /\ stopper = "stopped"
  /\ UNCHANGED vars

\* The deferred wg.Done.
StopDone ==
  /\ Alive /\ stopper = "stopped"
  /\ stopper' = "done"
  /\ UNCHANGED <<main, sigChan, beat, http, req, consul, deregistered>>

(***************************************************************************)
(* Requests                                                                *)
(***************************************************************************)

Accepting(r) == IF r \in GrpcRequest THEN main = "serving" /\ stopper = "wait"
                                     ELSE http

Accept(r) ==
  /\ Alive /\ req[r] = "none" /\ Accepting(r)
  /\ req' = [req EXCEPT ![r] = "pending"]
  /\ UNCHANGED <<main, sigChan, stopper, beat, http, consul, deregistered>>

Finish(r) ==
  /\ Alive /\ req[r] = "pending"
  /\ req' = [req EXCEPT ![r] = "done"]
  /\ UNCHANGED <<main, sigChan, stopper, beat, http, consul, deregistered>>

(***************************************************************************)
(* The heartbeat, Consul and the clock                                     *)
(***************************************************************************)

\* Mutants: a report makes the check that is missing; a check lasts a second more.
ReportUpserting ==
  /\ Alive /\ heart = "due"
  /\ heart' = "sleeping" /\ late' = 0
  /\ PassTTL /\ misses' = 0
  /\ UNCHANGED <<main, sigChan, stopper, http, req, deregistered>>
ReportLonger ==
  /\ Alive /\ heart = "due" /\ check # "none"
  /\ heart' = "sleeping" /\ late' = 0
  /\ check' = "passing" /\ left' = TTL + 1 /\ misses' = 0
  /\ UNCHANGED <<main, sigChan, stopper, http, req, deregistered>>

\* PassTTL, then sleep for a second.  Without a check it fails.
Report ==
  /\ Alive /\ heart = "due"
  /\ heart' = "sleeping" /\ late' = 0
  /\ \/ /\ check # "none" /\ PassTTL
        /\ misses' = 0
     \/ /\ check = "none"
        /\ UNCHANGED <<consul, misses>>
  /\ UNCHANGED <<main, sigChan, stopper, http, req, deregistered>>

\* Mutant: the goroutine returns on an error.
ReportFailsForGood ==
  /\ Alive /\ heart = "due" /\ misses < MaxMisses
  /\ heart' = "none" /\ late' = 0
  /\ misses' = misses + 1
  /\ UNCHANGED <<main, sigChan, stopper, http, req, consul, deregistered>>

\* The call does not reach Consul; the error is logged.
ReportFails ==
  /\ Alive /\ heart = "due" /\ misses < MaxMisses
  /\ heart' = "sleeping" /\ late' = 0
  /\ misses' = misses + 1
  /\ UNCHANGED <<main, sigChan, stopper, http, req, consul, deregistered>>

\* Mutant: the check has no TTL.
TickWithoutTTL ==
  /\ heart = "due" => late < MaxLate
  /\ late' = IF heart = "due" THEN late + 1 ELSE 0
  /\ heart' = IF heart = "sleeping" THEN "due" ELSE heart
  /\ UNCHANGED <<main, sigChan, stopper, misses, http, req, consul, deregistered>>

\* A second passes, and a heartbeat is not later than MaxLate.  A check whose
\* last second it was turns critical.
Tick ==
  /\ heart = "due" => late < MaxLate
  /\ late' = IF heart = "due" THEN late + 1 ELSE 0
  /\ heart' = IF heart = "sleeping" THEN "due" ELSE heart
  /\ left' = IF left = 0 THEN 0 ELSE left - 1
  /\ check' = IF check = "passing" /\ left' = 0 THEN "critical" ELSE check
  /\ UNCHANGED <<main, sigChan, stopper, misses, http, req, deregistered>>

SetUp == Configure \/ NewRegistry \/ StartTracing \/ StartMetrics
Main == \/ SetUp \/ Register \/ Load \/ Listen \/ Notify \/ Serve \/ ServeAfterStop
        \/ ServeReturns \/ WaitReturns \/ Deregister \/ Exit
StartFails == SetUpFails \/ RegisterFails \/ LoadFails \/ ListenFails
Stopper == StopStarts \/ StopReturns \/ StopDone

Next == \/ Main \/ StartFails \/ ServeHTTP \/ MetricsFail \/ Kill
        \/ Signal \/ Stopper
        \/ \E r \in Req : Accept(r) \/ Finish(r)
        \/ Report \/ ReportFails \/ Tick

\* Goroutines that can go on do, handlers return, and time passes.  Nothing
\* makes a signal, a failure or a request come.
Fairness ==
  /\ WF_vars(Main) /\ WF_vars(Stopper)
  /\ WF_vars(Report \/ ReportFails) /\ WF_vars(Tick)
  /\ \A r \in Req : WF_vars(Finish(r))

Spec     == Init /\ [][Next]_vars
FairSpec == Spec /\ Fairness

(***************************************************************************)
(* Properties                                                              *)
(***************************************************************************)

TypeOK ==
  /\ main    \in Starting \cup Running \cup Ended
  /\ sigChan \in BOOLEAN
  /\ stopper \in {"none", "wait", "stopping", "stopped", "done"}
  /\ heart   \in {"none", "due", "sleeping"}
  /\ late    \in 0..MaxLate
  /\ misses  \in 0..MaxMisses
  /\ http    \in BOOLEAN
  /\ req     \in [Req -> {"none", "pending", "done", "aborted"}]
  /\ check   \in {"none", "critical", "passing"}
  /\ left    \in 0..TTL
  /\ deregistered \in {"no", "ok", "failed"}

\* The heartbeat keeps a running process listed: once passing, its check does
\* not turn critical while the process lives, though reports come late or fail.
AliveStaysListed ==
  [][check = "passing" /\ check' = "critical" => ~Alive]_vars

\* The instance leaves the registry, and the process exits, only when every RPC
\* it accepted has been answered.
LeavesDrained ==
  main \in {"waiting", "deferring", "closing", "exited"} =>
    \A r \in GrpcRequest : req[r] \notin {"pending", "aborted"}

\* A Deregister that went through is final: the heartbeat, which runs until the
\* process exits, does not bring the check back.
DeregisteredIsFinal == deregistered = "ok" => check = "none"

\* A process that ended, however it did, is no longer listed in the end.
EndedUnlisted == (main \in Ended) ~> (check # "passing")

\* A signal that came after Notify ends the process.
StoppedEnds == (sigChan /\ stopper = "wait") ~> (main \in Ended)

\* An instance that goes on serving is listed in the end ("the list of
\* addresses of active instances", discovery.go:18).
ServingListed ==
  (main = "serving") ~> (check = "passing" \/ stopper # "wait" \/ main \in Ended)

(***************************************************************************)
(* Refinement: what Consul shows of the instance, by discovery.Registry    *)
(***************************************************************************)

Listed(states) == IF check \in states THEN {"self"} ELSE {}

Departed == IF deregistered = "ok" THEN {"self"} ELSE {}

Discovery == INSTANCE ServiceRegistry WITH
               Instance   <- {"self"},
               registered <- Listed({"critical", "passing"}),
               active     <- Listed({"passing"}),
               left       <- Departed

\* The Consul registry, as one process uses it, implements what
\* discovery.Registry promises: a record is made by Register alone, and a report
\* without one changes nothing.
RegistrySpec == Discovery!Spec
=============================================================================
