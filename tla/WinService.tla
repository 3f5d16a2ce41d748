----------------------------- MODULE WinService -----------------------------
(***************************************************************************)
(* GxProxy as a Windows service (LibXs/XServer/ServiceWin32.cpp):          *)
(* CServiceBase, which talks to the service control manager (SCM), and     *)
(* CSampleService, whose worker thread calls main_server.                  *)
(*                                                                         *)
(* Four threads touch the service: ServiceMain, the worker, the control    *)
(* handler, which runs on the main thread, and the main thread itself      *)
(* once the dispatcher returns.  They share m_status, App_ServiceStatus    *)
(* and the event m_hStoppedEvent, and no lock.  A step is what a thread    *)
(* does between two accesses to these.                                     *)
(*                                                                         *)
(* main_server is module Lifecycle.  The SCM is modelled as far as it      *)
(* decides when a control reaches the handler.                             *)
(***************************************************************************)
EXTENDS Integers

CONSTANT Accepts        \* m_status.dwControlsAccepted

ASSUME AcceptsAssumption == Accepts \subseteq {"stop", "shutdown", "pause_continue"}

VARIABLES
  app, phase, cause,    \* App_ServiceStatus and main_server, see Lifecycle
  status,       \* m_status.dwCurrentState
  scm,          \* the state the SCM knows: the last one reported before STOPPED
  svc,          \* ServiceMain, on its thread
  worker,       \* ServiceWorkerThread
  ctl,          \* ServiceCtrlHandler, on the main thread
  orig,         \* dwOriginalState of Stop
  event,        \* m_hStoppedEvent is signalled
  proc,         \* the process: "up", "leaving" (Run has returned), "exited", "aborted"
  early,        \* history: OnStop cleared App_ServiceStatus before the worker set it
  shut          \* history: the system shut down

server == <<app, phase, cause>>
vars == <<server, status, scm, svc, worker, ctl, orig, event, proc, early, shut>>

Server == INSTANCE Lifecycle

States == {"start_pending", "running", "stop_pending", "stopped",
           "pause_pending", "paused", "continue_pending"}

(* The last three conjuncts: main_server runs in the worker and nowhere    *)
(* else, the event is signalled when it has returned, and the service has  *)
(* one worker at most.                                                     *)
TypeOK ==
  /\ Server!TypeOK
  /\ status \in States /\ scm \in States \cup {"none"} /\ orig \in States
  /\ svc \in {"none", "start", "queued", "done"}
  /\ worker \in {"none", "queued", "begun", "serving", "done"}
  /\ ctl \in {"idle", "stopping", "waiting", "pausing", "continuing"}
  /\ event \in BOOLEAN /\ early \in BOOLEAN /\ shut \in BOOLEAN
  /\ proc \in {"up", "leaving", "exited", "aborted"}
  /\ phase = "off" <=> worker \in {"none", "queued", "begun"}
  /\ event => phase = "returned" /\ worker = "done"
  /\ svc \in {"none", "start"} => worker = "none"

Init ==
  /\ Server!Init
  /\ status = "start_pending" /\ scm = "none" /\ orig = "start_pending"
  /\ svc = "none" /\ worker = "none" /\ ctl = "idle"
  /\ event = FALSE /\ proc = "up" /\ early = FALSE /\ shut = FALSE

Up == proc \in {"up", "leaving"}
-----------------------------------------------------------------------------
(* SetServiceStatus.  The SCM drops its handle of a service that has       *)
(* reported STOPPED; later reports fail and the code does not look.        *)
SetServiceStatus(s) ==
  /\ status' = s
  /\ scm' = IF scm = "stopped" THEN scm ELSE s

(* ServiceMain -> Start.                                                   *)
ServiceMain ==
  /\ Up
  /\ svc = "none"
  /\ svc' = "start"
  /\ SetServiceStatus("start_pending")
  /\ UNCHANGED <<server, worker, ctl, orig, event, proc, early, shut>>

(* OnStart queues the worker, or throws when it cannot.                    *)
OnStart ==
  /\ Up
  /\ svc = "start"
  /\ svc' = "queued"
  /\ worker' = "queued"
  /\ UNCHANGED <<server, status, scm, ctl, orig, event, proc, early, shut>>

OnStartThrows ==
  /\ Up
  /\ svc = "start"
  /\ svc' = "done"
  /\ SetServiceStatus("stopped")
  /\ UNCHANGED <<server, worker, ctl, orig, event, proc, early, shut>>

Started ==
  /\ Up
  /\ svc = "queued"
  /\ svc' = "done"
  /\ SetServiceStatus("running")
  /\ UNCHANGED <<server, worker, ctl, orig, event, proc, early, shut>>
-----------------------------------------------------------------------------
(* ServiceWorkerThread.                                                    *)

WorkerBegins ==
  /\ Up
  /\ worker = "queued"
  /\ worker' = "begun"
  /\ Server!SetStatus(1)
  /\ UNCHANGED <<status, scm, svc, ctl, orig, event, proc, early, shut>>

\* Mutation: App_ServiceStatus says that the server runs when it does.
WorkerListensMarks ==
  /\ Up
  /\ worker = "begun"
  /\ worker' = "serving"
  /\ phase' = "serving" /\ app' = 1
  /\ UNCHANGED <<cause, status, scm, svc, ctl, orig, event, proc, early, shut>>

\* main_server is called.
WorkerListens ==
  /\ Up
  /\ worker = "begun"
  /\ worker' = "serving"
  /\ Server!Listen
  /\ UNCHANGED <<status, scm, svc, ctl, orig, event, proc, early, shut>>

\* The idle handler finds App_ServiceStatus 0, or @!SHUTDOWN is received.
ServerCloses(w) ==
  /\ Up
  /\ worker = "serving"
  /\ Server!Close(w)
  /\ UNCHANGED <<status, scm, svc, worker, ctl, orig, event, proc, early, shut>>

ServerReturns ==
  /\ Up
  /\ worker = "serving"
  /\ Server!Return
  /\ UNCHANGED <<status, scm, svc, worker, ctl, orig, event, proc, early, shut>>

ServerDies ==
  /\ Up
  /\ worker = "serving"
  /\ Server!Die
  /\ proc' = "aborted"
  /\ UNCHANGED <<status, scm, svc, worker, ctl, orig, event, early, shut>>

\* Mutation: the event is signalled and main_server still has to close.
WorkerSignalsEarly ==
  /\ Up
  /\ worker = "serving" /\ phase \in {"closing", "returned"}
  /\ worker' = "done"
  /\ event' = TRUE
  /\ UNCHANGED <<server, status, scm, svc, ctl, orig, proc, early, shut>>

\* main_server has returned: SetEvent.
WorkerSignals ==
  /\ Up
  /\ worker = "serving" /\ phase = "returned"
  /\ worker' = "done"
  /\ event' = TRUE
  /\ UNCHANGED <<server, status, scm, svc, ctl, orig, proc, early, shut>>
-----------------------------------------------------------------------------
(* ServiceCtrlHandler.  The SCM sends no control that is not accepted, and *)
(* none to a service that is starting or stopping, except that it tells    *)
(* every service of a system shutdown.                                     *)
Deliverable(c) ==
  /\ proc = "up"
  /\ ctl = "idle"
  /\ c \in Accepts

CtlStop ==
  /\ Deliverable("stop")
  /\ scm \in {"running", "paused"}
  /\ ctl' = "stopping"
  /\ orig' = status
  /\ SetServiceStatus("stop_pending")
  /\ UNCHANGED <<server, svc, worker, event, proc, early, shut>>

\* Mutation: OnStop sets m_fStopping only, which nobody reads.
CtlOnStopFlags ==
  /\ Up
  /\ ctl = "stopping"
  /\ ctl' = "waiting"
  /\ early' = (worker = "queued")
  /\ UNCHANGED <<server, status, scm, svc, worker, orig, event, proc, shut>>

(* OnStop: App_ServiceStatus is cleared, then the event is waited for.     *)
CtlOnStop ==
  /\ Up
  /\ ctl = "stopping"
  /\ ctl' = "waiting"
  /\ Server!SetStatus(0)
  /\ early' = (worker = "queued")
  /\ UNCHANGED <<status, scm, svc, worker, orig, event, proc, shut>>

\* Mutation: OnStop does not wait for the worker.
CtlStoppedAtOnce ==
  /\ Up
  /\ ctl = "waiting"
  /\ ctl' = "idle"
  /\ SetServiceStatus("stopped")
  /\ UNCHANGED <<server, svc, worker, orig, event, proc, early, shut>>

CtlStopped ==
  /\ Up
  /\ ctl = "waiting" /\ event
  /\ ctl' = "idle"
  /\ SetServiceStatus("stopped")
  /\ UNCHANGED <<server, svc, worker, orig, event, proc, early, shut>>

\* Mutation: App_ServiceStatus is restored with the status.
CtlWaitFailsRestores ==
  /\ Up
  /\ ctl = "waiting"
  /\ ctl' = "idle"
  /\ Server!SetStatus(1)
  /\ SetServiceStatus(orig)
  /\ UNCHANGED <<svc, worker, orig, event, proc, early, shut>>

(* The wait fails: OnStop throws, and the state before Stop is reported.   *)
CtlWaitFails ==
  /\ Up
  /\ ctl = "waiting"
  /\ ctl' = "idle"
  /\ SetServiceStatus(orig)
  /\ UNCHANGED <<server, svc, worker, orig, event, proc, early, shut>>

(* Pause and Continue: OnPause and OnContinue do nothing.                  *)
CtlPause ==
  /\ Deliverable("pause_continue")
  /\ scm = "running"
  /\ ctl' = "pausing"
  /\ SetServiceStatus("pause_pending")
  /\ UNCHANGED <<server, svc, worker, orig, event, proc, early, shut>>

CtlContinue ==
  /\ Deliverable("pause_continue")
  /\ scm = "paused"
  /\ ctl' = "continuing"
  /\ SetServiceStatus("continue_pending")
  /\ UNCHANGED <<server, svc, worker, orig, event, proc, early, shut>>

CtlPausedContinued ==
  /\ Up
  /\ ctl \in {"pausing", "continuing"}
  /\ ctl' = "idle"
  /\ SetServiceStatus(IF ctl = "pausing" THEN "paused" ELSE "running")
  /\ UNCHANGED <<server, svc, worker, orig, event, proc, early, shut>>

(* Shutdown: OnShutdown is not overridden and does nothing.                *)
CtlShutdown ==
  /\ Deliverable("shutdown")
  /\ scm \notin {"none", "stop_pending", "stopped"}
  /\ shut' = TRUE
  /\ SetServiceStatus("stopped")
  /\ UNCHANGED <<server, svc, worker, ctl, orig, event, proc, early>>
-----------------------------------------------------------------------------
(* The dispatcher returns when the service has reported STOPPED; the       *)
(* service object is destroyed, and the process exits under whatever       *)
(* threads it still has.                                                   *)
DispatcherReturns ==
  /\ proc = "up"
  /\ scm = "stopped" /\ ctl = "idle"
  /\ proc' = "leaving"
  /\ UNCHANGED <<server, status, scm, svc, worker, ctl, orig, event, early, shut>>

Exit ==
  /\ proc = "leaving"
  /\ proc' = "exited"
  /\ UNCHANGED <<server, status, scm, svc, worker, ctl, orig, event, early, shut>>
-----------------------------------------------------------------------------
Worker ==
  \/ WorkerBegins \/ WorkerListens
  \/ \E w \in {"status", "command"} : ServerCloses(w)
  \/ ServerReturns \/ ServerDies
  \/ WorkerSignals

Control ==
  \/ CtlStop \/ CtlOnStop \/ CtlStopped \/ CtlWaitFails
  \/ CtlPause \/ CtlContinue \/ CtlPausedContinued \/ CtlShutdown

Next ==
  \/ ServiceMain \/ OnStart \/ OnStartThrows \/ Started
  \/ Worker
  \/ Control
  \/ DispatcherReturns \/ Exit

Spec == Init /\ [][Next]_vars

(* The threads run.  main_server notices that it is to stop and comes to   *)
(* an end: GxService!StopNoticed and ShutdownEnds.                         *)
FairSpec ==
  /\ Spec
  /\ WF_vars(WorkerBegins) /\ WF_vars(WorkerListens) /\ WF_vars(WorkerSignals)
  /\ WF_vars(ServerCloses("status"))
  /\ WF_vars(phase = "closing" /\ (ServerReturns \/ ServerDies))
  /\ WF_vars(CtlOnStop) /\ WF_vars(CtlStopped)
-----------------------------------------------------------------------------
(* "Tell SCM that the service is stopped" (ServiceWin32.cpp:968): when the *)
(* service is reported stopped, the server has returned, or was never      *)
(* started, unless it was the system that shut down.                       *)
StoppedIsOver ==
  scm = "stopped" /\ ~shut /\ proc # "aborted" => worker \in {"none", "done"}

(* A stop is overlooked only if it came between the report that the        *)
(* service is running and the first step of the worker, which then         *)
(* overwrites App_ServiceStatus; OnStop waits for ever.                    *)
LostOnlyEarly == ctl = "waiting" /\ app # 0 => early

(* A service that is reported running and whose server has ended was ended *)
(* by @!SHUTDOWN, or by a stop whose wait failed.                          *)
EndedUnderRunning ==
  scm \in {"running", "paused"} /\ worker = "done" => cause = "command" \/ app = 0

(* Any other stop returns.                                                 *)
StopReturns == ctl = "waiting" /\ ~early ~> ctl = "idle" \/ proc # "up"
=============================================================================
