----------------------------- MODULE Lifecycle -----------------------------
(***************************************************************************)
(* What main_server (GxProxy/main.cpp:51-57) promises to whoever calls it: *)
(* it serves until it is told to stop, by App_ServiceStatus or by the      *)
(* command @!SHUTDOWN, then closes everything and returns; it may die      *)
(* instead.  GxService implements this; WinService builds on it.           *)
(***************************************************************************)
EXTENDS Integers

VARIABLES
  app,          \* App_ServiceStatus
  phase,        \* how far main_server is
  cause         \* what told it to stop

vars == <<app, phase, cause>>

Status == {-1, 0, 1}            \* not in service mode, stopped, running

TypeOK ==
  /\ app \in Status
  /\ phase \in {"off", "serving", "closing", "returned", "dead"}
  /\ cause \in {"none", "status", "command"}

Init == app = -1 /\ phase = "off" /\ cause = "none"

(* Another thread assigns App_ServiceStatus.                               *)
SetStatus(s) ==
  /\ app' = s
  /\ UNCHANGED <<phase, cause>>

(* CxMyService::OnStart.                                                   *)
Listen ==
  /\ phase = "off"
  /\ phase' = "serving"
  /\ UNCHANGED <<app, cause>>

(* CxMyService::Shutdown, by the idle handler or by the command.           *)
Close(w) ==
  /\ phase = "serving"
  /\ w = "status" => app = 0
  /\ phase' = "closing"
  /\ cause' = w
  /\ UNCHANGED app

(* uv_run returns, and OnStop with it.                                     *)
Return ==
  /\ phase = "closing"
  /\ phase' = "returned"
  /\ UNCHANGED <<app, cause>>

(* An assertion fails.                                                     *)
Die ==
  /\ phase \in {"serving", "closing"}
  /\ phase' = "dead"
  /\ UNCHANGED <<app, cause>>

Next ==
  \/ \E s \in {0, 1} : SetStatus(s)
  \/ Listen
  \/ \E w \in {"status", "command"} : Close(w)
  \/ Return
  \/ Die

Spec == Init /\ [][Next]_vars
=============================================================================
