-------------------------- MODULE WinServiceProofs --------------------------
(***************************************************************************)
(* Proofs about the Windows service, whatever controls it accepts.  What   *)
(* the SCM and m_status say agrees until STOPPED is reported; before       *)
(* RUNNING is reported there is no stop; and of the two assignments of     *)
(* App_ServiceStatus the worker's is lost or wins depending on `early`.    *)
(* The last theorem is about time: a stop that is waited for returns.      *)
(***************************************************************************)
EXTENDS WinService, TLAPS

(* What has been reported, and what a stop can therefore restore.          *)
Reported ==
  /\ scm \notin {"none", "stopped"} => status = scm
  /\ svc = "none" => scm = "none"
  /\ svc \in {"start", "queued"} =>
       scm = "start_pending" \/ (scm = "stopped" /\ shut)
  /\ ctl # "idle" => svc = "done"
  /\ ctl \in {"stopping", "waiting"} => orig \in {"running", "paused"}

(* What App_ServiceStatus says of the server, and the server of its cause. *)
Told ==
  /\ phase \in {"off", "serving"} => cause = "none"
  /\ phase \in {"closing", "returned"} => cause # "none"
  /\ cause = "status" => app = 0
  /\ ctl = "waiting" /\ worker = "queued" => early
  /\ worker = "done" => phase = "returned"

IndInv == TypeOK /\ Reported /\ Told /\ StoppedIsOver /\ LostOnlyEarly

LEMMA InitInd == Init => IndInv
BY DEF Init, Server!Init, IndInv, TypeOK, Server!TypeOK, Server!Status, States,
       Reported, Told, StoppedIsOver, LostOnlyEarly

LEMMA NextInd == IndInv /\ [Next]_vars => IndInv'
<1> SUFFICES ASSUME IndInv, [Next]_vars
             PROVE  IndInv'
  OBVIOUS
<1> USE DEF IndInv, TypeOK, Server!TypeOK, Server!Status, States, Reported, Told,
            StoppedIsOver, LostOnlyEarly, SetServiceStatus, server, Up
<1>1. CASE ServiceMain
  BY <1>1 DEF ServiceMain
<1>2. CASE OnStart
  BY <1>2 DEF OnStart
<1>3. CASE OnStartThrows
  BY <1>3 DEF OnStartThrows
<1>4. CASE Started
  BY <1>4 DEF Started
<1>5. CASE WorkerBegins
  BY <1>5 DEF WorkerBegins, Server!SetStatus
<1>6. CASE WorkerListens
  BY <1>6 DEF WorkerListens, Server!Listen
<1>7. ASSUME NEW w \in {"status", "command"}, ServerCloses(w)
      PROVE  IndInv'
  BY <1>7 DEF ServerCloses, Server!Close
<1>8. CASE ServerReturns
  BY <1>8 DEF ServerReturns, Server!Return
<1>9. CASE ServerDies
  BY <1>9 DEF ServerDies, Server!Die
<1>10. CASE WorkerSignals
  BY <1>10 DEF WorkerSignals
<1>11. CASE CtlStop
  BY <1>11 DEF CtlStop, Deliverable
<1>12. CASE CtlOnStop
  <2>1. early' \in BOOLEAN /\ (worker = "queued" => early')
    BY <1>12 DEF CtlOnStop
  <2>2. /\ ctl = "stopping" /\ ctl' = "waiting"
        /\ app' = 0
        /\ UNCHANGED <<phase, cause, status, scm, svc, worker, orig, event, proc, shut>>
    BY <1>12 DEF CtlOnStop, Server!SetStatus
  <2>3. TypeOK' /\ Reported'
    BY <2>1, <2>2
  <2>4. Told'
    BY <2>1, <2>2
  <2>5. StoppedIsOver' /\ LostOnlyEarly'
    BY <2>2
  <2> QED
    BY <2>3, <2>4, <2>5
<1>13. CASE CtlStopped
  BY <1>13 DEF CtlStopped
<1>14. CASE CtlWaitFails
  BY <1>14 DEF CtlWaitFails
<1>15. CASE CtlPause
  BY <1>15 DEF CtlPause, Deliverable
<1>16. CASE CtlContinue
  BY <1>16 DEF CtlContinue, Deliverable
<1>17. CASE CtlPausedContinued
  BY <1>17 DEF CtlPausedContinued
<1>18. CASE CtlShutdown
  BY <1>18 DEF CtlShutdown, Deliverable
<1>19. CASE DispatcherReturns
  BY <1>19 DEF DispatcherReturns
<1>20. CASE Exit
  BY <1>20 DEF Exit
<1>21. CASE UNCHANGED vars
  BY <1>21 DEF vars
<1> QED
  BY <1>1, <1>2, <1>3, <1>4, <1>5, <1>6, <1>7, <1>8, <1>9, <1>10, <1>11, <1>12, <1>13,
     <1>14, <1>15, <1>16, <1>17, <1>18, <1>19, <1>20, <1>21 DEF Next, Worker, Control

(* m_status, the SCM, App_ServiceStatus and the server's phase agree as    *)
(* far as IndInv says (ServiceWin32.cpp), after every step.                *)
THEOREM ServiceInvariant == Spec => []IndInv
BY InitInd, NextInd, PTL DEF Spec

(* Every variable has its type; the event is signalled only when           *)
(* main_server has returned.                                               *)
THEOREM ServiceTyped == Spec => []TypeOK
<1>1. IndInv => TypeOK
  BY DEF IndInv
<1> QED
  BY <1>1, ServiceInvariant, PTL

(* A service reported stopped has no server left, except at a system       *)
(* shutdown (ServiceWin32.cpp:968, 1126).                                  *)
THEOREM StoppedMeansOver == Spec => []StoppedIsOver
<1>1. IndInv => StoppedIsOver
  BY DEF IndInv
<1> QED
  BY <1>1, ServiceInvariant, PTL

(* Only a stop that precedes the worker's first step can be overwritten.   *)
THEOREM OnlyEarlyStopsAreLost == Spec => []LostOnlyEarly
<1>1. IndInv => LostOnlyEarly
  BY DEF IndInv
<1> QED
  BY <1>1, ServiceInvariant, PTL

(* A server that ended under a running service was told to.                *)
THEOREM NobodyEndsUnasked == Spec => []EndedUnderRunning
<1>1. IndInv => EndedUnderRunning
  BY DEF IndInv, TypeOK, Server!TypeOK, Told, EndedUnderRunning
<1> QED
  BY <1>1, ServiceInvariant, PTL
-----------------------------------------------------------------------------
(* A stop that is waited for, and not an early one.                        *)
Waits == ctl = "waiting" /\ ~early /\ proc = "up"
Over == ctl = "idle" \/ proc # "up"

(* How far the worker is; a service that is being stopped has one.         *)
Begun == Waits /\ worker = "begun"
Serving == Waits /\ worker = "serving" /\ phase = "serving"
Closing == Waits /\ worker = "serving" /\ phase = "closing"
Returned == Waits /\ worker = "serving" /\ phase = "returned"
Signalled == Waits /\ worker = "done"

(* The worker is there, unless it could not be queued, and has signalled   *)
(* when it is done; an assertion that fails ends the process.              *)
HasWorker ==
  /\ worker = "none" => ctl = "idle" /\ scm \in {"none", "start_pending", "stopped"} /\ svc # "queued"
  /\ worker = "done" => event
  /\ phase = "dead" => proc = "aborted"

LEMMA HasWorkerInd == IndInv /\ HasWorker /\ [Next]_vars => HasWorker'
<1> SUFFICES ASSUME IndInv, HasWorker, [Next]_vars
             PROVE  HasWorker'
  OBVIOUS
<1> USE DEF IndInv, TypeOK, States, Server!TypeOK, Reported, HasWorker, SetServiceStatus, server, Up
<1>1. CASE ServiceMain
  BY <1>1 DEF ServiceMain
<1>2. CASE OnStart
  BY <1>2 DEF OnStart
<1>3. CASE OnStartThrows
  BY <1>3 DEF OnStartThrows
<1>4. CASE Started
  BY <1>4 DEF Started
<1>5. CASE WorkerBegins
  BY <1>5 DEF WorkerBegins, Server!SetStatus
<1>6. CASE WorkerListens
  BY <1>6 DEF WorkerListens, Server!Listen
<1>7. ASSUME NEW w \in {"status", "command"}, ServerCloses(w)
      PROVE  HasWorker'
  BY <1>7 DEF ServerCloses, Server!Close
<1>8. CASE ServerReturns
  BY <1>8 DEF ServerReturns, Server!Return
<1>9. CASE ServerDies
  BY <1>9 DEF ServerDies, Server!Die
<1>10. CASE WorkerSignals
  BY <1>10 DEF WorkerSignals
<1>11. CASE CtlStop
  BY <1>11 DEF CtlStop, Deliverable
<1>12. CASE CtlOnStop
  BY <1>12 DEF CtlOnStop, Server!SetStatus
<1>13. CASE CtlStopped
  BY <1>13 DEF CtlStopped
<1>14. CASE CtlWaitFails
  BY <1>14 DEF CtlWaitFails
<1>15. CASE CtlPause
  BY <1>15 DEF CtlPause, Deliverable
<1>16. CASE CtlContinue
  BY <1>16 DEF CtlContinue, Deliverable
<1>17. CASE CtlPausedContinued
  BY <1>17 DEF CtlPausedContinued
<1>18. CASE CtlShutdown
  BY <1>18 DEF CtlShutdown, Deliverable
<1>19. CASE DispatcherReturns
  BY <1>19 DEF DispatcherReturns
<1>20. CASE Exit
  BY <1>20 DEF Exit
<1>21. CASE UNCHANGED vars
  BY <1>21 DEF vars
<1> QED
  BY <1>1, <1>2, <1>3, <1>4, <1>5, <1>6, <1>7, <1>8, <1>9, <1>10, <1>11, <1>12, <1>13,
     <1>14, <1>15, <1>16, <1>17, <1>18, <1>19, <1>20, <1>21 DEF Next, Worker, Control

(* While the stop waits, nothing moves but the worker, until it is over.   *)
LEMMA OnlyTheWorkerMoves ==
  ASSUME IndInv, Waits, [Next]_vars
  PROVE  \/ Over'
         \/ /\ Waits'
            /\ \/ UNCHANGED <<worker, phase>>
               \/ WorkerListens
               \/ \E w \in {"status", "command"} : ServerCloses(w)
               \/ ServerReturns
               \/ WorkerSignals
<1> USE DEF Waits, Over, Deliverable, server
<1>0. svc = "done" /\ worker # "queued"
  BY DEF IndInv, Reported, Told
<1>1. CASE ServiceMain \/ OnStart \/ OnStartThrows \/ Started \/ WorkerBegins
  BY <1>0, <1>1 DEF ServiceMain, OnStart, OnStartThrows, Started, WorkerBegins
<1>2. CASE CtlStop \/ CtlOnStop \/ CtlPause \/ CtlContinue \/ CtlPausedContinued \/ CtlShutdown \/ Exit
  BY <1>2 DEF CtlStop, CtlOnStop, CtlPause, CtlContinue, CtlPausedContinued, CtlShutdown, Exit
<1>3. CASE CtlStopped \/ CtlWaitFails
  BY <1>3 DEF CtlStopped, CtlWaitFails
<1>4. CASE ServerDies \/ DispatcherReturns
  BY <1>4 DEF ServerDies, DispatcherReturns
<1>5. CASE WorkerListens
  BY <1>5 DEF WorkerListens
<1>6. ASSUME NEW w \in {"status", "command"}, ServerCloses(w) PROVE Waits'
  BY <1>6 DEF ServerCloses
<1>7. CASE ServerReturns
  BY <1>7 DEF ServerReturns
<1>8. CASE WorkerSignals
  BY <1>8 DEF WorkerSignals
<1>9. CASE UNCHANGED vars
  BY <1>9 DEF vars
<1> QED
  BY <1>1, <1>2, <1>3, <1>4, <1>5, <1>6, <1>7, <1>8, <1>9 DEF Next, Worker, Control

(* So the worker goes from one place to the next.                          *)
LEMMA WorkerMoves ==
  ASSUME IndInv, [Next]_vars
  PROVE  /\ Begun => Begun' \/ Serving' \/ Over'
         /\ Serving => Serving' \/ Closing' \/ Over'
         /\ Closing => Closing' \/ Returned' \/ Over'
         /\ Returned => Returned' \/ Signalled' \/ Over'
         /\ Signalled => Signalled' \/ Over'
<1>0. SUFFICES ASSUME Waits, Waits', ~Over'
               PROVE  /\ Begun => Begun' \/ Serving'
                      /\ Serving => Serving' \/ Closing'
                      /\ Closing => Closing' \/ Returned'
                      /\ Returned => Returned' \/ Signalled'
                      /\ Signalled => Signalled'
  BY OnlyTheWorkerMoves DEF Begun, Serving, Closing, Returned, Signalled
<1> USE DEF Begun, Serving, Closing, Returned, Signalled
<1>1. CASE UNCHANGED <<worker, phase>>
  BY <1>0, <1>1
<1>2. CASE WorkerListens
  BY <1>0, <1>2 DEF WorkerListens, Server!Listen
<1>3. ASSUME NEW w \in {"status", "command"}, ServerCloses(w)
      PROVE  phase = "serving" /\ phase' = "closing" /\ worker = "serving" /\ worker' = worker
  BY <1>3 DEF ServerCloses, Server!Close
<1>4. CASE ServerReturns
  BY <1>0, <1>4 DEF ServerReturns, Server!Return
<1>5. CASE WorkerSignals
  BY <1>0, <1>5 DEF WorkerSignals, server
<1> QED
  BY <1>0, <1>1, <1>2, <1>3, <1>4, <1>5, OnlyTheWorkerMoves

(* Some step of the worker or of OnStop is always possible...              *)
LEMMA NeverStuck ==
  ASSUME IndInv, HasWorker, Waits
  PROVE  Begun \/ Serving \/ Closing \/ Returned \/ Signalled
BY DEF IndInv, TypeOK, Server!TypeOK, Told, HasWorker, Waits, Begun, Serving, Closing, Returned, Signalled

(* What each step of a stop waits for.                                     *)
CanListen == Up /\ worker = "begun"
CanClose == Up /\ worker = "serving" /\ phase = "serving" /\ app = 0
CanReturn == Up /\ worker = "serving" /\ phase = "closing"
CanSignal == Up /\ worker = "serving" /\ phase = "returned"
CanStop == Up /\ ctl = "waiting" /\ event

ClosesOver == phase = "closing" /\ (ServerReturns \/ ServerDies)

(* And that it waits for nothing else: the prover takes ENABLED for a word *)
(* it does not know, so that a step whose guard holds can be taken is said *)
(* here.  Every action gives each primed variable a value, whatever the    *)
(* state.                                                                  *)
GuardsSuffice ==
  /\ CanListen => ENABLED <<WorkerListens>>_vars
  /\ CanClose => ENABLED <<ServerCloses("status")>>_vars
  /\ CanReturn => ENABLED <<ClosesOver>>_vars
  /\ CanSignal => ENABLED <<WorkerSignals>>_vars
  /\ CanStop => ENABLED <<CtlStopped>>_vars

(* No step is possible for ever: it is taken, and then it no longer is.    *)
LEMMA StepsAreTaken ==
  FairSpec /\ []GuardsSuffice =>
    /\ []<>~CanListen /\ []<>~CanClose /\ []<>~CanReturn
    /\ []<>~CanSignal /\ []<>~CanStop
<1>1. <<WorkerListens>>_vars => ~CanListen'
  BY DEF WorkerListens, CanListen
<1>2. <<ServerCloses("status")>>_vars => ~CanClose'
  BY DEF ServerCloses, Server!Close, CanClose
<1>3. <<ClosesOver>>_vars => ~CanReturn'
  BY DEF ClosesOver, ServerReturns, ServerDies, Server!Return, CanReturn, Up
<1>4. <<WorkerSignals>>_vars => ~CanSignal'
  BY DEF WorkerSignals, CanSignal
<1>5. <<CtlStopped>>_vars => ~CanStop'
  BY DEF CtlStopped, CanStop
<1> QED
  BY <1>1, <1>2, <1>3, <1>4, <1>5, PTL DEF FairSpec, GuardsSuffice, ClosesOver

(* A stop that did not come before the worker's first step returns.        *)
THEOREM StopsReturn == FairSpec /\ []GuardsSuffice => StopReturns
<1>1. Spec => [](IndInv /\ HasWorker)
  <2>1. Init => HasWorker
    BY DEF Init, Server!Init, HasWorker
  <2> QED
    BY <2>1, HasWorkerInd, ServiceInvariant, PTL DEF Spec
<1>2. IndInv /\ [Next]_vars => /\ Begun => Begun' \/ Serving' \/ Over'
                               /\ Serving => Serving' \/ Closing' \/ Over'
                               /\ Closing => Closing' \/ Returned' \/ Over'
                               /\ Returned => Returned' \/ Signalled' \/ Over'
                               /\ Signalled => Signalled' \/ Over'
  BY WorkerMoves
<1>3. IndInv /\ HasWorker =>
        /\ Begun => CanListen
        /\ Serving => CanClose
        /\ Closing => CanReturn
        /\ Returned => CanSignal
        /\ Signalled => CanStop
  BY DEF CanListen, CanClose, CanReturn, CanSignal, CanStop,
         Begun, Serving, Closing, Returned, Signalled, Waits, Up, HasWorker, IndInv, LostOnlyEarly
<1>4. IndInv /\ HasWorker /\ ctl = "waiting" /\ ~early
        => Over \/ Begun \/ Serving \/ Closing \/ Returned \/ Signalled
  BY NeverStuck DEF Over, Waits
<1>5. Over <=> ctl = "idle" \/ proc # "up"
  BY DEF Over
<1> QED
  BY <1>1, <1>2, <1>3, <1>4, <1>5, StepsAreTaken, PTL DEF FairSpec, Spec, StopReturns
=============================================================================
