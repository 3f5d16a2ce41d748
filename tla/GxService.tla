----------------------------- MODULE GxService -----------------------------
(***************************************************************************)
(* The service around the event loop of GxProxy: CxMyService::OnStart,     *)
(* CxMyServer::Run with its idle handler, the two ways to ask for the end  *)
(* (App_ServiceStatus and the command @!SHUTDOWN), CxMyService::Shutdown,  *)
(* which closes every handle of the loop, and OnStop                       *)
(* (GxProxy/myServer.cpp, myCmd.cpp, main.cpp).                            *)
(*                                                                         *)
(* Shutdown walks over the handles and closes those that are not closing   *)
(* with a NULL callback, in whatever state their connections are.  The     *)
(* requests libuv then cancels still run the callbacks of the program.     *)
(***************************************************************************)
EXTENDS GxProxy

VARIABLES
  app,      \* App_ServiceStatus
  loop,     \* "off", "on" from Listen to the end of uv_run, "done"
  core,     \* the listening handle and the idle handle, which live and die together
  cause,    \* "none", or what called Shutdown: "status" or "command"
  nullC,    \* nullC[c]: the client handle c was closed by the walk ("shut": with a
            \* uv_shutdown pending), and "gone" when that is finished
  nullP,    \* the same for upstream handles
  twice     \* a handle was initialised while it was in libuv's list of handles

service == <<app, loop, core, cause, nullC, nullP, twice>>
svars == <<vars, service>>

(* Besides GxProxy's faults: the assertion on uv_loop_close, a record      *)
(* deleted twice by OnStop, a walk over a corrupted list of handles.       *)
ServiceFaults == Faults \cup {"abort_loop", "double_free", "corrupt_walk"}

ServiceTypeOK ==
  /\ cx \in [Conns -> ConnRec]
  /\ px \in [Proxies -> ProxyRec]
  /\ pool \in Seq(Conns)
  /\ fault \in ServiceFaults
  /\ app \in {-1, 0, 1}
  /\ loop \in {"off", "on", "done"}
  /\ core \in {"open", "closing", "closed"}
  /\ cause \in {"none", "status", "command"}
  /\ nullC \in [Conns -> {"no", "null", "shut", "gone"}]
  /\ nullP \in [Proxies -> {"no", "null", "gone"}]
  /\ twice \in BOOLEAN
  /\ \A c \in Conns : nullC[c] # "no" => cx[c].st = "closing"
  /\ \A p \in Proxies : nullP[p] # "no" => px[p].st = "closing"

ServiceInit ==
  /\ Init
  /\ app = -1 /\ loop = "off" /\ core = "open" /\ cause = "none" /\ twice = FALSE
  /\ nullC = [c \in Conns |-> "no"]
  /\ nullP = [p \in Proxies |-> "no"]

Serving == loop = "on" /\ cause = "none"
Closing == loop = "on" /\ cause # "none"
-----------------------------------------------------------------------------
(* CxMyService::OnStart.  The bind of Listen is repeated until it works.   *)
Listen ==
  /\ loop = "off"
  /\ loop' = "on"
  /\ UNCHANGED <<vars, app, core, cause, nullC, nullP, twice>>

(* App_ServiceStatus is assigned: 1 before main_server is called as a      *)
(* service, 0 when the service is to stop.                                 *)
SetStatus(s) ==
  /\ Running
  /\ s = 1 => loop = "off"
  /\ app' = s
  /\ UNCHANGED <<vars, loop, core, cause, nullC, nullP, twice>>

(* A callback of the event loop, as in GxProxy.  uv_tcp_init on a handle   *)
(* whose connect failed enters it into the list of handles a second time.  *)
Callback ==
  /\ Serving
  /\ Next
  /\ twice' = (twice \/ \E p \in Proxies : px[p].st = "failed" /\ px'[p].st = "connecting")
  /\ UNCHANGED <<app, loop, core, cause, nullC, nullP>>
-----------------------------------------------------------------------------
(* uv_walk with close_walk_cb.                                             *)

\* Mutation: the walk closes active handles only.
WalkedActive(P) ==
  [p \in Proxies |->
     IF P[p].st \in {"connecting", "open"} THEN [P[p] EXCEPT !.st = "closing"] ELSE P[p]]

\* Mutation: the walk leaves alone a client whose EOF has been seen.
WalkedCOpen(C) ==
  [c \in Conns |-> IF C[c].st = "open" THEN [C[c] EXCEPT !.st = "closing"] ELSE C[c]]

OpenC(c) == cx[c].st \in {"open", "shut"}

Walked(P) ==
  [p \in Proxies |->
     IF P[p].st \in {"connecting", "open", "failed"} THEN [P[p] EXCEPT !.st = "closing"] ELSE P[p]]

WalkedC(C) ==
  [c \in Conns |->
     IF C[c].st \in {"open", "shut"} THEN [C[c] EXCEPT !.st = "closing"] ELSE C[c]]

(* Shutdown, called for w; P and C are the tables after the rest of the    *)
(* callback it is called in, S the clients closed with a callback before.  *)
Shutdowned(w, P, C, S) ==
  IF twice
  THEN fault' = "corrupt_walk" /\ UNCHANGED <<cx, px, core, cause, nullC, nullP>>
  ELSE /\ px' = P
       /\ cx' = C
       /\ core' = "closing"
       /\ cause' = w
       /\ nullC' = [c \in Conns |-> IF OpenC(c) /\ c \notin S
                                    THEN IF cx[c].st = "shut" THEN "shut" ELSE "null"
                                    ELSE nullC[c]]
       /\ nullP' = [p \in Proxies |-> IF px[p].st # P[p].st THEN "null" ELSE nullP[p]]
       /\ UNCHANGED fault

\* Mutation: the service is stopped whenever it is not known to be running.
IdleStopUnknown ==
  /\ Running
  /\ Serving
  /\ app # 1
  /\ Shutdowned("status", Walked(px), WalkedC(cx), {})
  /\ UNCHANGED <<pool, hung, left, app, loop, twice>>

\* Mutation: the stop waits for the last client to leave.
IdleStopWhenEmpty ==
  /\ Running
  /\ Serving
  /\ app = 0
  /\ \A c \in Conns : ~InUse(c)
  /\ Shutdowned("status", Walked(px), WalkedC(cx), {})
  /\ UNCHANGED <<pool, hung, left, app, loop, twice>>

(* wait_for_while finds App_ServiceStatus 0: the idle handle is stopped.   *)
IdleStop ==
  /\ Running
  /\ Serving
  /\ app = 0
  /\ Shutdowned("status", Walked(px), WalkedC(cx), {})
  /\ UNCHANGED <<pool, hung, left, app, loop, twice>>

(* @!SHUTDOWN: the client is closed with close_cb, then everything else.   *)
(* The command is then forwarded to the upstream, which is closing, or     *)
(* echoed to the client, which is closing too: either side goes offline.   *)
ReadShutdownCmd(c) ==
  LET m == cx[c].mproxy
  IN  /\ Running
      /\ Serving
      /\ cx[c].st = "open"
      /\ Shutdowned("command",
                    Written(Walked(px), m),
                    IF m = NoProxy
                    THEN [WalkedC(cx) EXCEPT ![c] = [@ EXCEPT !.online = FALSE]]
                    ELSE WalkedC(cx),
                    {c})
      /\ UNCHANGED <<pool, hung, left, app, loop, twice>>
-----------------------------------------------------------------------------
(* libuv finishes the closes.                                              *)

(* Handles closed with their own callback: close_cb as ever.               *)
CloseCb ==
  /\ Closing
  /\ \/ \E c \in Conns : nullC[c] = "no" /\ ServerCloseCb(c)
     \/ \E p \in Proxies : nullP[p] = "no" /\ ProxyCloseCb(p)
  /\ UNCHANGED service

\* Mutation: a cancelled shutdown is not reported to the program.
NullClosedConnQuietly(c) ==
  /\ Running
  /\ Closing
  /\ nullC[c] \in {"null", "shut"}
  /\ nullC' = [nullC EXCEPT ![c] = "gone"]
  /\ UNCHANGED <<vars, app, loop, core, cause, nullP, twice>>

(* A client handle closed with NULL: a pending uv_shutdown is cancelled,   *)
(* and shutdown_cb closes the handle a second time.  Otherwise the record  *)
(* is forgotten: nothing puts it back into the pool.                       *)
NullClosedConn(c) ==
  /\ Running
  /\ Closing
  /\ nullC[c] \in {"null", "shut"}
  /\ IF nullC[c] = "shut"
     THEN fault' = "double_close" /\ UNCHANGED nullC
     ELSE nullC' = [nullC EXCEPT ![c] = "gone"] /\ UNCHANGED fault
  /\ UNCHANGED <<cx, px, pool, hung, left, app, loop, core, cause, nullP, twice>>

(* An upstream handle closed with NULL: a pending connect is cancelled,    *)
(* and connect_cb returns; then a queued write, and write_cb asserts; then *)
(* a shutdown, and shutdown_cb closes the handle a second time.            *)
NullClosedProxy(p) ==
  /\ Running
  /\ Closing
  /\ nullP[p] = "null"
  /\ IF px[p].wq \/ px[p].shut # "no"
     THEN /\ fault' = IF px[p].wq THEN "abort_write" ELSE "double_close"
          /\ UNCHANGED nullP
     ELSE nullP' = [nullP EXCEPT ![p] = "gone"] /\ UNCHANGED fault
  /\ UNCHANGED <<cx, px, pool, hung, left, app, loop, core, cause, nullC, twice>>

CoreClosed ==
  /\ Running
  /\ Closing
  /\ core = "closing"
  /\ core' = "closed"
  /\ UNCHANGED <<vars, app, loop, cause, nullC, nullP, twice>>

\* Mutation: uv_run is stopped as soon as the two handles of the server are closed.
QuietCore == core = "closed"

\* Mutation: the end of uv_run waits for every record to be back in the pool.
QuietPooled ==
  /\ core = "closed"
  /\ \A c \in Conns : ~InUse(c)
  /\ \A p \in Proxies : px[p].st \in {"connecting", "open", "closing"} => nullP[p] = "gone"

(* uv_run returns when no handle is active or closing; uv_loop_close is    *)
(* asserted to find no open handle either; OnStop deletes the records of   *)
(* the pool, entry by entry.                                               *)
Quiet ==
  /\ core = "closed"
  /\ \A c \in Conns : InUse(c) => nullC[c] = "gone"
  /\ \A p \in Proxies : px[p].st \in {"connecting", "open", "closing"} => nullP[p] = "gone"

DeletedTwice == {i \in 1 .. Len(pool) : \E j \in 1 .. Len(pool) : i # j /\ pool[i] = pool[j]}

LoopEnds ==
  /\ Running
  /\ loop = "on"
  /\ Quiet
  /\ IF \E p \in Proxies : px[p].st = "failed"
     THEN fault' = "abort_loop" /\ UNCHANGED loop
     ELSE /\ loop' = "done"
          /\ fault' = IF DeletedTwice = {} THEN fault ELSE "double_free"
  /\ UNCHANGED <<cx, px, pool, hung, left, app, core, cause, nullC, nullP, twice>>
-----------------------------------------------------------------------------
ServiceNext ==
  \/ Listen
  \/ \E s \in {0, 1} : SetStatus(s)
  \/ Callback
  \/ IdleStop
  \/ \E c \in Conns : ReadShutdownCmd(c)
  \/ CloseCb
  \/ \E c \in Conns : NullClosedConn(c)
  \/ \E p \in Proxies : NullClosedProxy(p)
  \/ CoreClosed
  \/ LoopEnds

ServiceSpec == ServiceInit /\ [][ServiceNext]_svars

(* While the loop serves, libuv completes what was requested of it and the *)
(* peers read or go away, as in GxProxy.                                   *)
Served(A) == Serving /\ A /\ UNCHANGED service

ClientServed(c) ==
  WF_svars(Served(ServerShutdownCb(c))) /\ WF_svars(Served(ServerCloseCb(c)))

ProxyServed(p) ==
  /\ WF_svars(Served(ProxyConnectCb(p) \/ ProxyConnectFailed(p)))
  /\ WF_svars(Served(ProxyWriteCb(p) \/ ProxyWriteFailed(p)))
  /\ WF_svars(Served(ProxyShutdownCb(p)))
  /\ WF_svars(Served(ProxyCloseCb(p)))

(* The idle handler runs in every turn of the loop, and libuv finishes     *)
(* every close it was asked for.                                           *)
ServiceFairSpec ==
  /\ ServiceSpec
  /\ \A c \in Conns : ClientServed(c)
  /\ \A p \in Proxies : ProxyServed(p)
  /\ WF_svars(IdleStop)
  /\ WF_svars(CloseCb)
  /\ \A c \in Conns : WF_svars(NullClosedConn(c))
  /\ \A p \in Proxies : WF_svars(NullClosedProxy(p))
  /\ WF_svars(CoreClosed)
  /\ WF_svars(LoopEnds)
-----------------------------------------------------------------------------
(* The walk decides how the service ends.  It ends in an assertion if at   *)
(* that moment a client has been told of its EOF and not closed yet, an    *)
(* upstream has a write or a shutdown outstanding, or a client that is     *)
(* closed with close_cb (the one that sent @!SHUTDOWN among them) is bound *)
(* to an upstream.                                                         *)
Doomed ==
  \/ \E c \in Conns : nullC[c] = "shut"
  \/ \E c \in Conns : cx[c].st = "closing" /\ nullC[c] = "no" /\ cx[c].mproxy # NoProxy
  \/ \E p \in Proxies :
       px[p].st = "closing" /\ nullP[p] # "gone" /\ (px[p].wq \/ px[p].shut # "no")

(* Once the walk is over nothing that happens changes whether it is so.    *)
FateSealed == [][Closing /\ Running => (Doomed' <=> Doomed)]_svars

(* Shutdown ends in a failed assertion exactly when it was doomed.         *)
DoomedDies ==
  /\ Closing /\ ~Running => Doomed
  /\ loop = "done" => ~Doomed

(* XX_ASSERT(0 == uv_loop_close(loop)), myServer.cpp:219, never fails.     *)
LoopCloses == fault # "abort_loop"

(* Who is asked to stop stops: App_ServiceStatus 0 is noticed, and a       *)
(* shutdown comes to an end, good or bad.                                  *)
StopNoticed == app = 0 /\ loop = "on" ~> cause # "none" \/ ~Running
ShutdownEnds == cause # "none" ~> loop = "done" \/ ~Running

(* The service is what its callers are promised.                           *)
phase ==
  IF loop = "off" THEN "off"
  ELSE IF ~Running THEN "dead"
  ELSE IF loop = "done" THEN "returned"
  ELSE IF cause = "none" THEN "serving" ELSE "closing"

Promise == INSTANCE Lifecycle

LifecycleRefinement == Promise!Spec
=============================================================================
