-------------------------- MODULE GxServiceProofs --------------------------
(***************************************************************************)
(* Proofs about the service, for any number of client records and upstream *)
(* objects.  Until Shutdown is called the invariant of the event loop      *)
(* (GxProxyProofs) holds; the walk then leaves every handle closed or      *)
(* closing, and whatever libuv finishes afterwards keeps it so.  No        *)
(* upstream accepts a uv_shutdown in such a state, which is why the fate   *)
(* of the service is decided by the walk.  The last theorem says that a    *)
(* stop is noticed.                                                        *)
(***************************************************************************)
EXTENDS GxService, GxProxyProofs

(* Before the walk: the event loop, and no handle closed with NULL.        *)
BeforeWalk ==
  cause = "none" =>
    /\ core = "open" /\ loop # "done"
    /\ \A c \in Conns : nullC[c] = "no"
    /\ \A p \in Proxies : nullP[p] = "no"
    /\ Running => IndInv

(* After it: no handle is open.                                            *)
AfterWalk ==
  cause # "none" =>
    /\ core # "open"
    /\ \A c \in Conns : cx[c].st \in {"fresh", "closing", "idle"}
    /\ \A p \in Proxies : px[p].st \in {"fresh", "closing", "closed"}

Unstarted == loop = "off" => fault = "none" /\ cause = "none"

ServiceInv ==
  ServiceTypeOK /\ BeforeWalk /\ AfterWalk /\ Unstarted /\ DoomedDies /\ LoopCloses
-----------------------------------------------------------------------------
LEMMA ServiceInitInv == ServiceInit => ServiceInv
<1> SUFFICES ASSUME ServiceInit PROVE ServiceInv
  OBVIOUS
<1>1. IndInv /\ fault = "none"
  BY InitInv DEF ServiceInit, Init
<1>2. ServiceTypeOK
  BY <1>1 DEF ServiceInit, IndInv, TypeOK, ServiceTypeOK, ServiceFaults
<1>3. BeforeWalk /\ AfterWalk /\ Unstarted
  BY <1>1 DEF ServiceInit, BeforeWalk, AfterWalk, Unstarted
<1>4. DoomedDies /\ LoopCloses
  BY <1>1 DEF ServiceInit, DoomedDies, Closing, LoopCloses
<1>. QED BY <1>2, <1>3, <1>4 DEF ServiceInv

(* What the walk leaves, and what a write to an upstream changes of it.    *)
LEMMA WalkedFacts ==
  ASSUME px \in [Proxies -> ProxyRec]
  PROVE  /\ Walked(px) \in [Proxies -> ProxyRec]
         /\ \A p \in Proxies :
              /\ Walked(px)[p].st \in {"fresh", "closing", "closed"}
              /\ Walked(px)[p].st # px[p].st => Walked(px)[p].st = "closing"
              /\ px[p].st = "closing" => Walked(px)[p].st = "closing"
              /\ px[p].st # "fresh" => Walked(px)[p].st # "fresh"
<1>1. ASSUME NEW p \in Proxies
      PROVE  LET r == IF px[p].st \in {"connecting", "open", "failed"}
                      THEN [px[p] EXCEPT !.st = "closing"] ELSE px[p]
             IN  /\ r \in ProxyRec
                 /\ r.st \in {"fresh", "closing", "closed"}
                 /\ r.st # px[p].st => r.st = "closing"
                 /\ px[p].st = "closing" => r.st = "closing"
                 /\ px[p].st # "fresh" => r.st # "fresh"
  <2> DEFINE q == px[p]
  <2>1. q \in ProxyRec
    OBVIOUS
  <2> HIDE DEF q
  <2>2. LET r == IF q.st \in {"connecting", "open", "failed"}
                 THEN [q EXCEPT !.st = "closing"] ELSE q
        IN  /\ r \in ProxyRec
            /\ r.st \in {"fresh", "closing", "closed"}
            /\ r.st # q.st => r.st = "closing"
            /\ q.st = "closing" => r.st = "closing"
            /\ q.st # "fresh" => r.st # "fresh"
    BY <2>1 DEF ProxyRec, ProxyFields
  <2>. QED BY <2>2 DEF q
<1>. QED BY <1>1 DEF Walked

LEMMA WalkedCFacts ==
  ASSUME cx \in [Conns -> ConnRec]
  PROVE  /\ WalkedC(cx) \in [Conns -> ConnRec]
         /\ \A c \in Conns :
              /\ WalkedC(cx)[c].st \in {"fresh", "closing", "idle"}
              /\ cx[c].st \in {"open", "shut", "closing"} => WalkedC(cx)[c].st = "closing"
<1>1. ASSUME NEW c \in Conns
      PROVE  LET r == IF cx[c].st \in {"open", "shut"}
                      THEN [cx[c] EXCEPT !.st = "closing"] ELSE cx[c]
             IN  /\ r \in ConnRec
                 /\ r.st \in {"fresh", "closing", "idle"}
                 /\ cx[c].st \in {"open", "shut", "closing"} => r.st = "closing"
  <2> DEFINE q == cx[c]
  <2>1. q \in ConnRec
    OBVIOUS
  <2> HIDE DEF q
  <2>2. LET r == IF q.st \in {"open", "shut"} THEN [q EXCEPT !.st = "closing"] ELSE q
        IN  /\ r \in ConnRec
            /\ r.st \in {"fresh", "closing", "idle"}
            /\ q.st \in {"open", "shut", "closing"} => r.st = "closing"
    BY <2>1 DEF ConnRec, ConnFields
  <2>. QED BY <2>2 DEF q
<1>. QED BY <1>1 DEF WalkedC
-----------------------------------------------------------------------------
(* Shutdown, whoever calls it.                                             *)
LEMMA ShutdownedPreserves ==
  ASSUME ServiceInv, Running, Serving,
         NEW w \in {"status", "command"}, NEW S,
         NEW P \in [Proxies -> ProxyRec], NEW C \in [Conns -> ConnRec],
         \A p \in Proxies : /\ P[p].st \in {"fresh", "closing", "closed"}
                            /\ P[p].st # px[p].st => P[p].st = "closing",
         \A c \in Conns : /\ C[c].st \in {"fresh", "closing", "idle"}
                          /\ OpenC(c) => C[c].st = "closing",
         Shutdowned(w, P, C, S),
         UNCHANGED <<pool, app, loop, twice>>
  PROVE  ServiceInv'
<1>1. CASE twice
  <2>1. fault' = "corrupt_walk" /\ UNCHANGED <<cx, px, core, cause, nullC, nullP>>
    BY <1>1 DEF Shutdowned
  <2>2. ServiceTypeOK'
    BY <2>1 DEF ServiceInv, ServiceTypeOK, ServiceFaults
  <2>3. cause' = "none" /\ loop' = "on"
    BY <2>1 DEF Serving
  <2>4. BeforeWalk' /\ AfterWalk' /\ Unstarted'
    BY <2>1, <2>3 DEF ServiceInv, BeforeWalk, AfterWalk, Unstarted, Running
  <2>. QED BY <2>1, <2>2, <2>3, <2>4 DEF ServiceInv, DoomedDies, Closing, LoopCloses
<1>2. CASE ~twice
  <2>1. /\ px' = P /\ cx' = C /\ core' = "closing" /\ cause' = w /\ fault' = "none"
        /\ nullC' = [c \in Conns |-> IF OpenC(c) /\ c \notin S
                                     THEN IF cx[c].st = "shut" THEN "shut" ELSE "null"
                                     ELSE nullC[c]]
        /\ nullP' = [p \in Proxies |-> IF px[p].st # P[p].st THEN "null" ELSE nullP[p]]
    BY <1>2 DEF Shutdowned, Running
  <2>2. /\ \A c \in Conns : nullC[c] = "no"
        /\ \A p \in Proxies : nullP[p] = "no"
    BY DEF ServiceInv, BeforeWalk, Serving
  <2>3. /\ nullC' \in [Conns -> {"no", "null", "shut", "gone"}]
        /\ \A c \in Conns : nullC'[c] # "no" => cx'[c].st = "closing"
    BY <2>1, <2>2
  <2>4. /\ nullP' \in [Proxies -> {"no", "null", "gone"}]
        /\ \A p \in Proxies : nullP'[p] # "no" => px'[p].st = "closing"
    BY <2>1, <2>2
  <2>5. ServiceTypeOK'
    BY <2>1, <2>3, <2>4 DEF ServiceInv, ServiceTypeOK, ServiceFaults, Faults
  <2>6. loop' = "on" /\ cause' # "none"
    BY <2>1 DEF Serving
  <2>7. BeforeWalk' /\ AfterWalk' /\ Unstarted'
    BY <2>1, <2>6 DEF BeforeWalk, AfterWalk, Unstarted
  <2>8. DoomedDies' /\ LoopCloses'
    BY <2>1, <2>6 DEF DoomedDies, LoopCloses, Running
  <2>. QED BY <2>5, <2>7, <2>8 DEF ServiceInv
<1>. QED BY <1>1, <1>2

LEMMA IdleStopPreserves ==
  ASSUME ServiceInv, IdleStop
  PROVE  ServiceInv'
<1> DEFINE P == Walked(px)
           C == WalkedC(cx)
<1>1. px \in [Proxies -> ProxyRec] /\ cx \in [Conns -> ConnRec]
  BY DEF ServiceInv, ServiceTypeOK
<1>2. /\ P \in [Proxies -> ProxyRec]
      /\ \A p \in Proxies : /\ P[p].st \in {"fresh", "closing", "closed"}
                            /\ P[p].st # px[p].st => P[p].st = "closing"
  BY <1>1, WalkedFacts
<1>3. /\ C \in [Conns -> ConnRec]
      /\ \A c \in Conns : /\ C[c].st \in {"fresh", "closing", "idle"}
                          /\ OpenC(c) => C[c].st = "closing"
  BY <1>1, WalkedCFacts DEF OpenC
<1>4. Running /\ Serving /\ Shutdowned("status", P, C, {}) /\ UNCHANGED <<pool, app, loop, twice>>
  BY DEF IdleStop
<1> HIDE DEF P, C
<1>. QED BY <1>2, <1>3, <1>4, ShutdownedPreserves

LEMMA ReadShutdownCmdPreserves ==
  ASSUME ServiceInv, NEW c \in Conns, ReadShutdownCmd(c)
  PROVE  ServiceInv'
<1> DEFINE m == cx[c].mproxy
           W == Walked(px)
           P == Written(W, m)
           D == WalkedC(cx)
           C == IF m = NoProxy THEN [D EXCEPT ![c] = [@ EXCEPT !.online = FALSE]] ELSE D
<1>1. px \in [Proxies -> ProxyRec] /\ cx \in [Conns -> ConnRec]
  BY DEF ServiceInv, ServiceTypeOK
<1>2. Running /\ Serving /\ cx[c].st = "open"
  BY DEF ReadShutdownCmd
<1>3. IndInv
  BY <1>2 DEF ServiceInv, BeforeWalk, Serving
<1>4. /\ m \in Proxies \cup {NoProxy}
      /\ m # NoProxy => px[m].st # "fresh"
  BY <1>1, <1>3 DEF IndInv, Bindings, BoundCreated, ConnRec, ConnFields
<1>5. /\ W \in [Proxies -> ProxyRec]
      /\ \A p \in Proxies : /\ W[p].st \in {"fresh", "closing", "closed"}
                            /\ W[p].st # px[p].st => W[p].st = "closing"
      /\ m # NoProxy => W[m].st \notin {"fresh", "failed"}
  BY <1>1, <1>4, WalkedFacts
<1>6. /\ P \in [Proxies -> ProxyRec]
      /\ \A p \in Proxies : P[p].st = W[p].st
  <2> HIDE DEF W, m
  <2>. QED BY <1>4, <1>5, WrittenFacts
<1>7. /\ D \in [Conns -> ConnRec]
      /\ \A d \in Conns : /\ D[d].st \in {"fresh", "closing", "idle"}
                          /\ cx[d].st \in {"open", "shut", "closing"} => D[d].st = "closing"
  BY <1>1, WalkedCFacts
<1>8. /\ C \in [Conns -> ConnRec]
      /\ \A d \in Conns : C[d].st = D[d].st
  <2> DEFINE r == [D[c] EXCEPT !.online = FALSE]
  <2>1. D[c] \in ConnRec /\ D[c].st = "closing"
    BY <1>2, <1>7
  <2>2. r \in ConnRec /\ r.st = "closing"
    <3> HIDE DEF D
    <3>. QED BY <2>1 DEF ConnRec, ConnFields
  <2>3. C = IF m = NoProxy THEN [D EXCEPT ![c] = r] ELSE D
    OBVIOUS
  <2> HIDE DEF r, D, C, m
  <2>. QED BY <1>7, <2>1, <2>2, <2>3
<1>9. Shutdowned("command", P, C, {c}) /\ UNCHANGED <<pool, app, loop, twice>>
  BY DEF ReadShutdownCmd
<1>10. \A p \in Proxies : /\ P[p].st \in {"fresh", "closing", "closed"}
                          /\ P[p].st # px[p].st => P[p].st = "closing"
  <2> HIDE DEF P, W
  <2>. QED BY <1>5, <1>6
<1>11. \A d \in Conns : /\ C[d].st \in {"fresh", "closing", "idle"}
                        /\ OpenC(d) => C[d].st = "closing"
  <2> HIDE DEF C, D
  <2>. QED BY <1>7, <1>8 DEF OpenC
<1> HIDE DEF P, C, W, D, m
<1>. QED BY <1>2, <1>6, <1>8, <1>9, <1>10, <1>11, ShutdownedPreserves
-----------------------------------------------------------------------------
(* Before the walk.                                                        *)

LEMMA NextRuns == Next => Running
<1>1. ASSUME NEW c \in Conns, ServerNext(c) PROVE Running
  BY <1>1 DEF ServerNext, ServerConnectCb, ReadPacket, ReadProxyCmd, ReadProxyCmdUnreachable,
              ReadProxyCloseCmd, ReadEof, ServerShutdownCb, ServerCloseCb
<1>2. ASSUME NEW p \in Proxies, ProxyNext(p) PROVE Running
  BY <1>2 DEF ProxyNext, ProxyConnectCb, ProxyConnectFailed, ProxyWriteCb, ProxyWriteFailed,
              ProxyRead, ProxyReadEof, ProxyShutdownCb, ProxyCloseCb
<1>. QED BY <1>1, <1>2 DEF Next

(* The tables keep their types, and nothing but the clock of the outside   *)
(* world moves: App_ServiceStatus is assigned, or OnStart is done.         *)
LEMMA SameTablesPreserve ==
  ASSUME ServiceInv, UNCHANGED <<vars, core, cause, nullC, nullP, twice>>,
         app' \in {-1, 0, 1}, loop' \in {"off", "on", "done"},
         cause = "none" => loop' # "done",
         loop' = "off" => loop = "off",
         loop' = "done" => loop = "done",
         Closing' => Closing
  PROVE  ServiceInv'
<1>1. UNCHANGED <<cx, px, pool, fault, hung, left, core, cause, nullC, nullP, twice>>
  BY DEF vars
<1>2. ServiceTypeOK'
  BY <1>1 DEF ServiceInv, ServiceTypeOK
<1>3. Running /\ cause = "none" => IndInv'
  <2>1. IndInv /\ UNCHANGED vars => IndInv'
    BY NextInv
  <2>. QED BY <2>1 DEF ServiceInv, BeforeWalk
<1>4. BeforeWalk'
  BY <1>1, <1>3 DEF ServiceInv, BeforeWalk, Running
<1>5. AfterWalk' /\ Unstarted'
  BY <1>1 DEF ServiceInv, AfterWalk, Unstarted
<1>6. Doomed' <=> Doomed
  BY <1>1 DEF Doomed
<1>7. DoomedDies' /\ LoopCloses'
  BY <1>1, <1>6 DEF ServiceInv, DoomedDies, LoopCloses, Running
<1>. QED BY <1>2, <1>4, <1>5, <1>7 DEF ServiceInv

LEMMA SetStatusPreserves ==
  ASSUME ServiceInv, NEW s \in {0, 1}, SetStatus(s)
  PROVE  ServiceInv'
<1>1. /\ UNCHANGED <<vars, core, cause, nullC, nullP, twice>>
      /\ app' \in {-1, 0, 1} /\ loop' = loop /\ loop \in {"off", "on", "done"}
  BY DEF SetStatus, ServiceInv, ServiceTypeOK
<1>2. cause = "none" => loop' # "done"
  BY <1>1 DEF ServiceInv, BeforeWalk
<1>3. Closing' => Closing
  BY <1>1 DEF Closing
<1>. QED BY <1>1, <1>2, <1>3, SameTablesPreserve

LEMMA ListenPreserves ==
  ASSUME ServiceInv, Listen
  PROVE  ServiceInv'
<1>1. /\ UNCHANGED <<vars, app, core, cause, nullC, nullP, twice>>
      /\ loop' = "on" /\ cause = "none" /\ app \in {-1, 0, 1}
  BY DEF Listen, ServiceInv, ServiceTypeOK, Unstarted
<1>2. ~Closing'
  BY <1>1 DEF Closing
<1>. QED BY <1>1, <1>2, SameTablesPreserve

LEMMA CallbackPreserves ==
  ASSUME ServiceInv, Callback
  PROVE  ServiceInv'
<1>1. Serving /\ Next /\ UNCHANGED <<app, loop, core, cause, nullC, nullP>>
  BY DEF Callback
<1>2. IndInv
  BY <1>1, NextRuns DEF ServiceInv, BeforeWalk, Serving
<1>3. IndInv'
  BY <1>1, <1>2, NextInv
<1>4. twice' \in BOOLEAN
  BY Zenon DEF Callback
<1>5. /\ loop' = "on" /\ cause' = "none" /\ cause = "none"
      /\ \A c \in Conns : nullC'[c] = "no"
      /\ \A p \in Proxies : nullP'[p] = "no"
  BY <1>1 DEF Serving, ServiceInv, BeforeWalk
<1>6. ServiceTypeOK'
  BY <1>1, <1>3, <1>4, <1>5 DEF ServiceInv, ServiceTypeOK, IndInv, TypeOK, ServiceFaults
<1>7. BeforeWalk' /\ AfterWalk' /\ Unstarted'
  BY <1>1, <1>3, <1>5 DEF ServiceInv, BeforeWalk, AfterWalk, Unstarted
<1>8. DoomedDies' /\ LoopCloses'
  BY <1>3, <1>5 DEF DoomedDies, Closing, LoopCloses, IndInv, TypeOK, Faults
<1>. QED BY <1>6, <1>7, <1>8 DEF ServiceInv
-----------------------------------------------------------------------------
(* After the walk.                                                         *)

(* A step of the shutdown that leaves every handle closed or closing and   *)
(* the fate of the service as it is, and dies only if it is doomed.        *)
LEMMA ClosingPreserves ==
  ASSUME ServiceInv, Closing, UNCHANGED <<loop, cause>>,
         ServiceTypeOK', AfterWalk',
         fault' # "abort_loop",
         ~Running' => Doomed,
         Doomed' <=> Doomed
  PROVE  ServiceInv'
<1>1. loop' = "on" /\ cause' # "none"
  BY DEF Closing
<1>2. BeforeWalk' /\ Unstarted' /\ LoopCloses'
  BY <1>1 DEF BeforeWalk, Unstarted, LoopCloses
<1>3. DoomedDies'
  BY <1>1 DEF DoomedDies
<1>. QED BY <1>2, <1>3 DEF ServiceInv

(* What every step of the shutdown has in common.                          *)
ClosingStep ==
  /\ Closing /\ Running /\ UNCHANGED <<loop, cause>>
  /\ ServiceTypeOK' /\ AfterWalk'
  /\ fault' # "abort_loop"
  /\ ~Running' => Doomed
  /\ Doomed' <=> Doomed

LEMMA CoreClosedStep ==
  ASSUME ServiceInv, CoreClosed
  PROVE  ClosingStep
<1>1. /\ Running /\ Closing /\ core' = "closed"
      /\ UNCHANGED <<cx, px, pool, fault, app, loop, cause, nullC, nullP, twice>>
  BY DEF CoreClosed, vars
<1>2. ServiceTypeOK' /\ AfterWalk'
  BY <1>1 DEF ServiceInv, ServiceTypeOK, AfterWalk
<1>3. fault' = "none" /\ Running'
  BY <1>1 DEF Running
<1>4. Doomed' <=> Doomed
  BY <1>1 DEF Doomed
<1>. QED BY <1>1, <1>2, <1>3, <1>4 DEF ClosingStep

LEMMA NullClosedConnStep ==
  ASSUME ServiceInv, NEW c \in Conns, NullClosedConn(c)
  PROVE  ClosingStep
<1>1. /\ Running /\ Closing /\ nullC[c] \in {"null", "shut"}
      /\ UNCHANGED <<cx, px, pool, app, loop, core, cause, nullP, twice>>
  BY DEF NullClosedConn
<1>2. /\ nullC \in [Conns -> {"no", "null", "shut", "gone"}]
      /\ \A d \in Conns : nullC[d] # "no" => cx[d].st = "closing"
  BY DEF ServiceInv, ServiceTypeOK
<1>3. AfterWalk'
  BY <1>1 DEF ServiceInv, AfterWalk
<1>4. CASE nullC[c] = "shut"
  <2>1. fault' = "double_close" /\ nullC' = nullC
    BY <1>4 DEF NullClosedConn
  <2>2. ServiceTypeOK'
    BY <1>1, <2>1 DEF ServiceInv, ServiceTypeOK, ServiceFaults, Faults
  <2>3. Doomed /\ (Doomed' <=> Doomed)
    BY <1>1, <1>4, <2>1 DEF Doomed
  <2>. QED BY <1>1, <1>3, <2>1, <2>2, <2>3 DEF ClosingStep
<1>5. CASE nullC[c] = "null"
  <2>1. nullC' = [nullC EXCEPT ![c] = "gone"] /\ fault' = "none"
    BY <1>5 DEF NullClosedConn, Running
  <2>2. /\ nullC' \in [Conns -> {"no", "null", "shut", "gone"}]
        /\ \A d \in Conns : nullC'[d] # "no" <=> nullC[d] # "no"
        /\ \A d \in Conns : nullC'[d] = "shut" <=> nullC[d] = "shut"
    BY <1>2, <1>5, <2>1
  <2>3. ServiceTypeOK'
    BY <1>1, <2>1, <2>2 DEF ServiceInv, ServiceTypeOK, ServiceFaults, Faults
  <2>4. Doomed' <=> Doomed
    BY <1>1, <2>2 DEF Doomed
  <2>. QED BY <1>1, <1>3, <2>1, <2>3, <2>4 DEF ClosingStep, Running
<1>. QED BY <1>1, <1>4, <1>5

LEMMA NullClosedProxyStep ==
  ASSUME ServiceInv, NEW p \in Proxies, NullClosedProxy(p)
  PROVE  ClosingStep
<1>1. /\ Running /\ Closing /\ nullP[p] = "null"
      /\ UNCHANGED <<cx, px, pool, app, loop, core, cause, nullC, twice>>
  BY DEF NullClosedProxy
<1>2. /\ nullP \in [Proxies -> {"no", "null", "gone"}]
      /\ \A q \in Proxies : nullP[q] # "no" => px[q].st = "closing"
  BY DEF ServiceInv, ServiceTypeOK
<1>3. AfterWalk'
  BY <1>1 DEF ServiceInv, AfterWalk
<1>4. CASE px[p].wq \/ px[p].shut # "no"
  <2>1. fault' \in {"abort_write", "double_close"} /\ nullP' = nullP
    BY <1>4 DEF NullClosedProxy
  <2>2. ServiceTypeOK'
    BY <1>1, <2>1 DEF ServiceInv, ServiceTypeOK, ServiceFaults, Faults
  <2>3. Doomed
    BY <1>1, <1>2, <1>4 DEF Doomed
  <2>4. Doomed' <=> Doomed
    BY <1>1, <2>1 DEF Doomed
  <2>. QED BY <1>1, <1>3, <2>1, <2>2, <2>3, <2>4 DEF ClosingStep
<1>5. CASE ~(px[p].wq \/ px[p].shut # "no")
  <2>1. nullP' = [nullP EXCEPT ![p] = "gone"] /\ fault' = "none"
    BY <1>5 DEF NullClosedProxy, Running
  <2>2. /\ nullP' \in [Proxies -> {"no", "null", "gone"}]
        /\ \A q \in Proxies : nullP'[q] # "no" <=> nullP[q] # "no"
        /\ \A q \in Proxies : q # p => nullP'[q] = nullP[q]
    BY <1>1, <1>2, <2>1
  <2>3. ServiceTypeOK'
    BY <1>1, <2>1, <2>2 DEF ServiceInv, ServiceTypeOK, ServiceFaults, Faults
  <2>4. Doomed' <=> Doomed
    BY <1>1, <1>5, <2>2 DEF Doomed
  <2>. QED BY <1>1, <1>3, <2>1, <2>3, <2>4 DEF ClosingStep, Running
<1>. QED BY <1>4, <1>5

(* close_cb of a client: an upstream still bound to it refuses the         *)
(* uv_shutdown, whatever its state.                                        *)
LEMMA ServerCloseCbStep ==
  ASSUME ServiceInv, Closing, NEW c \in Conns, nullC[c] = "no", ServerCloseCb(c),
         UNCHANGED service
  PROVE  ClosingStep
<1> DEFINE m == cx[c].mproxy
<1>1. Running /\ cx[c].st = "closing"
  BY DEF ServerCloseCb
<1>2. UNCHANGED <<app, loop, core, cause, nullC, nullP, twice>>
  BY DEF service
<1>3. /\ cx \in [Conns -> ConnRec] /\ px \in [Proxies -> ProxyRec] /\ pool \in Seq(Conns)
      /\ m \in Proxies \cup {NoProxy}
  BY DEF ServiceInv, ServiceTypeOK, ConnRec, ConnFields
<1>4. CASE m # NoProxy
  <2>1. ~CanShutdown(px[m])
    BY <1>3, <1>4 DEF ServiceInv, AfterWalk, Closing, CanShutdown
  <2>2. RecycleFault(px, m) = "abort_shutdown"
    BY <1>4, <2>1 DEF RecycleFault
  <2>3. fault' = "abort_shutdown" /\ UNCHANGED <<cx, px, pool>>
    BY <2>2 DEF ServerCloseCb, Finish
  <2>4. ServiceTypeOK' /\ AfterWalk'
    BY <1>2, <2>3 DEF ServiceInv, ServiceTypeOK, ServiceFaults, Faults, AfterWalk
  <2>5. Doomed
    BY <1>1, <1>4 DEF Doomed
  <2>6. Doomed' <=> Doomed
    BY <1>2, <2>3 DEF Doomed
  <2>. QED BY <1>1, <1>2, <2>3, <2>4, <2>5, <2>6 DEF ClosingStep
<1>5. CASE m = NoProxy
  <2> DEFINE r == [st |-> "idle", online |-> FALSE, mproxy |-> NoProxy]
  <2>1. RecycleFault(px, m) = "none" /\ Recycled(px, m) = px
    BY <1>5 DEF RecycleFault, Recycled
  <2>2. /\ fault' = "none" /\ px' = px /\ cx' = [cx EXCEPT ![c] = r]
        /\ pool' = Append(pool, c)
    BY <1>1, <2>1 DEF ServerCloseCb, Finish, Running, Offline, ConnPool!Pushed
  <2>3. r \in ConnRec /\ r.st = "idle"
    BY DEF ConnRec, ConnFields
  <2> HIDE DEF r
  <2>4. /\ cx' \in [Conns -> ConnRec] /\ cx'[c].st = "idle"
        /\ \A d \in Conns : d # c => cx'[d] = cx[d]
    BY <1>3, <2>2, <2>3
  <2>5. pool' \in Seq(Conns)
    BY <1>3, <2>2
  <2>6. ServiceTypeOK'
    <3>1. \A d \in Conns : nullC'[d] # "no" => cx'[d].st = "closing"
      BY <1>2, <2>4 DEF ServiceInv, ServiceTypeOK
    <3>. QED BY <1>2, <2>2, <2>4, <2>5, <3>1 DEF ServiceInv, ServiceTypeOK, ServiceFaults, Faults
  <2>7. AfterWalk'
    BY <1>2, <2>2, <2>4 DEF ServiceInv, AfterWalk
  <2>8. Doomed' <=> Doomed
    BY <1>2, <1>5, <2>2, <2>4 DEF Doomed
  <2>. QED BY <1>1, <1>2, <2>2, <2>6, <2>7, <2>8 DEF ClosingStep, Running
<1>. QED BY <1>4, <1>5

LEMMA ProxyCloseCbStep ==
  ASSUME ServiceInv, Closing, NEW p \in Proxies, nullP[p] = "no", ProxyCloseCb(p),
         UNCHANGED service
  PROVE  ClosingStep
<1> DEFINE r == [px[p] EXCEPT !.st = "closed", !.online = FALSE]
<1>1. Running /\ px[p].st = "closing"
  BY DEF ProxyCloseCb
<1>2. UNCHANGED <<app, loop, core, cause, nullC, nullP, twice>>
  BY DEF service
<1>3. UNCHANGED <<cx, pool>> /\ px \in [Proxies -> ProxyRec] /\ px[p] \in ProxyRec
  BY DEF ProxyCloseCb, Finish, ServiceInv, ServiceTypeOK
<1>4. CASE px[p].wq \/ px[p].shut # "no"
  <2>1. fault' \in {"abort_write", "double_close"} /\ px' = px
    BY <1>4 DEF ProxyCloseCb, Finish
  <2>2. ServiceTypeOK' /\ AfterWalk'
    BY <1>2, <1>3, <2>1 DEF ServiceInv, ServiceTypeOK, ServiceFaults, Faults, AfterWalk
  <2>3. Doomed
    BY <1>1, <1>4 DEF Doomed
  <2>4. Doomed' <=> Doomed
    BY <1>2, <1>3, <2>1 DEF Doomed
  <2>. QED BY <1>1, <1>2, <2>1, <2>2, <2>3, <2>4 DEF ClosingStep
<1>5. CASE ~(px[p].wq \/ px[p].shut # "no")
  <2>1. fault' = "none" /\ px' = [px EXCEPT ![p] = r]
    BY <1>1, <1>5 DEF ProxyCloseCb, Finish, Running
  <2>2. r \in ProxyRec /\ r.st = "closed"
    <3> DEFINE q == px[p]
    <3>1. q \in ProxyRec /\ q.st = "closing" /\ ~q.wq /\ q.shut = "no"
      BY <1>1, <1>3, <1>5
    <3> HIDE DEF q
    <3>2. [q EXCEPT !.st = "closed", !.online = FALSE] \in ProxyRec
      BY <3>1 DEF ProxyRec, ProxyFields
    <3>3. [q EXCEPT !.st = "closed", !.online = FALSE].st = "closed"
      BY <3>1 DEF ProxyRec, ProxyFields
    <3>. QED BY <3>2, <3>3 DEF q
  <2> HIDE DEF r
  <2>3. /\ px' \in [Proxies -> ProxyRec] /\ px'[p].st = "closed"
        /\ \A q \in Proxies : q # p => px'[q] = px[q]
    BY <1>3, <2>1, <2>2
  <2>4. ServiceTypeOK'
    <3>1. \A q \in Proxies : nullP'[q] # "no" => px'[q].st = "closing"
      BY <1>2, <2>3 DEF ServiceInv, ServiceTypeOK
    <3>. QED BY <1>2, <1>3, <2>1, <2>3, <3>1 DEF ServiceInv, ServiceTypeOK, ServiceFaults, Faults
  <2>5. AfterWalk'
    BY <1>2, <1>3, <2>3 DEF ServiceInv, AfterWalk
  <2>6. Doomed' <=> Doomed
    BY <1>2, <1>3, <1>5, <2>3 DEF Doomed
  <2>. QED BY <1>1, <1>2, <2>1, <2>4, <2>5, <2>6 DEF ClosingStep, Running
<1>. QED BY <1>4, <1>5

LEMMA CloseCbStep ==
  ASSUME ServiceInv, CloseCb
  PROVE  ClosingStep
BY ServerCloseCbStep, ProxyCloseCbStep DEF CloseCb

(* uv_run returns when libuv is done with every handle: no upstream is     *)
(* left open by a failed connect, and nothing that dooms is left either.   *)
LEMMA LoopEndsFacts ==
  ASSUME ServiceInv, LoopEnds
  PROVE  /\ Running /\ Closing /\ ~Doomed
         /\ loop' = "done" /\ fault' \in {"none", "double_free"}
         /\ UNCHANGED <<cx, px, pool, app, core, cause, nullC, nullP, twice>>
<1>1. Running /\ loop = "on" /\ Quiet
  BY DEF LoopEnds
<1>2. cause # "none"
  BY <1>1 DEF ServiceInv, BeforeWalk, Quiet
<1>3. \A p \in Proxies : px[p].st # "failed"
  BY <1>2 DEF ServiceInv, AfterWalk
<1>4. ~Doomed
  <2>1. \A c \in Conns : cx[c].st = "closing" => nullC[c] = "gone"
    BY <1>1 DEF Quiet, InUse
  <2>2. \A p \in Proxies : px[p].st = "closing" => nullP[p] = "gone"
    BY <1>1 DEF Quiet
  <2>3. \A c \in Conns : nullC[c] # "no" => cx[c].st = "closing"
    BY DEF ServiceInv, ServiceTypeOK
  <2>. QED BY <2>1, <2>2, <2>3 DEF Doomed
<1>5. loop' = "done" /\ fault' \in {"none", "double_free"}
  BY <1>1, <1>3 DEF LoopEnds, Running
<1>. QED BY <1>1, <1>2, <1>4, <1>5 DEF LoopEnds, Closing

LEMMA LoopEndsPreserves ==
  ASSUME ServiceInv, LoopEnds
  PROVE  ServiceInv'
<1>1. /\ Closing /\ ~Doomed
      /\ loop' = "done" /\ fault' \in {"none", "double_free"}
      /\ UNCHANGED <<cx, px, pool, app, core, cause, nullC, nullP, twice>>
  BY LoopEndsFacts
<1>2. ServiceTypeOK'
  BY <1>1 DEF ServiceInv, ServiceTypeOK, ServiceFaults, Faults
<1>3. BeforeWalk' /\ AfterWalk' /\ Unstarted'
  BY <1>1 DEF Closing, ServiceInv, BeforeWalk, AfterWalk, Unstarted
<1>4. ~Doomed'
  BY <1>1 DEF Doomed
<1>5. DoomedDies' /\ LoopCloses'
  BY <1>1, <1>4 DEF DoomedDies, Closing, LoopCloses
<1>. QED BY <1>2, <1>3, <1>5 DEF ServiceInv
-----------------------------------------------------------------------------
(* The steps of the shutdown, but the last.                                *)
ClosingNext ==
  \/ CloseCb
  \/ \E c \in Conns : NullClosedConn(c)
  \/ \E p \in Proxies : NullClosedProxy(p)
  \/ CoreClosed

LEMMA ClosingNextStep ==
  ASSUME ServiceInv, ClosingNext
  PROVE  ClosingStep
BY CloseCbStep, NullClosedConnStep, NullClosedProxyStep, CoreClosedStep DEF ClosingNext

LEMMA ServiceNextInv == ServiceInv /\ [ServiceNext]_svars => ServiceInv'
<1> SUFFICES ASSUME ServiceInv, [ServiceNext]_svars PROVE ServiceInv'
  OBVIOUS
<1>1. CASE UNCHANGED svars
  <2>1. /\ UNCHANGED <<vars, app, loop, core, cause, nullC, nullP, twice>>
        /\ app \in {-1, 0, 1} /\ loop \in {"off", "on", "done"}
    BY <1>1 DEF svars, service, ServiceInv, ServiceTypeOK
  <2>2. cause = "none" => loop' # "done"
    BY <2>1 DEF ServiceInv, BeforeWalk
  <2>3. Closing' => Closing
    BY <2>1 DEF Closing
  <2>. QED BY <2>1, <2>2, <2>3, SameTablesPreserve
<1>2. CASE ClosingNext
  <2>1. ClosingStep
    BY <1>2, ClosingNextStep
  <2>. QED BY <2>1, ClosingPreserves DEF ClosingStep
<1>3. CASE \/ Listen \/ Callback \/ IdleStop \/ LoopEnds
           \/ \E s \in {0, 1} : SetStatus(s)
           \/ \E c \in Conns : ReadShutdownCmd(c)
  BY <1>3, ListenPreserves, CallbackPreserves, IdleStopPreserves, LoopEndsPreserves,
     SetStatusPreserves, ReadShutdownCmdPreserves
<1>. QED BY <1>1, <1>2, <1>3 DEF ServiceNext, ClosingNext

(* What holds before and after the walk is kept by every step.             *)
LEMMA ServiceInductive == ServiceSpec => []ServiceInv
BY ServiceInitInv, ServiceNextInv, PTL DEF ServiceSpec

LEMMA FateStep ==
  ASSUME ServiceInv, [ServiceNext]_svars, Closing, Running
  PROVE  Doomed' <=> Doomed
<1>1. CASE UNCHANGED svars
  <2>1. UNCHANGED <<cx, px, nullC, nullP>>
    BY <1>1 DEF svars, service, vars
  <2>. QED BY <2>1 DEF Doomed
<1>2. CASE ClosingNext
  BY <1>2, ClosingNextStep DEF ClosingStep
<1>3. CASE LoopEnds \/ \E s \in {0, 1} : SetStatus(s)
  <2>1. UNCHANGED <<cx, px, nullC, nullP>>
    BY <1>3, LoopEndsFacts DEF SetStatus, vars
  <2>. QED BY <2>1 DEF Doomed
<1>4. ~Listen /\ ~Callback /\ ~IdleStop /\ \A c \in Conns : ~ReadShutdownCmd(c)
  BY DEF Closing, Serving, Listen, Callback, IdleStop, ReadShutdownCmd
<1>. QED BY <1>1, <1>2, <1>3, <1>4 DEF ServiceNext, ClosingNext

(* Records, upstreams and the bookkeeping of the walk stay consistent:     *)
(* what was closed with NULL is closing (myServer.cpp:305-316).            *)
THEOREM ServiceTyped == ServiceSpec => []ServiceTypeOK
<1>1. ServiceInv => ServiceTypeOK
  BY DEF ServiceInv
<1>. QED BY <1>1, ServiceInductive, PTL

(* A shutdown ends in a failed assertion only if the walk found what       *)
(* dooms it, and returns only if it did not (myServer.cpp:294-316).        *)
THEOREM DiesOnlyDoomed == ServiceSpec => []DoomedDies
<1>1. ServiceInv => DoomedDies
  BY DEF ServiceInv
<1>. QED BY <1>1, ServiceInductive, PTL

(* uv_loop_close finds no open handle (myServer.cpp:219), however the      *)
(* loop was asked to end and whatever the upstreams were doing.            *)
THEOREM LoopClosesAlways == ServiceSpec => []LoopCloses
<1>1. ServiceInv => LoopCloses
  BY DEF ServiceInv
<1>. QED BY <1>1, ServiceInductive, PTL

(* The walk of Shutdown decides how the service ends: no callback libuv    *)
(* still runs can doom it, or save it (myServer.cpp:294-316).              *)
THEOREM FateIsSealed == ServiceSpec => FateSealed
<1>1. ServiceInv /\ [ServiceNext]_svars =>
        [Closing /\ Running => (Doomed' <=> Doomed)]_svars
  BY FateStep
<1>. QED BY <1>1, ServiceInductive, PTL DEF ServiceSpec, FateSealed
-----------------------------------------------------------------------------
(* The service as its callers see it.                                      *)

LEMMA PromiseInitially == ServiceInit => Promise!Init
BY DEF ServiceInit, Promise!Init, phase

(* Shutdown is called while the service serves: it closes, or dies.        *)
LEMMA ShutdownedPromise ==
  ASSUME Running, Serving, NEW w \in {"status", "command"}, NEW S, NEW P, NEW C,
         w = "status" => app = 0,
         Shutdowned(w, P, C, S), UNCHANGED <<app, loop>>
  PROVE  Promise!Next
<1>1. phase = "serving" /\ loop' = "on"
  BY DEF phase, Running, Serving
<1>2. CASE twice
  <2>1. fault' = "corrupt_walk" /\ cause' = cause
    BY <1>2 DEF Shutdowned
  <2>2. phase' = "dead"
    BY <1>1, <2>1 DEF phase, Running
  <2>3. Promise!Die
    BY <1>1, <2>1, <2>2 DEF Promise!Die
  <2>. QED BY <2>3 DEF Promise!Next
<1>3. CASE ~twice
  <2>1. fault' = "none" /\ cause' = w
    BY <1>3 DEF Shutdowned, Running
  <2>2. phase' = "closing"
    BY <1>1, <2>1 DEF phase, Running
  <2>3. Promise!Close(w)
    BY <1>1, <2>1, <2>2 DEF Promise!Close
  <2>. QED BY <2>3 DEF Promise!Next
<1>. QED BY <1>2, <1>3

(* A step that leaves loop and cause alone stutters or dies.               *)
LEMMA QuietPromise ==
  ASSUME Running, loop = "on", UNCHANGED <<app, loop, cause>>
  PROVE  Promise!Next \/ UNCHANGED Promise!vars
<1>1. phase \in {"serving", "closing"}
  BY DEF phase, Running
<1>2. CASE Running'
  <2>1. phase' = phase
    BY <1>2 DEF phase, Running
  <2>. QED BY <2>1 DEF Promise!vars
<1>3. CASE ~Running'
  <2>1. phase' = "dead"
    BY <1>3 DEF phase
  <2>2. Promise!Die
    BY <1>1, <2>1 DEF Promise!Die
  <2>. QED BY <2>2 DEF Promise!Next
<1>. QED BY <1>2, <1>3

LEMMA PromiseStep ==
  ASSUME ServiceInv, [ServiceNext]_svars
  PROVE  Promise!Next \/ UNCHANGED Promise!vars
<1>1. CASE UNCHANGED svars
  <2>1. UNCHANGED <<app, loop, cause, fault>>
    BY <1>1 DEF svars, service, vars
  <2>. QED BY <2>1 DEF Promise!vars, phase, Running
<1>2. CASE ClosingNext
  <2>1. ClosingStep /\ app' = app
    BY <1>2, ClosingNextStep DEF ClosingNext, CloseCb, service, NullClosedConn, NullClosedProxy, CoreClosed
  <2>. QED BY <2>1, QuietPromise DEF ClosingStep, Closing
<1>3. CASE Listen
  <2>1. /\ loop = "off" /\ loop' = "on" /\ UNCHANGED <<fault, app, cause>>
        /\ fault = "none" /\ cause = "none"
    BY <1>3 DEF Listen, vars, ServiceInv, Unstarted
  <2>2. phase = "off" /\ phase' = "serving"
    BY <2>1 DEF phase, Running
  <2>3. Promise!Listen
    BY <2>1, <2>2 DEF Promise!Listen
  <2>. QED BY <2>3 DEF Promise!Next
<1>4. ASSUME NEW s \in {0, 1}, SetStatus(s)
      PROVE  Promise!Next
  <2>1. app' = s /\ UNCHANGED <<fault, loop, cause>>
    BY <1>4 DEF SetStatus, vars
  <2>2. phase' = phase
    BY <2>1 DEF phase, Running
  <2>3. Promise!SetStatus(s)
    BY <2>1, <2>2 DEF Promise!SetStatus
  <2>. QED BY <2>3 DEF Promise!Next
<1>5. CASE Callback
  <2>1. Running /\ loop = "on" /\ UNCHANGED <<app, loop, cause>>
    BY <1>5, NextRuns DEF Callback, Serving
  <2>. QED BY <2>1, QuietPromise
<1>6. CASE IdleStop
  <2>1. /\ Running /\ Serving /\ app = 0 /\ UNCHANGED <<app, loop>>
        /\ Shutdowned("status", Walked(px), WalkedC(cx), {})
    BY <1>6 DEF IdleStop
  <2>. QED BY <2>1, ShutdownedPromise
<1>7. ASSUME NEW c \in Conns, ReadShutdownCmd(c)
      PROVE  Promise!Next
  <2> DEFINE P == Written(Walked(px), cx[c].mproxy)
             C == IF cx[c].mproxy = NoProxy
                  THEN [WalkedC(cx) EXCEPT ![c] = [@ EXCEPT !.online = FALSE]]
                  ELSE WalkedC(cx)
  <2>1. /\ Running /\ Serving /\ UNCHANGED <<app, loop>>
        /\ Shutdowned("command", P, C, {c})
    BY <1>7 DEF ReadShutdownCmd
  <2> HIDE DEF P, C
  <2>. QED BY <2>1, ShutdownedPromise
<1>8. CASE LoopEnds
  <2>1. /\ Running /\ Closing /\ loop' = "done" /\ UNCHANGED <<app, cause>>
        /\ fault' \in {"none", "double_free"}
    BY <1>8, LoopEndsFacts
  <2>2. phase = "closing" /\ phase' \in {"returned", "dead"}
    BY <2>1 DEF phase, Running, Closing
  <2>3. Promise!Return \/ Promise!Die
    BY <2>1, <2>2 DEF Promise!Return, Promise!Die
  <2>. QED BY <2>3 DEF Promise!Next
<1>. QED BY <1>1, <1>2, <1>3, <1>4, <1>5, <1>6, <1>7, <1>8 DEF ServiceNext, ClosingNext

(* The service serves until it is told to stop, then closes everything and *)
(* returns, or dies (main.cpp:51-57, myServer.cpp:196-316).                *)
THEOREM PromiseKept == ServiceSpec => LifecycleRefinement
<1>1. ServiceSpec => Promise!Init
  BY PromiseInitially DEF ServiceSpec
<1>2. ServiceInv /\ [ServiceNext]_svars => [Promise!Next]_(Promise!vars)
  BY PromiseStep
<1>. QED BY <1>1, <1>2, ServiceInductive, PTL DEF ServiceSpec, LifecycleRefinement, Promise!Spec
-----------------------------------------------------------------------------
(* A server that has been told to stop through App_ServiceStatus.          *)
ToldToStop == app = 0 /\ Serving /\ Running

(* It has closed the loop, or the process has ended.                       *)
StopSeen == cause # "none" \/ ~Running

(* The idle handler can run when its guard holds; ENABLED is a word the    *)
(* prover does not know, and what IdleStop does is defined in every state. *)
StopCanRun == ToldToStop => ENABLED <<IdleStop>>_svars

(* Nothing takes back the request, and the loop does not end without it.   *)
LEMMA ToldUntilNoticed ==
  ASSUME ServiceInv, ToldToStop, [ServiceNext]_svars
  PROVE  ToldToStop' \/ StopSeen'
<1> SUFFICES ASSUME cause' = "none", Running' PROVE app' = 0 /\ loop' = "on"
  BY DEF ToldToStop, Serving, StopSeen
<1> USE DEF ToldToStop, Serving
<1>1. CASE Listen
  BY <1>1 DEF Listen
<1>2. ASSUME NEW s \in {0, 1}, SetStatus(s) PROVE app' = 0 /\ loop' = "on"
  BY <1>2 DEF SetStatus
<1>3. CASE Callback \/ IdleStop
  BY <1>3 DEF Callback, IdleStop
<1>4. ASSUME NEW c \in Conns, ReadShutdownCmd(c) PROVE app' = 0 /\ loop' = "on"
  BY <1>4 DEF ReadShutdownCmd
<1>5. CASE CloseCb
  BY <1>5 DEF CloseCb, Closing
<1>6. ASSUME NEW c \in Conns, NullClosedConn(c) PROVE app' = 0 /\ loop' = "on"
  BY <1>6 DEF NullClosedConn
<1>7. ASSUME NEW p \in Proxies, NullClosedProxy(p) PROVE app' = 0 /\ loop' = "on"
  BY <1>7 DEF NullClosedProxy
<1>8. CASE CoreClosed
  BY <1>8 DEF CoreClosed
<1>9. CASE LoopEnds
  BY <1>9, LoopEndsFacts DEF Closing
<1>10. CASE UNCHANGED svars
  BY <1>10 DEF svars, service
<1> QED
  BY <1>1, <1>2, <1>3, <1>4, <1>5, <1>6, <1>7, <1>8, <1>9, <1>10 DEF ServiceNext

(* wait_for_while calls Shutdown, or dies in it.                           *)
LEMMA IdleStopNotices == IdleStop => StopSeen'
BY DEF IdleStop, Shutdowned, Running, StopSeen

(* App_ServiceStatus 0 is noticed while the loop runs (myServer.cpp, the   *)
(* idle handler wait_for_while).                                           *)
THEOREM StopsAreNoticed == ServiceFairSpec /\ []StopCanRun => StopNoticed
<1>1. ServiceInv /\ ToldToStop /\ [ServiceNext]_svars => ToldToStop' \/ StopSeen'
  BY ToldUntilNoticed
<1>2. <<IdleStop>>_svars => StopSeen'
  BY IdleStopNotices
<1>3. /\ app = 0 /\ loop = "on" => ToldToStop \/ StopSeen
      /\ StopSeen <=> cause # "none" \/ ~Running
  BY DEF ToldToStop, Serving, StopSeen
<1> QED
  BY <1>1, <1>2, <1>3, ServiceInductive, PTL
  DEF ServiceFairSpec, ServiceSpec, StopCanRun, StopNoticed
=============================================================================
