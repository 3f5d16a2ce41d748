------------------------------ MODULE GxProxy ------------------------------
(***************************************************************************)
(* The event loop of GxProxy: client connections accepted by CxMyServer    *)
(* (GxProxy/myServer.cpp), their session objects CxMyClient                *)
(* (myClient.cpp), the upstream connections CxTcpClientProxy kept and      *)
(* reused by CxMyProxy (myProxy.cpp), and the commands that bind the one   *)
(* to the other (myCmd.cpp).                                               *)
(*                                                                         *)
(* Everything runs in the callbacks of one libuv loop, so a callback is    *)
(* one action; what interleaves is the ORDER of callbacks.  A read         *)
(* callback that delivers several packets is that many actions in a row.   *)
(* Bytes are left out: a packet is the effect it has on the bindings.      *)
(*                                                                         *)
(* The process dies at the first failing assertion of the program or of    *)
(* libuv, and its behaviour is undefined once a libuv handle has been      *)
(* initialised a second time while in use.  `fault` records which of the   *)
(* two happened, and nothing is modelled after it.                         *)
(***************************************************************************)
EXTENDS Integers, Sequences

CONSTANTS
  Conns,          \* conn_rec objects: the bound on records ever allocated
  NoConn,         \* NULL for a pointer to a client
  MaxProxies      \* the bound on CxTcpClientProxy objects ever allocated

ASSUME ConnsAssumption == NoConn \notin Conns
ASSUME MaxProxiesAssumption == MaxProxies \in Nat

Proxies == 1 .. MaxProxies      \* positions in CxMyProxy::proxyConns, plus one
NoProxy == 0                    \* NULL for a pointer to an upstream

VARIABLES
  cx,       \* cx[c]: the connection record c
  px,       \* px[p]: the upstream object p
  pool,     \* CxMyClientPool::clients
  fault,    \* "none", or what ended the process
  hung,     \* history: upstreams that closed under a client bound to them
  left      \* history: upstreams whose opener has disconnected since

vars == <<cx, px, pool, fault, hung, left>>

(* What can end the process.  The assertion XX_ASSERT(_mcli) of            *)
(* myProxy.cpp:240, "abort_owner" below, is not in the list: TypeOK says   *)
(* that it never fails.                                                    *)
Faults == {
  "none",
  "abort_shutdown",     \* XX_ASSERT(0 == uv_shutdown(..))  myProxy.cpp:202
  "abort_write",        \* XX_ASSERT(0) in write_cb          myProxy.cpp:268
  "abort_connect",      \* XX_ASSERT(r == 0) in Open         myProxy.cpp:184
  "double_close",       \* libuv's assertion that a handle is closed once
  "reinit_conn",        \* uv_tcp_init on a client handle in use
  "reinit_proxy" }      \* uv_tcp_init on an upstream handle in use

(* A client record: `st` is its uv_tcp_t ("shut": EOF seen, uv_shutdown    *)
(* requested; "closing": uv_close called), `online` is m_socket > 0, and   *)
(* `mproxy` the upstream its packets go to.                                *)
ConnFields == [ st     : {"fresh", "open", "shut", "closing", "idle"},
                online : BOOLEAN,
                mproxy : Proxies \cup {NoProxy} ]

(* A record in use may be offline only while its handle is closing.        *)
ConnRec == {r \in ConnFields :
              /\ r.st \in {"open", "shut"} => r.online
              /\ r.st \in {"fresh", "idle"} => ~r.online}

(* An upstream object: `st` is its uv_tcp_t ("failed": connect reported an *)
(* error and the handle was left open), `shut` a uv_shutdown request:      *)
(* "armed" completes when the write queue is empty, "parked" was made      *)
(* while connecting and waits for the next write; `wq` says that writes    *)
(* are queued whose callback has not run; `cli` is the client it serves.   *)
ProxyFields == [ st     : {"fresh", "connecting", "open", "failed", "closing", "closed"},
                 shut   : {"no", "armed", "parked"},
                 wq     : BOOLEAN,
                 online : BOOLEAN,
                 cli    : Conns \cup {NoConn} ]

(* IsOnline, which createClient goes by, does not miss an open upstream; a *)
(* closed one has nothing outstanding, or Open would initialise a handle   *)
(* libuv still works on; one that connects has an owner for connect_cb.    *)
ProxyRec == {r \in ProxyFields :
               /\ r.st = "open" => r.online
               /\ r.online => r.st \in {"open", "closing"}
               /\ r.st \in {"connecting", "open"} => r.cli # NoConn
               /\ r.st \in {"fresh", "closed"} => ~r.wq /\ r.shut = "no"
               /\ r.st = "failed" => ~r.wq}

(* Every connection record and every upstream object is consistent, and    *)
(* the process ends for one of the known reasons only.                     *)
TypeOK ==
  /\ cx \in [Conns -> ConnRec]
  /\ px \in [Proxies -> ProxyRec]
  /\ pool \in Seq(Conns)
  /\ fault \in Faults
  /\ hung \subseteq Proxies
  /\ left \subseteq Proxies

Init ==
  /\ cx = [c \in Conns |-> [st |-> "fresh", online |-> FALSE, mproxy |-> NoProxy]]
  /\ px = [p \in Proxies |-> [st |-> "fresh", shut |-> "no", wq |-> FALSE,
                              online |-> FALSE, cli |-> NoConn]]
  /\ pool = <<>>
  /\ fault = "none"
  /\ hung = {}
  /\ left = {}

InUse(c) == cx[c].st \in {"open", "shut", "closing"}

ConnPool == INSTANCE ConnPool WITH
  Records <- Conns,
  fresh   <- {c \in Conns : cx[c].st = "fresh"},
  live    <- {c \in Conns : InUse(c)},
  clash   <- fault = "reinit_conn"
-----------------------------------------------------------------------------
(* Mutations of definitions below, used to validate the properties.        *)

\* mycmd_client_proxy without `_tcp->cli = cli`.
OpenedWithoutOwner(P, p, c) ==
  [P EXCEPT ![p] = [@ EXCEPT !.st = "connecting", !.shut = "no", !.wq = FALSE]]

\* Recycle as its commented-out body would have it: nothing is shut down.
RecycledNot(P, m) == P

-----------------------------------------------------------------------------
(* libuv, as the upstream side uses it (uv 1.11, unix).                    *)

(* uv_shutdown accepts a connecting or connected stream that has no        *)
(* shutdown request yet.                                                   *)
CanShutdown(r) == r.st \in {"connecting", "open", "failed"} /\ r.shut = "no"

Shutdown(r) ==
  [r EXCEPT !.shut = IF r.st = "connecting" THEN "parked" ELSE "armed"]

(* uv_write queues the buffer; on a handle being closed it returns EBADF.  *)
(* A write restarts the polling that a parked shutdown waits for.          *)
CanWrite(r) == r.st \notin {"closing", "closed"}

Queued(r) ==
  [r EXCEPT !.wq = TRUE,
            !.shut = IF r.st = "open" /\ r.shut = "parked" THEN "armed" ELSE r.shut]

(* uv_tcp_init re-initialises the handle.  It is harmless when no request  *)
(* of the handle is outstanding and it is not in the closing list.         *)
Busy(r) == r.st \in {"connecting", "open", "closing"} \/ r.shut # "no"
-----------------------------------------------------------------------------
(* CxMyProxy and CxTcpClientProxy, as functions on the table of upstreams; *)
(* m is a m_proxy pointer, NoProxy included.                               *)

(* SendPto on an upstream: CxMyProxy::OnTcpSend.  When uv_write refuses,   *)
(* the upstream is marked offline and nothing else.                        *)
Written(P, m) ==
  IF m = NoProxy THEN P
  ELSE [P EXCEPT ![m] = IF CanWrite(@) THEN Queued(@) ELSE [@ EXCEPT !.online = FALSE]]

(* A write on a socket whose connect failed errors at once.                *)
WriteFault(P, m) ==
  IF m # NoProxy /\ P[m].st = "failed" THEN "abort_write" ELSE "none"

(* CxMyProxy::Recycle -> CxTcpClientProxy::Close.                          *)
Recycled(P, m) == IF m = NoProxy THEN P ELSE [P EXCEPT ![m] = Shutdown(@)]

RecycleFault(P, m) ==
  IF m # NoProxy /\ ~CanShutdown(P[m]) THEN "abort_shutdown" ELSE "none"

(* CxMyProxy::createClient returns the first object of the vector that is  *)
(* not online, or a new one at its end.  Objects are allocated in order,   *)
(* and one not allocated yet is not online.                                *)
CreateClient(p) == ~px[p].online /\ \A q \in Proxies : q < p => px[q].online

(* CxTcpClientProxy::Open on a socket of its own, and `_tcp->cli = cli`.   *)
Opened(P, p, c) ==
  [P EXCEPT ![p] = [@ EXCEPT !.st = "connecting", !.shut = "no", !.wq = FALSE, !.cli = c]]

(* The clients whose packets go to p.                                      *)
Bound(p) == {c \in Conns : cx[c].mproxy = p}

(* A callback runs to its end, or the process ends in it at f.             *)
Running == fault = "none"

Finish(f, P, C) ==
  IF f = "none"
  THEN px' = P /\ cx' = C /\ UNCHANGED fault
  ELSE fault' = f /\ UNCHANGED <<px, cx>>
-----------------------------------------------------------------------------
(* The listening side: CxMyServer.                                         *)

(* connect_cb: a connection is accepted into a record of the pool.  The    *)
(* record's m_proxy is left as it is.                                      *)
ServerConnectCb(c) ==
  /\ Running
  /\ ConnPool!NewConn(c)
  /\ Finish(IF InUse(c) THEN "reinit_conn" ELSE "none",
            px, [cx EXCEPT ![c].st = "open", ![c].online = TRUE])
  /\ UNCHANGED <<hung, left>>

(* read_cb -> Recv -> OnTcpRecv: a packet that is no command, @!VER, or    *)
(* @!PROXY without arguments.  It is forwarded to the upstream, or echoed. *)
ReadPacket(c) ==
  /\ Running
  /\ cx[c].st = "open"
  /\ Finish(WriteFault(px, cx[c].mproxy), Written(px, cx[c].mproxy), cx)
  /\ UNCHANGED <<pool, hung, left>>

(* @!PROXY <ip> <port>: an upstream is opened for c; m_proxy follows only  *)
(* once it is connected, so the command itself is still forwarded to the   *)
(* upstream c had before.                                                  *)
ReadProxyCmd(c, p) ==
  LET m == cx[c].mproxy
      P == Opened(px, p, c)
      f == IF Busy(px[p]) THEN "reinit_proxy" ELSE WriteFault(P, m)
  IN  /\ Running
      /\ cx[c].st = "open"
      /\ CreateClient(p)
      /\ Finish(f, Written(P, m), cx)
      /\ hung' = IF f = "none" /\ Bound(p) = {} THEN hung \ {p} ELSE hung
      /\ left' = IF f = "none" THEN left \ {p} ELSE left
      /\ UNCHANGED pool

(* The same with a target that cannot be reached: connect() fails at once  *)
(* and, unless the error is ECONNREFUSED, uv_tcp_connect returns it.       *)
ReadProxyCmdUnreachable(c, p) ==
  /\ Running
  /\ cx[c].st = "open"
  /\ CreateClient(p)
  /\ ~Busy(px[p])
  /\ fault' = "abort_connect"
  /\ UNCHANGED <<cx, px, pool, hung, left>>

\* Mutation: @!PROXY CLOSE without `cli->m_proxy = NULL`.
ReadProxyCloseCmdKeeps(c) ==
  LET m == cx[c].mproxy
  IN  /\ Running
      /\ cx[c].st = "open"
      /\ m # NoProxy
      /\ Finish(RecycleFault(px, m), Recycled(px, m), cx)
      /\ UNCHANGED <<pool, hung, left>>

(* @!PROXY CLOSE: the upstream is recycled; the command is echoed.         *)
ReadProxyCloseCmd(c) ==
  LET m == cx[c].mproxy
  IN  /\ Running
      /\ cx[c].st = "open"
      /\ m # NoProxy
      /\ Finish(RecycleFault(px, m), Recycled(px, m), [cx EXCEPT ![c].mproxy = NoProxy])
      /\ UNCHANGED <<pool, hung, left>>

(* read_cb with EOF or an error: uv_shutdown is requested, reading stops.  *)
ReadEof(c) ==
  /\ Running
  /\ cx[c].st = "open"
  /\ cx' = [cx EXCEPT ![c].st = "shut"]
  /\ UNCHANGED <<px, pool, fault, hung, left>>

\* Mutation: DeleteConn when uv_close is requested instead of in close_cb.
ServerShutdownCbDeletes(c) ==
  /\ Running
  /\ cx[c].st = "shut"
  /\ cx' = [cx EXCEPT ![c].st = "closing"]
  /\ pool' = ConnPool!Pushed(pool, c)
  /\ UNCHANGED <<px, fault, hung, left>>

(* shutdown_cb: uv_close.                                                  *)
ServerShutdownCb(c) ==
  /\ Running
  /\ cx[c].st = "shut"
  /\ cx' = [cx EXCEPT ![c].st = "closing"]
  /\ UNCHANGED <<px, pool, fault, hung, left>>

\* Mutation: SetFD(-1) without `m_proxy = NULL`.
OfflineStillBound(c, st) == [cx EXCEPT ![c] = [@ EXCEPT !.st = st, !.online = FALSE]]

(* CxMyClient::SetFD(-1): the upstream is recycled, whether or not the     *)
(* record was still online.                                                *)
Offline(c, st) == [cx EXCEPT ![c] = [st |-> st, online |-> FALSE, mproxy |-> NoProxy]]

(* close_cb: SetFD(-1), then DeleteConn.                                   *)
ServerCloseCb(c) ==
  LET m == cx[c].mproxy
  IN  /\ Running
      /\ cx[c].st = "closing"
      /\ Finish(RecycleFault(px, m), Recycled(px, m), Offline(c, "idle"))
      /\ pool' = IF RecycleFault(px, m) = "none" THEN ConnPool!Pushed(pool, c) ELSE pool
      /\ left' = left \cup {p \in Proxies : px[p].cli = c}
      /\ UNCHANGED hung
-----------------------------------------------------------------------------
(* The upstream side: CxTcpClientProxy.                                    *)

(* SetFD(sock); writes queued while connecting keep libuv polling, and     *)
(* with it a parked shutdown.                                              *)
Connected(r) ==
  [r EXCEPT !.st = "open", !.online = TRUE,
            !.shut = IF r.shut = "parked" /\ r.wq THEN "armed" ELSE r.shut]

(* connect_cb with status 0: the upstream is online and its client's       *)
(* packets go to it from now on.                                           *)
ProxyConnectCb(p) ==
  LET c == px[p].cli
  IN  /\ Running
      /\ px[p].st = "connecting"
      /\ IF c = NoConn
         THEN fault' = "abort_owner" /\ UNCHANGED <<px, cx>>
         ELSE Finish("none",
                [px EXCEPT ![p] = Connected(@)],
                [cx EXCEPT ![c].mproxy = p])
      /\ UNCHANGED <<pool, hung, left>>

(* connect_cb with an error: it only returns.  libuv then cancels what had *)
(* been queued, and write_cb asserts.                                      *)
ProxyConnectFailed(p) ==
  /\ Running
  /\ px[p].st = "connecting"
  /\ Finish(IF px[p].wq THEN "abort_write" ELSE "none", [px EXCEPT ![p].st = "failed"], cx)
  /\ UNCHANGED <<pool, hung, left>>

(* write_cb, status 0.                                                     *)
ProxyWriteCb(p) ==
  /\ Running
  /\ px[p].st = "open" /\ px[p].wq
  /\ px' = [px EXCEPT ![p].wq = FALSE]
  /\ UNCHANGED <<cx, pool, fault, hung, left>>

(* A queued write fails because the target is gone.                        *)
ProxyWriteFailed(p) ==
  /\ Running
  /\ px[p].st = "open" /\ px[p].wq
  /\ fault' = "abort_write"
  /\ UNCHANGED <<cx, px, pool, hung, left>>

(* CxMyClient::Send returns at once to an offline client; to one whose     *)
(* handle is closing uv_write refuses, and Send takes it offline.          *)
SendRefused(c) == cx[c].online /\ cx[c].st = "closing"

(* read_cb with data -> OnTcpRecv -> SendPto to the client.  It makes a    *)
(* difference only if the write is refused: SetFD(-1) then runs in the     *)
(* middle of the upstream's callback.                                      *)
ProxyRead(p) ==
  LET c == px[p].cli
      m == cx[c].mproxy
  IN  /\ Running
      /\ px[p].st = "open"
      /\ c # NoConn
      /\ SendRefused(c)
      /\ Finish(RecycleFault(px, m), Recycled(px, m), Offline(c, cx[c].st))
      /\ UNCHANGED <<pool, hung, left>>

(* read_cb with EOF or an error: uv_close at once.  The client bound to it *)
(* is not told.                                                            *)
ProxyReadEof(p) ==
  /\ Running
  /\ px[p].st = "open"
  /\ px' = [px EXCEPT ![p].st = "closing"]
  /\ hung' = IF Bound(p) = {} THEN hung ELSE hung \cup {p}
  /\ UNCHANGED <<cx, pool, fault, left>>

(* The write queue has drained, and shutdown_cb calls uv_close.            *)
ProxyShutdownCb(p) ==
  /\ Running
  /\ px[p].st \in {"open", "failed"} /\ px[p].shut = "armed"
  /\ px' = [px EXCEPT ![p] = [@ EXCEPT !.st = "closing", !.shut = "no", !.wq = FALSE]]
  /\ UNCHANGED <<cx, pool, fault, hung, left>>

(* libuv finishes the close: it cancels queued writes (write_cb asserts),  *)
(* then a pending shutdown (shutdown_cb closes the handle a second time),  *)
(* then runs close_cb.                                                     *)
ProxyCloseCb(p) ==
  /\ Running
  /\ px[p].st = "closing"
  /\ Finish(IF px[p].wq THEN "abort_write"
            ELSE IF px[p].shut # "no" THEN "double_close" ELSE "none",
            [px EXCEPT ![p] = [@ EXCEPT !.st = "closed", !.online = FALSE]], cx)
  /\ UNCHANGED <<pool, hung, left>>
-----------------------------------------------------------------------------
ServerNext(c) ==
  \/ ServerConnectCb(c)
  \/ ReadPacket(c)
  \/ \E p \in Proxies : ReadProxyCmd(c, p)
  \/ \E p \in Proxies : ReadProxyCmdUnreachable(c, p)
  \/ ReadProxyCloseCmd(c)
  \/ ReadEof(c)
  \/ ServerShutdownCb(c)
  \/ ServerCloseCb(c)

ProxyNext(p) ==
  \/ ProxyConnectCb(p)
  \/ ProxyConnectFailed(p)
  \/ ProxyWriteCb(p)
  \/ ProxyWriteFailed(p)
  \/ ProxyRead(p)
  \/ ProxyReadEof(p)
  \/ ProxyShutdownCb(p)
  \/ ProxyCloseCb(p)

Next == (\E c \in Conns : ServerNext(c)) \/ (\E p \in Proxies : ProxyNext(p))

Spec == Init /\ [][Next]_vars

(* libuv completes what was requested of it: a connect ends one way or the *)
(* other, a shutdown follows the last write, a close follows uv_close.  Of *)
(* the peers it is assumed that they go on reading or go away: a peer that *)
(* stays and never reads would hold a write, and the shutdown behind it,   *)
(* for ever.                                                               *)
ClientFairness(c) == WF_vars(ServerShutdownCb(c)) /\ WF_vars(ServerCloseCb(c))

ProxyFairness(p) ==
  /\ WF_vars(ProxyConnectCb(p) \/ ProxyConnectFailed(p))
  /\ WF_vars(ProxyWriteCb(p) \/ ProxyWriteFailed(p))
  /\ WF_vars(ProxyShutdownCb(p))
  /\ WF_vars(ProxyCloseCb(p))

Fairness == (\A c \in Conns : ClientFairness(c)) /\ (\A p \in Proxies : ProxyFairness(p))

FairSpec == Spec /\ Fairness
-----------------------------------------------------------------------------
(* One upstream, one client: while no upstream has closed under its        *)
(* client, the m_proxy of a client designates an open upstream that was    *)
(* opened for this very client and is not being shut down.  Hence no two   *)
(* clients share an upstream and data and replies take the same path.      *)
Isolation ==
  \A c \in Conns, p \in Proxies :
    cx[c].mproxy = p /\ p \notin hung =>
      px[p].cli = c /\ px[p].st = "open" /\ px[p].shut = "no"

(* What it takes to end the process.  Unless some target has closed under  *)
(* its client (hung), the assertion in Close (myProxy.cpp:202) never fails,*)
(* createClient hands out a handle libuv still works on only while a       *)
(* connect is under way, and write_cb asserts (myProxy.cpp:268) only for   *)
(* an upstream that was connected: a command, whenever it is sent, and a   *)
(* connect that fails cannot bring it about.  A handle is closed twice     *)
(* only if its target leaves after the client has let go of the upstream.  *)
FaultCauses ==
  /\ fault = "abort_shutdown" => hung # {}
  /\ fault = "reinit_proxy" => hung # {} \/ \E p \in Proxies : px[p].st = "connecting"
  /\ fault = "abort_write" =>
       hung # {} \/ \E p \in Proxies : px[p].st \in {"open", "closing"} /\ px[p].wq
  /\ fault = "double_close" =>
       hung # {} \/ \E p \in Proxies :
                       px[p].st = "closing" /\ px[p].shut # "no" /\ Bound(p) = {}

(* The pool of records the server uses is the pool of module ConnPool.     *)
PoolRefinement == ConnPool!Spec

(* What a client leaves behind is cleaned up: if a client hangs up and     *)
(* none of its @!PROXY commands is still connecting, the upstream it uses  *)
(* goes offline (or the process ends).                                     *)
Connecting(c) == {p \in Proxies : px[p].st = "connecting" /\ px[p].cli = c}

UpstreamFollowsClient ==
  \A c \in Conns, p \in Proxies :
    cx[c].st = "shut" /\ cx[c].mproxy = p /\ Connecting(c) = {}
      ~> ~px[p].online \/ ~Running

(* A client that hung up gets its record back into the pool.               *)
RecordComesBack ==
  \A c \in Conns : cx[c].st = "shut" ~> (\E i \in 1 .. Len(pool) : pool[i] = c) \/ ~Running
-----------------------------------------------------------------------------
(* What the program's assertions and comments say of it, and it does not   *)
(* do; each is the subject of a run that ends in a counterexample.         *)

(* XX_ASSERT(0 == uv_shutdown(..)) of myProxy.cpp:202.                     *)
RecycleNeverAborts == fault # "abort_shutdown"

(* "Take one from the recycled ones" (myProxy.cpp:93): the object that     *)
(* createClient reuses is one whose last connection is over.               *)
ReusesRecycled == fault # "reinit_proxy"

(* "A separate socket to the target server" (myProxy.h:67): a client's     *)
(* packets never go to an upstream opened by a client that has left.       *)
SeparateSocket ==
  \A c \in Conns : cx[c].st = "open" => cx[c].mproxy \notin left
=============================================================================
