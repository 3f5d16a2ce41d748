--------------------------- MODULE GxProxyProofs ---------------------------
(***************************************************************************)
(* Proofs about the event loop, for any number of client records and       *)
(* upstream objects: TypeOK, Isolation and FaultCauses hold in every       *)
(* reachable state, the pool is the one of ConnPool, and what a client     *)
(* used is released in the end.  Isolation is not inductive by itself:     *)
(* that a client is bound to an upstream just connected, with no shutdown  *)
(* request outstanding, needs CleanUnlessHung, and that a write or a       *)
(* shutdown meets an initialised handle needs BoundCreated.                *)
(***************************************************************************)
EXTENDS GxProxy, TLAPS

(* An upstream no client was left hanging on has no early shutdown request *)
(* or write and is not taken offline before its close is finished.         *)
CleanUnlessHung ==
  \A p \in Proxies : p \notin hung =>
    /\ px[p].st \in {"connecting", "failed"} => px[p].shut = "no"
    /\ px[p].st = "connecting" => ~px[p].wq
    /\ px[p].st = "closing" => px[p].online

(* m_proxy designates an object that was opened at least once.             *)
BoundCreated ==
  \A c \in Conns, p \in Proxies : cx[c].mproxy = p => px[p].st # "fresh"

Bindings == Isolation /\ CleanUnlessHung /\ BoundCreated

IndInv == TypeOK /\ Bindings /\ FaultCauses
-----------------------------------------------------------------------------
(* The operators the handlers are built from.                              *)

LEMMA NullIsNoProxy == NoProxy \notin Proxies
BY MaxProxiesAssumption DEF NoProxy, Proxies

LEMMA WrittenFacts ==
  ASSUME NEW P \in [Proxies -> ProxyRec], NEW m \in Proxies \cup {NoProxy},
         m # NoProxy => P[m].st \notin {"fresh", "failed"}
  PROVE  /\ Written(P, m) \in [Proxies -> ProxyRec]
         /\ \A p \in Proxies :
              /\ Written(P, m)[p].st = P[p].st
              /\ Written(P, m)[p].cli = P[p].cli
              /\ P[p].shut = "no" => Written(P, m)[p].shut = "no"
              /\ p # m => Written(P, m)[p] = P[p]
<1>1. CASE m = NoProxy
  BY <1>1 DEF Written
<1>2. CASE m # NoProxy
  <2> DEFINE r == P[m]
             s == IF CanWrite(r) THEN Queued(r) ELSE [r EXCEPT !.online = FALSE]
  <2>1. m \in Proxies /\ r \in ProxyRec /\ r.st \notin {"fresh", "failed"}
    BY <1>2
  <2>2. /\ s \in ProxyRec
        /\ s.st = r.st /\ s.cli = r.cli
        /\ r.shut = "no" => s.shut = "no"
    <3> HIDE DEF r
    <3> QED
      BY <2>1 DEF ProxyRec, ProxyFields, CanWrite, Queued
  <2>3. Written(P, m) = [P EXCEPT ![m] = s]
    BY <1>2 DEF Written
  <2> HIDE DEF s
  <2> QED
    BY <2>1, <2>2, <2>3
<1> QED
  BY <1>1, <1>2

LEMMA RecycledFacts ==
  ASSUME NEW P \in [Proxies -> ProxyRec], NEW m \in Proxies \cup {NoProxy},
         RecycleFault(P, m) = "none"
  PROVE  /\ Recycled(P, m) \in [Proxies -> ProxyRec]
         /\ \A p \in Proxies :
              /\ Recycled(P, m)[p].st = P[p].st
              /\ Recycled(P, m)[p].cli = P[p].cli
              /\ Recycled(P, m)[p].online = P[p].online
              /\ Recycled(P, m)[p].wq = P[p].wq
              /\ p # m => Recycled(P, m)[p] = P[p]
<1>1. CASE m = NoProxy
  BY <1>1 DEF Recycled
<1>2. CASE m # NoProxy
  <2> DEFINE r == P[m]
             s == Shutdown(r)
  <2>1. m \in Proxies /\ r \in ProxyRec /\ CanShutdown(r)
    BY <1>2 DEF RecycleFault
  <2>2. s \in ProxyRec /\ s.st = r.st /\ s.cli = r.cli /\ s.online = r.online /\ s.wq = r.wq
    <3> HIDE DEF r
    <3> QED
      BY <2>1 DEF ProxyRec, ProxyFields, CanShutdown, Shutdown
  <2>3. Recycled(P, m) = [P EXCEPT ![m] = s]
    BY <1>2 DEF Recycled
  <2> HIDE DEF s
  <2> QED
    BY <2>1, <2>2, <2>3
<1> QED
  BY <1>1, <1>2

LEMMA OpenedFacts ==
  ASSUME NEW P \in [Proxies -> ProxyRec], NEW p \in Proxies, NEW c \in Conns,
         ~P[p].online
  PROVE  /\ Opened(P, p, c) \in [Proxies -> ProxyRec]
         /\ Opened(P, p, c)[p].st = "connecting"
         /\ Opened(P, p, c)[p].shut = "no"
         /\ ~Opened(P, p, c)[p].wq
         /\ Opened(P, p, c)[p].cli = c
         /\ \A q \in Proxies : q # p => Opened(P, p, c)[q] = P[q]
<1> DEFINE r == P[p]
           s == [r EXCEPT !.st = "connecting", !.shut = "no", !.wq = FALSE, !.cli = c]
<1>1. r \in ProxyRec /\ ~r.online
  OBVIOUS
<1>2. s \in ProxyRec /\ s.st = "connecting" /\ s.shut = "no" /\ ~s.wq /\ s.cli = c
  <2> HIDE DEF r
  <2> QED
    BY <1>1, ConnsAssumption DEF ProxyRec, ProxyFields
<1>3. Opened(P, p, c) = [P EXCEPT ![p] = s]
  BY DEF Opened
<1> HIDE DEF s
<1> QED
  BY <1>2, <1>3
-----------------------------------------------------------------------------
(* The bindings, handler by handler.                                       *)

(* While no target has closed under it, a bound upstream can be written    *)
(* to and shut down.                                                       *)
LEMMA BoundIsUsable ==
  ASSUME IndInv, NEW c \in Conns, RecycleFault(px, cx[c].mproxy) # "none"
  PROVE  hung # {}
<1>1. cx[c].mproxy \in Proxies /\ ~CanShutdown(px[cx[c].mproxy])
  BY DEF RecycleFault, IndInv, TypeOK, ConnRec, ConnFields
<1> QED
  BY <1>1 DEF IndInv, Bindings, Isolation, CanShutdown

(* A client gives up its upstream and the upstream is recycled: @!PROXY    *)
(* CLOSE and SetFD(-1).                                                    *)
LEMMA DetachPreserves ==
  ASSUME IndInv, NEW c \in Conns, NEW r \in ConnRec, r.mproxy = NoProxy,
         RecycleFault(px, cx[c].mproxy) = "none",
         px' = Recycled(px, cx[c].mproxy), cx' = [cx EXCEPT ![c] = r],
         hung' = hung
  PROVE  /\ px' \in [Proxies -> ProxyRec]
         /\ cx' \in [Conns -> ConnRec]
         /\ Bindings'
<1> DEFINE m == cx[c].mproxy
<1>1. m \in Proxies \cup {NoProxy}
  BY DEF IndInv, TypeOK, ConnRec, ConnFields
<1>2. /\ px' \in [Proxies -> ProxyRec]
      /\ \A p \in Proxies : /\ px'[p].st = px[p].st
                            /\ px'[p].cli = px[p].cli
                            /\ px'[p].online = px[p].online
                            /\ px'[p].wq = px[p].wq
                            /\ p # m => px'[p] = px[p]
  BY <1>1, RecycledFacts DEF IndInv, TypeOK
<1>3. /\ cx' \in [Conns -> ConnRec]
      /\ cx'[c].mproxy = NoProxy
      /\ \A d \in Conns : d # c => cx'[d] = cx[d]
  BY DEF IndInv, TypeOK
<1>4. Isolation'
  <2> SUFFICES ASSUME NEW d \in Conns, NEW p \in Proxies,
                      cx'[d].mproxy = p, p \notin hung
               PROVE  px'[p].cli = d /\ px'[p].st = "open" /\ px'[p].shut = "no"
    BY DEF Isolation
  <2>1. d # c /\ cx[d].mproxy = p
    BY <1>3, NullIsNoProxy
  <2>2. px[p].cli = d /\ px[p].st = "open" /\ px[p].shut = "no"
    BY <2>1 DEF IndInv, Bindings, Isolation
  <2>3. p # m
    BY <2>1, <2>2 DEF IndInv, Bindings, Isolation
  <2> QED
    BY <1>2, <2>2, <2>3
<1>5. CleanUnlessHung'
  <2> SUFFICES ASSUME NEW p \in Proxies, p \notin hung
               PROVE  /\ px'[p].st \in {"connecting", "failed"} => px'[p].shut = "no"
                      /\ px'[p].st = "connecting" => ~px'[p].wq
                      /\ px'[p].st = "closing" => px'[p].online
    BY DEF CleanUnlessHung
  <2>1. CASE p = m
    BY <1>2, <2>1 DEF IndInv, Bindings, Isolation
  <2>2. CASE p # m
    BY <1>2, <2>2 DEF IndInv, Bindings, CleanUnlessHung
  <2> QED
    BY <2>1, <2>2
<1>6. BoundCreated'
  BY <1>2, <1>3, NullIsNoProxy DEF IndInv, Bindings, BoundCreated
<1> QED
  BY <1>2, <1>3, <1>4, <1>5, <1>6 DEF Bindings

(* A handler that only ends the process leaves the tables as they are.     *)
LEMMA CrashPreserves ==
  ASSUME IndInv, UNCHANGED <<px, cx, hung, left>>, pool' \in Seq(Conns),
         fault' \in Faults, FaultCauses'
  PROVE  IndInv'
BY DEF IndInv, TypeOK, Bindings, Isolation, CleanUnlessHung, BoundCreated

(* A packet of c travels upstream.                                         *)
LEMMA WriteTarget ==
  ASSUME IndInv, NEW c \in Conns, WriteFault(px, cx[c].mproxy) = "none"
  PROVE  /\ cx[c].mproxy \in Proxies \cup {NoProxy}
         /\ cx[c].mproxy # NoProxy =>
              px[cx[c].mproxy].st \notin {"fresh", "failed"}
BY DEF IndInv, TypeOK, ConnRec, ConnFields, Bindings, BoundCreated, WriteFault

(* A write that fails at once goes to an upstream that closed under its    *)
(* client before.                                                          *)
LEMMA WriteFaultHung ==
  ASSUME IndInv, NEW c \in Conns, WriteFault(px, cx[c].mproxy) # "none"
  PROVE  hung # {}
<1>1. cx[c].mproxy \in Proxies /\ px[cx[c].mproxy].st = "failed"
  BY DEF WriteFault, IndInv, TypeOK, ConnRec, ConnFields
<1> QED
  BY <1>1 DEF IndInv, Bindings, Isolation

(* Writing keeps an upstream that no client was left hanging on online:    *)
(* its handle is open.                                                     *)
LEMMA WriteKeepsOnline ==
  ASSUME IndInv, NEW c \in Conns, NEW p \in Proxies, p \notin hung,
         cx[c].mproxy = p
  PROVE  px[p].st = "open"
BY DEF IndInv, Bindings, Isolation

(* A table of upstreams with one row replaced, or written to, and the      *)
(* clients' bindings untouched.                                            *)
LEMMA WritePreserves ==
  ASSUME IndInv, NEW c \in Conns, WriteFault(px, cx[c].mproxy) = "none",
         px' = Written(px, cx[c].mproxy), UNCHANGED <<cx, hung>>
  PROVE  px' \in [Proxies -> ProxyRec] /\ Bindings'
<1> DEFINE m == cx[c].mproxy
<1>1. m \in Proxies \cup {NoProxy} /\ (m # NoProxy => px[m].st \notin {"fresh", "failed"})
  BY WriteTarget
<1>2. /\ px' \in [Proxies -> ProxyRec]
      /\ \A p \in Proxies : /\ px'[p].st = px[p].st
                            /\ px'[p].cli = px[p].cli
                            /\ px[p].shut = "no" => px'[p].shut = "no"
                            /\ p # m => px'[p] = px[p]
  BY <1>1, WrittenFacts DEF IndInv, TypeOK
<1>3. Isolation'
  BY <1>2 DEF IndInv, Bindings, Isolation
<1>4. CleanUnlessHung'
  <2> SUFFICES ASSUME NEW p \in Proxies, p \notin hung
               PROVE  /\ px'[p].st \in {"connecting", "failed"} => px'[p].shut = "no"
                      /\ px'[p].st = "connecting" => ~px'[p].wq
                      /\ px'[p].st = "closing" => px'[p].online
    BY DEF CleanUnlessHung
  <2>1. CASE p = m
    BY <1>2, <2>1, WriteKeepsOnline
  <2>2. CASE p # m
    BY <1>2, <2>2 DEF IndInv, Bindings, CleanUnlessHung
  <2> QED
    BY <2>1, <2>2
<1>5. BoundCreated'
  BY <1>2 DEF IndInv, Bindings, BoundCreated
<1> QED
  BY <1>2, <1>3, <1>4, <1>5 DEF Bindings

(* One upstream p changes its row to r.                                    *)
LEMMA RowPreserves ==
  ASSUME IndInv, NEW p \in Proxies, NEW r \in ProxyRec,
         px' = [px EXCEPT ![p] = r], cx' = cx,
         hung \subseteq hung', hung' \subseteq Proxies,
         r.st # "fresh",
         p \notin hung' =>
           /\ Bound(p) # {} => /\ r.cli = px[p].cli
                               /\ r.st = "open"
                               /\ r.shut = "no"
           /\ r.st \in {"connecting", "failed"} => r.shut = "no"
           /\ r.st = "connecting" => ~r.wq
           /\ r.st = "closing" => r.online
  PROVE  px' \in [Proxies -> ProxyRec] /\ Bindings'
<1>1. /\ px' \in [Proxies -> ProxyRec]
      /\ px'[p] = r
      /\ \A q \in Proxies : q # p => px'[q] = px[q]
  BY DEF IndInv, TypeOK
<1>2. Isolation'
  BY <1>1 DEF IndInv, Bindings, Isolation, Bound
<1>3. CleanUnlessHung'
  BY <1>1 DEF IndInv, Bindings, CleanUnlessHung
<1>4. BoundCreated'
  BY <1>1 DEF IndInv, Bindings, BoundCreated
<1> QED
  BY <1>1, <1>2, <1>3, <1>4 DEF Bindings

LEMMA FaultFree == fault' = "none" => FaultCauses'
BY DEF FaultCauses
-----------------------------------------------------------------------------
(* The listening side.                                                     *)

LEMMA ServerConnectCbPreserves ==
  ASSUME IndInv, NEW c \in Conns, ServerConnectCb(c)
  PROVE  IndInv'
<1>1. pool' \in Seq(Conns)
  <2>1. CASE pool = <<>>
    BY <2>1 DEF ServerConnectCb, ConnPool!NewConn, IndInv, TypeOK
  <2>2. CASE pool # <<>>
    <3>1. pool' = Tail(pool)
      BY <2>2 DEF ServerConnectCb, ConnPool!NewConn
    <3>2. pool \in Seq(Conns)
      BY DEF IndInv, TypeOK
    <3> QED
      BY ONLY <2>2, <3>1, <3>2
  <2> QED
    BY <2>1, <2>2
<1>2. CASE InUse(c)
  <2>1. fault' = "reinit_conn" /\ UNCHANGED <<px, cx, hung, left>>
    BY <1>2 DEF ServerConnectCb, Finish
  <2> QED
    BY <1>1, <2>1, CrashPreserves DEF Faults, FaultCauses
<1>3. CASE ~InUse(c)
  <2>1. /\ cx' = [cx EXCEPT ![c].st = "open", ![c].online = TRUE]
        /\ fault' = "none" /\ UNCHANGED <<px, hung, left>>
    BY <1>3 DEF ServerConnectCb, Finish, Running
  <2>2. cx[c] \in ConnRec
    BY DEF IndInv, TypeOK
  <2>3. [cx[c] EXCEPT !.st = "open", !.online = TRUE] \in ConnRec
    BY <2>2 DEF ConnRec, ConnFields
  <2>4. /\ cx' \in [Conns -> ConnRec]
        /\ \A d \in Conns : cx'[d].mproxy = cx[d].mproxy
    BY <2>1, <2>3 DEF IndInv, TypeOK, ConnRec, ConnFields
  <2>5. Bindings'
    BY <2>1, <2>4 DEF IndInv, Bindings, Isolation, CleanUnlessHung, BoundCreated
  <2> QED
    BY <1>1, <2>1, <2>4, <2>5, FaultFree DEF IndInv, TypeOK, Faults
<1> QED
  BY <1>2, <1>3

LEMMA ReadPacketPreserves ==
  ASSUME IndInv, NEW c \in Conns, ReadPacket(c)
  PROVE  IndInv'
<1>1. CASE WriteFault(px, cx[c].mproxy) = "none"
  <2>1. /\ px' = Written(px, cx[c].mproxy) /\ fault' = "none"
        /\ UNCHANGED <<cx, pool, hung, left>>
    BY <1>1 DEF ReadPacket, Finish, Running
  <2>2. px' \in [Proxies -> ProxyRec] /\ Bindings'
    BY <1>1, <2>1, WritePreserves
  <2> QED
    BY <2>1, <2>2, FaultFree DEF IndInv, TypeOK, Faults
<1>2. CASE WriteFault(px, cx[c].mproxy) # "none"
  <2>1. fault' = "abort_write" /\ UNCHANGED <<px, cx, pool, hung, left>>
    BY <1>2 DEF ReadPacket, Finish, WriteFault
  <2> QED
    BY <1>2, <2>1, CrashPreserves, WriteFaultHung DEF Faults, FaultCauses, IndInv, TypeOK
<1> QED
  BY <1>1, <1>2

LEMMA ReadProxyCmdUnreachablePreserves ==
  ASSUME IndInv, NEW c \in Conns, NEW p \in Proxies, ReadProxyCmdUnreachable(c, p)
  PROVE  IndInv'
<1>1. fault' = "abort_connect" /\ UNCHANGED <<px, cx, pool, hung, left>>
  BY DEF ReadProxyCmdUnreachable
<1> QED
  BY <1>1, CrashPreserves DEF Faults, FaultCauses, IndInv, TypeOK

LEMMA ReadProxyCloseCmdPreserves ==
  ASSUME IndInv, NEW c \in Conns, ReadProxyCloseCmd(c)
  PROVE  IndInv'
<1>1. CASE RecycleFault(px, cx[c].mproxy) = "none"
  <2> DEFINE r == [cx[c] EXCEPT !.mproxy = NoProxy]
  <2>1. /\ px' = Recycled(px, cx[c].mproxy) /\ cx' = [cx EXCEPT ![c] = r]
        /\ fault' = "none" /\ UNCHANGED <<pool, hung, left>>
    BY <1>1 DEF ReadProxyCloseCmd, Finish, Running
  <2>2. cx[c] \in ConnRec
    BY DEF IndInv, TypeOK
  <2>3. r \in ConnRec /\ r.mproxy = NoProxy
    BY <2>2 DEF ConnRec, ConnFields
  <2> HIDE DEF r
  <2>4. px' \in [Proxies -> ProxyRec] /\ cx' \in [Conns -> ConnRec] /\ Bindings'
    BY <1>1, <2>1, <2>3, DetachPreserves
  <2> QED
    BY <2>1, <2>4, FaultFree DEF IndInv, TypeOK, Faults
<1>2. CASE RecycleFault(px, cx[c].mproxy) # "none"
  <2>1. fault' = "abort_shutdown" /\ UNCHANGED <<px, cx, pool, hung, left>>
    BY <1>2 DEF ReadProxyCloseCmd, Finish, RecycleFault
  <2> QED
    BY <1>2, <2>1, CrashPreserves, BoundIsUsable DEF Faults, FaultCauses, IndInv, TypeOK
<1> QED
  BY <1>1, <1>2

(* A client's own handle moves on; nothing else does.                      *)
LEMMA ClientStepPreserves ==
  ASSUME IndInv, NEW c \in Conns, ReadEof(c) \/ ServerShutdownCb(c)
  PROVE  IndInv'
<1>1. cx[c] \in ConnRec /\ cx[c].st \in {"open", "shut"}
  BY DEF IndInv, TypeOK, ReadEof, ServerShutdownCb
<1>2. PICK st \in {"shut", "closing"} : cx' = [cx EXCEPT ![c].st = st]
  BY DEF ReadEof, ServerShutdownCb
<1>3. [cx[c] EXCEPT !.st = st] \in ConnRec
  BY <1>1 DEF ConnRec, ConnFields
<1>4. /\ cx' \in [Conns -> ConnRec]
      /\ \A d \in Conns : cx'[d].mproxy = cx[d].mproxy
  BY <1>2, <1>3 DEF IndInv, TypeOK, ConnRec, ConnFields
<1>5. fault' = "none" /\ UNCHANGED <<px, pool, fault, hung, left>>
  BY DEF ReadEof, ServerShutdownCb, Running
<1>6. Bindings'
  BY <1>4, <1>5 DEF IndInv, Bindings, Isolation, CleanUnlessHung, BoundCreated
<1> QED
  BY <1>4, <1>5, <1>6, FaultFree DEF IndInv, TypeOK

LEMMA ServerCloseCbPreserves ==
  ASSUME IndInv, NEW c \in Conns, ServerCloseCb(c)
  PROVE  IndInv'
<1>0. left' \subseteq Proxies
  BY DEF ServerCloseCb, IndInv, TypeOK
<1>1. CASE RecycleFault(px, cx[c].mproxy) = "none"
  <2> DEFINE r == [st |-> "idle", online |-> FALSE, mproxy |-> NoProxy]
  <2>1. /\ px' = Recycled(px, cx[c].mproxy) /\ cx' = [cx EXCEPT ![c] = r]
        /\ fault' = "none" /\ pool' = Append(pool, c) /\ hung' = hung
    BY <1>1 DEF ServerCloseCb, Finish, Running, Offline, ConnPool!Pushed
  <2>2. r \in ConnRec /\ r.mproxy = NoProxy
    BY DEF ConnRec, ConnFields
  <2>3. pool' \in Seq(Conns)
    BY <2>1 DEF IndInv, TypeOK
  <2> HIDE DEF r
  <2>4. px' \in [Proxies -> ProxyRec] /\ cx' \in [Conns -> ConnRec] /\ Bindings'
    BY <1>1, <2>1, <2>2, DetachPreserves
  <2> QED
    BY <1>0, <2>1, <2>3, <2>4, FaultFree DEF IndInv, TypeOK, Faults
<1>2. CASE RecycleFault(px, cx[c].mproxy) # "none"
  <2>1. fault' = "abort_shutdown" /\ UNCHANGED <<px, cx, pool, hung>>
    BY <1>2 DEF ServerCloseCb, Finish, RecycleFault
  <2>2. FaultCauses'
    BY <1>2, <2>1, BoundIsUsable DEF FaultCauses
  <2> QED
    BY <1>0, <2>1, <2>2
       DEF IndInv, TypeOK, Faults, Bindings, Isolation, CleanUnlessHung, BoundCreated
<1> QED
  BY <1>1, <1>2

(* createClient's choice is either idle or, if not, makes FaultCauses true. *)
LEMMA BusyChoice ==
  ASSUME IndInv, NEW p \in Proxies, CreateClient(p), Busy(px[p])
  PROVE  hung # {} \/ px[p].st = "connecting"
<1>1. px[p] \in ProxyRec /\ ~px[p].online
  BY DEF CreateClient, IndInv, TypeOK
<1> SUFFICES ASSUME p \notin hung PROVE px[p].st = "connecting"
  OBVIOUS
<1>2. /\ px[p].st \in {"connecting", "failed"} => px[p].shut = "no"
      /\ px[p].st = "closing" => px[p].online
  BY DEF IndInv, Bindings, CleanUnlessHung
<1> QED
  BY <1>1, <1>2 DEF Busy, ProxyRec, ProxyFields

(* An idle upstream that is opened anew is bound to nobody, unless it hung. *)
LEMMA ReadProxyCmdPreserves ==
  ASSUME IndInv, NEW c \in Conns, NEW p \in Proxies, ReadProxyCmd(c, p)
  PROVE  IndInv'
<1> DEFINE m == cx[c].mproxy
           P == Opened(px, p, c)
           f == IF Busy(px[p]) THEN "reinit_proxy" ELSE WriteFault(P, m)
<1>1. CASE f = "none"
  <2>1. ~Busy(px[p]) /\ WriteFault(P, m) = "none"
    BY <1>1
  <2>2. /\ px' = Written(P, m) /\ cx' = cx /\ fault' = "none" /\ pool' = pool
        /\ hung' = (IF Bound(p) = {} THEN hung \ {p} ELSE hung)
        /\ left' = left \ {p}
    BY <1>1 DEF ReadProxyCmd, Finish, Running
  <2>3. /\ P \in [Proxies -> ProxyRec]
        /\ P[p].st = "connecting" /\ P[p].shut = "no" /\ ~P[p].wq /\ P[p].cli = c
        /\ \A q \in Proxies : q # p => P[q] = px[q]
    <3>1. px \in [Proxies -> ProxyRec] /\ ~px[p].online
      BY DEF ReadProxyCmd, CreateClient, IndInv, TypeOK
    <3> QED
      BY <3>1, OpenedFacts
  <2> HIDE DEF P
  <2>4. /\ m \in Proxies \cup {NoProxy}
        /\ m # NoProxy => P[m].st \notin {"fresh", "failed"}
    BY <2>1, <2>3
       DEF IndInv, TypeOK, ConnRec, ConnFields, Bindings, BoundCreated, WriteFault
  <2>5. /\ px' \in [Proxies -> ProxyRec]
        /\ \A q \in Proxies : /\ px'[q].st = P[q].st
                              /\ px'[q].cli = P[q].cli
                              /\ P[q].shut = "no" => px'[q].shut = "no"
                              /\ q # m => px'[q] = P[q]
    BY <2>2, <2>3, <2>4, WrittenFacts
  <2>6. ASSUME NEW d \in Conns, cx[d].mproxy = p
        PROVE  p \in hung'
    <3>1. Bound(p) # {}
      BY <2>6 DEF Bound
    <3>2. px[p].st # "open"
      BY <2>1 DEF Busy
    <3>3. p \in hung
      BY <2>6, <3>2 DEF IndInv, Bindings, Isolation
    <3> QED
      BY <2>2, <3>1, <3>3
  <2>7. Isolation'
    <3> SUFFICES ASSUME NEW d \in Conns, NEW q \in Proxies,
                        cx[d].mproxy = q, q \notin hung'
                 PROVE  px'[q].cli = d /\ px'[q].st = "open" /\ px'[q].shut = "no"
      BY <2>2 DEF Isolation
    <3>1. q # p /\ q \notin hung
      BY <2>2, <2>6
    <3> QED
      BY <2>3, <2>5, <3>1 DEF IndInv, Bindings, Isolation
  <2>8. CleanUnlessHung'
    <3> SUFFICES ASSUME NEW q \in Proxies, q \notin hung'
                 PROVE  /\ px'[q].st \in {"connecting", "failed"} => px'[q].shut = "no"
                        /\ px'[q].st = "connecting" => ~px'[q].wq
                        /\ px'[q].st = "closing" => px'[q].online
      BY DEF CleanUnlessHung
    <3>1. CASE q = p
      <4>1. q # m
        BY <2>2, <2>6, <3>1
      <4> QED
        BY <2>3, <2>5, <3>1, <4>1
    <3>2. CASE q # p /\ q = m
      <4>1. q \notin hung /\ px[q].st = "open"
        BY <2>2, <3>2 DEF IndInv, Bindings, Isolation
      <4> QED
        BY <2>3, <2>5, <3>2, <4>1
    <3>3. CASE q # p /\ q # m
      <4>1. q \notin hung /\ px'[q] = px[q]
        BY <2>2, <2>3, <2>5, <3>3
      <4> QED
        BY <4>1 DEF IndInv, Bindings, CleanUnlessHung
    <3> QED
      BY <3>1, <3>2, <3>3
  <2>9. BoundCreated'
    BY <2>2, <2>3, <2>5 DEF IndInv, Bindings, BoundCreated
  <2> QED
    BY <2>2, <2>5, <2>7, <2>8, <2>9, FaultFree DEF IndInv, TypeOK, Faults, Bindings
<1>2. CASE f # "none"
  <2>1. fault' = f /\ UNCHANGED <<px, cx, pool, hung, left>>
    BY <1>2 DEF ReadProxyCmd, Finish
  <2>2. (f = "reinit_proxy" /\ Busy(px[p])) \/ f = "abort_write"
    BY <1>2 DEF WriteFault
  <2>3. CreateClient(p)
    BY DEF ReadProxyCmd
  <2>5. f = "abort_write" => hung # {}
    <3> SUFFICES ASSUME f = "abort_write" PROVE hung # {}
      OBVIOUS
    <3>1. m # NoProxy /\ P[m].st = "failed" /\ m \in Proxies
      BY DEF WriteFault, IndInv, TypeOK, ConnRec, ConnFields
    <3>2. P[p].st = "connecting" /\ \A q \in Proxies : q # p => P[q] = px[q]
      <4>1. px \in [Proxies -> ProxyRec] /\ ~px[p].online
        BY <2>3 DEF CreateClient, IndInv, TypeOK
      <4> QED
        BY <4>1, OpenedFacts
    <3> HIDE DEF P
    <3>3. px[m].st = "failed"
      BY <3>1, <3>2
    <3> QED
      BY <3>1, <3>3 DEF IndInv, Bindings, Isolation
  <2> HIDE DEF f
  <2>4. FaultCauses'
    BY <2>1, <2>2, <2>3, <2>5, BusyChoice DEF FaultCauses
  <2> QED
    BY <2>1, <2>2, <2>4, CrashPreserves DEF Faults, IndInv, TypeOK
<1> QED
  BY <1>1, <1>2
-----------------------------------------------------------------------------
(* The upstream side.                                                      *)

LEMMA ProxyConnectCbPreserves ==
  ASSUME IndInv, NEW p \in Proxies, ProxyConnectCb(p)
  PROVE  IndInv'
<1> DEFINE c == px[p].cli
           r == Connected(px[p])
           s == [cx[c] EXCEPT !.mproxy = p]
<1>1. px[p] \in ProxyRec /\ px[p].st = "connecting"
  BY DEF IndInv, TypeOK, ProxyConnectCb
<1>2. c \in Conns /\ c # NoConn
  BY <1>1 DEF ProxyRec, ProxyFields
<1>3. /\ px' = [px EXCEPT ![p] = r] /\ cx' = [cx EXCEPT ![c] = s]
      /\ fault' = "none" /\ UNCHANGED <<pool, hung, left>>
  BY <1>2 DEF ProxyConnectCb, Finish, Running
<1>4. /\ r \in ProxyRec /\ r.st = "open" /\ r.cli = c
      /\ px[p].shut = "no" => r.shut = "no"
  BY <1>1, <1>2 DEF Connected, ProxyRec, ProxyFields
<1>5. s \in ConnRec /\ s.mproxy = p
  BY <1>2 DEF IndInv, TypeOK, ConnRec, ConnFields
<1> HIDE DEF r, s
<1>6. /\ px' \in [Proxies -> ProxyRec] /\ cx' \in [Conns -> ConnRec]
      /\ px'[p] = r /\ cx'[c] = s
      /\ \A q \in Proxies : q # p => px'[q] = px[q]
      /\ \A d \in Conns : d # c => cx'[d] = cx[d]
  BY <1>2, <1>3, <1>4, <1>5 DEF IndInv, TypeOK
<1> HIDE DEF c
<1>7. Isolation'
  <2> SUFFICES ASSUME NEW d \in Conns, NEW q \in Proxies,
                      cx'[d].mproxy = q, q \notin hung
               PROVE  px'[q].cli = d /\ px'[q].st = "open" /\ px'[q].shut = "no"
    BY <1>3 DEF Isolation
  <2>1. CASE d = c
    <3>1. q = p /\ px[p].shut = "no"
      BY <1>1, <1>5, <1>6, <2>1 DEF IndInv, Bindings, CleanUnlessHung
    <3> QED
      BY <1>4, <1>6, <2>1, <3>1
  <2>2. CASE d # c
    <3>1. px[q].cli = d /\ px[q].st = "open" /\ px[q].shut = "no"
      BY <1>6, <2>2 DEF IndInv, Bindings, Isolation
    <3> QED
      BY <1>1, <1>6, <3>1
  <2> QED
    BY <2>1, <2>2
<1>8. CleanUnlessHung'
  BY <1>3, <1>4, <1>6 DEF IndInv, Bindings, CleanUnlessHung
<1>9. BoundCreated'
  BY <1>4, <1>5, <1>6 DEF IndInv, Bindings, BoundCreated
<1> QED
  BY <1>3, <1>6, <1>7, <1>8, <1>9, FaultFree DEF IndInv, TypeOK, Faults, Bindings

LEMMA ProxyReadPreserves ==
  ASSUME IndInv, NEW p \in Proxies, ProxyRead(p)
  PROVE  IndInv'
<1> DEFINE c == px[p].cli
           r == [st |-> cx[c].st, online |-> FALSE, mproxy |-> NoProxy]
<1>1. c \in Conns
  BY DEF ProxyRead, IndInv, TypeOK, ProxyRec, ProxyFields
<1>2. CASE RecycleFault(px, cx[c].mproxy) = "none"
  <2>1. /\ px' = Recycled(px, cx[c].mproxy) /\ cx' = [cx EXCEPT ![c] = r]
        /\ fault' = "none" /\ UNCHANGED <<pool, hung, left>>
    BY <1>2 DEF ProxyRead, Finish, Running, Offline
  <2>2. r \in ConnRec /\ r.mproxy = NoProxy
    BY DEF ProxyRead, SendRefused, ConnRec, ConnFields
  <2> HIDE DEF r
  <2>3. px' \in [Proxies -> ProxyRec] /\ cx' \in [Conns -> ConnRec] /\ Bindings'
    BY <1>1, <1>2, <2>1, <2>2, DetachPreserves
  <2> QED
    BY <2>1, <2>3, FaultFree DEF IndInv, TypeOK, Faults
<1>3. CASE RecycleFault(px, cx[c].mproxy) # "none"
  <2>1. fault' = "abort_shutdown" /\ UNCHANGED <<px, cx, pool, hung, left>>
    BY <1>3 DEF ProxyRead, Finish, RecycleFault
  <2> QED
    BY <1>1, <1>3, <2>1, CrashPreserves, BoundIsUsable DEF Faults, FaultCauses, IndInv, TypeOK
<1> QED
  BY <1>2, <1>3

(* A bound upstream that has not hung is open and not being shut down.     *)
LEMMA BoundRow ==
  ASSUME IndInv, NEW p \in Proxies, p \notin hung, Bound(p) # {}
  PROVE  px[p].st = "open" /\ px[p].shut = "no"
BY DEF Bound, IndInv, Bindings, Isolation

LEMMA ProxyConnectFailedPreserves ==
  ASSUME IndInv, NEW p \in Proxies, ProxyConnectFailed(p)
  PROVE  IndInv'
<1> DEFINE r == [px[p] EXCEPT !.st = "failed"]
<1>1. px[p] \in ProxyRec /\ px[p].st = "connecting"
  BY DEF IndInv, TypeOK, ProxyConnectFailed
<1>2. CASE px[p].wq
  <2>1. fault' = "abort_write" /\ UNCHANGED <<px, cx, pool, hung, left>>
    BY <1>2 DEF ProxyConnectFailed, Finish
  <2>2. p \in hung
    BY <1>1, <1>2 DEF IndInv, Bindings, CleanUnlessHung
  <2> QED
    BY <2>1, <2>2, CrashPreserves DEF Faults, FaultCauses, IndInv, TypeOK
<1>3. CASE ~px[p].wq
  <2>1. /\ px' = [px EXCEPT ![p] = r] /\ fault' = "none"
        /\ UNCHANGED <<cx, pool, hung, left>>
    BY <1>3 DEF ProxyConnectFailed, Finish, Running
  <2>2. r \in ProxyRec /\ r.st = "failed" /\ r.shut = px[p].shut
    BY <1>1, <1>3 DEF ProxyRec, ProxyFields
  <2>3. p \notin hung => Bound(p) = {} /\ px[p].shut = "no"
    BY <1>1, BoundRow DEF IndInv, Bindings, CleanUnlessHung
  <2> HIDE DEF r
  <2>4. px' \in [Proxies -> ProxyRec] /\ Bindings'
    BY <2>1, <2>2, <2>3, RowPreserves DEF IndInv, TypeOK
  <2> QED
    BY <2>1, <2>4, FaultFree DEF IndInv, TypeOK, Faults
<1> QED
  BY <1>2, <1>3

LEMMA ProxyWriteCbPreserves ==
  ASSUME IndInv, NEW p \in Proxies, ProxyWriteCb(p)
  PROVE  IndInv'
<1> DEFINE r == [px[p] EXCEPT !.wq = FALSE]
<1>1. px[p] \in ProxyRec /\ px[p].st = "open"
  BY DEF IndInv, TypeOK, ProxyWriteCb
<1>2. /\ px' = [px EXCEPT ![p] = r] /\ fault' = "none"
      /\ UNCHANGED <<cx, pool, hung, left>>
  BY DEF ProxyWriteCb, Running
<1>3. r \in ProxyRec /\ r.st = "open" /\ r.shut = px[p].shut /\ r.cli = px[p].cli
  BY <1>1 DEF ProxyRec, ProxyFields
<1> HIDE DEF r
<1>4. px' \in [Proxies -> ProxyRec] /\ Bindings'
  BY <1>2, <1>3, BoundRow, RowPreserves DEF IndInv, TypeOK
<1> QED
  BY <1>2, <1>4, FaultFree DEF IndInv, TypeOK, Faults

LEMMA ProxyWriteFailedPreserves ==
  ASSUME IndInv, NEW p \in Proxies, ProxyWriteFailed(p)
  PROVE  IndInv'
<1>1. /\ fault' = "abort_write" /\ UNCHANGED <<px, cx, pool, hung, left>>
      /\ px[p].st = "open" /\ px[p].wq
  BY DEF ProxyWriteFailed
<1> QED
  BY <1>1, CrashPreserves DEF Faults, FaultCauses, IndInv, TypeOK

(* The target closes: whoever is bound to the upstream is left hanging.    *)
LEMMA ProxyReadEofPreserves ==
  ASSUME IndInv, NEW p \in Proxies, ProxyReadEof(p)
  PROVE  IndInv'
<1> DEFINE r == [px[p] EXCEPT !.st = "closing"]
<1>1. px[p] \in ProxyRec /\ px[p].st = "open"
  BY DEF IndInv, TypeOK, ProxyReadEof
<1>2. /\ px' = [px EXCEPT ![p] = r] /\ fault' = "none"
      /\ UNCHANGED <<cx, pool, left>>
      /\ hung' = (IF Bound(p) = {} THEN hung ELSE hung \cup {p})
  BY DEF ProxyReadEof, Running
<1>3. r \in ProxyRec /\ r.st = "closing" /\ r.online
  BY <1>1 DEF ProxyRec, ProxyFields
<1>4. hung \subseteq hung' /\ hung' \subseteq Proxies /\ (p \notin hung' => Bound(p) = {})
  BY <1>2 DEF IndInv, TypeOK
<1> HIDE DEF r
<1>5. px' \in [Proxies -> ProxyRec] /\ Bindings'
  BY <1>2, <1>3, <1>4, RowPreserves
<1> QED
  BY <1>2, <1>4, <1>5, FaultFree DEF IndInv, TypeOK, Faults

LEMMA ProxyShutdownCbPreserves ==
  ASSUME IndInv, NEW p \in Proxies, ProxyShutdownCb(p)
  PROVE  IndInv'
<1> DEFINE r == [px[p] EXCEPT !.st = "closing", !.shut = "no", !.wq = FALSE]
<1>1. px[p] \in ProxyRec /\ px[p].st \in {"open", "failed"} /\ px[p].shut = "armed"
  BY DEF IndInv, TypeOK, ProxyShutdownCb
<1>2. /\ px' = [px EXCEPT ![p] = r] /\ fault' = "none"
      /\ UNCHANGED <<cx, pool, hung, left>>
  BY DEF ProxyShutdownCb, Running
<1>3. r \in ProxyRec /\ r.st = "closing" /\ r.online = px[p].online
  BY <1>1 DEF ProxyRec, ProxyFields
<1>4. p \notin hung => Bound(p) = {} /\ px[p].st = "open"
  BY <1>1, BoundRow DEF IndInv, Bindings, CleanUnlessHung
<1>5. px[p].st = "open" => px[p].online
  BY <1>1 DEF ProxyRec
<1> HIDE DEF r
<1>6. px' \in [Proxies -> ProxyRec] /\ Bindings'
  BY <1>2, <1>3, <1>4, <1>5, RowPreserves DEF IndInv, TypeOK
<1> QED
  BY <1>2, <1>6, FaultFree DEF IndInv, TypeOK, Faults

LEMMA ProxyCloseCbPreserves ==
  ASSUME IndInv, NEW p \in Proxies, ProxyCloseCb(p)
  PROVE  IndInv'
<1> DEFINE r == [px[p] EXCEPT !.st = "closed", !.online = FALSE]
<1>1. px[p] \in ProxyRec /\ px[p].st = "closing"
  BY DEF IndInv, TypeOK, ProxyCloseCb
<1>2. CASE ~px[p].wq /\ px[p].shut = "no"
  <2>1. /\ px' = [px EXCEPT ![p] = r] /\ fault' = "none"
        /\ UNCHANGED <<cx, pool, hung, left>>
    BY <1>2 DEF ProxyCloseCb, Finish, Running
  <2>2. r \in ProxyRec /\ r.st = "closed"
    BY <1>1, <1>2 DEF ProxyRec, ProxyFields
  <2>3. p \notin hung => Bound(p) = {}
    BY <1>1, BoundRow
  <2> HIDE DEF r
  <2>4. px' \in [Proxies -> ProxyRec] /\ Bindings'
    BY <2>1, <2>2, <2>3, RowPreserves DEF IndInv, TypeOK
  <2> QED
    BY <2>1, <2>4, FaultFree DEF IndInv, TypeOK, Faults
<1>3. CASE px[p].wq \/ px[p].shut # "no"
  <2>1. /\ fault' = IF px[p].wq THEN "abort_write" ELSE "double_close"
        /\ UNCHANGED <<px, cx, pool, hung, left>>
    BY <1>3 DEF ProxyCloseCb, Finish
  <2>2. hung # {} \/ Bound(p) = {}
    BY <1>1, BoundRow
  <2>3. FaultCauses'
    BY <1>1, <1>3, <2>1, <2>2 DEF FaultCauses, Bound
  <2> QED
    BY <2>1, <2>3, CrashPreserves DEF Faults, IndInv, TypeOK
<1> QED
  BY <1>2, <1>3
-----------------------------------------------------------------------------
LEMMA InitInv == Init => IndInv
<1> SUFFICES ASSUME Init PROVE IndInv
  OBVIOUS
<1>1. cx \in [Conns -> ConnRec]
  BY DEF Init, ConnRec, ConnFields
<1>2. px \in [Proxies -> ProxyRec]
  BY DEF Init, ProxyRec, ProxyFields
<1>3. pool \in Seq(Conns)
  BY DEF Init
<1>4. fault \in Faults /\ hung \subseteq Proxies /\ left \subseteq Proxies
  BY DEF Init, Faults
<1>5. \A c \in Conns : cx[c].mproxy \notin Proxies
  BY NullIsNoProxy DEF Init
<1>6. \A p \in Proxies : px[p].st = "fresh"
  BY DEF Init
<1>7. Bindings
  BY <1>5, <1>6 DEF Bindings, Isolation, CleanUnlessHung, BoundCreated
<1>8. FaultCauses
  BY DEF Init, FaultCauses
<1> QED
  BY <1>1, <1>2, <1>3, <1>4, <1>7, <1>8 DEF IndInv, TypeOK

LEMMA ServerNextPreserves ==
  ASSUME IndInv, NEW c \in Conns, ServerNext(c)
  PROVE  IndInv'
BY ServerConnectCbPreserves, ReadPacketPreserves, ReadProxyCmdPreserves,
   ReadProxyCmdUnreachablePreserves,
   ReadProxyCloseCmdPreserves, ClientStepPreserves, ServerCloseCbPreserves
   DEF ServerNext

LEMMA ProxyNextPreserves ==
  ASSUME IndInv, NEW p \in Proxies, ProxyNext(p)
  PROVE  IndInv'
BY ProxyConnectCbPreserves, ProxyConnectFailedPreserves, ProxyWriteCbPreserves,
   ProxyWriteFailedPreserves, ProxyReadPreserves, ProxyReadEofPreserves,
   ProxyShutdownCbPreserves, ProxyCloseCbPreserves
   DEF ProxyNext

LEMMA NextInv == IndInv /\ [Next]_vars => IndInv'
<1> SUFFICES ASSUME IndInv, [Next]_vars PROVE IndInv'
  OBVIOUS
<1>1. CASE UNCHANGED vars
  <2>1. UNCHANGED <<px, cx, pool, fault, hung, left>>
    BY <1>1 DEF vars
  <2> QED
    BY <2>1 DEF IndInv, TypeOK, Bindings, Isolation, CleanUnlessHung, BoundCreated, FaultCauses, Bound
<1>2. CASE Next
  BY <1>2, ServerNextPreserves, ProxyNextPreserves DEF Next
<1> QED
  BY <1>1, <1>2

(* Typing, the bindings and the causes of faults together are inductive.   *)
LEMMA Inductive == Spec => []IndInv
BY InitInv, NextInv, PTL DEF Spec

(* Records and upstream objects stay consistent: createClient's IsOnline   *)
(* never misses an open upstream, a closed one has nothing outstanding,    *)
(* connect_cb always finds an owner (myProxy.cpp:96, 240).                 *)
THEOREM Typed == Spec => []TypeOK
<1>1. IndInv => TypeOK
  BY DEF IndInv
<1> QED
  BY <1>1, Inductive, PTL

(* One upstream, one client, as long as no target has closed under it      *)
(* (myProxy.cpp:239-241, myClient.cpp:238-248, myCmd.cpp:49-70).           *)
THEOREM Isolated == Spec => []Isolation
<1>1. IndInv => Isolation
  BY DEF IndInv, Bindings
<1> QED
  BY <1>1, Inductive, PTL

(* The assertions of CxTcpClientProxy::Close and write_cb, the reuse of a  *)
(* busy handle and the double close have no other causes than those        *)
(* FaultCauses names (myProxy.cpp:96, 202, 268, 297).                      *)
THEOREM FaultsExplained == Spec => []FaultCauses
<1>1. IndInv => FaultCauses
  BY DEF IndInv
<1> QED
  BY <1>1, Inductive, PTL
-----------------------------------------------------------------------------
(* The records the server hands out are managed by module ConnPool.        *)

PoolFresh == {c \in Conns : cx[c].st = "fresh"}
PoolLive == {c \in Conns : InUse(c)}

(* A record's handle keeps its state, or goes from one state of use to     *)
(* another.                                                                *)
SameUse ==
  \A d \in Conns :
    \/ cx'[d].st = cx[d].st
    \/ {cx[d].st, cx'[d].st} \subseteq {"open", "shut", "closing"}

LEMMA PoolStutters ==
  ASSUME fault = "none", fault' # "reinit_conn", pool' = pool,
         SameUse
  PROVE  UNCHANGED ConnPool!vars
<1>1. PoolFresh' = PoolFresh
  <2>1. \A d \in Conns : d \in PoolFresh' <=> d \in PoolFresh
    BY DEF PoolFresh, SameUse
  <2>2. PoolFresh \subseteq Conns /\ PoolFresh' \subseteq Conns
    BY DEF PoolFresh
  <2> QED
    BY ONLY <2>1, <2>2
<1>2. PoolLive' = PoolLive
  <2>1. \A d \in Conns : d \in PoolLive' <=> d \in PoolLive
    BY DEF PoolLive, InUse, SameUse
  <2>2. PoolLive \subseteq Conns /\ PoolLive' \subseteq Conns
    BY DEF PoolLive, InUse
  <2> QED
    BY ONLY <2>1, <2>2
<1>3. (fault' = "reinit_conn") = (fault = "reinit_conn")
  OBVIOUS
<1> QED
  BY <1>1, <1>2, <1>3 DEF ConnPool!vars, PoolFresh, PoolLive

LEMMA PoolAccepts ==
  ASSUME IndInv, NEW c \in Conns, ServerConnectCb(c)
  PROVE  ConnPool!Accept(c)
<1>1. fault = "none" /\ ConnPool!NewConn(c)
  BY DEF ServerConnectCb, Running
<1>2. /\ PoolFresh' = PoolFresh \ {c}
      /\ PoolLive' = PoolLive \cup {c}
      /\ (fault' = "reinit_conn") <=> (c \in PoolLive)
  <2>1. CASE InUse(c)
    <3>1. fault' = "reinit_conn" /\ cx' = cx
      BY <2>1 DEF ServerConnectCb, Finish
    <3> QED
      BY <2>1, <3>1 DEF PoolFresh, PoolLive, InUse
  <2>2. CASE ~InUse(c)
    <3>1. fault' = "none" /\ cx' = [cx EXCEPT ![c].st = "open", ![c].online = TRUE]
      BY <2>2 DEF ServerConnectCb, Finish, Running
    <3>2. /\ cx'[c].st = "open"
          /\ \A d \in Conns : d # c => cx'[d] = cx[d]
      BY <3>1 DEF IndInv, TypeOK, ConnRec, ConnFields
    <3> QED
      BY <2>2, <3>1, <3>2 DEF PoolFresh, PoolLive, InUse
  <2> QED
    BY <2>1, <2>2
<1>3. (fault' = "reinit_conn") = (c \in PoolLive)
  BY <1>2 DEF PoolLive, InUse
<1>4. fault # "reinit_conn"
  BY <1>1
<1> QED
  BY <1>1, <1>2, <1>3, <1>4, Zenon DEF ConnPool!Accept, PoolFresh, PoolLive

LEMMA PoolTakesBack ==
  ASSUME IndInv, NEW c \in Conns, ServerCloseCb(c)
  PROVE  ConnPool!DeleteConn(c) \/ UNCHANGED ConnPool!vars
<1>1. fault = "none" /\ cx[c].st = "closing"
  BY DEF ServerCloseCb, Running
<1>2. CASE RecycleFault(px, cx[c].mproxy) = "none"
  <2>1. /\ fault' = "none" /\ pool' = ConnPool!Pushed(pool, c)
        /\ cx' = [cx EXCEPT ![c] = [st |-> "idle", online |-> FALSE, mproxy |-> NoProxy]]
    BY <1>2 DEF ServerCloseCb, Finish, Running, Offline
  <2>2. /\ cx'[c].st = "idle"
        /\ \A d \in Conns : d # c => cx'[d] = cx[d]
    BY <2>1 DEF IndInv, TypeOK
  <2>3. PoolFresh' = PoolFresh /\ PoolLive' = PoolLive \ {c} /\ c \in PoolLive
    BY <1>1, <2>2 DEF PoolFresh, PoolLive, InUse
  <2> QED
    BY <1>1, <2>1, <2>3 DEF ConnPool!DeleteConn, PoolFresh, PoolLive
<1>3. CASE RecycleFault(px, cx[c].mproxy) # "none"
  <2>1. fault' = "abort_shutdown" /\ cx' = cx /\ pool' = pool
    BY <1>3 DEF ServerCloseCb, Finish, RecycleFault
  <2> QED
    BY <1>1, <2>1, PoolStutters DEF SameUse
<1> QED
  BY <1>2, <1>3

LEMMA PoolInitially == Init => ConnPool!Init
<1> SUFFICES ASSUME Init PROVE ConnPool!Init
  OBVIOUS
<1>1. PoolFresh = Conns /\ PoolLive = {}
  BY DEF Init, PoolFresh, PoolLive, InUse
<1>2. pool = <<>> /\ (fault = "reinit_conn") = FALSE
  BY DEF Init
<1> QED
  BY <1>1, <1>2 DEF ConnPool!Init, PoolFresh, PoolLive

(* What the other handlers do to the records: they move a handle from one  *)
(* state of use to the next, or change a flag or a pointer.                *)
LEMMA ServerKeepsUse ==
  ASSUME IndInv, NEW c \in Conns,
         \/ ReadPacket(c) \/ (\E p \in Proxies : ReadProxyCmd(c, p))
         \/ (\E p \in Proxies : ReadProxyCmdUnreachable(c, p))
         \/ ReadProxyCloseCmd(c) \/ ReadEof(c) \/ ServerShutdownCb(c)
  PROVE  UNCHANGED ConnPool!vars
<1>1. fault = "none" /\ pool' = pool
  BY DEF ReadPacket, ReadProxyCmd, ReadProxyCmdUnreachable, ReadProxyCloseCmd, ReadEof,
         ServerShutdownCb, Running
<1>2. fault' # "reinit_conn"
  BY DEF ReadPacket, ReadProxyCmd, ReadProxyCmdUnreachable, ReadProxyCloseCmd, ReadEof,
         ServerShutdownCb, Running,
         Finish, WriteFault, RecycleFault
<1>3. SameUse
  <2>1. CASE ReadProxyCloseCmd(c)
    BY <2>1 DEF SameUse, ReadProxyCloseCmd, Finish, IndInv, TypeOK, ConnRec, ConnFields
  <2>2. CASE ReadEof(c) \/ ServerShutdownCb(c)
    BY <2>2 DEF SameUse, ReadEof, ServerShutdownCb, IndInv, TypeOK, ConnRec, ConnFields
  <2>3. CASE \/ ReadPacket(c) \/ (\E p \in Proxies : ReadProxyCmd(c, p))
            \/ (\E p \in Proxies : ReadProxyCmdUnreachable(c, p))
    <3>1. cx' = cx
      BY <2>3 DEF ReadPacket, ReadProxyCmd, ReadProxyCmdUnreachable, Finish
    <3> QED
      BY <3>1 DEF SameUse
  <2> QED
    BY <2>1, <2>2, <2>3
<1> QED
  BY <1>1, <1>2, <1>3, PoolStutters

LEMMA ProxyKeepsUse ==
  ASSUME IndInv, NEW p \in Proxies, ProxyNext(p)
  PROVE  UNCHANGED ConnPool!vars
<1> USE DEF ProxyNext
<1>1. fault = "none" /\ pool' = pool
  BY DEF ProxyConnectCb, ProxyConnectFailed, ProxyWriteCb, ProxyWriteFailed, ProxyRead,
         ProxyReadEof, ProxyShutdownCb, ProxyCloseCb, Running
<1>2. fault' # "reinit_conn"
  BY DEF ProxyConnectCb, ProxyConnectFailed, ProxyWriteCb, ProxyWriteFailed, ProxyRead,
         ProxyReadEof, ProxyShutdownCb, ProxyCloseCb, Running, Finish, RecycleFault
<1>3. SameUse
  <2>1. CASE ProxyConnectCb(p)
    BY <2>1 DEF SameUse, ProxyConnectCb, Finish, IndInv, TypeOK, ConnRec, ConnFields
  <2>2. CASE ProxyRead(p)
    BY <2>2 DEF SameUse, ProxyRead, SendRefused, Finish, Offline, IndInv, TypeOK, ConnRec, ConnFields
  <2>3. CASE ~ProxyConnectCb(p) /\ ~ProxyRead(p)
    <3>1. cx' = cx
      BY <2>3 DEF ProxyConnectFailed, ProxyWriteCb, ProxyWriteFailed,
                  ProxyReadEof, ProxyShutdownCb, ProxyCloseCb, Finish
    <3> QED
      BY <3>1 DEF SameUse
  <2> QED
    BY <2>1, <2>2, <2>3
<1> QED
  BY <1>1, <1>2, <1>3, PoolStutters

LEMMA PoolStep == IndInv /\ [Next]_vars => [ConnPool!Next]_(ConnPool!vars)
<1> SUFFICES ASSUME IndInv, [Next]_vars
             PROVE  ConnPool!Next \/ UNCHANGED ConnPool!vars
  OBVIOUS
<1>1. CASE UNCHANGED vars
  BY <1>1 DEF vars, ConnPool!vars, InUse
<1>2. ASSUME NEW c \in Conns, ServerNext(c)
      PROVE  ConnPool!Next \/ UNCHANGED ConnPool!vars
  <2>1. CASE ServerConnectCb(c)
    BY <2>1, PoolAccepts DEF ConnPool!Next
  <2>2. CASE ServerCloseCb(c)
    BY <2>2, PoolTakesBack DEF ConnPool!Next
  <2>3. CASE \/ ReadPacket(c) \/ (\E p \in Proxies : ReadProxyCmd(c, p))
             \/ (\E p \in Proxies : ReadProxyCmdUnreachable(c, p))
             \/ ReadProxyCloseCmd(c) \/ ReadEof(c) \/ ServerShutdownCb(c)
    BY <2>3, ServerKeepsUse
  <2> QED
    BY <1>2, <2>1, <2>2, <2>3 DEF ServerNext
<1> QED
  BY <1>1, <1>2, ProxyKeepsUse DEF Next

(* The server handles its records as module ConnPool says: every step of   *)
(* the event loop is an accept, a return of a record, or leaves the pool   *)
(* alone (myServer.cpp:49-108, 182-189, myClient.cpp:353-364).             *)
THEOREM PoolImplemented == Spec => PoolRefinement
<1>1. Spec => ConnPool!Init
  BY PoolInitially DEF Spec
<1>2. Spec => [][ConnPool!Next]_(ConnPool!vars)
  BY PoolStep, Inductive, PTL DEF Spec
<1> QED
  BY <1>1, <1>2 DEF PoolRefinement, ConnPool!Spec
-----------------------------------------------------------------------------
(* What happens in the end.  The prover takes ENABLED for a word it does   *)
(* not know, so that libuv can complete what it was asked for is assumed,  *)
(* GuardsSuffice: a callback whose guard holds can run.  It can, since     *)
(* every such callback gives each primed variable a value, whatever the    *)
(* state; that it does run is the fairness of FairSpec.                    *)

InPool(c) == \E i \in 1 .. Len(pool) : pool[i] = c

(* What a step that does not end the process does to the record of c.      *)
ClientMove(c) ==
  \/ cx'[c].st = cx[c].st
  \/ cx[c].st \notin {"shut", "closing"}
  \/ cx[c].st = "shut" /\ cx'[c].st = "closing"
  \/ cx[c].st = "closing" /\ InPool(c)'

(* Only its own callbacks move the record of a client that hung up.        *)
LEMMA ClientMoves ==
  ASSUME IndInv, NEW c \in Conns, [Next]_vars, Running'
  PROVE  ClientMove(c)
<1> USE DEF ClientMove
<1>0. cx \in [Conns -> ConnRec] /\ px \in [Proxies -> ProxyRec] /\ pool \in Seq(Conns)
  BY DEF IndInv, TypeOK
<1>1. CASE UNCHANGED vars
  BY <1>1 DEF vars
<1>2. ASSUME NEW d \in Conns, ServerNext(d) PROVE ClientMove(c)
  <2>1. CASE ServerConnectCb(d)
    <3>1. ~InUse(d) /\ cx' = [cx EXCEPT ![d].st = "open", ![d].online = TRUE]
      BY <2>1 DEF ServerConnectCb, Finish, Running
    <3>2. d = c => cx[c].st \notin {"shut", "closing"}
      BY <3>1 DEF InUse
    <3>3. d # c => cx'[c].st = cx[c].st
      BY <1>0, <3>1
    <3>. QED BY <3>2, <3>3
  <2>2. CASE ReadPacket(d) \/ \E p \in Proxies : ReadProxyCmd(d, p) \/ ReadProxyCmdUnreachable(d, p)
    BY <2>2 DEF ReadPacket, ReadProxyCmd, ReadProxyCmdUnreachable, Finish, Running
  <2>3. CASE ReadProxyCloseCmd(d)
    BY <1>0, <2>3 DEF ReadProxyCloseCmd, Finish, Running
  <2>4. CASE ReadEof(d) \/ ServerShutdownCb(d)
    <3>1. cx[d].st = "open" \/ (cx[d].st = "shut" /\ cx' = [cx EXCEPT ![d].st = "closing"])
      BY <2>4 DEF ReadEof, ServerShutdownCb
    <3>2. \E st : cx' = [cx EXCEPT ![d].st = st]
      BY <2>4 DEF ReadEof, ServerShutdownCb
    <3>3. d # c => cx'[c].st = cx[c].st
      BY <1>0, <3>2
    <3>4. cx[c] \in ConnFields
      BY <1>0 DEF ConnRec
    <3>5. ASSUME d = c PROVE ClientMove(c)
      <4>1. cx[c].st = "open" \/ (cx[c].st = "shut" /\ cx'[c] = [cx[c] EXCEPT !.st = "closing"])
        BY <1>0, <3>1, <3>5
      <4>. QED BY <3>4, <4>1 DEF ConnFields
    <3>. QED BY <3>3, <3>5
  <2>5. CASE ServerCloseCb(d)
    <3>1. RecycleFault(px, cx[d].mproxy) = "none"
      BY <2>5 DEF ServerCloseCb, Finish, Running
    <3>2. cx' = Offline(d, "idle") /\ pool' = Append(pool, d) /\ cx[d].st = "closing"
      BY <2>5, <3>1 DEF ServerCloseCb, Finish, ConnPool!Pushed
    <3>3. CASE d = c
      <4>1. Len(pool') \in 1 .. Len(pool') /\ pool'[Len(pool')] = c
        BY <1>0, <3>2, <3>3
      <4>. QED BY <3>2, <3>3, <4>1 DEF InPool
    <3>4. CASE d # c
      BY <1>0, <3>2, <3>4 DEF Offline
    <3>. QED BY <3>3, <3>4
  <2>. QED BY <1>2, <2>1, <2>2, <2>3, <2>4, <2>5 DEF ServerNext
<1>3. ASSUME NEW p \in Proxies, ProxyNext(p) PROVE ClientMove(c)
  <2>1. CASE ProxyConnectCb(p)
    <3>1. cx' = cx \/ cx' = [cx EXCEPT ![px[p].cli].mproxy = p]
      BY <2>1 DEF ProxyConnectCb, Finish
    <3>2. cx[c] \in ConnFields
      BY <1>0 DEF ConnRec
    <3>3. ASSUME cx' = [cx EXCEPT ![px[p].cli].mproxy = p]
          PROVE  cx'[c].st = cx[c].st
      <4>1. cx'[c] = cx[c] \/ cx'[c] = [cx[c] EXCEPT !.mproxy = p]
        BY <1>0, <3>3
      <4>. QED BY <3>2, <4>1 DEF ConnFields
    <3>. QED BY <3>1, <3>3
  <2>2. CASE ProxyRead(p)
    BY <1>0, <2>2 DEF ProxyRead, Finish, Running, Offline
  <2>3. CASE \/ ProxyConnectFailed(p) \/ ProxyWriteCb(p) \/ ProxyWriteFailed(p)
             \/ ProxyReadEof(p) \/ ProxyShutdownCb(p) \/ ProxyCloseCb(p)
    BY <2>3 DEF ProxyConnectFailed, ProxyWriteCb, ProxyWriteFailed, ProxyReadEof, ProxyShutdownCb,
                ProxyCloseCb, Finish, Running
  <2>. QED BY <1>3, <2>1, <2>2, <2>3 DEF ProxyNext
<1> QED
  BY <1>1, <1>2, <1>3 DEF Next

(* Where the record of a client that hung up is, and the end of it.        *)
HungUp(c) == cx[c].st = "shut" /\ Running
Closes(c) == cx[c].st = "closing" /\ Running
Back(c) == InPool(c) \/ ~Running

(* What the callbacks wait for.                                            *)
CanServerShutdown(c) == Running /\ cx[c].st = "shut"
CanServerClose(c) == Running /\ cx[c].st = "closing"
CanProxyShutdown(p) == Running /\ px[p].st \in {"open", "failed"} /\ px[p].shut = "armed"
CanProxyClose(p) == Running /\ px[p].st = "closing"

ClientGuards(c) ==
  /\ CanServerShutdown(c) => ENABLED <<ServerShutdownCb(c)>>_vars
  /\ CanServerClose(c) => ENABLED <<ServerCloseCb(c)>>_vars

ProxyGuards(p) ==
  /\ CanProxyShutdown(p) => ENABLED <<ProxyShutdownCb(p)>>_vars
  /\ CanProxyClose(p) => ENABLED <<ProxyCloseCb(p)>>_vars

GuardsSuffice ==
  (\A c \in Conns : ClientGuards(c)) /\ (\A p \in Proxies : ProxyGuards(p))

(* The fairness of one client's requests, and of one upstream's.           *)
LEMMA FairToClient ==
  ASSUME NEW c \in Conns
  PROVE  FairSpec /\ []GuardsSuffice =>
           []<>~CanServerShutdown(c) /\ []<>~CanServerClose(c)
<1>1. <<ServerShutdownCb(c)>>_vars /\ IndInv => ~CanServerShutdown(c)'
  BY DEF ServerShutdownCb, CanServerShutdown, IndInv, TypeOK
<1>2. <<ServerCloseCb(c)>>_vars /\ IndInv => ~CanServerClose(c)'
  BY DEF ServerCloseCb, CanServerClose, IndInv, TypeOK, Finish, Running, Offline
<1>3. Fairness => ClientFairness(c)
  BY DEF Fairness
<1>4. GuardsSuffice => ClientGuards(c)
  BY DEF GuardsSuffice
<1>. QED
  BY <1>1, <1>2, <1>3, <1>4, Inductive, PTL DEF FairSpec, ClientFairness, ClientGuards

(* A client that hung up gets its record back into the pool                *)
(* (myServer.cpp, shutdown_cb and close_cb), or the process has ended.     *)
THEOREM RecordsComeBack == FairSpec /\ []GuardsSuffice => RecordComesBack
<1>1. ASSUME NEW c \in Conns
      PROVE  FairSpec /\ []GuardsSuffice =>
               (cx[c].st = "shut" ~> (\E i \in 1 .. Len(pool) : pool[i] = c) \/ ~Running)
  <2>1. IndInv /\ [Next]_vars => /\ HungUp(c) => HungUp(c)' \/ Closes(c)' \/ Back(c)'
                                 /\ Closes(c) => Closes(c)' \/ Back(c)'
    <3> SUFFICES ASSUME IndInv, [Next]_vars, Running'
                 PROVE  /\ HungUp(c) => HungUp(c)' \/ Closes(c)' \/ Back(c)'
                        /\ Closes(c) => Closes(c)' \/ Back(c)'
      BY DEF Back
    <3>1. ClientMove(c)
      BY ClientMoves
    <3>. QED BY <3>1 DEF ClientMove, HungUp, Closes, Back
  <2>2. /\ HungUp(c) => CanServerShutdown(c)
        /\ Closes(c) => CanServerClose(c)
        /\ cx[c].st = "shut" => HungUp(c) \/ Back(c)
        /\ Back(c) <=> (\E i \in 1 .. Len(pool) : pool[i] = c) \/ ~Running
    BY DEF HungUp, Closes, Back, InPool, CanServerShutdown, CanServerClose
  <2> QED
    BY <2>1, <2>2, FairToClient, Inductive, PTL DEF FairSpec, Spec
<1> QED
  BY <1>1 DEF RecordComesBack

(* What a step that does not end the process does to an upstream that      *)
(* stays online.                                                           *)
UpstreamMove(p) ==
  \/ px'[p].st = px[p].st /\ (px[p].shut = "armed" => px'[p].shut = "armed")
  \/ px[p].st = "open" /\ px'[p].st = "closing"

(* It is never opened anew, and a shutdown that is under way stays so.     *)
LEMMA UpstreamMoves ==
  ASSUME IndInv, NEW p \in Proxies, [Next]_vars, Running', px[p].online, px'[p].online
  PROVE  UpstreamMove(p)
<1> USE DEF UpstreamMove
<1>0. /\ px \in [Proxies -> ProxyRec] /\ px[p] \in ProxyFields
      /\ px[p].st \in {"open", "closing"}
      /\ \A c \in Conns : cx[c].mproxy \in Proxies \cup {NoProxy}
  BY DEF IndInv, TypeOK, ProxyRec, ConnRec, ConnFields
<1>1. ASSUME px' = px PROVE UpstreamMove(p)
  BY <1>1
<1>2. ASSUME NEW P \in [Proxies -> ProxyRec], P[p] = px[p], NEW m \in Proxies \cup {NoProxy},
             px' = Written(P, m)
      PROVE  UpstreamMove(p)
  <2>1. \/ px'[p] = px[p] \/ px'[p] = Queued(px[p]) \/ px'[p] = [px[p] EXCEPT !.online = FALSE]
    BY <1>2 DEF Written
  <2>. QED BY <1>0, <2>1 DEF Queued, ProxyFields
<1>3. ASSUME NEW m \in Proxies \cup {NoProxy}, px' = Recycled(px, m)
      PROVE  UpstreamMove(p)
  <2>1. px'[p] = px[p] \/ px'[p] = Shutdown(px[p])
    BY <1>0, <1>3 DEF Recycled
  <2>. QED BY <1>0, <2>1 DEF Shutdown, ProxyFields
<1>4. CASE UNCHANGED vars
  BY <1>1, <1>4 DEF vars
<1>5. ASSUME NEW c \in Conns, ServerNext(c) PROVE UpstreamMove(p)
  <2>1. CASE ServerConnectCb(c) \/ ReadEof(c) \/ ServerShutdownCb(c)
    BY <1>1, <2>1 DEF ServerConnectCb, ReadEof, ServerShutdownCb, Finish
  <2>2. CASE ReadPacket(c)
    BY <1>0, <1>1, <1>2, <2>2 DEF ReadPacket, Finish
  <2>3. ASSUME NEW q \in Proxies, ReadProxyCmd(c, q) PROVE UpstreamMove(p)
    <3> DEFINE P == Opened(px, q, c)
    <3>1. ~px[q].online /\ q # p /\ px' = Written(P, cx[c].mproxy)
      BY <2>3 DEF ReadProxyCmd, CreateClient, Finish, Running
    <3>2. P \in [Proxies -> ProxyRec] /\ P[p] = px[p]
      <4>1. P \in [Proxies -> ProxyRec]
        BY <1>0, <3>1, OpenedFacts
      <4>2. P[p] = px[p]
        BY <1>0, <3>1 DEF Opened
      <4>. QED BY <4>1, <4>2
    <3> HIDE DEF P
    <3>. QED BY <1>0, <1>2, <3>1, <3>2
  <2>4. ~(\E q \in Proxies : ReadProxyCmdUnreachable(c, q))
    BY DEF ReadProxyCmdUnreachable, Running
  <2>5. CASE ReadProxyCloseCmd(c) \/ ServerCloseCb(c)
    BY <1>0, <1>1, <1>3, <2>5 DEF ReadProxyCloseCmd, ServerCloseCb, Finish
  <2>. QED BY <1>5, <2>1, <2>2, <2>3, <2>4, <2>5 DEF ServerNext
<1>6. ASSUME NEW q \in Proxies, ProxyNext(q) PROVE UpstreamMove(p)
  <2>1. CASE ProxyRead(q)
    <3>1. px[q].cli \in Conns
      BY <1>0, <2>1 DEF ProxyRead, ProxyRec, ProxyFields
    <3>. QED BY <1>0, <1>1, <1>3, <2>1, <3>1 DEF ProxyRead, Finish
  <2>2. ASSUME q # p, ~ProxyRead(q) PROVE UpstreamMove(p)
    <3>1. px'[p] = px[p]
      BY <1>0, <1>6, <2>2 DEF ProxyNext, ProxyConnectCb, ProxyConnectFailed, ProxyWriteCb,
         ProxyWriteFailed, ProxyReadEof, ProxyShutdownCb, ProxyCloseCb, Finish
    <3>. QED BY <3>1
  <2>3. ASSUME q = p, ~ProxyRead(q) PROVE UpstreamMove(p)
    <3>1. ~ProxyConnectCb(p) /\ ~ProxyConnectFailed(p) /\ ~ProxyWriteFailed(p)
      BY <1>0 DEF ProxyConnectCb, ProxyConnectFailed, ProxyWriteFailed, Running
    <3>2. CASE ProxyWriteCb(p)
      BY <1>0, <3>2 DEF ProxyWriteCb, ProxyFields
    <3>3. CASE ProxyReadEof(p)
      BY <1>0, <3>3 DEF ProxyReadEof, ProxyFields
    <3>4. CASE ProxyShutdownCb(p)
      BY <1>0, <3>4 DEF ProxyShutdownCb, ProxyFields
    <3>5. CASE ProxyCloseCb(p)
      <4>1. px'[p] = [px[p] EXCEPT !.st = "closed", !.online = FALSE]
        BY <1>0, <3>5 DEF ProxyCloseCb, Finish, Running
      <4>. QED BY <1>0, <4>1 DEF ProxyFields
    <3>. QED BY <1>6, <2>3, <3>1, <3>2, <3>3, <3>4, <3>5 DEF ProxyNext
  <2>. QED BY <2>1, <2>2, <2>3
<1> QED
  BY <1>4, <1>5, <1>6 DEF Next

(* No upstream begins to connect for a client that hung up.                *)
LEMMA NoNewConnecting ==
  ASSUME IndInv, NEW c \in Conns, [Next]_vars, Running',
         cx[c].st \in {"shut", "closing"}, Connecting(c) = {}
  PROVE  Connecting(c)' = {}
<1> DEFINE Same(P) == \A q \in Proxies : P[q].st = px[q].st /\ P[q].cli = px[q].cli
           Quiet(P) == \A q \in Proxies : ~(P[q].st = "connecting" /\ P[q].cli = c)
<1>0. /\ px \in [Proxies -> ProxyRec] /\ \A q \in Proxies : px[q] \in ProxyFields
      /\ \A d \in Conns : cx[d].mproxy \in Proxies \cup {NoProxy}
  BY DEF IndInv, TypeOK, ProxyRec, ConnRec, ConnFields
<1>1. Quiet(px)
  BY DEF Connecting
<1>2. SUFFICES Quiet(px')
  BY DEF Connecting
<1>3. ASSUME Same(px') PROVE Quiet(px')
  BY <1>1, <1>3
<1>4. ASSUME px' = px PROVE Quiet(px')
  BY <1>1, <1>4
<1>5. ASSUME NEW P \in [Proxies -> ProxyRec], NEW m \in Proxies \cup {NoProxy}, NEW q \in Proxies
      PROVE  Written(P, m)[q].st = P[q].st /\ Written(P, m)[q].cli = P[q].cli
  <2>1. P[q] \in ProxyFields
    BY DEF ProxyRec
  <2>2. \/ Written(P, m)[q] = P[q] \/ Written(P, m)[q] = Queued(P[q])
        \/ Written(P, m)[q] = [P[q] EXCEPT !.online = FALSE]
    BY DEF Written
  <2>. QED BY <2>1, <2>2 DEF Queued, ProxyFields
<1>6. ASSUME NEW m \in Proxies \cup {NoProxy}, px' = Recycled(px, m) PROVE Same(px')
  <2>1. \A q \in Proxies : px'[q] = px[q] \/ px'[q] = Shutdown(px[q])
    BY <1>0, <1>6 DEF Recycled
  <2>. QED BY <1>0, <2>1 DEF Shutdown, ProxyFields
<1>7. CASE UNCHANGED vars
  BY <1>4, <1>7 DEF vars
<1>8. ASSUME NEW d \in Conns, ServerNext(d) PROVE Quiet(px')
  <2>1. CASE ServerConnectCb(d) \/ ReadEof(d) \/ ServerShutdownCb(d)
    BY <1>4, <2>1 DEF ServerConnectCb, ReadEof, ServerShutdownCb, Finish
  <2>2. CASE ReadPacket(d)
    <3>1. px' = px \/ px' = Written(px, cx[d].mproxy)
      BY <2>2 DEF ReadPacket, Finish
    <3>2. px' = Written(px, cx[d].mproxy) => Same(px')
      BY <1>0, <1>5
    <3>. QED BY <1>3, <1>4, <3>1, <3>2
  <2>3. ASSUME NEW q \in Proxies, ReadProxyCmd(d, q) PROVE Quiet(px')
    <3> DEFINE P == Opened(px, q, d)
    <3>1. ~px[q].online /\ d # c /\ px' = Written(P, cx[d].mproxy)
      BY <2>3 DEF ReadProxyCmd, CreateClient, Finish, Running
    <3>2. P \in [Proxies -> ProxyRec] /\ P[q].cli = d /\ \A r \in Proxies \ {q} : P[r] = px[r]
      <4>1. P \in [Proxies -> ProxyRec] /\ P[q].cli = d
        BY <1>0, <3>1, OpenedFacts
      <4>2. \A r \in Proxies \ {q} : P[r] = px[r]
        BY <1>0 DEF Opened
      <4>. QED BY <4>1, <4>2
    <3>3. Quiet(P)
      BY <1>1, <3>1, <3>2
    <3> HIDE DEF P
    <3>. QED BY <1>0, <1>5, <3>1, <3>2, <3>3
  <2>4. ~(\E q \in Proxies : ReadProxyCmdUnreachable(d, q))
    BY DEF ReadProxyCmdUnreachable, Running
  <2>5. CASE ReadProxyCloseCmd(d) \/ ServerCloseCb(d)
    BY <1>0, <1>3, <1>4, <1>6, <2>5 DEF ReadProxyCloseCmd, ServerCloseCb, Finish
  <2>. QED BY <1>8, <2>1, <2>2, <2>3, <2>4, <2>5 DEF ServerNext
<1>9. ASSUME NEW q \in Proxies, ProxyNext(q) PROVE Quiet(px')
  <2>1. CASE ProxyRead(q)
    <3>1. px[q].cli \in Conns
      BY <1>0, <2>1 DEF ProxyRead, ProxyFields
    <3>. QED BY <1>0, <1>3, <1>4, <1>6, <2>1, <3>1 DEF ProxyRead, Finish
  <2>2. ASSUME ~ProxyRead(q) PROVE Quiet(px')
    <3>1. \A r \in Proxies \ {q} : px'[r] = px[r]
      BY <1>0, <1>9, <2>2 DEF ProxyNext, ProxyConnectCb, ProxyConnectFailed, ProxyWriteCb,
         ProxyWriteFailed, ProxyReadEof, ProxyShutdownCb, ProxyCloseCb, Finish
    <3>2. px'[q] = px[q] \/ px'[q].st # "connecting"
      <4>1. CASE ProxyConnectCb(q)
        <5>1. px' = px \/ px' = [px EXCEPT ![q] = Connected(@)]
          BY <4>1 DEF ProxyConnectCb, Finish
        <5>2. px'[q] = px[q] \/ px'[q] = Connected(px[q])
          BY <1>0, <5>1
        <5>. QED BY <1>0, <5>2 DEF Connected, ProxyFields
      <4>2. CASE ProxyConnectFailed(q)
        BY <1>0, <4>2 DEF ProxyConnectFailed, Finish, ProxyFields
      <4>3. CASE ProxyWriteCb(q)
        <5>1. px[q].st = "open" /\ px'[q] = [px[q] EXCEPT !.wq = FALSE]
          BY <1>0, <4>3 DEF ProxyWriteCb
        <5>. QED BY <1>0, <5>1 DEF ProxyFields
      <4>4. CASE ProxyReadEof(q) \/ ProxyShutdownCb(q) \/ ProxyWriteFailed(q)
        <5>1. \/ px'[q] = px[q] \/ px'[q] = [px[q] EXCEPT !.st = "closing"]
              \/ px'[q] = [px[q] EXCEPT !.st = "closing", !.shut = "no", !.wq = FALSE]
          BY <1>0, <4>4 DEF ProxyReadEof, ProxyShutdownCb, ProxyWriteFailed
        <5>. QED BY <1>0, <5>1 DEF ProxyFields
      <4>5. CASE ProxyCloseCb(q)
        <5>1. px' = px \/ px' = [px EXCEPT ![q] = [@ EXCEPT !.st = "closed", !.online = FALSE]]
          BY <4>5 DEF ProxyCloseCb, Finish
        <5>2. px'[q] = px[q] \/ px'[q] = [px[q] EXCEPT !.st = "closed", !.online = FALSE]
          BY <1>0, <5>1
        <5>. QED BY <1>0, <5>2 DEF ProxyFields
      <4>. QED BY <1>9, <2>2, <4>1, <4>2, <4>3, <4>4, <4>5 DEF ProxyNext
    <3>. QED BY <1>1, <3>1, <3>2
  <2>. QED BY <2>1, <2>2
<1> QED
  BY <1>7, <1>8, <1>9 DEF Next

(* The binding of a client that hung up is kept until its upstream is      *)
(* being shut down.                                                        *)
BindingMove(c, p) ==
  \/ cx'[c].mproxy = cx[c].mproxy /\ (cx[c].st = "closing" => cx'[c].st = "closing")
  \/ px'[p].st = "open" /\ px'[p].shut = "armed"

(* The upstream is shut down in SetFD(-1), the only place where a client   *)
(* that hung up loses it.                                                  *)
LEMMA BindingMoves ==
  ASSUME IndInv, NEW c \in Conns, NEW p \in Proxies, [Next]_vars, Running',
         px[p].online, px'[p].online,
         cx[c].st \in {"shut", "closing"}, cx[c].mproxy = p, Connecting(c) = {}
  PROVE  BindingMove(c, p)
<1> USE DEF BindingMove
<1>0. /\ px \in [Proxies -> ProxyRec] /\ px[p] \in ProxyFields
      /\ px[p].st \in {"open", "closing"}
      /\ cx \in [Conns -> ConnRec] /\ cx[c] \in ConnFields
      /\ \A d \in Conns : cx[d].mproxy \in Proxies \cup {NoProxy}
  BY DEF IndInv, TypeOK, ProxyRec, ConnRec, ConnFields
<1>1. ASSUME cx'[c] = cx[c] PROVE BindingMove(c, p)
  BY <1>1
<1>2. ASSUME RecycleFault(px, p) = "none", px' = Recycled(px, p) PROVE BindingMove(c, p)
  <2>1. px[p].st = "open"
    BY <1>0, <1>2, NullIsNoProxy DEF RecycleFault, CanShutdown
  <2>2. px'[p] = Shutdown(px[p])
    BY <1>0, <1>2, NullIsNoProxy DEF Recycled
  <2>. QED BY <1>0, <2>1, <2>2 DEF Shutdown, ProxyFields
<1>3. CASE UNCHANGED vars
  BY <1>1, <1>3 DEF vars
<1>4. ASSUME NEW d \in Conns, ServerNext(d) PROVE BindingMove(c, p)
  <2>1. CASE ServerCloseCb(c)
    <3>1. RecycleFault(px, p) = "none"
      BY <2>1 DEF ServerCloseCb, Finish, Running
    <3>2. px' = Recycled(px, p)
      BY <2>1, <3>1 DEF ServerCloseCb, Finish
    <3>. QED BY <1>2, <3>1, <3>2
  <2>2. CASE ServerShutdownCb(c)
    <3>1. cx'[c] = [cx[c] EXCEPT !.st = "closing"]
      BY <1>0, <2>2 DEF ServerShutdownCb
    <3>. QED BY <1>0, <3>1 DEF ConnFields
  <2>3. ~ServerConnectCb(c) /\ ~ReadEof(c) /\ ~ReadProxyCloseCmd(c)
    BY DEF ServerConnectCb, Finish, InUse, Running, ReadEof, ReadProxyCloseCmd
  <2>4. CASE ReadPacket(d) \/ \E q \in Proxies : ReadProxyCmd(d, q) \/ ReadProxyCmdUnreachable(d, q)
    BY <1>1, <2>4 DEF ReadPacket, ReadProxyCmd, ReadProxyCmdUnreachable, Finish
  <2>5. ASSUME d # c, ServerConnectCb(d) \/ ReadEof(d) \/ ReadProxyCloseCmd(d)
                      \/ ServerCloseCb(d) \/ ServerShutdownCb(d)
        PROVE  BindingMove(c, p)
    BY <1>0, <1>1, <2>5 DEF ServerConnectCb, ReadEof, ReadProxyCloseCmd, ServerCloseCb,
       ServerShutdownCb, Finish, Offline
  <2>. QED BY <1>4, <2>1, <2>2, <2>3, <2>4, <2>5 DEF ServerNext
<1>5. ASSUME NEW q \in Proxies, ProxyNext(q) PROVE BindingMove(c, p)
  <2>1. CASE ProxyRead(q)
    <3>1. CASE px[q].cli = c
      <4>1. RecycleFault(px, p) = "none"
        BY <2>1, <3>1 DEF ProxyRead, Finish, Running
      <4>2. px' = Recycled(px, p)
        BY <2>1, <3>1, <4>1 DEF ProxyRead, Finish
      <4>. QED BY <1>2, <4>1, <4>2
    <3>2. CASE px[q].cli # c
      BY <1>0, <1>1, <2>1, <3>2 DEF ProxyRead, Finish, Offline
    <3>. QED BY <3>1, <3>2
  <2>2. CASE ProxyConnectCb(q)
    <3>1. px[q].cli # c
      BY <2>2 DEF ProxyConnectCb, Connecting
    <3>. QED BY <1>0, <1>1, <2>2, <3>1 DEF ProxyConnectCb, Finish
  <2>3. CASE \/ ProxyConnectFailed(q) \/ ProxyWriteCb(q) \/ ProxyWriteFailed(q)
             \/ ProxyReadEof(q) \/ ProxyShutdownCb(q) \/ ProxyCloseCb(q)
    BY <1>1, <2>3 DEF ProxyConnectFailed, ProxyWriteCb, ProxyWriteFailed, ProxyReadEof,
       ProxyShutdownCb, ProxyCloseCb, Finish
  <2>. QED BY <1>5, <2>1, <2>2, <2>3 DEF ProxyNext
<1> QED
  BY <1>3, <1>4, <1>5 DEF Next

(* The way of an upstream whose client hung up, and the end of it.         *)
StillBound(c, p) == cx[c].mproxy = p /\ Connecting(c) = {}
Lives(p) == px[p].online /\ Running
Keeps(c, p) == Lives(p) /\ cx[c].st = "shut" /\ StillBound(c, p)
Leaves(c, p) == Lives(p) /\ cx[c].st = "closing" /\ StillBound(c, p)
Drains(p) == Lives(p) /\ px[p].st = "open" /\ px[p].shut = "armed"
Ends(p) == Lives(p) /\ px[p].st = "closing"

(* The fairness of one upstream's requests.                                *)
LEMMA FairToUpstream ==
  ASSUME NEW p \in Proxies
  PROVE  FairSpec /\ []GuardsSuffice =>
           []<>~CanProxyShutdown(p) /\ []<>~CanProxyClose(p)
<1>0. IndInv => px \in [Proxies -> ProxyRec] /\ px[p] \in ProxyFields
  BY DEF IndInv, TypeOK, ProxyRec
<1>1. <<ProxyShutdownCb(p)>>_vars /\ IndInv => ~CanProxyShutdown(p)'
  BY <1>0 DEF ProxyShutdownCb, CanProxyShutdown, ProxyFields
<1>2. <<ProxyCloseCb(p)>>_vars /\ IndInv => ~CanProxyClose(p)'
  BY <1>0 DEF ProxyCloseCb, CanProxyClose, Finish, Running, ProxyFields
<1>3. Fairness => ProxyFairness(p)
  BY DEF Fairness
<1>4. GuardsSuffice => ProxyGuards(p)
  BY DEF GuardsSuffice
<1>. QED
  BY <1>1, <1>2, <1>3, <1>4, Inductive, PTL DEF FairSpec, ProxyFairness, ProxyGuards

(* It goes from one to the next, and ends offline, as the process does.    *)
LEMMA UpstreamGoes ==
  ASSUME IndInv, NEW c \in Conns, NEW p \in Proxies, [Next]_vars
  PROVE  /\ Keeps(c, p) => Keeps(c, p)' \/ Leaves(c, p)' \/ Drains(p)' \/ Ends(p)' \/ ~Lives(p)'
         /\ Leaves(c, p) => Leaves(c, p)' \/ Drains(p)' \/ Ends(p)' \/ ~Lives(p)'
         /\ Drains(p) => Drains(p)' \/ Ends(p)' \/ ~Lives(p)'
         /\ Ends(p) => Ends(p)' \/ ~Lives(p)'
<1>1. SUFFICES ASSUME Lives(p), Lives(p)'
               PROVE  /\ Keeps(c, p) => Keeps(c, p)' \/ Leaves(c, p)' \/ Drains(p)' \/ Ends(p)'
                      /\ Leaves(c, p) => Leaves(c, p)' \/ Drains(p)' \/ Ends(p)'
                      /\ Drains(p) => Drains(p)' \/ Ends(p)'
                      /\ Ends(p) => Ends(p)'
  BY DEF Keeps, Leaves, Drains, Ends
<1>2. UpstreamMove(p)
  BY <1>1, UpstreamMoves DEF Lives
<1>3. Drains(p) => Drains(p)' \/ Ends(p)'
  BY <1>1, <1>2 DEF Drains, Ends, UpstreamMove
<1>4. Ends(p) => Ends(p)'
  BY <1>1, <1>2 DEF Ends, UpstreamMove
<1>5. ASSUME Keeps(c, p) \/ Leaves(c, p)
      PROVE  ClientMove(c) /\ BindingMove(c, p) /\ Connecting(c)' = {}
  <2>1. cx[c].st \in {"shut", "closing"} /\ cx[c].mproxy = p /\ Connecting(c) = {}
    BY <1>5 DEF Keeps, Leaves, StillBound
  <2>2. px[p].online /\ px'[p].online /\ Running'
    BY <1>1 DEF Lives
  <2>3. ClientMove(c)
    BY <2>2, ClientMoves
  <2>4. Connecting(c)' = {}
    BY <2>1, <2>2, NoNewConnecting
  <2>5. BindingMove(c, p)
    BY <2>1, <2>2, BindingMoves
  <2>. QED BY <2>3, <2>4, <2>5
<1>6. Keeps(c, p) => Keeps(c, p)' \/ Leaves(c, p)' \/ Drains(p)'
  BY <1>1, <1>5 DEF Keeps, Leaves, Drains, StillBound, ClientMove, BindingMove
<1>7. Leaves(c, p) => Leaves(c, p)' \/ Drains(p)'
  BY <1>1, <1>5 DEF Leaves, Drains, StillBound, BindingMove
<1>. QED BY <1>3, <1>4, <1>6, <1>7

(* If a client hangs up and none of its @!PROXY commands is still          *)
(* connecting, its upstream goes offline (myClient.cpp:238-248), or the    *)
(* process has ended.                                                      *)
THEOREM UpstreamsFollow == FairSpec /\ []GuardsSuffice => UpstreamFollowsClient
<1>1. ASSUME NEW c \in Conns, NEW p \in Proxies
      PROVE  FairSpec /\ []GuardsSuffice =>
               (cx[c].st = "shut" /\ cx[c].mproxy = p /\ Connecting(c) = {}
                 ~> ~px[p].online \/ ~Running)
  <2>1. IndInv /\ [Next]_vars =>
          /\ Keeps(c, p) => Keeps(c, p)' \/ Leaves(c, p)' \/ Drains(p)' \/ Ends(p)' \/ ~Lives(p)'
          /\ Leaves(c, p) => Leaves(c, p)' \/ Drains(p)' \/ Ends(p)' \/ ~Lives(p)'
          /\ Drains(p) => Drains(p)' \/ Ends(p)' \/ ~Lives(p)'
          /\ Ends(p) => Ends(p)' \/ ~Lives(p)'
    BY UpstreamGoes
  <2>2. /\ Keeps(c, p) => CanServerShutdown(c)
        /\ Leaves(c, p) => CanServerClose(c)
        /\ Drains(p) => CanProxyShutdown(p)
        /\ Ends(p) => CanProxyClose(p)
        /\ cx[c].st = "shut" /\ cx[c].mproxy = p /\ Connecting(c) = {} => Keeps(c, p) \/ ~Lives(p)
        /\ ~Lives(p) <=> ~px[p].online \/ ~Running
    BY DEF Keeps, Leaves, Drains, Ends, Lives, StillBound,
           CanServerShutdown, CanServerClose, CanProxyShutdown, CanProxyClose
  <2>3. FairSpec /\ []GuardsSuffice => []<>~CanServerShutdown(c) /\ []<>~CanServerClose(c)
    BY FairToClient
  <2>4. FairSpec /\ []GuardsSuffice => []<>~CanProxyShutdown(p) /\ []<>~CanProxyClose(p)
    BY FairToUpstream
  <2>5. FairSpec => []IndInv /\ [][Next]_vars
    BY Inductive, PTL DEF FairSpec, Spec
  <2> QED
    BY <2>1, <2>2, <2>3, <2>4, <2>5, PTL
<1> QED
  BY <1>1 DEF UpstreamFollowsClient
=============================================================================
