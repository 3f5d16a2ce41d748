------------------------------ MODULE ConnPool ------------------------------
(***************************************************************************)
(* The pool of client connection records, CxMyClientPool::clients          *)
(* (GxProxy/myClient.h:186), filled by DeleteConn when a connection has    *)
(* been closed and emptied by NewConn when the next one is accepted.       *)
(*                                                                         *)
(* The vector is popped by CxSafeVector::safe_pop_front, which takes a     *)
(* REFERENCE to the first slot, erases the first element, and then returns *)
(* what the reference designates.  The erase has shifted the elements down *)
(* by one slot, so with two or more entries the caller receives the second *)
(* one, which also stays in the vector, and the first one is forgotten.    *)
(* With exactly one entry nothing is shifted and the slot, now past the    *)
(* end, still holds the erased pointer.                                    *)
(***************************************************************************)
EXTENDS Integers, Sequences

CONSTANT Records        \* the conn_rec objects that may ever be allocated

VARIABLES
  pool,                 \* CxMyClientPool::clients.container, front first
  fresh,                \* records not allocated yet
  live,                 \* records of accepted connections not closed yet
  clash                 \* a record in use was handed out a second time

vars == <<pool, fresh, live, clash>>

TypeOK ==
  /\ pool \in Seq(Records)
  /\ fresh \subseteq Records
  /\ live \subseteq Records
  /\ clash \in BOOLEAN

Init ==
  /\ pool = <<>>
  /\ fresh = Records
  /\ live = {}
  /\ clash = FALSE
-----------------------------------------------------------------------------
(* Mutations of the two vector operations, used to validate the properties *)

\* The reference is resolved at the wrong end of the vector.
PoppedBack(q) == q[Len(q)]

\* Records are pushed at the front instead of the back.
PushedFront(q, r) == <<r>> \o q

\* DeleteConn forgets to push.
PushedNot(q, r) == q

-----------------------------------------------------------------------------
(* What safe_pop_front returns: slot 0 as it is AFTER the erase.           *)
Popped(q) == IF Len(q) > 1 THEN q[2] ELSE q[1]

(* safe_push_back                                                          *)
Pushed(q, r) == Append(q, r)

(* NewConn returns r: from the pool if it has an entry, newly allocated    *)
(* otherwise.                                                              *)
NewConn(r) ==
  IF pool = <<>>
  THEN /\ r \in fresh
       /\ pool' = pool
  ELSE /\ r = Popped(pool)
       /\ pool' = Tail(pool)

(* CxMyServer::connect_cb as far as the pool is concerned.  It initialises *)
(* the libuv handle inside the record; if the record still carries an open *)
(* connection that handle is registered with the loop, and what follows is *)
(* undefined: the model stops there with clash set.                        *)
Accept(r) ==
  /\ ~clash
  /\ NewConn(r)
  /\ fresh' = fresh \ {r}
  /\ live' = live \cup {r}
  /\ clash' = (r \in live)

(* CxMyServer::close_cb: DeleteConn puts the record back.                  *)
DeleteConn(r) ==
  /\ ~clash
  /\ r \in live
  /\ pool' = Pushed(pool, r)
  /\ live' = live \ {r}
  /\ UNCHANGED <<fresh, clash>>

Next == \E r \in Records : Accept(r) \/ DeleteConn(r)

Spec == Init /\ [][Next]_vars
-----------------------------------------------------------------------------
(* Whatever the aliasing in safe_pop_front does, only the FRONT entry of   *)
(* the pool can be a record in use (it was handed out while it stayed in   *)
(* the vector): behind the front there are only closed records, each one   *)
(* once.                                                                   *)
BehindFront == 2 .. Len(pool)

PoolInv ==
  \A i \in BehindFront :
    /\ pool[i] \notin live \cup fresh
    /\ \A j \in BehindFront : pool[i] = pool[j] => i = j

(* A record in use is handed out only by a pool that has exactly one       *)
(* entry; two waiting entries are enough to make an accept safe.           *)
ClashNeedsSingleton == [][clash' /\ ~clash => Len(pool) = 1]_vars

(* What "reuse" promises (GxProxy/myClient.h:186): a record taken from the *)
(* pool belongs to no open connection.                                     *)
ReuseIsExclusive == ~clash
=============================================================================
