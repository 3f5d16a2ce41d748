--------------------------- MODULE ConnPoolProofs ---------------------------
(* Proofs about the connection pool, for any set of records and any number *)
(* of accepted and closed connections.                                     *)
EXTENDS ConnPool, TLAPS

(* A record that was never allocated is neither in use nor in the pool     *)
(* (TLC finds nothing against it); with PoolInv it is inductive.           *)
FreshUnused == live \cap fresh = {}

IndInv == TypeOK /\ PoolInv /\ FreshUnused

(* Removing the first entry shifts the others down by one.                 *)
LEMMA TailFacts ==
  ASSUME pool \in Seq(Records), pool # <<>>
  PROVE  /\ Tail(pool) \in Seq(Records)
         /\ Len(Tail(pool)) = Len(pool) - 1
         /\ \A i \in 1 .. Len(Tail(pool)) : Tail(pool)[i] = pool[i + 1]
         /\ Len(pool) \in Nat /\ Len(pool) # 0
         /\ \A i \in 1 .. Len(pool) : pool[i] \in Records
OBVIOUS

LEMMA MoreThanOne == \A n \in Nat : n # 0 /\ n # 1 => n > 1
OBVIOUS

(* What NewConn hands out of a pool of two or more entries is the second   *)
(* one, which is not in use.                                               *)
LEMMA SecondIsIdle ==
  ASSUME IndInv, NEW r \in Records, NewConn(r), Len(pool) # 1
  PROVE  r \notin live
<1>1. CASE pool = <<>>
  BY <1>1 DEF NewConn, IndInv, FreshUnused
<1>2. CASE pool # <<>>
  <2>1. Len(pool) \in Nat /\ Len(pool) # 0
    BY <1>2, TailFacts DEF IndInv, TypeOK
  <2>2. Len(pool) > 1
    BY <2>1, MoreThanOne
  <2>4. 2 \in BehindFront
    BY <2>1, <2>2 DEF BehindFront
  <2>3. r = pool[2]
    BY <1>2, <2>2 DEF NewConn, Popped
  <2> QED
    BY <2>3, <2>4 DEF IndInv, PoolInv
<1> QED
  BY <1>1, <1>2

LEMMA AcceptPreserves ==
  ASSUME IndInv, NEW r \in Records, Accept(r)
  PROVE  IndInv'
<1> USE DEF IndInv
<1>1. CASE pool = <<>>
  <2>1. pool' = <<>> /\ BehindFront' = {}
    BY <1>1 DEF Accept, NewConn, BehindFront
  <2>2. TypeOK'
    BY <2>1 DEF Accept, TypeOK
  <2> QED
    BY <2>1, <2>2 DEF Accept, PoolInv, FreshUnused
<1>2. CASE pool # <<>>
  <2>1. pool' = Tail(pool) /\ r = Popped(pool)
    BY <1>2 DEF Accept, NewConn
  <2>2. TypeOK'
    BY <1>2, <2>1, TailFacts DEF Accept, TypeOK
  <2>3. FreshUnused'
    BY DEF Accept, FreshUnused
  <2>4. ASSUME NEW i \in BehindFront'
        PROVE  /\ i + 1 \in BehindFront
               /\ pool'[i] = pool[i + 1]
               /\ r = pool[2] /\ 2 \in BehindFront
    BY <1>2, <2>1, TailFacts DEF TypeOK, BehindFront, Popped
  <2>5. ASSUME NEW i \in BehindFront'
        PROVE  pool'[i] \notin live' \cup fresh'
    <3>1. pool[i + 1] \notin live \cup fresh
      BY <2>4 DEF PoolInv
    <3>2. i \in Int /\ i >= 2
      BY <2>5 DEF BehindFront
    <3>3. pool[i + 1] # pool[2]
      BY <2>4, <3>2 DEF PoolInv
    <3> QED
      BY <2>4, <3>1, <3>3 DEF Accept
  <2>6. ASSUME NEW i \in BehindFront', NEW j \in BehindFront', pool'[i] = pool'[j]
        PROVE  i = j
    <3>1. i + 1 \in BehindFront /\ j + 1 \in BehindFront /\ pool[i + 1] = pool[j + 1]
      BY <2>4, <2>6
    <3>2. i + 1 = j + 1
      BY <3>1 DEF PoolInv
    <3>3. i \in Int /\ j \in Int
      BY <2>6 DEF BehindFront
    <3> QED
      BY <3>2, <3>3
  <2>7. PoolInv'
    BY <2>5, <2>6 DEF PoolInv
  <2> QED
    BY <2>2, <2>3, <2>7
<1> QED
  BY <1>1, <1>2

LEMMA DeletePreserves ==
  ASSUME IndInv, NEW r \in Records, DeleteConn(r)
  PROVE  IndInv'
<1> USE DEF IndInv
<1>1. pool' = Append(pool, r) /\ r \in live /\ live' = live \ {r} /\ fresh' = fresh
  BY DEF DeleteConn, Pushed
<1>2. TypeOK' /\ FreshUnused'
  BY <1>1 DEF DeleteConn, TypeOK, FreshUnused
<1>3. /\ Len(pool) \in Nat
      /\ Len(pool') = Len(pool) + 1
      /\ pool'[Len(pool) + 1] = r
      /\ \A i \in 1 .. Len(pool) : pool'[i] = pool[i]
  BY <1>1 DEF TypeOK
<1>4. ASSUME NEW i \in BehindFront'
      PROVE  \/ i \in BehindFront /\ pool'[i] = pool[i]
             \/ i = Len(pool) + 1 /\ pool'[i] = r
  BY <1>3 DEF BehindFront
<1>5. \A i \in BehindFront : pool[i] # r
  BY <1>1 DEF PoolInv
<1>6. r \notin live' \cup fresh'
  BY <1>1 DEF FreshUnused
<1>7. PoolInv'
  BY <1>1, <1>4, <1>5, <1>6 DEF PoolInv
<1> QED
  BY <1>2, <1>7

LEMMA InitInv == Init => IndInv
<1> SUFFICES ASSUME Init PROVE IndInv
  OBVIOUS
<1>1. BehindFront = {}
  BY DEF Init, BehindFront
<1>2. pool \in Seq(Records)
  BY DEF Init
<1>4. clash \in BOOLEAN
  BY DEF Init
<1>5. TypeOK /\ FreshUnused
  BY <1>2, <1>4 DEF Init, TypeOK, FreshUnused
<1>3. PoolInv
  BY <1>1 DEF PoolInv
<1> QED
  BY <1>3, <1>5 DEF IndInv

LEMMA NextInv == IndInv /\ [Next]_vars => IndInv'
<1> SUFFICES ASSUME IndInv, [Next]_vars PROVE IndInv'
  OBVIOUS
<1>1. CASE UNCHANGED vars
  BY <1>1 DEF vars, IndInv, TypeOK, PoolInv, FreshUnused, BehindFront
<1>2. ASSUME NEW r \in Records, Accept(r) PROVE IndInv'
  BY <1>2, AcceptPreserves
<1>3. ASSUME NEW r \in Records, DeleteConn(r) PROVE IndInv'
  BY <1>3, DeletePreserves
<1> QED
  BY <1>1, <1>2, <1>3 DEF Next

(* Typing, PoolInv and FreshUnused together are inductive.                 *)
LEMMA Inductive == Spec => []IndInv
BY InitInv, NextInv, PTL DEF Spec

(* CxSafeVector keeps records of the pool: NewConn never returns anything  *)
(* but a conn_rec, however often the vector is popped and pushed.          *)
THEOREM PoolTyped == Spec => []TypeOK
<1>1. IndInv => TypeOK
  BY DEF IndInv
<1> QED
  BY <1>1, Inductive, PTL

(* Behind the front entry the pool never holds a record in use, nor the    *)
(* same record twice (NewConn / DeleteConn, myClient.cpp:353-364).         *)
THEOREM PoolSafe == Spec => []PoolInv
<1>1. IndInv => PoolInv
  BY DEF IndInv
<1> QED
  BY <1>1, Inductive, PTL

(* A record in use is handed out again only by a pool of exactly one       *)
(* entry.                                                                  *)
THEOREM ClashOnlyFromSingleton == Spec => ClashNeedsSingleton
<1>1. IndInv /\ [Next]_vars => [clash' /\ ~clash => Len(pool) = 1]_vars
  <2> SUFFICES ASSUME IndInv, NEW r \in Records, Accept(r) \/ DeleteConn(r),
                      clash', ~clash
               PROVE  Len(pool) = 1
    BY DEF Next
  <2>1. Accept(r) /\ r \in live
    BY DEF Accept, DeleteConn
  <2> QED
    BY <2>1, SecondIsIdle DEF Accept
<1> QED
  BY <1>1, Inductive, PTL DEF Spec, ClashNeedsSingleton
=============================================================================
