---------------------------- MODULE EMarkProofs ----------------------------
(***************************************************************************)
(* Facts about the operators of EMark, for all byte sequences: what the    *)
(* decoder and the tokenizer return, what a frame looks like, and that a   *)
(* frame decodes to the packet it was made of.                             *)
(*                                                                         *)
(* The operators are recursive functions.  A recursive function is the     *)
(* CHOOSE of one that satisfies its equation, so the first thing to show   *)
(* is that there is one (Recursion, ListRecursion); induction is on the    *)
(* set of places where a fact holds (SetInduction, RankInduction).         *)
(***************************************************************************)
EXTENDS EMark, SequenceTheorems, WellFoundedInduction, TLAPS

(* A set of numbers that has 0 and with n also n + 1 has all of them.      *)
LEMMA SetInduction ==
  ASSUME NEW T, 0 \in T, \A n \in Nat : n \in T => n + 1 \in T
  PROVE  Nat \subseteq T
<1> DEFINE R == {n \in Nat : n \notin T}
<1>1. SUFFICES ASSUME R # {} PROVE FALSE
  OBVIOUS
<1>2. PICK m \in R : \A y \in R : ~ (<<y, m>> \in OpToRel(<, Nat))
  <2>1. R \subseteq Nat
    OBVIOUS
  <2>. QED BY <1>1, <2>1, WFMin, NatLessThanWellFounded
<1>3. m # 0 /\ m - 1 \in Nat /\ m - 1 < m /\ (m - 1) + 1 = m
  OBVIOUS
<1>4. m - 1 \notin R
  <2>1. m \in Nat /\ m - 1 \in Nat /\ m - 1 < m
    BY <1>3
  <2>. QED BY <1>2, <2>1 DEF OpToRel
<1>. QED BY <1>3, <1>4

(* T holds of everything in D if it holds of d whenever it holds of all    *)
(* that has a lower rank.                                                  *)
LEMMA RankInduction ==
  ASSUME NEW D, NEW rk \in [D -> Nat], NEW T,
         \A d \in D : (\A e \in D : rk[e] < rk[d] => e \in T) => d \in T
  PROVE  D \subseteq T
<1> DEFINE U == {n \in Nat : \A d \in D : rk[d] < n => d \in T}
<1>1. 0 \in U
  OBVIOUS
<1>2. ASSUME NEW n \in Nat, n \in U PROVE n + 1 \in U
  <2>1. ASSUME NEW d \in D, rk[d] < n + 1 PROVE d \in T
    <3>1. ASSUME NEW e \in D, rk[e] < rk[d] PROVE e \in T
      BY <1>2, <2>1, <3>1
    <3>. QED BY <3>1
  <2>. QED BY <2>1
<1>3. Nat \subseteq U
  <2> HIDE DEF U
  <2>. QED BY <1>1, <1>2, SetInduction
<1>4. ASSUME NEW d \in D PROVE d \in T
  <2>1. rk[d] + 1 \in U
    BY <1>3
  <2>. QED BY <2>1
<1>. QED BY <1>4

(* What a recursion needs to come to an end: a rank, of at most N, that    *)
(* goes down from each place d that is not in Stop to the next one.        *)
Descends(D, V, N, rk, Stop, last, step, nx) ==
  /\ N \in Nat
  /\ rk \in [D -> 0 .. N]
  /\ \A d \in D : d \in Stop => last[d] \in V
  /\ \A d \in D : d \notin Stop => nx[d] \in D /\ rk[nx[d]] < rk[d]
  /\ \A d \in D, v \in V : d \notin Stop => step[d][v] \in V

(* A function can be defined by recursion along such a rank.               *)
LEMMA Recursion ==
  ASSUME NEW D, NEW V, NEW N, NEW rk, NEW Stop, NEW last, NEW step, NEW nx,
         Descends(D, V, N, rk, Stop, last, step, nx)
  PROVE  \E f \in [D -> V] :
           \A d \in D : f[d] = IF d \in Stop THEN last[d] ELSE step[d][f[nx[d]]]
<1> DEFINE B(n) == {d \in D : rk[d] < n}
           Sat(f, n) == /\ f \in [B(n) -> V]
                        /\ \A d \in B(n) : f[d] = IF d \in Stop THEN last[d] ELSE step[d][f[nx[d]]]
           U == {n \in Nat : \E f : Sat(f, n)}
<1> USE DEF Descends
<1>1. 0 \in U
  <2>1. B(0) = {}
    OBVIOUS
  <2>2. Sat([d \in B(0) |-> last[d]], 0)
    BY <2>1
  <2>. QED BY <2>2
<1>2. ASSUME NEW n \in Nat, n \in U PROVE n + 1 \in U
  <2>1. PICK f : Sat(f, n)
    BY <1>2
  <2> DEFINE g == [d \in B(n + 1) |-> IF d \in Stop THEN last[d] ELSE step[d][f[nx[d]]]]
  <2>2. \A d \in B(n + 1) : d \notin Stop => nx[d] \in B(n)
    OBVIOUS
  <2>3. g \in [B(n + 1) -> V]
    <3>1. \A d \in B(n + 1) : (IF d \in Stop THEN last[d] ELSE step[d][f[nx[d]]]) \in V
      BY <2>1, <2>2
    <3>. QED BY <3>1
  <2>4. B(n) \subseteq B(n + 1)
    OBVIOUS
  <2>5. \A d \in B(n) : g[d] = f[d]
    BY <2>1, <2>4
  <2>6. \A d \in B(n + 1) : g[d] = IF d \in Stop THEN last[d] ELSE step[d][g[nx[d]]]
    BY <2>2, <2>5
  <2>7. Sat(g, n + 1)
    BY <2>3, <2>6
  <2> HIDE DEF g, Sat
  <2>. QED BY <2>7
<1>3. N + 1 \in U
  <2> HIDE DEF U
  <2>. QED BY <1>1, <1>2, SetInduction
<1>4. B(N + 1) = D
  OBVIOUS
<1>. QED BY <1>3, <1>4


(* The recursions of this protocol go through a list: either they stop, or *)
(* they put something in front of what comes from further on.  There is    *)
(* one function of this kind, and it yields sequences.                     *)
ListDescends(D, S, N, rk, Stop, last, head, next) ==
  /\ N \in Nat
  /\ rk \in [D -> 0 .. N]
  /\ \A d \in D : d \in Stop => last[d] \in Seq(S)
  /\ \A d \in D : d \notin Stop => /\ head[d] \in Seq(S)
                                /\ next[d] \in D /\ rk[next[d]] < rk[d]

(* f satisfies the equation of a list that is built from its head and the  *)
(* list at next.                                                           *)
IsList(f, D, Stop, last, head, next) ==
  f = [d \in D |-> IF d \in Stop THEN last[d] ELSE head[d] \o f[next[d]]]

(* There is exactly one such function.                                     *)
LEMMA ListRecursion ==
  ASSUME NEW D, NEW S, NEW N, NEW rk, NEW Stop, NEW last, NEW head, NEW next,
         ListDescends(D, S, N, rk, Stop, last, head, next)
  PROVE  \E f \in [D -> Seq(S)] :
           /\ IsList(f, D, Stop, last, head, next)
           /\ \A g : IsList(g, D, Stop, last, head, next) => g = f
<1> USE DEF ListDescends, IsList
<1> DEFINE step == [d \in D |-> [v \in Seq(S) |-> head[d] \o v]]
<1>1. \A d \in D, v \in Seq(S) : d \notin Stop => step[d][v] = head[d] \o v /\ step[d][v] \in Seq(S)
  BY ConcatProperties
<1>2. PICK f \in [D -> Seq(S)] :
        \A d \in D : f[d] = IF d \in Stop THEN last[d] ELSE step[d][f[next[d]]]
  <2> HIDE DEF step
  <2>1. Descends(D, Seq(S), N, rk, Stop, last, step, next)
    BY <1>1 DEF Descends
  <2>. QED BY <2>1, Recursion
<1>3. f = [d \in D |-> IF d \in Stop THEN last[d] ELSE head[d] \o f[next[d]]]
  <2> HIDE DEF step
  <2>1. \A d \in D : f[d] = IF d \in Stop THEN last[d] ELSE head[d] \o f[next[d]]
    BY <1>1, <1>2
  <2>. QED BY <2>1
<1>4. ASSUME NEW g, g = [d \in D |-> IF d \in Stop THEN last[d] ELSE head[d] \o g[next[d]]]
      PROVE  g = f
  <2> DEFINE T == {d \in D : g[d] = f[d]}
  <2>1. ASSUME NEW d \in D, \A e \in D : rk[e] < rk[d] => e \in T PROVE d \in T
    <3>1. CASE d \in Stop
      BY <1>3, <1>4, <3>1
    <3>2. CASE d \notin Stop
      <4>1. g[next[d]] = f[next[d]]
        BY <2>1, <3>2
      <4>2. g[d] = head[d] \o g[next[d]]
        BY <1>4, <3>2
      <4>3. f[d] = head[d] \o f[next[d]]
        BY <1>3, <3>2
      <4>. QED BY <4>1, <4>2, <4>3
    <3>. QED BY <3>1, <3>2
  <2>2. rk \in [D -> Nat]
    OBVIOUS
  <2>3. D \subseteq T
    <3> HIDE DEF T
    <3>. QED BY <2>1, <2>2, RankInduction
  <2>4. \A d \in D : g[d] = f[d]
    BY <2>3
  <2>. QED BY <1>4, <2>4
<1>. QED BY <1>3, <1>4
-----------------------------------------------------------------------------
(* Places in a sequence.                                                   *)

(* Least of a set of positions is in the set.                              *)
LEMMA LeastExists ==
  ASSUME NEW T, T \subseteq Nat, T # {}
  PROVE  Least(T) \in T /\ \A i \in T : Least(T) <= i
<1>1. PICK m \in T : \A y \in T : ~ (<<y, m>> \in OpToRel(<, Nat))
  BY WFMin, NatLessThanWellFounded
<1>2. \A y \in T : m <= y
  <2>1. TAKE y \in T
  <2>2. ~(y < m)
    BY <1>1 DEF OpToRel
  <2>. QED BY <2>2
<1>. QED BY <1>2 DEF Least

(* The least element is the one that no other is below.                    *)
LEMMA LeastIs ==
  ASSUME NEW T, T \subseteq Nat, NEW m \in T, \A i \in T : m <= i
  PROVE  Least(T) = m
<1>1. Least(T) \in T /\ \A i \in T : Least(T) <= i
  BY LeastExists
<1>2. Least(T) <= m /\ m <= Least(T) /\ Least(T) \in Nat /\ m \in Nat
  BY <1>1
<1>. QED BY <1>2

(* A part of a sequence.                                                   *)
LEMMA Part ==
  ASSUME NEW S, NEW s \in Seq(S), NEW m \in 1 .. Len(s) + 1, NEW n \in m - 1 .. Len(s)
  PROVE  /\ SubSeq(s, m, n) \in Seq(S)
         /\ Len(SubSeq(s, m, n)) = n - m + 1
         /\ \A i \in 1 .. n - m + 1 : SubSeq(s, m, n)[i] = s[m + i - 1]
<1>1. Len(s) \in Nat
  BY LenProperties
<1>2. \A i \in m .. n : s[i] \in S
  BY <1>1, ElementOfSeq
<1>3. m \in Int /\ n \in Int
  BY <1>1
<1>4. /\ SubSeq(s, m, n) \in Seq(S)
      /\ Len(SubSeq(s, m, n)) = IF m <= n THEN n - m + 1 ELSE 0
      /\ \A i \in 1 .. n - m + 1 : SubSeq(s, m, n)[i] = s[m + i - 1]
  BY <1>2, <1>3, SubSeqProperties
<1>. QED BY <1>1, <1>3, <1>4

(* A part of a sequence is a sequence of the same elements, even an empty  *)
(* one that ends anywhere.                                                 *)
LEMMA PartTyped ==
  ASSUME NEW S, NEW s \in Seq(S), NEW m \in 1 .. Len(s) + 1, NEW n \in Int, n <= Len(s)
  PROVE  SubSeq(s, m, n) \in Seq(S)
<1>1. Len(s) \in Nat
  BY LenProperties
<1>2. \A i \in m .. n : s[i] \in S
  BY <1>1, ElementOfSeq
<1>. QED BY <1>1, <1>2, SubSeqProperties

(* m stands in s at k if its elements do.                                  *)
LEMMA AtMeans ==
  ASSUME NEW s \in Seq(Bytes), NEW m \in Seq(Bytes), NEW k \in Nat, k >= 1
  PROVE  At(s, k, m) <=> /\ k + Len(m) - 1 <= Len(s)
                         /\ \A i \in 1 .. Len(m) : s[k + i - 1] = m[i]
<1> DEFINE n == k + Len(m) - 1
<1>1. Len(s) \in Nat /\ Len(m) \in Nat
  BY LenProperties
<1>2. CASE n <= Len(s)
  <2>1. k \in 1 .. Len(s) + 1 /\ n \in k - 1 .. Len(s)
    BY <1>1, <1>2
  <2>2. /\ SubSeq(s, k, n) \in Seq(Bytes)
        /\ Len(SubSeq(s, k, n)) = Len(m)
        /\ \A i \in 1 .. Len(m) : SubSeq(s, k, n)[i] = s[k + i - 1]
    <3>1. /\ SubSeq(s, k, n) \in Seq(Bytes)
          /\ Len(SubSeq(s, k, n)) = n - k + 1
          /\ \A i \in 1 .. n - k + 1 : SubSeq(s, k, n)[i] = s[k + i - 1]
      <4> HIDE DEF n
      <4>. QED BY <2>1, Part
    <3>2. n - k + 1 = Len(m)
      BY <1>1
    <3>. QED BY <3>1, <3>2
  <2>3. SubSeq(s, k, n) = m <=> \A i \in 1 .. Len(m) : s[k + i - 1] = m[i]
    <3> DEFINE t == SubSeq(s, k, n)
    <3>1. ASSUME \A i \in 1 .. Len(m) : s[k + i - 1] = m[i] PROVE t = m
      <4>1. t \in Seq(Bytes) /\ Len(t) = Len(m) /\ \A i \in 1 .. Len(t) : t[i] = m[i]
        BY <2>2, <3>1
      <4> HIDE DEF t
      <4>. QED BY <4>1, SeqEqual
    <3>2. ASSUME t = m PROVE \A i \in 1 .. Len(m) : s[k + i - 1] = m[i]
      <4>1. \A i \in 1 .. Len(m) : t[i] = s[k + i - 1]
        BY <2>2
      <4> HIDE DEF t
      <4>. QED BY <3>2, <4>1
    <3>. QED BY <3>1, <3>2
  <2>. QED BY <1>2, <2>3 DEF At
<1>3. CASE ~(n <= Len(s))
  BY <1>3 DEF At
<1>. QED BY <1>2, <1>3

(* The mark and the start of a character code, byte by byte.               *)
LEMMA MarkAt ==
  ASSUME NEW s \in Seq(Bytes), NEW k \in Nat, k >= 1
  PROVE  At(s, k, Mark) <=> /\ k + 3 <= Len(s)
                            /\ s[k] = 13 /\ s[k + 1] = 10 /\ s[k + 2] = 13 /\ s[k + 3] = 10
<1>1. Mark \in Seq(Bytes) /\ Len(Mark) = 4
  BY DEF Mark, CR, LF, Bytes
<1>2. At(s, k, Mark) <=> /\ k + Len(Mark) - 1 <= Len(s)
                         /\ \A i \in 1 .. Len(Mark) : s[k + i - 1] = Mark[i]
  BY <1>1, AtMeans
<1>3. (\A i \in 1 .. 4 : s[k + i - 1] = Mark[i])
        <=> s[k] = 13 /\ s[k + 1] = 10 /\ s[k + 2] = 13 /\ s[k + 3] = 10
  <2>1. Mark[1] = 13 /\ Mark[2] = 10 /\ Mark[3] = 13 /\ Mark[4] = 10
    BY DEF Mark, CR, LF
  <2>2. k + 1 - 1 = k /\ k + 2 - 1 = k + 1 /\ k + 3 - 1 = k + 2 /\ k + 4 - 1 = k + 3
    OBVIOUS
  <2>3. 1 .. 4 = {1, 2, 3, 4}
    OBVIOUS
  <2>. QED BY <2>1, <2>2, <2>3
<1>4. k + 4 - 1 = k + 3
  OBVIOUS
<1>. QED BY <1>1, <1>2, <1>3, <1>4

(* "&#" stands in s at k, byte by byte.                                    *)
LEMMA CodeAt ==
  ASSUME NEW s \in Seq(Bytes), NEW k \in Nat, k >= 1
  PROVE  At(s, k, <<38, 35>>) <=> k + 1 <= Len(s) /\ s[k] = 38 /\ s[k + 1] = 35
<1> DEFINE m == <<38, 35>>
<1>1. m \in Seq(Bytes) /\ Len(m) = 2 /\ m[1] = 38 /\ m[2] = 35
  BY DEF Bytes
<1>2. At(s, k, m) <=> /\ k + Len(m) - 1 <= Len(s)
                      /\ \A i \in 1 .. Len(m) : s[k + i - 1] = m[i]
  <2> HIDE DEF m
  <2>. QED BY <1>1, AtMeans
<1>3. (\A i \in 1 .. 2 : s[k + i - 1] = m[i]) <=> s[k] = 38 /\ s[k + 1] = 35
  <2>1. k + 1 - 1 = k /\ k + 2 - 1 = k + 1
    OBVIOUS
  <2>2. 1 .. 2 = {1, 2}
    OBVIOUS
  <2> HIDE DEF m
  <2>. QED BY <1>1, <2>1, <2>2
<1>4. k + 2 - 1 = k + 1
  OBVIOUS
<1> HIDE DEF m
<1>5. At(s, k, m) <=> k + 1 <= Len(s) /\ s[k] = 38 /\ s[k + 1] = 35
  BY <1>1, <1>2, <1>3, <1>4
<1>. QED BY <1>5 DEF m

(* What Find returns.                                                      *)
LEMMA FindIs ==
  ASSUME NEW s \in Seq(Bytes), NEW i \in 1 .. Len(s) + 1, NEW b
  PROVE  /\ Find(s, i, b) \in i .. Len(s) + 1
         /\ \A k \in i .. Find(s, i, b) - 1 : s[k] # b
         /\ Find(s, i, b) <= Len(s) => s[Find(s, i, b)] = b
<1>1. Len(s) \in Nat
  BY LenProperties
<1> DEFINE T == {k \in i .. Len(s) : s[k] = b} \cup {Len(s) + 1}
<1>2. T \subseteq i .. Len(s) + 1 /\ T \subseteq Nat /\ T # {}
  BY <1>1
<1>3. Least(T) \in T /\ \A k \in T : Least(T) <= k
  <2> HIDE DEF T
  <2>. QED BY <1>2, LeastExists
<1>4. Find(s, i, b) = Least(T)
  BY DEF Find
<1>5. \A k \in i .. Len(s) : s[k] = b => k \in T
  OBVIOUS
<1>6. Least(T) <= Len(s) => s[Least(T)] = b
  BY <1>1, <1>3
<1>7. ASSUME NEW k \in i .. Least(T) - 1 PROVE s[k] # b
  <2> HIDE DEF T
  <2>1. Least(T) \in i .. Len(s) + 1
    BY <1>2, <1>3
  <2>2. k \in i .. Len(s) /\ ~(Least(T) <= k)
    BY <1>1, <2>1
  <2>. QED BY <1>3, <1>5, <2>2
<1> HIDE DEF T
<1>. QED BY <1>2, <1>3, <1>4, <1>6, <1>7

(* Find is what has its properties.                                        *)
LEMMA FindAt ==
  ASSUME NEW s \in Seq(Bytes), NEW i \in 1 .. Len(s) + 1, NEW b,
         NEW e \in i .. Len(s) + 1,
         \A k \in i .. e - 1 : s[k] # b, e <= Len(s) => s[e] = b
  PROVE  Find(s, i, b) = e
<1>1. Len(s) \in Nat
  BY LenProperties
<1>2. /\ Find(s, i, b) \in i .. Len(s) + 1
      /\ \A k \in i .. Find(s, i, b) - 1 : s[k] # b
      /\ Find(s, i, b) <= Len(s) => s[Find(s, i, b)] = b
  BY FindIs
<1>3. ~(Find(s, i, b) < e)
  <2>1. SUFFICES ASSUME Find(s, i, b) < e PROVE FALSE
    OBVIOUS
  <2>2. Find(s, i, b) \in i .. e - 1 /\ Find(s, i, b) <= Len(s)
    BY <1>1, <1>2, <2>1
  <2>. QED BY <1>2, <2>2
<1>4. ~(e < Find(s, i, b))
  <2>1. SUFFICES ASSUME e < Find(s, i, b) PROVE FALSE
    OBVIOUS
  <2>2. e \in i .. Find(s, i, b) - 1 /\ e <= Len(s)
    BY <1>1, <1>2, <2>1
  <2>. QED BY <1>2, <2>2
<1>. QED BY <1>1, <1>2, <1>3, <1>4
-----------------------------------------------------------------------------
(* Numbers.                                                                *)

(* A byte is a number.                                                     *)
LEMMA ByteIsInt == \A b \in Bytes : b \in Int
BY DEF Bytes

(* Where atoi finds the first byte behind white space, and the first from  *)
(* there that is no digit.                                                 *)
NumberBegin(s) == Least({i \in 1 .. Len(s) : s[i] \notin {32} \cup 9 .. 13} \cup {Len(s) + 1})
NumberEnd(s) == Least({i \in NumberBegin(s) .. Len(s) : ~IsDigit(s[i])} \cup {Len(s) + 1})

(* The value of the digits up to each place.                               *)
Value(s) ==
  CHOOSE val : val = [i \in NumberBegin(s) - 1 .. NumberEnd(s) - 1 |->
                        IF i < NumberBegin(s) THEN 0 ELSE 10 * val[i - 1] + s[i] - 48]

(* The number is the value at its last digit.                              *)
LEMMA AtoiIsValue ==
  ASSUME NEW s
  PROVE  Atoi(s) = Value(s)[NumberEnd(s) - 1]
BY DEF Atoi, Value, NumberBegin, NumberEnd

(* Both places lie in s or right behind it.                                *)
LEMMA NumberPlaces ==
  ASSUME NEW s \in Seq(Bytes)
  PROVE  /\ NumberBegin(s) \in 1 .. Len(s) + 1
         /\ NumberEnd(s) \in NumberBegin(s) .. Len(s) + 1
<1>1. Len(s) \in Nat
  BY LenProperties
<1> DEFINE T == {i \in 1 .. Len(s) : s[i] \notin {32} \cup 9 .. 13} \cup {Len(s) + 1}
<1>2. T \subseteq 1 .. Len(s) + 1 /\ T \subseteq Nat /\ T # {}
  BY <1>1
<1>3. NumberBegin(s) \in T
  <2>1. NumberBegin(s) = Least(T)
    BY DEF NumberBegin
  <2> HIDE DEF T
  <2>. QED BY <1>2, <2>1, LeastExists
<1>4. NumberBegin(s) \in 1 .. Len(s) + 1
  BY <1>2, <1>3
<1> DEFINE U == {i \in NumberBegin(s) .. Len(s) : ~IsDigit(s[i])} \cup {Len(s) + 1}
<1>5. U \subseteq NumberBegin(s) .. Len(s) + 1 /\ U \subseteq Nat /\ U # {}
  BY <1>1, <1>4
<1>6. NumberEnd(s) \in U
  <2>1. NumberEnd(s) = Least(U)
    BY DEF NumberEnd
  <2> HIDE DEF U
  <2>. QED BY <1>5, <2>1, LeastExists
<1>. QED BY <1>4, <1>5, <1>6

(* There is one such value.                                                *)
LEMMA ValueIs ==
  ASSUME NEW s \in Seq(Bytes)
  PROVE  /\ Value(s) \in [NumberBegin(s) - 1 .. NumberEnd(s) - 1 -> Int]
         /\ \A i \in NumberBegin(s) - 1 .. NumberEnd(s) - 1 :
              Value(s)[i] = IF i < NumberBegin(s) THEN 0 ELSE 10 * Value(s)[i - 1] + s[i] - 48
<1> DEFINE b == NumberBegin(s)
           e == NumberEnd(s)
           D == b - 1 .. e - 1
           rk == [i \in D |-> i - (b - 1)]
           Stop == {i \in D : i < b}
           last == [i \in D |-> 0]
           step == [i \in D |-> [v \in Int |-> 10 * v + s[i] - 48]]
           nx == [i \in D |-> i - 1]
           Is(g) == g = [i \in D |-> IF i < b THEN 0 ELSE 10 * g[i - 1] + s[i] - 48]
<1>1. Len(s) \in Nat /\ b \in 1 .. Len(s) + 1 /\ e \in b .. Len(s) + 1
  BY LenProperties, NumberPlaces
<1> HIDE DEF b, e
<1>2. \A i \in D : i \in Int /\ i - (b - 1) \in 0 .. e - b
  BY <1>1
<1>3. \A i \in D : i >= b => i - 1 \in D /\ s[i] \in Int
  <2>1. TAKE i \in D
  <2>2. SUFFICES ASSUME i >= b PROVE i - 1 \in D /\ s[i] \in Int
    OBVIOUS
  <2>3. i - 1 \in D /\ i \in 1 .. Len(s)
    BY <1>1, <2>2
  <2>4. s[i] \in Bytes
    BY <2>3, ElementOfSeq
  <2>5. s[i] \in Int
    BY <2>4, ByteIsInt
  <2> HIDE DEF D
  <2>. QED BY <2>3, <2>5
<1>4. Descends(D, Int, e - b, rk, Stop, last, step, nx)
  <2>1. e - b \in Nat
    BY <1>1
  <2>2. rk \in [D -> 0 .. e - b]
    BY <1>2
  <2>3. \A i \in D : i \in Stop => last[i] \in Int
    OBVIOUS
  <2>4. \A i \in D : i \notin Stop => nx[i] \in D /\ rk[nx[i]] < rk[i]
    BY <1>1, <1>2, <1>3
  <2>5. \A i \in D, v \in Int : i \notin Stop => step[i][v] \in Int
    BY <1>1, <1>3
  <2> HIDE DEF D, rk, Stop, last, step, nx
  <2>. QED BY <2>1, <2>2, <2>3, <2>4, <2>5 DEF Descends
<1>5. PICK f \in [D -> Int] :
        \A i \in D : f[i] = IF i \in Stop THEN last[i] ELSE step[i][f[nx[i]]]
  <2> HIDE DEF D, rk, Stop, last, step, nx
  <2>. QED BY <1>4, Recursion
<1>6. \A i \in D : f[i] = IF i < b THEN 0 ELSE 10 * f[i - 1] + s[i] - 48
  <2>1. TAKE i \in D
  <2>2. CASE i < b
    BY <1>5, <2>2
  <2>3. CASE ~(i < b)
    <3>1. i - 1 \in D /\ f[i - 1] \in Int
      BY <1>1, <1>3, <1>5, <2>3
    <3>2. f[i] = step[i][f[i - 1]]
      BY <1>5, <2>3
    <3>3. step[i][f[i - 1]] = 10 * f[i - 1] + s[i] - 48
      BY <3>1
    <3>. QED BY <2>3, <3>2, <3>3
  <2>. QED BY <2>2, <2>3
<1>7. Is(f)
  <2> HIDE DEF D
  <2>. QED BY <1>5, <1>6
<1>8. Value(s) = CHOOSE g : Is(g)
  BY DEF Value, b, e
<1>9. Is(Value(s))
  <2> HIDE DEF Is
  <2>. QED BY <1>7, <1>8
<1>10. Value(s) \in [D -> Int]
  <2> DEFINE v == Value(s)
             T == {i \in D : v[i] = f[i]}
  <2>1. v = [i \in D |-> IF i < b THEN 0 ELSE 10 * v[i - 1] + s[i] - 48]
    BY <1>9
  <2> HIDE DEF v
  <2>2. ASSUME NEW i \in D, \A j \in D : rk[j] < rk[i] => j \in T PROVE i \in T
    <3>1. CASE i < b
      BY <1>6, <2>1, <3>1
    <3>2. CASE ~(i < b)
      <4>1. i - 1 \in D /\ rk[i - 1] < rk[i]
        BY <1>1, <1>2, <1>3, <3>2
      <4>2. v[i - 1] = f[i - 1]
        BY <2>2, <4>1
      <4>3. v[i] = 10 * v[i - 1] + s[i] - 48 /\ f[i] = 10 * f[i - 1] + s[i] - 48
        BY <1>6, <2>1, <3>2
      <4>. QED BY <4>2, <4>3
    <3>. QED BY <3>1, <3>2
  <2>3. rk \in [D -> Nat]
    BY <1>2
  <2>4. D \subseteq T
    <3> HIDE DEF T, D, rk
    <3>. QED BY <2>2, <2>3, RankInduction
  <2>5. \A i \in D : v[i] \in Int
    BY <1>5, <2>4
  <2>6. v \in [D -> Int]
    <3> HIDE DEF D
    <3>. QED BY <2>1, <2>5
  <2>. QED BY <2>6 DEF v
<1>11. \A i \in D : Value(s)[i] = IF i < b THEN 0 ELSE 10 * Value(s)[i - 1] + s[i] - 48
  <2> DEFINE v == Value(s)
  <2>1. v = [i \in D |-> IF i < b THEN 0 ELSE 10 * v[i - 1] + s[i] - 48]
    BY <1>9
  <2> HIDE DEF v, D
  <2>2. \A i \in D : v[i] = IF i < b THEN 0 ELSE 10 * v[i - 1] + s[i] - 48
    BY <2>1
  <2>. QED BY <2>2 DEF v
<1>. QED BY <1>10, <1>11 DEF b, e

(* atoi returns a number for all bytes.                                    *)
LEMMA AtoiTyped ==
  ASSUME NEW s \in Seq(Bytes)
  PROVE  Atoi(s) \in Int
<1>1. NumberEnd(s) - 1 \in NumberBegin(s) - 1 .. NumberEnd(s) - 1
  BY LenProperties, NumberPlaces
<1>. QED BY <1>1, ValueIs, AtoiIsValue

(* The two numbers WritefixEMark2 writes.                                  *)
LEMMA AtoiOfCode ==
  Atoi(<<49, 51>>) = CR /\ Atoi(<<49, 48>>) = LF
<1>1. ASSUME NEW d \in 48 .. 57 PROVE Atoi(<<49, d>>) = 10 + d - 48
  <2> DEFINE s == <<49, d>>
  <2>1. s \in Seq(Bytes) /\ Len(s) = 2 /\ s[1] = 49 /\ s[2] = d
    BY DEF Bytes
  <2> HIDE DEF s
  <2>2. NumberBegin(s) = 1
    <3> DEFINE T == {i \in 1 .. Len(s) : s[i] \notin {32} \cup 9 .. 13} \cup {Len(s) + 1}
    <3>1. T \subseteq Nat /\ 1 \in T /\ \A i \in T : 1 <= i
      BY <2>1
    <3>2. Least(T) = 1
      <4> HIDE DEF T
      <4>. QED BY <3>1, LeastIs
    <3>. QED BY <3>2 DEF NumberBegin
  <2>3. NumberEnd(s) = 3
    <3> DEFINE T == {i \in 1 .. Len(s) : ~IsDigit(s[i])} \cup {Len(s) + 1}
    <3>1. T = {3}
      BY <2>1 DEF IsDigit
    <3>2. Least(T) = 3
      <4>1. T \subseteq Nat /\ 3 \in T /\ \A i \in T : 3 <= i
        BY <3>1
      <4> HIDE DEF T
      <4>. QED BY <4>1, LeastIs
    <3>. QED BY <2>2, <3>2 DEF NumberEnd
  <2>4. \A i \in 0 .. 2 : Value(s)[i] = IF i < 1 THEN 0 ELSE 10 * Value(s)[i - 1] + s[i] - 48
    BY <2>1, <2>2, <2>3, ValueIs
  <2>5. Value(s)[0] = 0
    BY <2>4
  <2>6. Value(s)[1] = 1
    <3>1. Value(s)[1] = 10 * Value(s)[1 - 1] + s[1] - 48
      BY <2>4
    <3>. QED BY <2>1, <2>5, <3>1
  <2>7. Value(s)[2] = 10 + d - 48
    <3>1. Value(s)[2] = 10 * Value(s)[2 - 1] + s[2] - 48
      BY <2>4
    <3>. QED BY <2>1, <2>6, <3>1
  <2>8. Atoi(s) = Value(s)[2]
    BY <2>3, AtoiIsValue
  <2>. QED BY <2>7, <2>8 DEF s
<1>2. Atoi(<<49, 51>>) = 13
  <2>1. Atoi(<<49, 51>>) = 10 + 51 - 48
    BY <1>1
  <2>. QED BY <2>1
<1>3. Atoi(<<49, 48>>) = 10
  <2>1. Atoi(<<49, 48>>) = 10 + 48 - 48
    BY <1>1
  <2>. QED BY <2>1
<1>. QED BY <1>2, <1>3 DEF CR, LF
-----------------------------------------------------------------------------
(* The decoder.                                                            *)

(* What stands between the "&#" at i and the next ";".                     *)
CodeFrom(s, i) == SubSeq(s, i + 2, Find(s, i + 2, 59) - 1)

(* The recursive function that Decode is defined with.                     *)
Decoder(s) ==
  CHOOSE dec : dec = [i \in 1 .. Len(s) + 2 |->
        IF i > Len(s) THEN <<>>
        ELSE IF At(s, i, <<38, 35>>)
             THEN <<Atoi(SubSeq(s, i + 2, Find(s, i + 2, 59) - 1)) % 256>>
                  \o dec[Find(s, i + 2, 59) + 1]
             ELSE <<s[i]>> \o dec[i + 1]]

(* What is decoded is what that function gives from the first place.       *)
LEMMA DecodeIsDecoder ==
  ASSUME NEW s
  PROVE  Decode(s) = Decoder(s)[1]
BY DEF Decode, Decoder

(* A code ends behind its beginning, and at most one place behind s.       *)
LEMMA CodePlaces ==
  ASSUME NEW s \in Seq(Bytes), NEW i \in 1 .. Len(s), At(s, i, <<38, 35>>)
  PROVE  /\ Find(s, i + 2, 59) + 1 \in i + 3 .. Len(s) + 2
         /\ CodeFrom(s, i) \in Seq(Bytes)
<1>1. Len(s) \in Nat
  BY LenProperties
<1>2. i + 1 <= Len(s)
  <2>1. i \in Nat /\ i >= 1
    BY <1>1
  <2>. QED BY <2>1, CodeAt
<1>3. i + 2 \in 1 .. Len(s) + 1
  BY <1>1, <1>2
<1>4. Find(s, i + 2, 59) \in i + 2 .. Len(s) + 1
  BY <1>3, FindIs
<1>5. Find(s, i + 2, 59) - 1 \in Int /\ Find(s, i + 2, 59) - 1 <= Len(s)
  BY <1>1, <1>4
<1>6. CodeFrom(s, i) \in Seq(Bytes)
  BY <1>3, <1>5, PartTyped DEF CodeFrom
<1>. QED BY <1>1, <1>4, <1>6

(* The function exists, and satisfies its equation.                        *)
LEMMA DecoderIs ==
  ASSUME NEW s \in Seq(Bytes)
  PROVE  /\ Decoder(s) \in [1 .. Len(s) + 2 -> Seq(Bytes)]
         /\ Decoder(s)[Len(s) + 1] = <<>> /\ Decoder(s)[Len(s) + 2] = <<>>
         /\ \A i \in 1 .. Len(s) :
              IF At(s, i, <<38, 35>>)
              THEN Decoder(s)[i] = <<Atoi(CodeFrom(s, i)) % 256>>
                                   \o Decoder(s)[Find(s, i + 2, 59) + 1]
              ELSE Decoder(s)[i] = <<s[i]>> \o Decoder(s)[i + 1]
<1> DEFINE D == 1 .. Len(s) + 2
           Coded(i) == At(s, i, <<38, 35>>)
           rk == [i \in D |-> Len(s) + 2 - i]
           Stop == {i \in D : i > Len(s)}
           last == [i \in D |-> <<>>]
           one == [i \in D |-> IF Coded(i) THEN Atoi(CodeFrom(s, i)) % 256 ELSE s[i]]
           head == [i \in D |-> <<one[i]>>]
           next == [i \in D |-> IF Coded(i) THEN Find(s, i + 2, 59) + 1 ELSE i + 1]
           Is(g) == g = [i \in D |-> IF i > Len(s) THEN <<>>
                          ELSE IF At(s, i, <<38, 35>>)
                               THEN <<Atoi(SubSeq(s, i + 2, Find(s, i + 2, 59) - 1)) % 256>>
                                    \o g[Find(s, i + 2, 59) + 1]
                               ELSE <<s[i]>> \o g[i + 1]]
<1>1. Len(s) \in Nat
  BY LenProperties
<1>2. ASSUME NEW i \in D, i \notin Stop
      PROVE  next[i] \in D /\ next[i] > i /\ one[i] \in Bytes
  <2>1. i \in 1 .. Len(s)
    BY <1>1, <1>2
  <2>2. CASE Coded(i)
    <3>1. Find(s, i + 2, 59) + 1 \in i + 3 .. Len(s) + 2 /\ CodeFrom(s, i) \in Seq(Bytes)
      BY <2>1, <2>2, CodePlaces
    <3>2. Atoi(CodeFrom(s, i)) \in Int
      BY <3>1, AtoiTyped
    <3>3. Atoi(CodeFrom(s, i)) % 256 \in Bytes
      <4>1. \A x \in Int : x % 256 \in 0 .. 255
        OBVIOUS
      <4>. QED BY <3>2, <4>1, Zenon DEF Bytes
    <3>. QED BY <1>1, <2>1, <2>2, <3>1, <3>3
  <2>3. CASE ~Coded(i)
    <3>1. s[i] \in Bytes
      BY <2>1, ElementOfSeq
    <3>. QED BY <1>1, <2>1, <2>3, <3>1
  <2>. QED BY <2>2, <2>3
<1>3. ListDescends(D, Bytes, Len(s) + 2, rk, Stop, last, head, next)
  <2>1. rk \in [D -> 0 .. Len(s) + 2]
    BY <1>1
  <2>2. \A i \in D : i \in Stop => last[i] \in Seq(Bytes)
    OBVIOUS
  <2>3. \A i \in D : i \notin Stop => head[i] \in Seq(Bytes)
    <3>1. TAKE i \in D
    <3>2. i \notin Stop => one[i] \in Bytes
      BY <1>2
    <3> HIDE DEF one
    <3>. QED BY <3>2
  <2>4. \A i \in D : i \notin Stop => next[i] \in D /\ rk[next[i]] < rk[i]
    <3>1. TAKE i \in D
    <3>2. i \notin Stop => next[i] \in D /\ next[i] > i
      BY <1>2
    <3> HIDE DEF next
    <3>. QED BY <1>1, <3>2
  <2>5. Len(s) + 2 \in Nat
    BY <1>1
  <2> HIDE DEF D, rk, Stop, last, head, next
  <2>. QED BY <2>1, <2>2, <2>3, <2>4, <2>5 DEF ListDescends
<1>4. PICK f \in [D -> Seq(Bytes)] : /\ IsList(f, D, Stop, last, head, next)
                                     /\ \A g : IsList(g, D, Stop, last, head, next) => g = f
  <2> HIDE DEF D, rk, Stop, last, head, next
  <2>. QED BY <1>3, ListRecursion
<1>5. ASSUME NEW g PROVE Is(g) <=> IsList(g, D, Stop, last, head, next)
  <2>1. ASSUME NEW i \in D
        PROVE  (IF i > Len(s) THEN <<>>
                ELSE IF At(s, i, <<38, 35>>)
                     THEN <<Atoi(SubSeq(s, i + 2, Find(s, i + 2, 59) - 1)) % 256>>
                          \o g[Find(s, i + 2, 59) + 1]
                     ELSE <<s[i]>> \o g[i + 1])
               = (IF i \in Stop THEN last[i] ELSE head[i] \o g[next[i]])
    <3>1. CASE i > Len(s)
      BY <3>1
    <3>2. CASE ~(i > Len(s)) /\ Coded(i)
      BY <3>2 DEF CodeFrom
    <3>3. CASE ~(i > Len(s)) /\ ~Coded(i)
      BY <3>3
    <3>. QED BY <3>1, <3>2, <3>3
  <2>2. [i \in D |-> IF i > Len(s) THEN <<>>
                     ELSE IF At(s, i, <<38, 35>>)
                          THEN <<Atoi(SubSeq(s, i + 2, Find(s, i + 2, 59) - 1)) % 256>>
                               \o g[Find(s, i + 2, 59) + 1]
                          ELSE <<s[i]>> \o g[i + 1]]
        = [i \in D |-> IF i \in Stop THEN last[i] ELSE head[i] \o g[next[i]]]
    <3> HIDE DEF D, Stop, last, head, next
    <3>. QED BY <2>1
  <2> HIDE DEF D, Stop, last, head, next
  <2>. QED BY <2>2, Zenon DEF IsList
<1>6. Is(Decoder(s)) /\ Decoder(s) \in [D -> Seq(Bytes)] /\ IsList(Decoder(s), D, Stop, last, head, next)
  <2>1. Decoder(s) = CHOOSE g : Is(g)
    BY Zenon DEF Decoder
  <2> HIDE DEF Is, D, Stop, last, head, next
  <2>2. Is(f)
    BY <1>4, <1>5
  <2>3. Is(Decoder(s))
    BY <2>1, <2>2
  <2>. QED BY <1>4, <1>5, <2>3
<1>7. ASSUME NEW i \in D
      PROVE  Decoder(s)[i] = IF i \in Stop THEN last[i] ELSE head[i] \o Decoder(s)[next[i]]
  <2> DEFINE d == Decoder(s)
  <2> HIDE DEF d, D, Stop, last, head, next
  <2>1. d = [j \in D |-> IF j \in Stop THEN last[j] ELSE head[j] \o d[next[j]]]
    BY <1>6 DEF IsList, d
  <2>2. d[i] = IF i \in Stop THEN last[i] ELSE head[i] \o d[next[i]]
    BY <2>1
  <2>. QED BY <2>2 DEF d
<1>8. Decoder(s)[Len(s) + 1] = <<>> /\ Decoder(s)[Len(s) + 2] = <<>>
  <2>1. /\ Len(s) + 1 \in D /\ Len(s) + 1 \in Stop
        /\ Len(s) + 2 \in D /\ Len(s) + 2 \in Stop
    BY <1>1
  <2>2. last[Len(s) + 1] = <<>> /\ last[Len(s) + 2] = <<>>
    BY <2>1
  <2> HIDE DEF last, Stop, D
  <2>. QED BY <1>7, <2>1, <2>2
<1>9. ASSUME NEW i \in 1 .. Len(s)
      PROVE  IF Coded(i)
             THEN Decoder(s)[i] = <<Atoi(CodeFrom(s, i)) % 256>>
                                  \o Decoder(s)[Find(s, i + 2, 59) + 1]
             ELSE Decoder(s)[i] = <<s[i]>> \o Decoder(s)[i + 1]
  <2>1. i \in D /\ i \notin Stop
    BY <1>1
  <2>2. Decoder(s)[i] = head[i] \o Decoder(s)[next[i]]
    BY <1>7, <2>1
  <2>3. CASE Coded(i)
    BY <2>1, <2>2, <2>3
  <2>4. CASE ~Coded(i)
    BY <2>1, <2>2, <2>4
  <2>. QED BY <2>3, <2>4
<1>. QED BY <1>6, <1>8, <1>9, Zenon

(* What is decoded is bytes.                                               *)
LEMMA DecodeTyped ==
  ASSUME NEW s \in Seq(Bytes)
  PROVE  Decode(s) \in Seq(Bytes)
<1>1. 1 \in 1 .. Len(s) + 2
  BY LenProperties
<1>. QED BY <1>1, DecoderIs, DecodeIsDecoder

(* What is passed on of a chunk is bytes.                                  *)
LEMMA PayloadTyped ==
  ASSUME NEW s \in Seq(Bytes)
  PROVE  Payload(s) \in Seq(Bytes)
<1> DEFINE t == Decode(s)
<1>1. t \in Seq(Bytes) /\ Len(t) \in Nat
  BY DecodeTyped, LenProperties
<1>2. Len(Mark) = 4
  BY DEF Mark
<1> HIDE DEF t
<1>3. 1 \in 1 .. Len(t) + 1 /\ Len(t) - Len(Mark) \in Int /\ Len(t) - Len(Mark) <= Len(t)
  BY <1>1, <1>2
<1>4. SubSeq(t, 1, Len(t) - Len(Mark)) \in Seq(Bytes)
  BY <1>1, <1>3, PartTyped
<1>. QED BY <1>4 DEF Payload, t

(* Bytes can be put together in any order of bracketing.                   *)
LEMMA BytesAssociative ==
  \A s, t, u \in Seq(Bytes) : (s \o t) \o u = s \o (t \o u)
BY ConcatAssociative

(* Bytes in which no code starts stay as they are.                         *)
LEMMA DecodeRuns ==
  ASSUME NEW s \in Seq(Bytes), NEW j \in 1 .. Len(s) + 1,
         \A k \in 1 .. j - 1 : ~At(s, k, <<38, 35>>)
  PROVE  Decode(s) = SubSeq(s, 1, j - 1) \o Decoder(s)[j]
<1> DEFINE d == Decoder(s)
           Good(n) == n < j => d[1] = SubSeq(s, 1, n) \o d[n + 1]
           T == {n \in Nat : Good(n)}
<1>0. Len(s) \in Nat /\ j \in Nat /\ j >= 1 /\ d \in [1 .. Len(s) + 2 -> Seq(Bytes)]
  BY LenProperties, DecoderIs
<1> HIDE DEF d
<1>1. Good(0)
  <2>1. SubSeq(s, 1, 0) = <<>>
    BY SubSeqEmpty
  <2>2. d[1] \in Seq(Bytes)
    BY <1>0
  <2>3. <<>> \o d[1] = d[1]
    BY <2>2, ConcatEmptySeq
  <2>4. 0 + 1 = 1
    OBVIOUS
  <2>. QED BY <2>1, <2>3, <2>4, Zenon
<1>2. ASSUME NEW n \in Nat, Good(n) PROVE Good(n + 1)
  <2>1. SUFFICES ASSUME n + 1 < j PROVE d[1] = SubSeq(s, 1, n + 1) \o d[(n + 1) + 1]
    OBVIOUS
  <2>2. n + 1 \in 1 .. j - 1 /\ n + 1 \in 1 .. Len(s) /\ n < j
    BY <1>0, <2>1
  <2>3. d[1] = SubSeq(s, 1, n) \o d[n + 1]
    BY <1>2, <2>2
  <2>4. d[n + 1] = <<s[n + 1]>> \o d[(n + 1) + 1]
    <3>1. ~At(s, n + 1, <<38, 35>>)
      BY <2>2
    <3>. QED BY <2>2, <3>1, DecoderIs DEF d
  <2>5. SubSeq(s, 1, n) \in Seq(Bytes) /\ s[n + 1] \in Bytes /\ d[(n + 1) + 1] \in Seq(Bytes)
    <3>1. 1 \in 1 .. Len(s) + 1 /\ n \in Int /\ n <= Len(s)
      BY <1>0, <2>2
    <3>2. (n + 1) + 1 \in 1 .. Len(s) + 2
      BY <1>0, <2>2
    <3>. QED BY <1>0, <2>2, <3>1, <3>2, PartTyped, ElementOfSeq
  <2>6. SubSeq(s, 1, n) \o <<s[n + 1]>> = SubSeq(s, 1, n + 1)
    <3>1. 1 \in 1 .. Len(s) /\ n + 1 \in 1 .. Len(s) /\ (n + 1) - 1 = n
      BY <1>0, <2>2
    <3>2. SubSeq(s, 1, n + 1) = SubSeq(s, 1, (n + 1) - 1) \o <<s[n + 1]>>
      BY <3>1, SubSeqRecursiveSecond
    <3>. QED BY <3>1, <3>2
  <2>7. SubSeq(s, 1, n) \o (<<s[n + 1]>> \o d[(n + 1) + 1])
          = (SubSeq(s, 1, n) \o <<s[n + 1]>>) \o d[(n + 1) + 1]
    <3>1. <<s[n + 1]>> \in Seq(Bytes)
      BY <2>5
    <3>. QED BY <2>5, <3>1, BytesAssociative
  <2>. QED BY <2>3, <2>4, <2>6, <2>7
<1>3. Good(j - 1)
  <2> HIDE DEF Good
  <2>1. 0 \in T /\ \A n \in Nat : n \in T => n + 1 \in T
    BY <1>1, <1>2
  <2>2. Nat \subseteq T
    <3> HIDE DEF T
    <3>. QED BY <2>1, SetInduction
  <2>. QED BY <1>0, <2>2
<1>4. d[1] = SubSeq(s, 1, j - 1) \o d[(j - 1) + 1]
  <2>1. j - 1 < j
    BY <1>0
  <2>. QED BY <1>3, <2>1, Zenon
<1>5. (j - 1) + 1 = j
  BY <1>0
<1>. QED BY <1>4, <1>5, DecodeIsDecoder DEF d

(* Without any code in it, a chunk decodes to itself.                      *)
LEMMA DecodePlain ==
  ASSUME NEW s \in Seq(Bytes), \A k \in 1 .. Len(s) : ~At(s, k, <<38, 35>>)
  PROVE  Decode(s) = s
<1>1. Len(s) \in Nat
  BY LenProperties
<1>2. Len(s) + 1 \in 1 .. Len(s) + 1 /\ (Len(s) + 1) - 1 = Len(s)
  BY <1>1
<1>3. Decode(s) = SubSeq(s, 1, (Len(s) + 1) - 1) \o Decoder(s)[Len(s) + 1]
  <2>1. \A k \in 1 .. (Len(s) + 1) - 1 : ~At(s, k, <<38, 35>>)
    BY <1>2
  <2>. QED BY <1>2, <2>1, DecodeRuns
<1>4. SubSeq(s, 1, Len(s)) = s
  BY SubSeqFull
<1>5. s \o <<>> = s
  BY ConcatEmptySeq
<1>. QED BY <1>2, <1>3, <1>4, <1>5, DecoderIs
-----------------------------------------------------------------------------
(* Frames.                                                                 *)

(* The mark, byte by byte.                                                 *)
LEMMA MarkIs ==
  /\ Mark \in Seq(Bytes) /\ Len(Mark) = 4
  /\ Mark[1] = 13 /\ Mark[2] = 10 /\ Mark[3] = 13 /\ Mark[4] = 10
BY DEF Mark, CR, LF, Bytes

(* The last byte of a packet becomes a code or stays, and no byte of what  *)
(* is written for it can belong to a mark.                                 *)
LEMMA LastByteIs ==
  ASSUME NEW b \in Bytes
  PROVE  /\ LastByte(b) \in Seq(Bytes) /\ Len(LastByte(b)) \in {1, 5}
         /\ \A i \in 1 .. Len(LastByte(b)) : LastByte(b)[i] \notin {CR, LF}
<1>1. CASE b \in {CR, LF}
  <2>1. LastByte(b) = <<38, 35, 48 + b \div 10, 48 + (b % 10), 59>>
    BY <1>1 DEF LastByte, Code
  <2>2. 48 + b \div 10 = 49 /\ 48 + (b % 10) \in {48, 51}
    BY <1>1 DEF CR, LF
  <2>. QED BY <2>1, <2>2 DEF Bytes, CR, LF
<1>2. CASE b \notin {CR, LF}
  BY <1>2 DEF LastByte
<1>. QED BY <1>1, <1>2

(* Three pieces put together.                                              *)
LEMMA Pieces ==
  ASSUME NEW q \in Seq(Bytes), NEW l \in Seq(Bytes), NEW m \in Seq(Bytes)
  PROVE  /\ (q \o l) \o m \in Seq(Bytes)
         /\ Len((q \o l) \o m) = Len(q) + Len(l) + Len(m)
         /\ \A i \in 1 .. Len(q) : ((q \o l) \o m)[i] = q[i]
         /\ \A i \in 1 .. Len(l) : ((q \o l) \o m)[Len(q) + i] = l[i]
         /\ \A i \in 1 .. Len(m) : ((q \o l) \o m)[Len(q) + Len(l) + i] = m[i]
<1>1. Len(q) \in Nat /\ Len(l) \in Nat /\ Len(m) \in Nat
  BY LenProperties
<1> DEFINE a == q \o l
           f == a \o m
<1>2. /\ a \in Seq(Bytes) /\ Len(a) = Len(q) + Len(l)
      /\ \A i \in 1 .. Len(q) + Len(l) : a[i] = IF i <= Len(q) THEN q[i] ELSE l[i - Len(q)]
  BY ConcatProperties
<1> HIDE DEF a
<1>3. /\ f \in Seq(Bytes) /\ Len(f) = Len(a) + Len(m)
      /\ \A i \in 1 .. Len(a) + Len(m) : f[i] = IF i <= Len(a) THEN a[i] ELSE m[i - Len(a)]
  <2>1. a \in Seq(Bytes)
    BY <1>2
  <2>. QED BY <2>1, ConcatProperties
<1> HIDE DEF f
<1>4. \A i \in 1 .. Len(q) : f[i] = q[i]
  BY <1>1, <1>2, <1>3
<1>5. ASSUME NEW i \in 1 .. Len(l) PROVE f[Len(q) + i] = l[i]
  <2>1. Len(q) + i \in 1 .. Len(a) /\ ~(Len(q) + i <= Len(q)) /\ (Len(q) + i) - Len(q) = i
    BY <1>1, <1>2
  <2>2. f[Len(q) + i] = a[Len(q) + i]
    BY <1>1, <1>2, <1>3, <2>1
  <2>3. a[Len(q) + i] = l[(Len(q) + i) - Len(q)]
    BY <1>2, <2>1
  <2>. QED BY <2>1, <2>2, <2>3
<1>6. ASSUME NEW i \in 1 .. Len(m) PROVE f[Len(q) + Len(l) + i] = m[i]
  <2> DEFINE k == Len(q) + Len(l) + i
  <2>1. k \in 1 .. Len(a) + Len(m) /\ ~(k <= Len(a)) /\ k - Len(a) = i
    BY <1>1, <1>2
  <2> HIDE DEF k
  <2>2. f[k] = m[k - Len(a)]
    BY <1>3, <2>1
  <2>. QED BY <2>1, <2>2 DEF k
<1>. QED BY <1>1, <1>2, <1>3, <1>4, <1>5, <1>6 DEF a, f

(* The codes for the bytes of the mark are bytes.                          *)
LEMMA CodesTyped ==
  /\ Code(CR) \in Seq(Bytes) /\ Code(LF) \in Seq(Bytes)
  /\ MarkCode \in Seq(Bytes) /\ Len(MarkCode) = 20
<1>1. /\ Code(CR) \in Seq(Bytes) /\ Code(LF) \in Seq(Bytes)
      /\ Len(Code(CR)) = 5 /\ Len(Code(LF)) = 5
  BY DEF Code, CR, LF, Bytes
<1> DEFINE a == Code(CR) \o Code(LF)
           b == a \o Code(CR)
<1>2. a \in Seq(Bytes) /\ Len(a) = 10
  <2>1. a \in Seq(Bytes) /\ Len(a) = Len(Code(CR)) + Len(Code(LF))
    BY <1>1, ConcatProperties, Zenon
  <2>. QED BY <1>1, <2>1
<1> HIDE DEF a
<1>3. b \in Seq(Bytes) /\ Len(b) = 15
  <2>1. b \in Seq(Bytes) /\ Len(b) = Len(a) + Len(Code(CR))
    BY <1>1, <1>2, ConcatProperties, Zenon
  <2>. QED BY <1>1, <1>2, <2>1
<1> HIDE DEF b
<1>4. b \o Code(LF) \in Seq(Bytes) /\ Len(b \o Code(LF)) = 20
  <2>1. b \o Code(LF) \in Seq(Bytes) /\ Len(b \o Code(LF)) = Len(b) + Len(Code(LF))
    BY <1>1, <1>3, ConcatProperties, Zenon
  <2>. QED BY <1>1, <1>3, <2>1
<1>5. MarkCode = b \o Code(LF)
  BY DEF MarkCode, a, b
<1>. QED BY <1>1, <1>4, <1>5

(* A frame ends with what is written for the last byte and the mark.       *)
LEMMA FrameEnds ==
  ASSUME NEW p \in Seq(Bytes), p # <<>>
  PROVE  \E B \in Seq(Bytes) :
           /\ Frame(p) = (B \o LastByte(p[Len(p)])) \o Mark
           /\ ~At(p, 2, Mark) => B = SubSeq(p, 1, Len(p) - 1)
<1> DEFINE n == Len(p)
           l == n - Len(Mark)
<1>0. n \in Nat /\ n >= 1 /\ l = n - 4
  BY LenProperties, EmptySeq, MarkIs
<1>1. SubSeq(p, 1, n - 1) \in Seq(Bytes)
  <2>1. 1 \in 1 .. n + 1 /\ n - 1 \in Int /\ n - 1 <= n
    BY <1>0
  <2>. QED BY <2>1, PartTyped
<1>2. CASE ~(l > 0)
  <2>1. Frame(p) = (SubSeq(p, 1, n - 1) \o LastByte(p[n])) \o Mark
    <3>1. ~(n < 1) /\ ~(l > 0)
      BY <1>0, <1>2
    <3>. QED BY <3>1, Zenon DEF Frame
  <2>. QED BY <1>1, <2>1
<1>3. CASE l > 0
  <2>1. Frame(p) = ((Head0(p, l) \o SubSeq(p, l + 1, n - 1)) \o LastByte(p[n])) \o Mark
    <3>1. ~(n < 1) /\ l > 0
      BY <1>0, <1>3
    <3>. QED BY <3>1, Zenon DEF Frame
  <2>2. SubSeq(p, l + 1, n - 1) \in Seq(Bytes)
    <3>1. l + 1 \in 1 .. n + 1 /\ n - 1 \in Int /\ n - 1 <= n
      BY <1>0, <1>3
    <3> HIDE DEF l, n
    <3>2. l + 1 \in 1 .. Len(p) + 1 /\ n - 1 <= Len(p)
      BY <3>1 DEF n
    <3>. QED BY <3>1, <3>2, PartTyped
  <2>3. CASE At(p, 2, Mark)
    <3> DEFINE m == 20 * ((l + 3) \div 4)
               h == [i \in 1 .. m |-> MarkCode[((i - 1) % 20) + 1]]
    <3>1. m \in Nat
      BY <1>0, <1>3
    <3>2. \A i \in 1 .. m : MarkCode[((i - 1) % 20) + 1] \in Bytes
      <4>1. TAKE i \in 1 .. m
      <4>2. ((i - 1) % 20) + 1 \in 1 .. 20
        BY <3>1
      <4>. QED BY <4>2, CodesTyped, ElementOfSeq
    <3>3. h \in Seq(Bytes)
      <4> HIDE DEF m
      <4>. QED BY <3>1, <3>2
    <3>4. Head0(p, l) = h
      BY <2>3, CodesTyped DEF Head0
    <3> HIDE DEF h, l
    <3>5. h \o SubSeq(p, l + 1, n - 1) \in Seq(Bytes)
      BY <2>2, <3>3, ConcatProperties
    <3>. QED BY <2>1, <2>3, <3>4, <3>5
  <2>4. CASE ~At(p, 2, Mark)
    <3>1. Head0(p, l) = SubSeq(p, 1, l)
      BY <2>4 DEF Head0
    <3>2. SubSeq(p, 1, l) \o SubSeq(p, l + 1, n - 1) = SubSeq(p, 1, n - 1)
      <4>1. /\ 1 \in 1 .. Len(p) + 1 /\ l \in 1 - 1 .. Len(p)
            /\ n - 1 \in l .. Len(p)
        BY <1>0, <1>3
      <4> HIDE DEF l, n
      <4>. QED BY <4>1, ConcatAdjacentSubSeq
    <3> HIDE DEF l
    <3>. QED BY <1>1, <2>1, <3>1, <3>2
  <2>. QED BY <2>3, <2>4
<1>. QED BY <1>2, <1>3

(* What SendPto puts on the wire is bytes.                                 *)
LEMMA FrameTyped ==
  ASSUME NEW p \in Seq(Bytes)
  PROVE  Frame(p) \in Seq(Bytes)
<1>1. CASE p = <<>>
  BY <1>1 DEF Frame
<1>2. CASE p # <<>>
  <2>1. PICK B \in Seq(Bytes) : Frame(p) = (B \o LastByte(p[Len(p)])) \o Mark
    BY <1>2, FrameEnds
  <2>2. Len(p) \in 1 .. Len(p)
    BY <1>2, LenProperties, EmptySeq
  <2>3. LastByte(p[Len(p)]) \in Seq(Bytes)
    BY <2>2, ElementOfSeq, LastByteIs
  <2>. QED BY <2>1, <2>3, MarkIs, Pieces
<1>. QED BY <1>1, <1>2

(* A byte put before others.                                               *)
LEMMA Prepend ==
  ASSUME NEW t \in Seq(Bytes), NEW x \in Bytes
  PROVE  /\ <<x>> \o t \in Seq(Bytes) /\ Len(<<x>> \o t) = Len(t) + 1
         /\ (<<x>> \o t)[1] = x
         /\ \A i \in 1 .. Len(t) : (<<x>> \o t)[i + 1] = t[i]
<1> DEFINE h == <<x>>
<1>1. h \in Seq(Bytes) /\ Len(h) = 1 /\ h[1] = x /\ Len(t) \in Nat
  BY LenProperties
<1> HIDE DEF h
<1> DEFINE u == h \o t
<1>2. /\ u \in Seq(Bytes) /\ Len(u) = Len(h) + Len(t)
      /\ \A i \in 1 .. Len(h) + Len(t) : u[i] = IF i <= Len(h) THEN h[i] ELSE t[i - Len(h)]
  <2>1. h \in Seq(Bytes)
    BY <1>1
  <2>. QED BY <2>1, ConcatProperties
<1> HIDE DEF u
<1>3. Len(u) = Len(t) + 1 /\ u[1] = x
  BY <1>1, <1>2
<1>4. ASSUME NEW i \in 1 .. Len(t) PROVE u[i + 1] = t[i]
  <2>1. i + 1 \in 1 .. Len(h) + Len(t) /\ ~(i + 1 <= Len(h)) /\ (i + 1) - Len(h) = i
    BY <1>1
  <2>2. u[i + 1] = t[(i + 1) - Len(h)]
    BY <1>2, <2>1
  <2>. QED BY <2>1, <2>2
<1>. QED BY <1>2, <1>3, <1>4 DEF u, h

(* The mark, put before others byte by byte.                               *)
LEMMA MarkByByte ==
  <<13>> \o (<<10>> \o (<<13>> \o (<<10>> \o <<>>))) = Mark
<1> DEFINE t1 == <<10>> \o <<>>
           t2 == <<13>> \o t1
           t3 == <<10>> \o t2
           t4 == <<13>> \o t3
<1>0. 13 \in Bytes /\ 10 \in Bytes /\ <<>> \in Seq(Bytes) /\ Len(<<>>) = 0
  BY DEF Bytes
<1>1. t1 \in Seq(Bytes) /\ Len(t1) = 1 /\ t1[1] = 10
  BY <1>0, Prepend
<1> HIDE DEF t1
<1>2. t2 \in Seq(Bytes) /\ Len(t2) = 2 /\ t2[1] = 13 /\ t2[1 + 1] = 10
  <2>1. /\ t2 \in Seq(Bytes) /\ Len(t2) = Len(t1) + 1 /\ t2[1] = 13
        /\ \A i \in 1 .. Len(t1) : t2[i + 1] = t1[i]
    BY <1>0, <1>1, Prepend
  <2> HIDE DEF t2
  <2>. QED BY <1>1, <2>1
<1> HIDE DEF t2
<1>3. t3 \in Seq(Bytes) /\ Len(t3) = 3 /\ t3[1] = 10 /\ t3[1 + 1] = 13 /\ t3[2 + 1] = 10
  <2>1. /\ t3 \in Seq(Bytes) /\ Len(t3) = Len(t2) + 1 /\ t3[1] = 10
        /\ \A i \in 1 .. Len(t2) : t3[i + 1] = t2[i]
    BY <1>0, <1>2, Prepend
  <2> HIDE DEF t3
  <2>. QED BY <1>2, <2>1
<1> HIDE DEF t3
<1>4. /\ t4 \in Seq(Bytes) /\ Len(t4) = 4
      /\ t4[1] = 13 /\ t4[1 + 1] = 10 /\ t4[2 + 1] = 13 /\ t4[3 + 1] = 10
  <2>1. /\ t4 \in Seq(Bytes) /\ Len(t4) = Len(t3) + 1 /\ t4[1] = 13
        /\ \A i \in 1 .. Len(t3) : t4[i + 1] = t3[i]
    BY <1>0, <1>3, Prepend
  <2> HIDE DEF t4
  <2>2. t4[1 + 1] = t3[1] /\ t4[2 + 1] = t3[2] /\ t4[3 + 1] = t3[3]
    BY <1>3, <2>1
  <2>. QED BY <1>3, <2>1, <2>2
<1> HIDE DEF t4
<1>5. \A i \in 1 .. 4 : t4[i] = Mark[i]
  <2>1. t4[1] = 13 /\ t4[2] = 10 /\ t4[3] = 13 /\ t4[4] = 10
    BY <1>4
  <2>. QED BY <2>1, MarkIs
<1>6. t4 = Mark
  BY <1>4, <1>5, MarkIs, SeqEqual
<1>. QED BY <1>6 DEF t1, t2, t3, t4

(* What Recv makes of the frame of a packet: the decoder gives back the    *)
(* packet and the mark, and the mark's length is taken off.                *)
THEOREM FrameDecodes ==
  ASSUME NEW p \in Seq(Bytes), p # <<>>, ~At(p, 2, Mark),
         \A k \in 1 .. Len(p) : ~At(p, k, <<38, 35>>)
  PROVE  Decode(Frame(p)) = p \o Mark /\ Payload(Frame(p)) = p
<1> DEFINE n == Len(p)
           q == SubSeq(p, 1, n - 1)
           b == p[n]
           L == LastByte(b)
           F == Frame(p)
<1>0. n \in Nat /\ n >= 1 /\ b \in Bytes
  <2>1. n \in Nat /\ n >= 1
    BY LenProperties, EmptySeq
  <2>. QED BY <2>1, ElementOfSeq
<1>1. q \in Seq(Bytes) /\ Len(q) = n - 1 /\ \A i \in 1 .. n - 1 : q[i] = p[i]
  <2>1. 1 \in 1 .. Len(p) + 1 /\ n - 1 \in 1 - 1 .. Len(p)
    BY <1>0
  <2>2. /\ q \in Seq(Bytes) /\ Len(q) = (n - 1) - 1 + 1
        /\ \A i \in 1 .. (n - 1) - 1 + 1 : q[i] = p[1 + i - 1]
    <3> HIDE DEF n
    <3>. QED BY <2>1, Part
  <2>3. (n - 1) - 1 + 1 = n - 1 /\ \A i \in 1 .. n - 1 : 1 + i - 1 = i
    BY <1>0
  <2> HIDE DEF q, n
  <2>. QED BY <2>2, <2>3
<1>2. F = (q \o L) \o Mark
  BY FrameEnds
<1>3. q \o <<b>> = p
  <2>1. 1 \in 1 .. n /\ n \in 1 .. n
    BY <1>0
  <2>2. SubSeq(p, 1, n) = SubSeq(p, 1, n - 1) \o <<p[n]>>
    BY <2>1, SubSeqRecursiveSecond
  <2>. QED BY <2>2, SubSeqFull
<1>4. L \in Seq(Bytes)
  BY <1>0, LastByteIs
<1>5. /\ F \in Seq(Bytes)
      /\ Len(F) = Len(q) + Len(L) + 4
      /\ \A i \in 1 .. Len(q) : F[i] = q[i]
      /\ \A i \in 1 .. Len(L) : F[Len(q) + i] = L[i]
      /\ \A i \in 1 .. 4 : F[Len(q) + Len(L) + i] = Mark[i]
  <2> DEFINE G == (q \o L) \o Mark
  <2> HIDE DEF F, q, L, n, b
  <2>1. q \in Seq(Bytes) /\ L \in Seq(Bytes) /\ Mark \in Seq(Bytes)
    BY <1>1, <1>4, MarkIs
  <2>2. /\ G \in Seq(Bytes)
        /\ Len(G) = Len(q) + Len(L) + Len(Mark)
        /\ \A i \in 1 .. Len(q) : G[i] = q[i]
        /\ \A i \in 1 .. Len(L) : G[Len(q) + i] = L[i]
        /\ \A i \in 1 .. Len(Mark) : G[Len(q) + Len(L) + i] = Mark[i]
    BY <2>1, Pieces
  <2> HIDE DEF G
  <2>3. F = G /\ Len(Mark) = 4
    BY <1>2, MarkIs DEF G
  <2>. QED BY <2>2, <2>3
<1>6. ASSUME NEW k \in Nat, k >= 1, k + 1 < n PROVE ~At(F, k, <<38, 35>>)
  <2>1. ~(p[k] = 38 /\ p[k + 1] = 35)
    <3>1. k + 1 <= Len(p) /\ k \in 1 .. Len(p)
      BY <1>0, <1>6
    <3>. QED BY <1>6, <3>1, CodeAt
  <2>2. F[k] = p[k] /\ F[k + 1] = p[k + 1]
    <3>1. k \in 1 .. n - 1 /\ k + 1 \in 1 .. n - 1
      BY <1>0, <1>6
    <3> HIDE DEF F, q, L, n, b
    <3>. QED BY <1>1, <1>5, <3>1
  <2> HIDE DEF F
  <2>3. At(F, k, <<38, 35>>) <=> k + 1 <= Len(F) /\ F[k] = 38 /\ F[k + 1] = 35
    BY <1>5, <1>6, CodeAt
  <2>. QED BY <2>1, <2>2, <2>3
<1> HIDE DEF F, q, L
<1>7. ASSUME b \notin {CR, LF} PROVE Decode(F) = p \o Mark
  <2>1. L = <<b>>
    BY <1>7 DEF L, LastByte
  <2>2. F = p \o Mark
    BY <1>2, <1>3, <2>1
  <2>3. Len(F) = n + 4 /\ F[n] = p[n] /\ \A i \in 1 .. 4 : F[n + i] = Mark[i]
    <3>1. Len(L) = 1 /\ L[1] = b
      BY <2>1
    <3>2. Len(q) + 1 = n /\ Len(q) + Len(L) = n
      BY <1>0, <1>1, <3>1
    <3>3. F[Len(q) + 1] = L[1]
      BY <1>5, <3>1
    <3>. QED BY <1>5, <3>1, <3>2, <3>3
  <2>4. ASSUME NEW k \in 1 .. Len(F), At(F, k, <<38, 35>>) PROVE FALSE
    <3>1. k \in Nat /\ k >= 1 /\ k + 1 <= n + 4
      <4>1. k \in Nat /\ k >= 1
        BY <1>0, <2>3
      <4>. QED BY <1>5, <2>3, <2>4, <4>1, CodeAt
    <3>2. F[k] = 38 /\ F[k + 1] = 35
      BY <1>5, <2>4, <3>1, CodeAt
    <3>3. CASE k + 1 < n
      BY <1>6, <2>4, <3>1, <3>3
    <3>4. CASE k + 1 = n
      <4>1. F[k] = p[k]
        <5>1. k \in 1 .. n - 1
          BY <1>0, <3>1, <3>4
        <5>. QED BY <1>1, <1>5, <5>1
      <4>2. p[k] = 38 /\ p[k + 1] = 35 /\ k + 1 <= Len(p) /\ k \in 1 .. Len(p)
        BY <1>0, <2>3, <3>1, <3>2, <3>4, <4>1
      <4>. QED BY <3>1, <4>2, CodeAt
    <3>5. CASE k + 1 > n
      <4>1. k + 1 - n \in 1 .. 4 /\ n + (k + 1 - n) = k + 1
        BY <1>0, <3>1, <3>5
      <4>2. F[k + 1] = Mark[k + 1 - n]
        BY <2>3, <4>1
      <4>3. \A i \in 1 .. 4 : Mark[i] # 35
        BY MarkIs
      <4>. QED BY <3>2, <4>1, <4>2, <4>3
    <3>. QED BY <1>0, <3>1, <3>3, <3>4, <3>5
  <2>. QED BY <1>5, <2>2, <2>4, DecodePlain
<1>8. ASSUME b \in {CR, LF} PROVE Decode(F) = p \o Mark
  <2> DEFINE c == 48 + (b % 10)
             d == Decoder(F)
  <2>1. L = <<38, 35, 49, c, 59>> /\ c \in 48 .. 57
    <3>1. L = <<38, 35, 48 + b \div 10, 48 + (b % 10), 59>>
      BY <1>8 DEF L, LastByte, Code
    <3>2. 48 + b \div 10 = 49 /\ 48 + (b % 10) \in {48, 51}
      BY <1>8 DEF CR, LF
    <3>. QED BY <3>1, <3>2
  <2>2. Atoi(<<49, c>>) % 256 = b
    <3>1. CASE b = CR
      <4>1. c = 51
        BY <3>1 DEF CR
      <4>2. Atoi(<<49, c>>) = CR
        BY <4>1, AtoiOfCode
      <4>. QED BY <3>1, <4>2 DEF CR
    <3>2. CASE b = LF
      <4>1. c = 48
        BY <3>2 DEF LF
      <4>2. Atoi(<<49, c>>) = LF
        BY <4>1, AtoiOfCode
      <4>. QED BY <3>2, <4>2 DEF LF
    <3>. QED BY <1>8, <3>1, <3>2
  <2> HIDE DEF c
  <2>3. /\ Len(F) = n + 8
        /\ F[n] = 38 /\ F[n + 1] = 35 /\ F[n + 2] = 49 /\ F[n + 3] = c /\ F[n + 4] = 59
        /\ F[n + 5] = 13 /\ F[n + 6] = 10 /\ F[n + 7] = 13 /\ F[n + 8] = 10
    <3>1. Len(L) = 5 /\ L[1] = 38 /\ L[2] = 35 /\ L[3] = 49 /\ L[4] = c /\ L[5] = 59
      BY <2>1
    <3>2. Len(q) = n - 1
      BY <1>1
    <3>3. Len(F) = n + 8
      BY <1>0, <1>5, <3>1, <3>2
    <3>4. ASSUME NEW i \in 1 .. 5 PROVE F[n - 1 + i] = L[i]
      BY <1>5, <3>1, <3>2
    <3>5. ASSUME NEW i \in 1 .. 4 PROVE F[n - 1 + 5 + i] = Mark[i]
      BY <1>5, <3>1, <3>2
    <3>6. /\ n - 1 + 1 = n /\ n - 1 + 2 = n + 1 /\ n - 1 + 3 = n + 2
          /\ n - 1 + 4 = n + 3 /\ n - 1 + 5 = n + 4
      BY <1>0
    <3>7. /\ n - 1 + 5 + 1 = n + 5 /\ n - 1 + 5 + 2 = n + 6 /\ n - 1 + 5 + 3 = n + 7
          /\ n - 1 + 5 + 4 = n + 8
      BY <1>0
    <3>8. F[n] = 38 /\ F[n + 1] = 35 /\ F[n + 2] = 49 /\ F[n + 3] = c /\ F[n + 4] = 59
      <4>1. /\ F[n - 1 + 1] = L[1] /\ F[n - 1 + 2] = L[2] /\ F[n - 1 + 3] = L[3]
            /\ F[n - 1 + 4] = L[4] /\ F[n - 1 + 5] = L[5]
        BY <3>4
      <4>. QED BY <3>1, <3>6, <4>1
    <3>9. F[n + 5] = 13 /\ F[n + 6] = 10 /\ F[n + 7] = 13 /\ F[n + 8] = 10
      <4>1. /\ F[n - 1 + 5 + 1] = Mark[1] /\ F[n - 1 + 5 + 2] = Mark[2]
            /\ F[n - 1 + 5 + 3] = Mark[3] /\ F[n - 1 + 5 + 4] = Mark[4]
        BY <3>5
      <4>. QED BY <3>7, <4>1, MarkIs
    <3>. QED BY <3>3, <3>8, <3>9
  <2>4. Decode(F) = q \o d[n]
    <3>1. n \in 1 .. Len(F) + 1
      BY <1>0, <2>3
    <3>2. \A k \in 1 .. n - 1 : ~At(F, k, <<38, 35>>)
      <4>1. TAKE k \in 1 .. n - 1
      <4>2. k \in Nat /\ k >= 1
        BY <1>0
      <4>3. CASE k + 1 < n
        BY <1>6, <4>2, <4>3
      <4>4. CASE k + 1 = n
        <5>1. At(F, k, <<38, 35>>) <=> k + 1 <= Len(F) /\ F[k] = 38 /\ F[k + 1] = 35
          BY <1>5, <4>2, CodeAt
        <5>. QED BY <2>3, <4>4, <5>1
      <4>. QED BY <1>0, <4>3, <4>4
    <3>3. Decode(F) = SubSeq(F, 1, n - 1) \o d[n]
      BY <1>5, <3>1, <3>2, DecodeRuns
    <3>4. SubSeq(F, 1, n - 1) = q
      <4> DEFINE t == SubSeq(F, 1, n - 1)
      <4>1. 1 \in 1 .. Len(F) + 1 /\ n - 1 \in 1 - 1 .. Len(F)
        BY <1>0, <2>3
      <4>2. /\ t \in Seq(Bytes) /\ Len(t) = (n - 1) - 1 + 1
            /\ \A i \in 1 .. (n - 1) - 1 + 1 : t[i] = F[1 + i - 1]
        <5> HIDE DEF n, d
        <5>. QED BY <1>5, <4>1, Part
      <4> HIDE DEF t
      <4>3. Len(t) = Len(q)
        BY <1>0, <1>1, <4>2
      <4>4. ASSUME NEW i \in 1 .. Len(t) PROVE t[i] = q[i]
        <5>1. i \in 1 .. (n - 1) - 1 + 1 /\ i \in 1 .. Len(q) /\ 1 + i - 1 = i
          BY <1>0, <1>1, <4>2
        <5>. QED BY <1>5, <4>2, <5>1
      <4>5. t = q
        BY <1>1, <4>2, <4>3, <4>4, SeqEqual
      <4>. QED BY <4>5 DEF t
    <3>. QED BY <3>3, <3>4
  <2>5. At(F, n, <<38, 35>>) /\ n \in 1 .. Len(F)
    <3>1. At(F, n, <<38, 35>>) <=> n + 1 <= Len(F) /\ F[n] = 38 /\ F[n + 1] = 35
      BY <1>0, <1>5, CodeAt
    <3>. QED BY <1>0, <2>3, <3>1
  <2>6. Find(F, n + 2, 59) = n + 4
    <3>1. n + 2 \in 1 .. Len(F) + 1 /\ n + 4 \in n + 2 .. Len(F) + 1
      BY <1>0, <2>3
    <3>2. \A k \in n + 2 .. (n + 4) - 1 : F[k] # 59
      <4>0. F[n + 2] # 59 /\ F[n + 3] # 59
        BY <2>1, <2>3
      <4>1. TAKE k \in n + 2 .. (n + 4) - 1
      <4>2. k = n + 2 \/ k = n + 3
        BY <1>0
      <4>. QED BY <4>0, <4>2
    <3>3. F[n + 4] = 59
      BY <2>3
    <3> DEFINE i == n + 2
               e == n + 4
    <3>4. /\ i \in 1 .. Len(F) + 1 /\ e \in i .. Len(F) + 1
          /\ \A k \in i .. e - 1 : F[k] # 59
          /\ F[e] = 59
      BY <3>1, <3>2, <3>3
    <3> HIDE DEF i, e
    <3>5. F \in Seq(Bytes)
      BY <1>5
    <3>6. i \in 1 .. Len(F) + 1
      BY <3>4
    <3>7. e \in i .. Len(F) + 1
      BY <3>4
    <3>8. \A k \in i .. e - 1 : F[k] # 59
      BY <3>4
    <3>9. e <= Len(F) => F[e] = 59
      BY <3>4
    <3>10. Find(F, i, 59) = e
      BY <3>5, <3>6, <3>7, <3>8, <3>9, FindAt
    <3>. QED BY <3>10 DEF i, e
  <2>7. CodeFrom(F, n) = <<49, c>>
    <3> DEFINE t == SubSeq(F, n + 2, n + 3)
               v == <<49, c>>
    <3>1. n + 2 \in 1 .. Len(F) + 1 /\ n + 3 \in (n + 2) - 1 .. Len(F)
      BY <1>0, <2>3
    <3>2. /\ t \in Seq(Bytes) /\ Len(t) = (n + 3) - (n + 2) + 1
          /\ \A i \in 1 .. (n + 3) - (n + 2) + 1 : t[i] = F[n + 2 + i - 1]
      <4> DEFINE x == n + 2
                 y == n + 3
      <4>1. x \in 1 .. Len(F) + 1 /\ y \in x - 1 .. Len(F)
        BY <3>1
      <4>2. t = SubSeq(F, x, y)
        OBVIOUS
      <4> HIDE DEF x, y, t
      <4>3. /\ t \in Seq(Bytes) /\ Len(t) = y - x + 1
            /\ \A i \in 1 .. y - x + 1 : t[i] = F[x + i - 1]
        BY <1>5, <4>1, <4>2, Part
      <4>. QED BY <4>3 DEF x, y
    <3> HIDE DEF t
    <3>3. (n + 3) - (n + 2) + 1 = 2 /\ n + 2 + 1 - 1 = n + 2 /\ n + 2 + 2 - 1 = n + 3
      BY <1>0
    <3>4. Len(t) = 2 /\ t[1] = 49 /\ t[2] = c
      <4>1. t[1] = F[n + 2 + 1 - 1] /\ t[2] = F[n + 2 + 2 - 1]
        BY <3>2, <3>3
      <4>. QED BY <2>3, <3>2, <3>3, <4>1
    <3>5. v \in Seq(Bytes) /\ Len(v) = 2 /\ v[1] = 49 /\ v[2] = c
      BY <2>1 DEF Bytes
    <3> HIDE DEF v
    <3>6. t = v
      BY <3>2, <3>4, <3>5, SeqEqual
    <3>7. (n + 4) - 1 = n + 3
      BY <1>0
    <3>. QED BY <2>6, <3>6, <3>7 DEF CodeFrom, t, v
  <2>8. d[n] = <<b>> \o d[n + 5]
    <3>1. d[n] = <<Atoi(CodeFrom(F, n)) % 256>> \o d[Find(F, n + 2, 59) + 1]
      BY <1>5, <2>5, DecoderIs
    <3>2. Find(F, n + 2, 59) + 1 = n + 5
      BY <1>0, <2>6
    <3>. QED BY <2>2, <2>7, <3>1, <3>2
  <2>9. d[n + 5] = Mark
    <3>1. ASSUME NEW k \in n + 5 .. n + 8 PROVE d[k] = <<F[k]>> \o d[k + 1]
      <4>1. k \in 1 .. Len(F) /\ k \in Nat /\ k >= 1
        BY <1>0, <2>3
      <4>2. F[k] # 38
        <5>1. k = n + 5 \/ k = n + 6 \/ k = n + 7 \/ k = n + 8
          BY <1>0
        <5>. QED BY <2>3, <5>1
      <4>3. ~At(F, k, <<38, 35>>)
        BY <1>5, <4>1, <4>2, CodeAt
      <4>. QED BY <1>5, <4>1, <4>3, DecoderIs
    <3>2. d[Len(F) + 1] = <<>>
      BY <1>5, DecoderIs
    <3> HIDE DEF d
    <3>3. d[n + 8] = <<10>> \o <<>>
      <4>1. n + 8 \in n + 5 .. n + 8 /\ Len(F) + 1 = (n + 8) + 1
        BY <1>0, <2>3
      <4>. QED BY <2>3, <3>1, <3>2, <4>1
    <3>4. d[n + 7] = <<13>> \o d[n + 8]
      <4>1. n + 7 \in n + 5 .. n + 8 /\ (n + 7) + 1 = n + 8
        BY <1>0
      <4>. QED BY <2>3, <3>1, <4>1
    <3>5. d[n + 6] = <<10>> \o d[n + 7]
      <4>1. n + 6 \in n + 5 .. n + 8 /\ (n + 6) + 1 = n + 7
        BY <1>0
      <4>. QED BY <2>3, <3>1, <4>1
    <3>6. d[n + 5] = <<13>> \o d[n + 6]
      <4>1. n + 5 \in n + 5 .. n + 8 /\ (n + 5) + 1 = n + 6
        BY <1>0
      <4>. QED BY <2>3, <3>1, <4>1
    <3>. QED BY <3>3, <3>4, <3>5, <3>6, MarkByByte, Zenon
  <2>10. q \o (<<b>> \o Mark) = (q \o <<b>>) \o Mark
    <3>1. <<b>> \in Seq(Bytes)
      <4> HIDE DEF b
      <4>. QED BY <1>0
    <3>. QED BY <1>1, <3>1, MarkIs, BytesAssociative
  <2>. QED BY <1>3, <2>4, <2>8, <2>9, <2>10, Zenon
<1>9. Decode(F) = p \o Mark
  BY <1>7, <1>8
<1>10. Payload(F) = p
  <2> DEFINE t == p \o Mark
  <2>1. t \in Seq(Bytes) /\ Len(t) = n + 4
    <3>1. p \in Seq(Bytes) /\ Mark \in Seq(Bytes)
      BY MarkIs
    <3>2. t \in Seq(Bytes) /\ Len(t) = n + Len(Mark)
      BY <3>1, ConcatProperties
    <3>. QED BY <3>2, MarkIs
  <2>2. Len(t) - Len(Mark) = n
    BY <1>0, <2>1, MarkIs
  <2>3. SubSeq(p \o Mark, 1, n) = SubSeq(p, 1, n)
    <3>1. 1 \in 1 .. Len(p) /\ n \in 1 .. Len(p)
      BY <1>0
    <3> HIDE DEF n
    <3>. QED BY <3>1, MarkIs, SubSeqOfConcat1
  <2>4. SubSeq(p, 1, n) = p
    BY SubSeqFull
  <2>. QED BY <1>9, <2>2, <2>3, <2>4 DEF Payload
<1>. QED BY <1>9, <1>10 DEF F
-----------------------------------------------------------------------------
(* The tokenizer.                                                          *)

(* A set of places that is not empty has a last one.                       *)
LEMMA GreatestExists ==
  ASSUME NEW n \in Nat, NEW T, T \subseteq 0 .. n, T # {}
  PROVE  (CHOOSE i \in T : \A j \in T : j <= i) \in T
<1> DEFINE U == {n - i : i \in T}
<1>0. \A i \in T : i \in 0 .. n /\ i \in Int /\ n - i \in Nat
  OBVIOUS
<1>1. U \subseteq Nat /\ U # {}
  BY <1>0
<1>2. Least(U) \in U /\ \A i \in U : Least(U) <= i
  <2> HIDE DEF U
  <2>. QED BY <1>1, LeastExists
<1>3. PICK m \in T : Least(U) = n - m
  BY <1>2
<1>4. ASSUME NEW j \in T PROVE j <= m
  <2>1. n - j \in U
    OBVIOUS
  <2>2. n - m <= n - j /\ n - m \in Int /\ m \in Int /\ j \in Int
    BY <1>0, <1>2, <1>3, <2>1
  <2>. QED BY <2>2
<1>. QED BY <1>4

(* What TokenClear leaves is bytes.                                        *)
LEMMA TokenClearTyped ==
  ASSUME NEW s \in Seq(Bytes)
  PROVE  TokenClear(s) \in Seq(Bytes)
<1> DEFINE T == {i \in 1 .. Len(s) : s[i] \notin {Space, CR, LF}}
           a == Least(T)
           b == CHOOSE i \in T : \A j \in T : j <= i
<1>1. Len(s) \in Nat
  BY LenProperties
<1>2. T \subseteq 1 .. Len(s) /\ T \subseteq 0 .. Len(s) /\ T \subseteq Nat
  BY <1>1
<1>3. CASE T = {}
  BY <1>3 DEF TokenClear
<1>4. CASE T # {}
  <2>1. TokenClear(s) = SubSeq(s, a, b)
    BY <1>4 DEF TokenClear
  <2>2. a \in T
    <3> HIDE DEF T
    <3>. QED BY <1>2, <1>4, LeastExists
  <2>3. b \in T
    <3> HIDE DEF T
    <3>. QED BY <1>1, <1>2, <1>4, GreatestExists
  <2>4. a \in 1 .. Len(s) + 1 /\ b \in Int /\ b <= Len(s)
    BY <1>1, <1>2, <2>2, <2>3
  <2> HIDE DEF a, b
  <2>. QED BY <2>1, <2>4, PartTyped
<1>. QED BY <1>3, <1>4

(* TokenClear of a word with nothing but spaces behind it is the word.     *)
LEMMA ClearWord ==
  ASSUME NEW t \in Seq(Bytes), NEW n \in 1 .. Len(t),
         \A k \in 1 .. n : t[k] \notin {Space, CR, LF},
         \A k \in n + 1 .. Len(t) : t[k] = Space
  PROVE  TokenClear(t) = SubSeq(t, 1, n)
<1> DEFINE T == {i \in 1 .. Len(t) : t[i] \notin {Space, CR, LF}}
           b == CHOOSE i \in T : \A j \in T : j <= i
<1>1. Len(t) \in Nat
  BY LenProperties
<1>2. T = 1 .. n
  <2>1. ASSUME NEW k \in 1 .. Len(t) PROVE k \in T <=> k \in 1 .. n
    <3>1. CASE k <= n
      BY <3>1
    <3>2. CASE ~(k <= n)
      BY <1>1, <3>2
    <3>. QED BY <3>1, <3>2
  <2>2. T \subseteq 1 .. Len(t) /\ 1 .. n \subseteq 1 .. Len(t)
    BY <1>1
  <2> HIDE DEF T
  <2>. QED BY <2>1, <2>2
<1> HIDE DEF T
<1>3. Least(T) = 1
  <2>1. T \subseteq Nat /\ 1 \in T /\ \A i \in T : 1 <= i
    BY <1>1, <1>2
  <2>. QED BY <2>1, LeastIs
<1>4. b = n
  <2>1. n \in T /\ \A j \in T : j <= n
    BY <1>1, <1>2
  <2>2. b \in T /\ \A j \in T : j <= b
    BY <2>1
  <2>3. b <= n /\ n <= b /\ b \in Int /\ n \in Int
    BY <1>1, <1>2, <2>1, <2>2
  <2>. QED BY <2>3
<1>5. T # {}
  BY <1>2
<1>6. TokenClear(t) = SubSeq(t, Least(T), b)
  BY <1>5 DEF TokenClear, T
<1>. QED BY <1>3, <1>4, <1>6

(* The function ParseString is modelled by.                                *)
Parse(s) ==
  CHOOSE parse : parse = [i \in 1 .. Len(s) + 2 |->
        [quoted \in BOOLEAN |->
          LET q == IF s[i] = Quote THEN ~quoted ELSE quoted
          IN  IF i > Len(s) THEN <<>>
              ELSE IF NothingFound(s, i) THEN <<Len(s)>>
              ELSE IF s[i] = Space /\ ~q THEN <<i>> \o parse[AfterSeparator(i)][q]
              ELSE parse[i + 1][q]]]

(* The ends of the words are what that function finds from the first       *)
(* place, unquoted.                                                        *)
LEMMA EndsIsParse ==
  ASSUME NEW s
  PROVE  Ends(s) = IF s = <<>> THEN <<>> ELSE Parse(s)[1][FALSE]
BY DEF Ends, Parse

(* Whether the scan is in quotes after place i.                            *)
After(s, i, quoted) == IF s[i] = Quote THEN ~quoted ELSE quoted

(* What the scan finds from place i on.                                    *)
ParseStep(s, g, i, quoted) ==
  IF i > Len(s) THEN <<>>
  ELSE IF NothingFound(s, i) THEN <<Len(s)>>
  ELSE IF s[i] = Space /\ ~After(s, i, quoted) THEN <<i>> \o g[i + 2][After(s, i, quoted)]
  ELSE g[i + 1][After(s, i, quoted)]

(* A function that satisfies the equation of the scan exists...            *)
LEMMA ParseExists ==
  ASSUME NEW s \in Seq(Bytes)
  PROVE  \E g \in [1 .. Len(s) + 2 -> [BOOLEAN -> Seq(1 .. Len(s))]] :
           \A i \in 1 .. Len(s) + 2, quoted \in BOOLEAN :
             g[i][quoted] = ParseStep(s, g, i, quoted)
<1> DEFINE P == 1 .. Len(s) + 2
           D == P \X BOOLEAN
           V == Seq(1 .. Len(s))
           Splits(d) == s[d[1]] = Space /\ ~After(s, d[1], d[2])
           rk == [d \in D |-> Len(s) + 2 - d[1]]
           Stop == {d \in D : d[1] > Len(s) \/ NothingFound(s, d[1])}
           last == [d \in D |-> IF d[1] > Len(s) THEN <<>> ELSE <<Len(s)>>]
           step == [d \in D |-> [v \in V |-> IF Splits(d) THEN <<d[1]>> \o v ELSE v]]
           nx == [d \in D |-> <<IF Splits(d) THEN d[1] + 2 ELSE d[1] + 1, After(s, d[1], d[2])>>]
<1>1. Len(s) \in Nat
  BY LenProperties
<1>2. \A d \in D : d[1] \in P /\ d[2] \in BOOLEAN
  OBVIOUS
<1>3. \A i \in P, q \in BOOLEAN : After(s, i, q) \in BOOLEAN
  BY DEF After
<1>4. Descends(D, V, Len(s) + 2, rk, Stop, last, step, nx)
  <2>1. rk \in [D -> 0 .. Len(s) + 2]
    BY <1>1
  <2>2. \A d \in D : d \in Stop => last[d] \in V
    <3>1. TAKE d \in D
    <3>2. CASE d[1] > Len(s)
      BY <3>2
    <3>3. CASE ~(d[1] > Len(s))
      <4>1. Len(s) \in 1 .. Len(s)
        BY <1>1, <1>2, <3>3
      <4>2. <<Len(s)>> \in V
        BY <4>1
      <4>. QED BY <3>3, <4>2
    <3>. QED BY <3>2, <3>3
  <2>3. \A d \in D : d \notin Stop => nx[d] \in D /\ rk[nx[d]] < rk[d]
    <3>1. TAKE d \in D
    <3>2. SUFFICES ASSUME d \notin Stop PROVE nx[d] \in D /\ rk[nx[d]] < rk[d]
      OBVIOUS
    <3> DEFINE j == IF Splits(d) THEN d[1] + 2 ELSE d[1] + 1
    <3>3. d[1] \in 1 .. Len(s)
      BY <1>1, <1>2, <3>2
    <3>4. j \in P /\ j > d[1] /\ j \in Int /\ d[1] \in Int
      BY <1>1, <3>3
    <3>5. nx[d] = <<j, After(s, d[1], d[2])>> /\ After(s, d[1], d[2]) \in BOOLEAN
      BY <1>2, <1>3
    <3> HIDE DEF j, nx
    <3>6. nx[d] \in D /\ rk[nx[d]] = Len(s) + 2 - j /\ rk[d] = Len(s) + 2 - d[1]
      BY <3>4, <3>5
    <3>. QED BY <1>1, <3>4, <3>6
  <2>4. \A d \in D, v \in V : d \notin Stop => step[d][v] \in V
    <3>1. TAKE d \in D, v \in V
    <3>2. SUFFICES ASSUME d \notin Stop PROVE step[d][v] \in V
      OBVIOUS
    <3>3. d[1] \in 1 .. Len(s)
      BY <1>1, <1>2, <3>2
    <3>4. <<d[1]>> \o v \in V
      <4>1. <<d[1]>> \in V
        BY <3>3
      <4>. QED BY <4>1, ConcatProperties
    <3>5. step[d][v] = IF Splits(d) THEN <<d[1]>> \o v ELSE v
      OBVIOUS
    <3> HIDE DEF step, V
    <3>. QED BY <3>4, <3>5
  <2>5. Len(s) + 2 \in Nat
    BY <1>1
  <2> HIDE DEF D, V, rk, Stop, last, step, nx
  <2>. QED BY <2>1, <2>2, <2>3, <2>4, <2>5 DEF Descends
<1>5. PICK f \in [D -> V] :
        \A d \in D : f[d] = IF d \in Stop THEN last[d] ELSE step[d][f[nx[d]]]
  <2> HIDE DEF D, V, rk, Stop, last, step, nx
  <2>. QED BY <1>4, Recursion
<1> DEFINE g == [i \in P |-> [q \in BOOLEAN |-> f[<<i, q>>]]]
<1>6. g \in [P -> [BOOLEAN -> V]]
  <2> HIDE DEF V
  <2>. QED BY <1>5
<1>7. ASSUME NEW i \in P, NEW q \in BOOLEAN PROVE g[i][q] = ParseStep(s, g, i, q)
  <2> DEFINE d == <<i, q>>
             r == After(s, i, q)
  <2>1. d \in D /\ d[1] = i /\ d[2] = q /\ r \in BOOLEAN /\ g[i][q] = f[d]
    BY <1>3
  <2>2. f[d] = IF d \in Stop THEN last[d] ELSE step[d][f[nx[d]]]
    BY <1>5, <2>1
  <2>3. CASE i > Len(s)
    BY <2>1, <2>2, <2>3 DEF ParseStep
  <2>4. CASE ~(i > Len(s)) /\ NothingFound(s, i)
    BY <2>1, <2>2, <2>4 DEF ParseStep
  <2>5. CASE ~(i > Len(s)) /\ ~NothingFound(s, i)
    <3>1. d \notin Stop /\ i \in 1 .. Len(s)
      BY <1>1, <2>1, <2>5
    <3>2. f[d] = step[d][f[nx[d]]]
      BY <2>2, <3>1
    <3>3. nx[d] \in D
      <4> HIDE DEF D, V, rk, Stop, last, step, nx, d
      <4>. QED BY <1>4, <2>1, <3>1 DEF Descends
    <3>4. f[nx[d]] \in V
      <4> HIDE DEF V, nx, D
      <4>. QED BY <1>5, <3>3
    <3>5. CASE s[i] = Space /\ ~r
      <4>1. nx[d] = <<i + 2, r>>
        BY <2>1, <3>5
      <4>2. i + 2 \in P
        BY <1>1, <3>1
      <4>3. f[nx[d]] = g[i + 2][r]
        BY <2>1, <4>1, <4>2
      <4>4. step[d][f[nx[d]]] = <<i>> \o f[nx[d]]
        <5> HIDE DEF V, nx
        <5>. QED BY <2>1, <3>4, <3>5
      <4> HIDE DEF step, nx, g
      <4>. QED BY <2>1, <2>5, <3>2, <3>5, <4>3, <4>4 DEF ParseStep
    <3>6. CASE ~(s[i] = Space /\ ~r)
      <4>1. nx[d] = <<i + 1, r>>
        BY <2>1, <3>6
      <4>2. i + 1 \in P
        BY <1>1, <3>1
      <4>3. f[nx[d]] = g[i + 1][r]
        BY <2>1, <4>1, <4>2
      <4>4. step[d][f[nx[d]]] = f[nx[d]]
        <5> HIDE DEF V, nx
        <5>. QED BY <2>1, <3>4, <3>6
      <4> HIDE DEF step, nx, g
      <4>. QED BY <2>1, <2>5, <3>2, <3>6, <4>3, <4>4 DEF ParseStep
    <3>. QED BY <3>5, <3>6
  <2>. QED BY <2>3, <2>4, <2>5
<1> HIDE DEF g
<1>. QED BY <1>6, <1>7

(* ... and so the scan satisfies it.                                       *)
LEMMA ParseIs ==
  ASSUME NEW s \in Seq(Bytes)
  PROVE  /\ Parse(s) \in [1 .. Len(s) + 2 -> [BOOLEAN -> Seq(1 .. Len(s))]]
         /\ \A i \in 1 .. Len(s) + 2, quoted \in BOOLEAN :
              Parse(s)[i][quoted] = ParseStep(s, Parse(s), i, quoted)
<1> DEFINE P == 1 .. Len(s) + 2
           V == Seq(1 .. Len(s))
           p == Parse(s)
           Is(g) == g = [i \in P |-> [quoted \in BOOLEAN |->
                LET q == IF s[i] = Quote THEN ~quoted ELSE quoted
                IN  IF i > Len(s) THEN <<>>
                    ELSE IF NothingFound(s, i) THEN <<Len(s)>>
                    ELSE IF s[i] = Space /\ ~q THEN <<i>> \o g[AfterSeparator(i)][q]
                    ELSE g[i + 1][q]]]
           Steps(g) == g = [i \in P |-> [quoted \in BOOLEAN |-> ParseStep(s, g, i, quoted)]]
<1>1. ASSUME NEW g PROVE Is(g) <=> Steps(g)
  <2>1. ASSUME NEW i \in P, NEW quoted \in BOOLEAN
        PROVE  (LET q == IF s[i] = Quote THEN ~quoted ELSE quoted
                IN  IF i > Len(s) THEN <<>>
                    ELSE IF NothingFound(s, i) THEN <<Len(s)>>
                    ELSE IF s[i] = Space /\ ~q THEN <<i>> \o g[AfterSeparator(i)][q]
                    ELSE g[i + 1][q])
               = ParseStep(s, g, i, quoted)
    BY DEF ParseStep, After, AfterSeparator
  <2>. QED BY <2>1, Zenon
<1>2. Parse(s) = CHOOSE g : Is(g)
  BY Zenon DEF Parse
<1>3. PICK f \in [P -> [BOOLEAN -> V]] :
        \A i \in P, quoted \in BOOLEAN : f[i][quoted] = ParseStep(s, f, i, quoted)
  BY ParseExists
<1>4. Steps(f)
  <2>1. ASSUME NEW i \in P PROVE f[i] = [quoted \in BOOLEAN |-> ParseStep(s, f, i, quoted)]
    <3>1. f[i] \in [BOOLEAN -> V]
      BY <1>3
    <3>. QED BY <1>3, <3>1
  <2>. QED BY <1>3, <2>1
<1>5. Is(Parse(s))
  <2> HIDE DEF Is, Steps
  <2>. QED BY <1>1, <1>2, <1>4
<1>6. Steps(p)
  <2> HIDE DEF Is, Steps
  <2>. QED BY <1>1, <1>5
<1> HIDE DEF p
<1>7. ASSUME NEW i \in P, NEW quoted \in BOOLEAN
      PROVE  p[i][quoted] = ParseStep(s, p, i, quoted)
  <2>1. p[i] = [q \in BOOLEAN |-> ParseStep(s, p, i, q)]
    <3> HIDE DEF P
    <3>. QED BY <1>6
  <2>. QED BY <2>1
<1>8. Len(s) \in Nat
  BY LenProperties
<1>9. \A i \in P, quoted \in BOOLEAN : After(s, i, quoted) \in BOOLEAN
  BY DEF After
<1> DEFINE rk == [i \in P |-> Len(s) + 2 - i]
           T == {i \in P : \A quoted \in BOOLEAN : p[i][quoted] \in V}
<1>10. ASSUME NEW i \in P, \A j \in P : rk[j] < rk[i] => j \in T PROVE i \in T
  <2>1. ASSUME NEW quoted \in BOOLEAN PROVE p[i][quoted] \in V
    <3>1. CASE i > Len(s)
      <4>1. p[i][quoted] = ParseStep(s, p, i, quoted)
        BY <1>7
      <4>2. p[i][quoted] = <<>>
        BY <3>1, <4>1, Zenon DEF ParseStep
      <4>. QED BY <4>2
    <3>2. CASE ~(i > Len(s)) /\ NothingFound(s, i)
      <4>1. <<Len(s)>> \in V
        <5>1. Len(s) \in 1 .. Len(s)
          BY <1>8, <3>2
        <5>. QED BY <5>1
      <4>. QED BY <1>7, <3>2, <4>1 DEF ParseStep
    <3>3. CASE ~(i > Len(s)) /\ ~NothingFound(s, i)
      <4> DEFINE r == After(s, i, quoted)
      <4>1. /\ i \in 1 .. Len(s) /\ i + 1 \in P /\ i + 2 \in P /\ r \in BOOLEAN
            /\ rk[i + 1] < rk[i] /\ rk[i + 2] < rk[i]
        BY <1>8, <1>9, <3>3
      <4>2. p[i + 1][r] \in V /\ p[i + 2][r] \in V
        BY <1>10, <4>1
      <4>3. <<i>> \o p[i + 2][r] \in V
        <5>1. <<i>> \in V
          BY <4>1
        <5>. QED BY <4>2, <5>1, ConcatProperties
      <4>4. p[i][quoted] = IF s[i] = Space /\ ~r THEN <<i>> \o p[i + 2][r] ELSE p[i + 1][r]
        <5>1. p[i][quoted] = ParseStep(s, p, i, quoted)
          BY <1>7
        <5>. QED BY <3>3, <5>1, Zenon DEF ParseStep
      <4> HIDE DEF V, r
      <4>. QED BY <4>2, <4>3, <4>4
    <3>. QED BY <3>1, <3>2, <3>3
  <2>. QED BY <2>1
<1>11. rk \in [P -> Nat]
  BY <1>8
<1>12. P \subseteq T
  <2> HIDE DEF T, P, rk
  <2>. QED BY <1>10, <1>11, RankInduction
<1>13. p \in [P -> [BOOLEAN -> V]]
  <2>1. ASSUME NEW i \in P PROVE p[i] \in [BOOLEAN -> V]
    <3>1. p[i] = [quoted \in BOOLEAN |-> ParseStep(s, p, i, quoted)]
      BY <1>6
    <3>2. \A quoted \in BOOLEAN : p[i][quoted] \in V
      BY <1>12
    <3>. QED BY <3>1, <3>2
  <2>2. DOMAIN p = P /\ p = [i \in P |-> p[i]]
    BY <1>6
  <2>. QED BY <2>1, <2>2
<1>. QED BY <1>7, <1>13 DEF p

(* Where the words end is in the text.                                     *)
LEMMA EndsTyped ==
  ASSUME NEW s \in Seq(Bytes)
  PROVE  Ends(s) \in Seq(1 .. Len(s))
<1>1. CASE s = <<>>
  <2>1. Ends(s) = <<>>
    BY <1>1, EndsIsParse, Zenon
  <2>2. <<>> \in Seq(1 .. Len(s))
    OBVIOUS
  <2>. QED BY <2>1, <2>2
<1>2. CASE s # <<>>
  <2>1. 1 \in 1 .. Len(s) + 2 /\ FALSE \in BOOLEAN
    BY LenProperties
  <2>2. Parse(s)[1][FALSE] \in Seq(1 .. Len(s))
    <3>1. Parse(s) \in [1 .. Len(s) + 2 -> [BOOLEAN -> Seq(1 .. Len(s))]]
      BY ParseIs
    <3>2. Parse(s)[1] \in [BOOLEAN -> Seq(1 .. Len(s))]
      BY <2>1, <3>1
    <3>. QED BY <2>1, <3>2
  <2>3. Ends(s) = Parse(s)[1][FALSE]
    BY <1>2, EndsIsParse, Zenon
  <2>. QED BY <2>2, <2>3
<1>. QED BY <1>1, <1>2

(* A word is bytes.                                                        *)
LEMMA CutTyped ==
  ASSUME NEW w \in Seq(Bytes)
  PROVE  Cut(w) \in Seq(Bytes)
<1>1. 1 \in 1 .. Len(w) + 1 /\ Len(w) \in Nat
  BY LenProperties
<1>2. Find(w, 1, Space) \in 1 .. Len(w) + 1
  BY <1>1, FindIs
<1>3. Find(w, 1, Space) - 1 \in Int /\ Find(w, 1, Space) - 1 <= Len(w)
  BY <1>1, <1>2
<1>. QED BY <1>1, <1>3, PartTyped DEF Cut

(* So is what is read of it.                                               *)
LEMMA WordTyped ==
  ASSUME NEW w \in Seq(Bytes), NEW kept \in BOOLEAN
  PROVE  Word(w, kept) \in Seq(Bytes)
<1>1. Cut(w) \in Seq(Bytes)
  BY CutTyped
<1>. QED BY <1>1, TokenClearTyped DEF Word

(* The words of a command are byte sequences.                              *)
LEMMA TokensTyped ==
  ASSUME NEW p \in Seq(Bytes), NEW kept \in BOOLEAN
  PROVE  Tokens(p, kept) \in Seq(Seq(Bytes))
<1> DEFINE s == TokenClear(p)
           e == Ends(s)
           begin(k) == IF k = 1 THEN 1 ELSE e[k - 1] + 1
<1>1. s \in Seq(Bytes) /\ e \in Seq(1 .. Len(s))
  BY TokenClearTyped, EndsTyped
<1>2. Len(s) \in Nat /\ Len(e) \in Nat
  BY <1>1, LenProperties
<1>3. Tokens(p, kept) = [k \in 1 .. Len(e) |-> Word(SubSeq(s, begin(k), e[k]), kept)]
  BY DEF Tokens
<1> HIDE DEF s, e
<1>4. ASSUME NEW k \in 1 .. Len(e) PROVE Word(SubSeq(s, begin(k), e[k]), kept) \in Seq(Bytes)
  <2>1. e[k] \in 1 .. Len(s)
    BY <1>1, ElementOfSeq
  <2>2. begin(k) \in 1 .. Len(s) + 1
    <3>1. CASE k = 1
      BY <1>2, <3>1
    <3>2. CASE k # 1
      <4>1. k - 1 \in 1 .. Len(e)
        BY <1>2, <3>2
      <4>2. e[k - 1] \in 1 .. Len(s)
        BY <1>1, <4>1, ElementOfSeq
      <4>. QED BY <1>2, <3>2, <4>2
    <3>. QED BY <3>1, <3>2
  <2>3. e[k] \in Int /\ e[k] <= Len(s)
    BY <1>2, <2>1
  <2> HIDE DEF begin
  <2>4. SubSeq(s, begin(k), e[k]) \in Seq(Bytes)
    BY <1>1, <2>2, <2>3, PartTyped
  <2>. QED BY <2>4, WordTyped
<1>. QED BY <1>2, <1>3, <1>4
=============================================================================
