--------------------------- MODULE FramingProofs ---------------------------
(***************************************************************************)
(* Proofs about the stream of packets, for any packets, any number of them *)
(* and any cuts of the stream: the properties that the runs check, and the *)
(* inductive invariant they follow from.  In this order:                   *)
(*                                                                         *)
(*   marks in a stream and in its parts;                                   *)
(*   what a stream means, chunk by chunk (ChunkPackets, CleanFrame);       *)
(*   how a stream of frames ends (WellEnded);                              *)
(*   the words of a command (CommandWords);                                *)
(*   the invariant, what each action does to it, and the results.          *)
(***************************************************************************)
EXTENDS Framing, EMarkProofs
-----------------------------------------------------------------------------
(* Marks.                                                                  *)

(* The mark stands in s at k, byte by byte.                                *)
IsMark(s, k) ==
  /\ k + 3 <= Len(s)
  /\ s[k] = 13 /\ s[k + 1] = 10 /\ s[k + 2] = 13 /\ s[k + 3] = 10

(* MarksFrom, said byte by byte.                                           *)
LEMMA MarksAre ==
  ASSUME NEW s \in Seq(Bytes), NEW i \in Nat, i >= 1
  PROVE  \A k : k \in MarksFrom(s, i) <=> k \in i .. Len(s) /\ IsMark(s, k)
<1>1. ASSUME NEW k, k \in i .. Len(s) PROVE At(s, k, Mark) <=> IsMark(s, k)
  <2>1. k \in Nat /\ k >= 1
    BY <1>1, LenProperties
  <2>. QED BY <2>1, MarkAt DEF IsMark
<1>. QED BY <1>1 DEF MarksFrom

(* The first mark from a place on.                                         *)
LEMMA FirstMark ==
  ASSUME NEW s \in Seq(Bytes), NEW i \in Nat, i >= 1, MarksFrom(s, i) # {}
  PROVE  /\ Least(MarksFrom(s, i)) \in i .. Len(s) - 3
         /\ IsMark(s, Least(MarksFrom(s, i)))
         /\ \A k \in i .. Least(MarksFrom(s, i)) - 1 : ~IsMark(s, k)
<1> DEFINE T == MarksFrom(s, i)
           m == Least(T)
<1>1. Len(s) \in Nat
  BY LenProperties
<1>2. \A k : k \in T <=> k \in i .. Len(s) /\ IsMark(s, k)
  BY MarksAre
<1>3. T \subseteq Nat /\ T # {}
  BY <1>1, <1>2
<1> HIDE DEF T
<1>4. m \in T /\ \A k \in T : m <= k
  BY <1>3, LeastExists
<1>5. m \in i .. Len(s) /\ IsMark(s, m)
  BY <1>2, <1>4
<1>6. m \in i .. Len(s) - 3
  BY <1>1, <1>5 DEF IsMark
<1>7. ASSUME NEW k \in i .. m - 1 PROVE ~IsMark(s, k)
  <2>1. k \in i .. Len(s) /\ ~(m <= k)
    BY <1>1, <1>5
  <2>. QED BY <1>2, <1>4, <2>1
<1> HIDE DEF m
<1>. QED BY <1>5, <1>6, <1>7 DEF T, m

(* A mark with none before it is the first.                                *)
LEMMA FirstMarkIs ==
  ASSUME NEW s \in Seq(Bytes), NEW i \in Nat, i >= 1,
         NEW m \in Nat, m >= i, IsMark(s, m), \A k \in i .. m - 1 : ~IsMark(s, k)
  PROVE  MarksFrom(s, i) # {} /\ Least(MarksFrom(s, i)) = m
<1> DEFINE T == MarksFrom(s, i)
<1>1. Len(s) \in Nat
  BY LenProperties
<1>2. \A k : k \in T <=> k \in i .. Len(s) /\ IsMark(s, k)
  BY MarksAre
<1> HIDE DEF T
<1>3. m \in i .. Len(s)
  BY <1>1 DEF IsMark
<1>4. m \in T /\ T \subseteq Nat
  BY <1>1, <1>2, <1>3
<1>5. \A k \in T : m <= k
  <2>1. TAKE k \in T
  <2>2. k \in i .. Len(s) /\ IsMark(s, k) /\ k \in Nat
    BY <1>1, <1>2
  <2>3. k \notin i .. m - 1
    BY <2>2
  <2>. QED BY <2>2, <2>3
<1>. QED BY <1>4, <1>5, LeastIs DEF T

(* A mark in the second of two pieces, and in the first.                   *)
LEMMA MarkInSecond ==
  ASSUME NEW c \in Seq(Bytes), NEW w \in Seq(Bytes), NEW k \in Nat, k >= 1
  PROVE  IsMark(c \o w, Len(c) + k) <=> IsMark(w, k)
<1> DEFINE u == c \o w
<1>1. Len(c) \in Nat /\ Len(w) \in Nat
  BY LenProperties
<1>2. /\ Len(u) = Len(c) + Len(w)
      /\ \A i \in 1 .. Len(c) + Len(w) : u[i] = IF i <= Len(c) THEN c[i] ELSE w[i - Len(c)]
  BY ConcatProperties
<1> HIDE DEF u
<1>3. \A i \in 1 .. Len(w) : u[Len(c) + i] = w[i]
  <2>1. TAKE i \in 1 .. Len(w)
  <2>2. Len(c) + i \in 1 .. Len(c) + Len(w) /\ ~(Len(c) + i <= Len(c)) /\ (Len(c) + i) - Len(c) = i
    BY <1>1
  <2>3. u[Len(c) + i] = w[(Len(c) + i) - Len(c)]
    BY <1>2, <2>2
  <2>. QED BY <2>2, <2>3
<1>4. CASE ~(k + 3 <= Len(w))
  BY <1>1, <1>2, <1>4 DEF IsMark, u
<1>5. CASE k + 3 <= Len(w)
  <2>1. /\ (Len(c) + k) + 3 <= Len(u)
        /\ (Len(c) + k) + 1 = Len(c) + (k + 1)
        /\ (Len(c) + k) + 2 = Len(c) + (k + 2)
        /\ (Len(c) + k) + 3 = Len(c) + (k + 3)
    BY <1>1, <1>2, <1>5
  <2>2. k \in 1 .. Len(w) /\ k + 1 \in 1 .. Len(w) /\ k + 2 \in 1 .. Len(w) /\ k + 3 \in 1 .. Len(w)
    BY <1>1, <1>5
  <2>3. /\ u[Len(c) + k] = w[k] /\ u[(Len(c) + k) + 1] = w[k + 1]
        /\ u[(Len(c) + k) + 2] = w[k + 2] /\ u[(Len(c) + k) + 3] = w[k + 3]
    <3>1. /\ u[Len(c) + k] = w[k] /\ u[Len(c) + (k + 1)] = w[k + 1]
          /\ u[Len(c) + (k + 2)] = w[k + 2] /\ u[Len(c) + (k + 3)] = w[k + 3]
      BY <1>3, <2>2
    <3>. QED BY <2>1, <3>1
  <2>. QED BY <1>5, <2>1, <2>3 DEF IsMark, u
<1>. QED BY <1>4, <1>5

(* Bytes that come behind a whole mark do not matter to it.                *)
LEMMA MarkInFirst ==
  ASSUME NEW c \in Seq(Bytes), NEW w \in Seq(Bytes), NEW k \in Nat, k >= 1, k + 3 <= Len(c)
  PROVE  IsMark(c \o w, k) <=> IsMark(c, k)
<1> DEFINE u == c \o w
<1>1. Len(c) \in Nat /\ Len(w) \in Nat
  BY LenProperties
<1>2. /\ Len(u) = Len(c) + Len(w)
      /\ \A i \in 1 .. Len(c) + Len(w) : u[i] = IF i <= Len(c) THEN c[i] ELSE w[i - Len(c)]
  BY ConcatProperties
<1> HIDE DEF u
<1>3. \A i \in 1 .. Len(c) : u[i] = c[i]
  BY <1>1, <1>2
<1>4. k \in 1 .. Len(c) /\ k + 1 \in 1 .. Len(c) /\ k + 2 \in 1 .. Len(c) /\ k + 3 \in 1 .. Len(c)
  BY <1>1
<1>5. u[k] = c[k] /\ u[k + 1] = c[k + 1] /\ u[k + 2] = c[k + 2] /\ u[k + 3] = c[k + 3]
  BY <1>3, <1>4
<1>6. k + 3 <= Len(u)
  BY <1>1, <1>2
<1>. QED BY <1>5, <1>6 DEF IsMark, u
-----------------------------------------------------------------------------
(* What a stream means.                                                    *)

(* What one chunk adds to the packets.                                     *)
One(c) == IF Len(Payload(c)) > 0 THEN <<Payload(c)>> ELSE <<>>

(* The recursive function that Packets is defined with.                    *)
Parser(s) ==
  CHOOSE from : from = [i \in 1 .. Len(s) + 1 |->
        IF MarksFrom(s, i) = {} THEN <<>>
        ELSE LET e == Least(MarksFrom(s, i)) + Len(Mark)
                 p == Payload(SubSeq(s, i, e - 1))
             IN  (IF Len(p) > 0 THEN <<p>> ELSE <<>>) \o from[e]]

(* The packets of s are what that function finds from the first place.     *)
LEMMA PacketsIsParser ==
  ASSUME NEW s
  PROVE  Packets(s) = Parser(s)[1]
BY DEF Packets, Parser

(* What a chunk adds is bytes.                                             *)
LEMMA OneTyped ==
  ASSUME NEW c \in Seq(Bytes)
  PROVE  One(c) \in Seq(Seq(Bytes))
<1>1. Payload(c) \in Seq(Bytes)
  BY PayloadTyped
<1>. QED BY <1>1 DEF One

(* The function exists, and satisfies its equation.                        *)
LEMMA ParserIs ==
  ASSUME NEW s \in Seq(Bytes)
  PROVE  /\ Parser(s) \in [1 .. Len(s) + 1 -> Seq(Seq(Bytes))]
         /\ \A i \in 1 .. Len(s) + 1 : MarksFrom(s, i) = {} => Parser(s)[i] = <<>>
         /\ \A i \in 1 .. Len(s) + 1 : MarksFrom(s, i) # {} =>
              Parser(s)[i] = One(SubSeq(s, i, Least(MarksFrom(s, i)) + 3))
                             \o Parser(s)[Least(MarksFrom(s, i)) + 4]
<1> DEFINE D == 1 .. Len(s) + 1
           chunk(i) == SubSeq(s, i, Least(MarksFrom(s, i)) + 3)
           rk == [i \in D |-> Len(s) + 1 - i]
           Stop == {i \in D : MarksFrom(s, i) = {}}
           last == [i \in D |-> <<>>]
           head == [i \in D |-> One(chunk(i))]
           next == [i \in D |-> Least(MarksFrom(s, i)) + 4]
           Is(g) == g = [i \in D |->
                IF MarksFrom(s, i) = {} THEN <<>>
                ELSE LET e == Least(MarksFrom(s, i)) + Len(Mark)
                         p == Payload(SubSeq(s, i, e - 1))
                     IN  (IF Len(p) > 0 THEN <<p>> ELSE <<>>) \o g[e]]
<1>1. Len(s) \in Nat /\ Len(Mark) = 4
  BY LenProperties, MarkIs
<1>2. ASSUME NEW i \in D, i \notin Stop
      PROVE  /\ Least(MarksFrom(s, i)) \in i .. Len(s) - 3
             /\ chunk(i) \in Seq(Bytes)
  <2>1. i \in Nat /\ i >= 1 /\ MarksFrom(s, i) # {}
    BY <1>1, <1>2
  <2>2. Least(MarksFrom(s, i)) \in i .. Len(s) - 3
    BY <2>1, FirstMark
  <2>3. /\ i \in 1 .. Len(s) + 1 /\ Least(MarksFrom(s, i)) + 3 \in Int
        /\ Least(MarksFrom(s, i)) + 3 <= Len(s)
    BY <1>1, <2>2
  <2>. QED BY <2>2, <2>3, PartTyped
<1>3. ListDescends(D, Seq(Bytes), Len(s) + 1, rk, Stop, last, head, next)
  <2>1. rk \in [D -> 0 .. Len(s) + 1]
    BY <1>1
  <2>2. \A i \in D : i \in Stop => last[i] \in Seq(Seq(Bytes))
    OBVIOUS
  <2>3. \A i \in D : i \notin Stop => head[i] \in Seq(Seq(Bytes))
    <3>1. TAKE i \in D
    <3>2. i \notin Stop => One(chunk(i)) \in Seq(Seq(Bytes))
      BY <1>2, OneTyped
    <3> HIDE DEF chunk, Stop
    <3>. QED BY <3>2
  <2>4. \A i \in D : i \notin Stop => next[i] \in D /\ rk[next[i]] < rk[i]
    <3>1. TAKE i \in D
    <3>2. SUFFICES ASSUME i \notin Stop PROVE next[i] \in D /\ rk[next[i]] < rk[i]
      OBVIOUS
    <3>3. next[i] \in i + 4 .. Len(s) + 1
      BY <1>1, <1>2, <3>2
    <3> HIDE DEF next
    <3>. QED BY <1>1, <3>3
  <2>5. Len(s) + 1 \in Nat
    BY <1>1
  <2> HIDE DEF D, rk, Stop, last, head, next
  <2>. QED BY <2>1, <2>2, <2>3, <2>4, <2>5 DEF ListDescends
<1>4. PICK f \in [D -> Seq(Seq(Bytes))] : IsList(f, D, Stop, last, head, next)
  <2> HIDE DEF D, rk, Stop, last, head, next
  <2>. QED BY <1>3, ListRecursion
<1>5. ASSUME NEW g PROVE Is(g) <=> IsList(g, D, Stop, last, head, next)
  <2>1. ASSUME NEW i \in D
        PROVE  (IF MarksFrom(s, i) = {} THEN <<>>
                ELSE LET e == Least(MarksFrom(s, i)) + Len(Mark)
                         p == Payload(SubSeq(s, i, e - 1))
                     IN  (IF Len(p) > 0 THEN <<p>> ELSE <<>>) \o g[e])
               = (IF i \in Stop THEN last[i] ELSE head[i] \o g[next[i]])
    <3>1. CASE MarksFrom(s, i) = {}
      BY <3>1
    <3>2. CASE MarksFrom(s, i) # {}
      <4> DEFINE m == Least(MarksFrom(s, i))
      <4>1. m \in Int
        BY <1>1, <1>2, <3>2
      <4>2. m + Len(Mark) = m + 4 /\ m + 4 - 1 = m + 3
        <5> HIDE DEF m
        <5>. QED BY <1>1, <4>1
      <4>3. /\ head[i] = IF Len(Payload(SubSeq(s, i, m + 3))) > 0
                         THEN <<Payload(SubSeq(s, i, m + 3))>> ELSE <<>>
            /\ next[i] = m + 4 /\ i \notin Stop
        BY <3>2 DEF One
      <4> DEFINE x == m + Len(Mark)
      <4>4. x = m + 4 /\ x - 1 = m + 3
        <5> HIDE DEF m
        <5>. QED BY <1>1, <4>1
      <4> HIDE DEF x
      <4>5. head[i] \o g[next[i]]
            = (IF Len(Payload(SubSeq(s, i, x - 1))) > 0
               THEN <<Payload(SubSeq(s, i, x - 1))>> ELSE <<>>) \o g[x]
        <5> HIDE DEF m, head, next
        <5>. QED BY <4>3, <4>4
      <4>6. i \notin Stop
        BY <4>3
      <4> HIDE DEF head, next, Stop
      <4>. QED BY <3>2, <4>5, <4>6 DEF x, m
    <3>. QED BY <3>1, <3>2
  <2> HIDE DEF Stop, last, head, next
  <2>. QED BY <2>1, Zenon DEF IsList
<1>6. Parser(s) = CHOOSE g : Is(g)
  BY Zenon DEF Parser
<1>7. ListDescends(D, Seq(Bytes), Len(s) + 1, rk, Stop, last, head, next)
        => /\ IsList(Parser(s), D, Stop, last, head, next)
           /\ Parser(s) \in [D -> Seq(Seq(Bytes))]
  <2> HIDE DEF Is, D, rk, Stop, last, head, next
  <2>1. IsList(Parser(s), D, Stop, last, head, next)
    BY <1>4, <1>5, <1>6
  <2>. QED BY <2>1, ListRecursion
<1>8. ASSUME NEW i \in D
      PROVE  Parser(s)[i] = IF i \in Stop THEN last[i] ELSE head[i] \o Parser(s)[next[i]]
  <2> DEFINE d == Parser(s)
  <2> HIDE DEF d, D, Stop, last, head, next
  <2>1. d = [j \in D |-> IF j \in Stop THEN last[j] ELSE head[j] \o d[next[j]]]
    BY <1>3, <1>7 DEF IsList, d
  <2>2. d[i] = IF i \in Stop THEN last[i] ELSE head[i] \o d[next[i]]
    BY <2>1
  <2>. QED BY <2>2 DEF d
<1>9. \A i \in D : MarksFrom(s, i) = {} => Parser(s)[i] = <<>>
  BY <1>8
<1>10. ASSUME NEW i \in D, MarksFrom(s, i) # {}
       PROVE  Parser(s)[i] = One(chunk(i)) \o Parser(s)[Least(MarksFrom(s, i)) + 4]
  BY <1>8, <1>10
<1>. QED BY <1>3, <1>7, <1>9, <1>10, Zenon

(* Packets are bytes.                                                      *)
LEMMA PacketsTyped ==
  ASSUME NEW s \in Seq(Bytes)
  PROVE  Packets(s) \in Seq(Seq(Bytes))
<1>1. 1 \in 1 .. Len(s) + 1
  BY LenProperties
<1>. QED BY <1>1, ParserIs, PacketsIsParser

(* Without a mark there are no packets.                                    *)
LEMMA NoMarkNoPackets ==
  ASSUME NEW s \in Seq(Bytes), ~HasMark(s)
  PROVE  Packets(s) = <<>>
<1>1. 1 \in 1 .. Len(s) + 1
  BY LenProperties
<1>2. MarksFrom(s, 1) = {}
  BY DEF HasMark
<1>. QED BY <1>1, <1>2, ParserIs, PacketsIsParser

(* What comes before a place does not matter to what is found from there.  *)
LEMMA ParserShift ==
  ASSUME NEW c \in Seq(Bytes), NEW w \in Seq(Bytes)
  PROVE  \A j \in 1 .. Len(w) + 1 : Parser(c \o w)[Len(c) + j] = Parser(w)[j]
<1> DEFINE u == c \o w
           D == 1 .. Len(w) + 1
           rk == [j \in D |-> Len(w) + 1 - j]
           T == {j \in D : Parser(u)[Len(c) + j] = Parser(w)[j]}
<1>1. Len(c) \in Nat /\ Len(w) \in Nat
  BY LenProperties
<1>2. u \in Seq(Bytes) /\ Len(u) = Len(c) + Len(w)
  BY ConcatProperties
<1>3. \A k \in Nat : k >= 1 => (IsMark(u, Len(c) + k) <=> IsMark(w, k))
  BY MarkInSecond
<1>4. \A a, b \in 1 .. Len(w) : SubSeq(u, Len(c) + a, Len(c) + b) = SubSeq(w, a, b)
  <2>1. TAKE a, b \in 1 .. Len(w)
  <2> DEFINE m == Len(c) + a
             n == Len(c) + b
  <2>2. /\ m \in Len(c) + 1 .. Len(c) + Len(w) /\ n \in Len(c) + 1 .. Len(c) + Len(w)
        /\ m - Len(c) = a /\ n - Len(c) = b
    BY <1>1
  <2> HIDE DEF m, n
  <2>3. SubSeq(c \o w, m, n) = SubSeq(w, m - Len(c), n - Len(c))
    BY <2>2, SubSeqOfConcat2
  <2>. QED BY <2>2, <2>3 DEF m, n
<1> HIDE DEF u
<1>5. ASSUME NEW j \in D, \A i \in D : rk[i] < rk[j] => i \in T PROVE j \in T
  <2>1. /\ j \in Nat /\ j >= 1 /\ Len(c) + j \in 1 .. Len(u) + 1
        /\ Len(c) + j \in Nat /\ Len(c) + j >= 1
    BY <1>1, <1>2
  <2>2. CASE MarksFrom(w, j) = {}
    <3>1. MarksFrom(u, Len(c) + j) = {}
      <4>1. SUFFICES ASSUME MarksFrom(u, Len(c) + j) # {} PROVE FALSE
        OBVIOUS
      <4> DEFINE m == Least(MarksFrom(u, Len(c) + j))
      <4>2. m \in Len(c) + j .. Len(u) - 3 /\ IsMark(u, m)
        BY <1>2, <2>1, <4>1, FirstMark
      <4> HIDE DEF m
      <4>3. m - Len(c) \in j .. Len(w) /\ m - Len(c) \in Nat /\ m - Len(c) >= 1 /\ Len(c) + (m - Len(c)) = m
        BY <1>1, <1>2, <2>1, <4>2
      <4>4. IsMark(w, m - Len(c))
        BY <1>3, <4>2, <4>3
      <4>5. m - Len(c) \in MarksFrom(w, j)
        BY <2>1, <4>3, <4>4, MarksAre
      <4>. QED BY <2>2, <4>5
    <3>2. Parser(w)[j] = <<>>
      BY <2>2, ParserIs
    <3>3. Parser(u)[Len(c) + j] = <<>>
      BY <1>2, <2>1, <3>1, ParserIs
    <3>. QED BY <3>2, <3>3
  <2>3. CASE MarksFrom(w, j) # {}
    <3> DEFINE m == Least(MarksFrom(w, j))
    <3>1. m \in j .. Len(w) - 3 /\ IsMark(w, m) /\ \A k \in j .. m - 1 : ~IsMark(w, k)
      BY <2>1, <2>3, FirstMark
    <3>2. Parser(w)[j] = One(SubSeq(w, j, m + 3)) \o Parser(w)[m + 4]
      BY <2>3, ParserIs
    <3> HIDE DEF m
    <3>3. MarksFrom(u, Len(c) + j) # {} /\ Least(MarksFrom(u, Len(c) + j)) = Len(c) + m
      <4>1. Len(c) + m \in Nat /\ Len(c) + m >= Len(c) + j /\ m \in Nat /\ m >= 1
        BY <1>1, <2>1, <3>1
      <4>2. IsMark(u, Len(c) + m)
        BY <1>3, <3>1, <4>1
      <4>3. ASSUME NEW k \in Len(c) + j .. Len(c) + m - 1 PROVE ~IsMark(u, k)
        <5>1. k - Len(c) \in j .. m - 1 /\ k - Len(c) \in Nat /\ k - Len(c) >= 1 /\ Len(c) + (k - Len(c)) = k
          BY <1>1, <2>1, <3>1
        <5>. QED BY <1>3, <3>1, <5>1
      <4> DEFINE i == Len(c) + j
                 n == Len(c) + m
      <4>4. /\ i \in Nat /\ i >= 1 /\ n \in Nat /\ n >= i /\ IsMark(u, n)
            /\ \A k \in i .. n - 1 : ~IsMark(u, k)
        BY <2>1, <4>1, <4>2, <4>3
      <4> HIDE DEF i, n
      <4>5. MarksFrom(u, i) # {} /\ Least(MarksFrom(u, i)) = n
        BY <1>2, <4>4, FirstMarkIs
      <4>. QED BY <4>5 DEF i, n
    <3>4. Parser(u)[Len(c) + j] = One(SubSeq(u, Len(c) + j, (Len(c) + m) + 3))
                                  \o Parser(u)[(Len(c) + m) + 4]
      BY <1>2, <2>1, <3>3, ParserIs
    <3>5. (Len(c) + m) + 3 = Len(c) + (m + 3) /\ (Len(c) + m) + 4 = Len(c) + (m + 4)
      BY <1>1, <3>1
    <3>6. SubSeq(u, Len(c) + j, Len(c) + (m + 3)) = SubSeq(w, j, m + 3)
      <4>1. j \in 1 .. Len(w) /\ m + 3 \in 1 .. Len(w)
        BY <1>1, <2>1, <3>1
      <4>. QED BY <1>4, <4>1
    <3>7. Parser(u)[Len(c) + (m + 4)] = Parser(w)[m + 4]
      <4>1. m + 4 \in D /\ rk[m + 4] < rk[j]
        BY <1>1, <2>1, <3>1
      <4>2. m + 4 \in T
        BY <1>5, <4>1
      <4>. QED BY <4>2
    <3>8. Parser(u)[Len(c) + j] = Parser(w)[j]
      BY <3>2, <3>4, <3>5, <3>6, <3>7
    <3>. QED BY <3>8
  <2>. QED BY <2>2, <2>3
<1>6. rk \in [D -> Nat]
  BY <1>1
<1>7. D \subseteq T
  <2> HIDE DEF D, T, rk
  <2>. QED BY <1>5, <1>6, RankInduction
<1>. QED BY <1>7 DEF u

(* c is a chunk: its only mark is its end.                                 *)
IsChunk(c) ==
  /\ c \in Seq(Bytes)
  /\ IsMark(c, Len(c) - 3) /\ Len(c) >= 4
  /\ \A k \in 1 .. Len(c) - 4 : ~IsMark(c, k)

(* A chunk adds what is in it, whatever comes behind.                      *)
LEMMA ChunkPackets ==
  ASSUME NEW c, IsChunk(c), NEW w \in Seq(Bytes)
  PROVE  Packets(c \o w) = One(c) \o Packets(w)
<1> DEFINE u == c \o w
<1>0. c \in Seq(Bytes) /\ Len(c) \in Nat /\ Len(c) >= 4
  BY LenProperties DEF IsChunk
<1>1. u \in Seq(Bytes) /\ Len(u) = Len(c) + Len(w) /\ Len(w) \in Nat
  BY <1>0, ConcatProperties, LenProperties
<1>2. MarksFrom(u, 1) # {} /\ Least(MarksFrom(u, 1)) = Len(c) - 3
  <2> DEFINE m == Len(c) - 3
  <2>1. m \in Nat /\ m >= 1 /\ 1 \in Nat /\ 1 >= 1 /\ m + 3 <= Len(c) /\ m - 1 = Len(c) - 4
    BY <1>0
  <2>2. IsMark(u, m)
    <3>1. IsMark(c, m)
      BY DEF IsChunk
    <3> HIDE DEF m
    <3>. QED BY <1>0, <2>1, <3>1, MarkInFirst
  <2>3. \A k \in 1 .. m - 1 : ~IsMark(u, k)
    <3>1. TAKE k \in 1 .. m - 1
    <3>2. k \in 1 .. Len(c) - 4
      BY <2>1
    <3>3. ~IsMark(c, k)
      BY <3>2 DEF IsChunk
    <3>4. k \in Nat /\ k >= 1 /\ k + 3 <= Len(c)
      BY <1>0, <3>2
    <3>. QED BY <1>0, <3>3, <3>4, MarkInFirst
  <2> HIDE DEF m, u
  <2>4. MarksFrom(u, 1) # {} /\ Least(MarksFrom(u, 1)) = m
    BY <1>1, <2>1, <2>2, <2>3, FirstMarkIs
  <2>. QED BY <2>4 DEF m
<1>3. Parser(u)[1] = One(SubSeq(u, 1, (Len(c) - 3) + 3)) \o Parser(u)[(Len(c) - 3) + 4]
  <2>1. 1 \in 1 .. Len(u) + 1
    BY <1>0, <1>1
  <2> HIDE DEF u
  <2>2. Parser(u)[1] = One(SubSeq(u, 1, Least(MarksFrom(u, 1)) + 3))
                       \o Parser(u)[Least(MarksFrom(u, 1)) + 4]
    BY <1>1, <1>2, <2>1, ParserIs
  <2>. QED BY <1>2, <2>2
<1>4. (Len(c) - 3) + 3 = Len(c) /\ (Len(c) - 3) + 4 = Len(c) + 1
  BY <1>0
<1>5. SubSeq(u, 1, Len(c)) = c
  <2>1. 1 \in 1 .. Len(c) /\ Len(c) \in 1 .. Len(c)
    BY <1>0
  <2>2. SubSeq(c \o w, 1, Len(c)) = SubSeq(c, 1, Len(c))
    BY <1>0, <2>1, SubSeqOfConcat1
  <2>3. SubSeq(c, 1, Len(c)) = c
    BY <1>0, SubSeqFull
  <2>. QED BY <2>2, <2>3
<1>6. Parser(u)[Len(c) + 1] = Parser(w)[1]
  <2>1. 1 \in 1 .. Len(w) + 1
    BY <1>1
  <2>. QED BY <1>0, <2>1, ParserShift
<1>7. Parser(u)[1] = One(c) \o Parser(w)[1]
  <2> HIDE DEF u
  <2>. QED BY <1>3, <1>4, <1>5, <1>6
<1>. QED BY <1>7, PacketsIsParser

(* A frame is a body, the bytes written for the last byte of the packet,   *)
(* none of which is a carriage return or a line feed, and the mark.        *)
LEMMA FrameShape ==
  ASSUME NEW p \in Seq(Bytes), p # <<>>
  PROVE  \E B \in Seq(Bytes), L \in Seq(Bytes) :
           /\ Frame(p) \in Seq(Bytes)
           /\ Len(L) >= 1 /\ Len(Frame(p)) = Len(B) + Len(L) + 4
           /\ \A i \in 1 .. Len(B) : Frame(p)[i] = B[i]
           /\ \A i \in 1 .. Len(L) : Frame(p)[Len(B) + i] \notin {CR, LF}
           /\ IsMark(Frame(p), Len(B) + Len(L) + 1)
           /\ ~At(p, 2, Mark) => B = SubSeq(p, 1, Len(p) - 1)
<1> DEFINE L == LastByte(p[Len(p)])
           F == Frame(p)
<1>1. PICK B \in Seq(Bytes) : /\ F = (B \o L) \o Mark
                              /\ ~At(p, 2, Mark) => B = SubSeq(p, 1, Len(p) - 1)
  BY FrameEnds
<1>2. p[Len(p)] \in Bytes
  <2>1. Len(p) \in 1 .. Len(p)
    BY LenProperties, EmptySeq
  <2>. QED BY <2>1, ElementOfSeq
<1>3. /\ L \in Seq(Bytes) /\ Len(L) \in {1, 5}
      /\ \A i \in 1 .. Len(L) : L[i] \notin {CR, LF}
  BY <1>2, LastByteIs
<1> HIDE DEF L, F
<1> DEFINE G == (B \o L) \o Mark
<1>4. /\ G \in Seq(Bytes) /\ Len(G) = Len(B) + Len(L) + Len(Mark)
      /\ \A i \in 1 .. Len(B) : G[i] = B[i]
      /\ \A i \in 1 .. Len(L) : G[Len(B) + i] = L[i]
      /\ \A i \in 1 .. Len(Mark) : G[Len(B) + Len(L) + i] = Mark[i]
  <2>1. L \in Seq(Bytes) /\ Mark \in Seq(Bytes)
    BY <1>3, MarkIs
  <2>. QED BY <2>1, Pieces
<1> HIDE DEF G
<1>5. G = F /\ Len(Mark) = 4 /\ Len(B) \in Nat /\ Len(L) \in Nat
  BY <1>1, <1>3, MarkIs, LenProperties DEF G
<1>6. IsMark(F, Len(B) + Len(L) + 1)
  <2> DEFINE m == Len(B) + Len(L)
  <2>1. m \in Nat /\ (m + 1) + 1 = m + 2 /\ (m + 1) + 2 = m + 3 /\ (m + 1) + 3 = m + 4
    BY <1>5
  <2>2. F[m + 1] = 13 /\ F[m + 2] = 10 /\ F[m + 3] = 13 /\ F[m + 4] = 10 /\ Len(F) = m + 4
    <3>1. \A i \in 1 .. 4 : F[m + i] = Mark[i]
      BY <1>4, <1>5
    <3>2. F[m + 1] = Mark[1] /\ F[m + 2] = Mark[2] /\ F[m + 3] = Mark[3] /\ F[m + 4] = Mark[4]
      BY <3>1
    <3>. QED BY <1>4, <1>5, <3>2, MarkIs
  <2> HIDE DEF m
  <2>3. IsMark(F, m + 1)
    BY <2>1, <2>2 DEF IsMark
  <2>. QED BY <2>3 DEF m
<1>7. Len(L) >= 1 /\ Len(F) = Len(B) + Len(L) + 4 /\ F \in Seq(Bytes)
  <2>1. Len(L) >= 1
    <3>1. Len(L) \in {1, 5}
      BY <1>3, Zenon
    <3>2. \A n \in {1, 5} : n >= 1
      OBVIOUS
    <3>. QED BY <3>1, <3>2, Zenon
  <2>2. G \in Seq(Bytes) /\ Len(G) = Len(B) + Len(L) + Len(Mark)
    BY <1>4
  <2>. QED BY <1>5, <2>1, <2>2
<1>8. \A i \in 1 .. Len(B) : F[i] = B[i]
  BY <1>4, <1>5
<1>9. \A i \in 1 .. Len(L) : F[Len(B) + i] \notin {CR, LF}
  BY <1>3, <1>4, <1>5
<1>. QED BY <1>1, <1>3, <1>6, <1>7, <1>8, <1>9 DEF F

(* The frame of a clean packet is one chunk, and the packet is in it.      *)
LEMMA CleanFrame ==
  ASSUME NEW p \in Seq(Bytes), Clean(p)
  PROVE  IsChunk(Frame(p)) /\ One(Frame(p)) = <<p>>
<1> DEFINE F == Frame(p)
<1>1. p # <<>> /\ ~At(p, 2, Mark) /\ ~HasMark(SubSeq(p, 1, Len(p) - 1))
  BY DEF Clean
<1>2. PICK B \in Seq(Bytes), L \in Seq(Bytes) :
        /\ F \in Seq(Bytes)
        /\ Len(L) >= 1 /\ Len(F) = Len(B) + Len(L) + 4
        /\ \A i \in 1 .. Len(B) : F[i] = B[i]
        /\ \A i \in 1 .. Len(L) : F[Len(B) + i] \notin {CR, LF}
        /\ IsMark(F, Len(B) + Len(L) + 1)
        /\ ~At(p, 2, Mark) => B = SubSeq(p, 1, Len(p) - 1)
  BY <1>1, FrameShape
<1> HIDE DEF F
<1>3. Len(B) \in Nat /\ Len(L) \in Nat /\ ~HasMark(B)
  BY <1>1, <1>2, LenProperties
<1>4. ASSUME NEW k \in 1 .. Len(F) - 4, IsMark(F, k) PROVE FALSE
  <2>1. k \in Nat /\ k >= 1 /\ k <= Len(B) + Len(L)
    BY <1>2, <1>3
  <2>2. /\ F[k] \in {CR, LF} /\ F[k + 1] \in {CR, LF}
        /\ F[k + 2] \in {CR, LF} /\ F[k + 3] \in {CR, LF}
    BY <1>4 DEF IsMark, CR, LF
  <2>3. CASE k + 3 <= Len(B)
    <3>1. k \in 1 .. Len(B) /\ k + 1 \in 1 .. Len(B) /\ k + 2 \in 1 .. Len(B) /\ k + 3 \in 1 .. Len(B)
      BY <1>3, <2>1, <2>3
    <3>2. B[k] = F[k] /\ B[k + 1] = F[k + 1] /\ B[k + 2] = F[k + 2] /\ B[k + 3] = F[k + 3]
      BY <1>2, <3>1
    <3>3. IsMark(B, k)
      BY <1>4, <2>3, <3>2 DEF IsMark
    <3>4. 1 \in Nat /\ 1 >= 1
      OBVIOUS
    <3>5. k \in MarksFrom(B, 1)
      BY <3>1, <3>3, <3>4, MarksAre
    <3>. QED BY <1>3, <3>5 DEF HasMark
  <2>4. CASE k > Len(B)
    <3>1. k - Len(B) \in 1 .. Len(L) /\ Len(B) + (k - Len(B)) = k
      BY <1>3, <2>1, <2>4
    <3>. QED BY <1>2, <2>2, <3>1
  <2>5. CASE k <= Len(B) /\ ~(k + 3 <= Len(B))
    <3>1. 1 \in 1 .. Len(L)
      BY <1>2, <1>3
    <3>2. F[Len(B) + 1] \notin {CR, LF}
      BY <1>2, <3>1
    <3>3. Len(B) + 1 = k + 1 \/ Len(B) + 1 = k + 2 \/ Len(B) + 1 = k + 3
      BY <1>3, <2>1, <2>5
    <3>. QED BY <2>2, <3>2, <3>3
  <2>. QED BY <1>3, <2>1, <2>3, <2>4, <2>5
<1>5. IsChunk(F)
  <2>1. Len(F) - 3 = Len(B) + Len(L) + 1 /\ Len(F) >= 4
    BY <1>2, <1>3
  <2>. QED BY <1>2, <1>4, <2>1 DEF IsChunk
<1>6. One(F) = <<p>>
  <2>1. \A k \in 1 .. Len(p) : ~At(p, k, <<38, 35>>)
    BY DEF Clean
  <2>2. Payload(F) = p
    BY <1>1, <2>1, FrameDecodes DEF F
  <2>3. Len(p) > 0
    BY <1>1, LenProperties, EmptySeq
  <2>. QED BY <2>2, <2>3 DEF One
<1>. QED BY <1>5, <1>6 DEF F
-----------------------------------------------------------------------------
(* How a stream of frames ends: with a mark, and with no byte in front of  *)
(* it that could belong to one.                                            *)
WellEnded(u) ==
  u # <<>> => /\ Len(u) >= 5
              /\ IsMark(u, Len(u) - 3)
              /\ u[Len(u) - 4] \notin {CR, LF}

(* A frame more and the stream still ends well, whatever the packet is.    *)
LEMMA FrameWellEnded ==
  ASSUME NEW u \in Seq(Bytes), WellEnded(u), NEW p \in Seq(Bytes)
  PROVE  WellEnded(u \o Frame(p))
<1>1. CASE p = <<>>
  <2>1. Frame(p) = <<>>
    BY <1>1 DEF Frame
  <2>2. u \o <<>> = u
    BY ConcatEmptySeq
  <2>. QED BY <2>1, <2>2
<1>2. CASE p # <<>>
  <2> DEFINE F == Frame(p)
             v == u \o F
  <2>1. PICK B \in Seq(Bytes), L \in Seq(Bytes) :
          /\ F \in Seq(Bytes)
          /\ Len(L) >= 1 /\ Len(F) = Len(B) + Len(L) + 4
          /\ \A i \in 1 .. Len(L) : F[Len(B) + i] \notin {CR, LF}
          /\ IsMark(F, Len(B) + Len(L) + 1)
    BY <1>2, FrameShape
  <2> HIDE DEF F
  <2>2. Len(B) \in Nat /\ Len(L) \in Nat /\ Len(u) \in Nat
    BY LenProperties
  <2>3. /\ Len(v) = Len(u) + Len(F)
        /\ \A i \in 1 .. Len(u) + Len(F) : v[i] = IF i <= Len(u) THEN u[i] ELSE F[i - Len(u)]
    BY <2>1, ConcatProperties
  <2> DEFINE m == Len(B) + Len(L) + 1
  <2>4. m \in Nat /\ m >= 2 /\ Len(F) = m + 3
    BY <2>1, <2>2
  <2>5. IsMark(v, Len(u) + m)
    <3>1. m >= 1 /\ IsMark(F, m)
      BY <2>1, <2>4
    <3> HIDE DEF m
    <3>. QED BY <2>1, <2>4, <3>1, MarkInSecond
  <2>6. F[m - 1] \notin {CR, LF}
    <3>1. Len(L) \in 1 .. Len(L) /\ m - 1 = Len(B) + Len(L)
      BY <2>1, <2>2
    <3>2. F[Len(B) + Len(L)] \notin {CR, LF}
      BY <2>1, <3>1
    <3>. QED BY <3>1, <3>2
  <2> HIDE DEF v, m
  <2>7. v[Len(v) - 4] = F[m - 1]
    <3>1. /\ Len(v) - 4 \in 1 .. Len(u) + Len(F) /\ ~(Len(v) - 4 <= Len(u))
          /\ (Len(v) - 4) - Len(u) = m - 1
      BY <2>2, <2>3, <2>4
    <3>. QED BY <2>3, <3>1
  <2>8. Len(v) - 3 = Len(u) + m /\ Len(v) >= 5
    BY <2>2, <2>3, <2>4
  <2>9. WellEnded(v)
    BY <2>5, <2>6, <2>7, <2>8 DEF WellEnded
  <2>. QED BY <2>9 DEF v, F
<1>. QED BY <1>1, <1>2

(* A chunk that is taken ends where a frame ends: its mark and the last    *)
(* one do not overlap.                                                     *)
LEMMA RestWellEnded ==
  ASSUME NEW c, IsChunk(c), NEW r \in Seq(Bytes), WellEnded(c \o r)
  PROVE  WellEnded(r)
<1> DEFINE u == c \o r
<1>1. c \in Seq(Bytes) /\ Len(c) \in Nat /\ Len(c) >= 4 /\ Len(r) \in Nat
  BY LenProperties DEF IsChunk
<1>2. /\ Len(u) = Len(c) + Len(r)
      /\ \A i \in 1 .. Len(c) + Len(r) : u[i] = IF i <= Len(c) THEN c[i] ELSE r[i - Len(c)]
  BY <1>1, ConcatProperties
<1>3. Len(u) >= 5 => IsMark(u, Len(u) - 3) /\ u[Len(u) - 4] \notin {CR, LF}
  <2>1. ASSUME Len(u) >= 5 PROVE u # <<>>
    BY <2>1, EmptySeq
  <2>. QED BY <2>1 DEF WellEnded
<1>4. \A k \in Nat : k >= 1 => (IsMark(u, Len(c) + k) <=> IsMark(r, k))
  BY <1>1, MarkInSecond
<1> HIDE DEF u
<1>5. SUFFICES ASSUME r # <<>> PROVE Len(r) >= 5 /\ IsMark(r, Len(r) - 3) /\ r[Len(r) - 4] \notin {CR, LF}
  BY DEF WellEnded
<1>6. Len(r) >= 1 /\ Len(u) >= 5
  <2>1. Len(r) # 0
    BY <1>5, EmptySeq
  <2>. QED BY <1>1, <1>2, <2>1
<1>7. ASSUME Len(r) <= 4 PROVE FALSE
  <2> DEFINE j == Len(u) - 4
  <2>1. j \in 1 .. Len(c) + Len(r) /\ j <= Len(c) /\ j \in Len(c) - 3 .. Len(c)
    BY <1>1, <1>2, <1>6, <1>7
  <2>2. u[j] = c[j] /\ u[j] \notin {CR, LF}
    BY <1>2, <1>3, <1>6, <2>1
  <2>3. /\ (Len(c) - 3) + 1 = Len(c) - 2 /\ (Len(c) - 3) + 2 = Len(c) - 1
        /\ (Len(c) - 3) + 3 = Len(c)
    BY <1>1
  <2>4. c[Len(c) - 3] = 13 /\ c[Len(c) - 2] = 10 /\ c[Len(c) - 1] = 13 /\ c[Len(c)] = 10
    BY <2>3 DEF IsChunk, IsMark
  <2>5. j = Len(c) - 3 \/ j = Len(c) - 2 \/ j = Len(c) - 1 \/ j = Len(c)
    BY <1>1, <2>1
  <2> HIDE DEF j
  <2>. QED BY <2>2, <2>4, <2>5 DEF CR, LF
<1>8. Len(r) >= 5
  BY <1>1, <1>7
<1>9. IsMark(r, Len(r) - 3)
  <2>1. Len(r) - 3 \in Nat /\ Len(r) - 3 >= 1 /\ Len(u) - 3 = Len(c) + (Len(r) - 3)
    BY <1>1, <1>2, <1>8
  <2>. QED BY <1>3, <1>4, <1>6, <2>1
<1>10. r[Len(r) - 4] = u[Len(u) - 4]
  <2>1. /\ Len(u) - 4 \in 1 .. Len(c) + Len(r) /\ ~(Len(u) - 4 <= Len(c))
        /\ (Len(u) - 4) - Len(c) = Len(r) - 4
    BY <1>1, <1>2, <1>8
  <2>. QED BY <1>2, <2>1
<1>. QED BY <1>3, <1>6, <1>8, <1>9, <1>10

(* A stream that ends well and has no mark is empty.                       *)
LEMMA WellEndedHasMark ==
  ASSUME NEW u \in Seq(Bytes), WellEnded(u), ~HasMark(u)
  PROVE  u = <<>>
<1>1. SUFFICES ASSUME u # <<>> PROVE FALSE
  OBVIOUS
<1>2. Len(u) >= 5 /\ IsMark(u, Len(u) - 3) /\ Len(u) \in Nat
  BY <1>1, LenProperties DEF WellEnded
<1>3. Len(u) - 3 \in 1 .. Len(u) /\ 1 \in Nat /\ 1 >= 1
  BY <1>2
<1>4. Len(u) - 3 \in MarksFrom(u, 1)
  BY <1>2, <1>3, MarksAre
<1>. QED BY <1>4 DEF HasMark
-----------------------------------------------------------------------------
(* The words of a command.                                                 *)

(* The recursive function that Words is defined with.                      *)
WordFrom(s) ==
  CHOOSE word : word = [i \in 1 .. Len(s) + 1 |->
        LET e == Find(s, i, Space)
        IN  IF e > Len(s) THEN <<SubSeq(s, i, Len(s))>> ELSE <<SubSeq(s, i, e - 1)>> \o word[e + 1]]

(* The words of s are what that function finds from the first place.       *)
LEMMA WordsIsWordFrom ==
  ASSUME NEW s
  PROVE  Words(s) = WordFrom(s)[1]
BY DEF Words, WordFrom

(* The function exists, and satisfies its equation.                        *)
LEMMA WordFromIs ==
  ASSUME NEW s \in Seq(Bytes)
  PROVE  /\ WordFrom(s) \in [1 .. Len(s) + 1 -> Seq(Seq(Bytes))]
         /\ \A i \in 1 .. Len(s) + 1 : Find(s, i, Space) > Len(s) =>
              WordFrom(s)[i] = <<SubSeq(s, i, Len(s))>>
         /\ \A i \in 1 .. Len(s) + 1 : ~(Find(s, i, Space) > Len(s)) =>
              WordFrom(s)[i] = <<SubSeq(s, i, Find(s, i, Space) - 1)>>
                               \o WordFrom(s)[Find(s, i, Space) + 1]
<1> DEFINE D == 1 .. Len(s) + 1
           e(i) == Find(s, i, Space)
           rk == [i \in D |-> Len(s) + 1 - i]
           Stop == {i \in D : e(i) > Len(s)}
           last == [i \in D |-> <<SubSeq(s, i, Len(s))>>]
           head == [i \in D |-> <<SubSeq(s, i, e(i) - 1)>>]
           next == [i \in D |-> e(i) + 1]
           Is(g) == g = [i \in D |->
                LET x == Find(s, i, Space)
                IN  IF x > Len(s) THEN <<SubSeq(s, i, Len(s))>>
                    ELSE <<SubSeq(s, i, x - 1)>> \o g[x + 1]]
<1>1. Len(s) \in Nat
  BY LenProperties
<1>2. ASSUME NEW i \in D
      PROVE  /\ e(i) \in i .. Len(s) + 1
             /\ SubSeq(s, i, Len(s)) \in Seq(Bytes)
             /\ SubSeq(s, i, e(i) - 1) \in Seq(Bytes)
  <2>1. e(i) \in i .. Len(s) + 1
    BY FindIs
  <2>2. e(i) - 1 \in Int /\ e(i) - 1 <= Len(s) /\ Len(s) \in Int /\ Len(s) <= Len(s)
    BY <1>1, <2>1
  <2> HIDE DEF e
  <2>3. SubSeq(s, i, Len(s)) \in Seq(Bytes)
    BY <2>2, PartTyped
  <2>4. SubSeq(s, i, e(i) - 1) \in Seq(Bytes)
    BY <2>2, PartTyped
  <2>. QED BY <2>1, <2>3, <2>4
<1>3. ListDescends(D, Seq(Bytes), Len(s) + 1, rk, Stop, last, head, next)
  <2>1. rk \in [D -> 0 .. Len(s) + 1]
    BY <1>1
  <2>2. \A i \in D : i \in Stop => last[i] \in Seq(Seq(Bytes))
    BY <1>2
  <2>3. \A i \in D : i \notin Stop => head[i] \in Seq(Seq(Bytes))
    <3> HIDE DEF e
    <3>. QED BY <1>2
  <2>4. \A i \in D : i \notin Stop => next[i] \in D /\ rk[next[i]] < rk[i]
    <3> HIDE DEF e
    <3>1. TAKE i \in D
    <3>2. SUFFICES ASSUME i \notin Stop PROVE next[i] \in D /\ rk[next[i]] < rk[i]
      OBVIOUS
    <3>3. e(i) \in i .. Len(s) + 1 /\ next[i] = e(i) + 1 /\ ~(e(i) > Len(s)) /\ i \in Nat
      BY <1>1, <1>2, <3>2
    <3>4. next[i] \in i + 1 .. Len(s) + 1
      <4> HIDE DEF next, D, rk, Stop, last, head, Is
      <4>. QED BY <1>1, <3>3
    <3> HIDE DEF next
    <3>. QED BY <1>1, <3>4
  <2>5. Len(s) + 1 \in Nat
    BY <1>1
  <2> HIDE DEF D, rk, Stop, last, head, next
  <2>. QED BY <2>1, <2>2, <2>3, <2>4, <2>5 DEF ListDescends
<1>4. PICK f \in [D -> Seq(Seq(Bytes))] : IsList(f, D, Stop, last, head, next)
  <2> HIDE DEF D, rk, Stop, last, head, next
  <2>. QED BY <1>3, ListRecursion
<1>5. ASSUME NEW g PROVE Is(g) <=> IsList(g, D, Stop, last, head, next)
  <2>1. ASSUME NEW i \in D
        PROVE  (LET x == Find(s, i, Space)
                IN  IF x > Len(s) THEN <<SubSeq(s, i, Len(s))>>
                    ELSE <<SubSeq(s, i, x - 1)>> \o g[x + 1])
               = (IF i \in Stop THEN last[i] ELSE head[i] \o g[next[i]])
    <3>1. CASE e(i) > Len(s)
      BY <3>1
    <3>2. CASE ~(e(i) > Len(s))
      BY <3>2
    <3>. QED BY <3>1, <3>2
  <2> HIDE DEF Stop, last, head, next
  <2>. QED BY <2>1, Zenon DEF IsList
<1>6. WordFrom(s) = CHOOSE g : Is(g)
  BY Zenon DEF WordFrom
<1>7. /\ IsList(WordFrom(s), D, Stop, last, head, next)
      /\ WordFrom(s) \in [D -> Seq(Seq(Bytes))]
  <2> HIDE DEF Is, D, rk, Stop, last, head, next
  <2>1. IsList(WordFrom(s), D, Stop, last, head, next)
    BY <1>4, <1>5, <1>6
  <2>. QED BY <1>3, <2>1, ListRecursion
<1>8. ASSUME NEW i \in D
      PROVE  WordFrom(s)[i] = IF i \in Stop THEN last[i] ELSE head[i] \o WordFrom(s)[next[i]]
  <2> DEFINE d == WordFrom(s)
  <2> HIDE DEF d, D, Stop, last, head, next
  <2>1. d = [j \in D |-> IF j \in Stop THEN last[j] ELSE head[j] \o d[next[j]]]
    BY <1>7 DEF IsList, d
  <2>2. d[i] = IF i \in Stop THEN last[i] ELSE head[i] \o d[next[i]]
    BY <2>1
  <2>. QED BY <2>2 DEF d
<1>9. \A i \in D : e(i) > Len(s) => WordFrom(s)[i] = <<SubSeq(s, i, Len(s))>>
  BY <1>8
<1>10. \A i \in D : ~(e(i) > Len(s)) =>
         WordFrom(s)[i] = <<SubSeq(s, i, e(i) - 1)>> \o WordFrom(s)[e(i) + 1]
  BY <1>8
<1>. QED BY <1>7, <1>9, <1>10, Zenon

(* The scan of unquoted text from a place in a word.                       *)
LEMMA ScanWord ==
  ASSUME NEW s \in Seq(Bytes), \A k \in 1 .. Len(s) : s[k] # Quote /\ s[k] # 0,
         NEW i \in 1 .. Len(s), NEW j \in i .. Find(s, i, Space), j <= Len(s)
  PROVE  Parse(s)[j][FALSE] =
           IF Find(s, i, Space) > Len(s) THEN <<Len(s)>>
           ELSE <<Find(s, i, Space)>> \o Parse(s)[Find(s, i, Space) + 2][FALSE]
<1> DEFINE e == Find(s, i, Space)
           g == Parse(s)
<1>1. Len(s) \in Nat
  BY LenProperties
<1>2. /\ e \in i .. Len(s) + 1
      /\ \A k \in i .. e - 1 : s[k] # Space
      /\ e <= Len(s) => s[e] = Space
  <2>1. i \in 1 .. Len(s) + 1
    BY <1>1
  <2>. QED BY <2>1, FindIs
<1> HIDE DEF e
<1>3. ASSUME NEW k \in 1 .. Len(s)
      PROVE  g[k][FALSE] = IF NothingFound(s, k) THEN <<Len(s)>>
                           ELSE IF s[k] = Space THEN <<k>> \o g[k + 2][FALSE]
                           ELSE g[k + 1][FALSE]
  <2>1. After(s, k, FALSE) = FALSE
    BY DEF After
  <2>2. k \in 1 .. Len(s) + 2 /\ FALSE \in BOOLEAN /\ ~(k > Len(s))
    BY <1>1
  <2>3. g[k][FALSE] = ParseStep(s, g, k, FALSE)
    BY <2>2, ParseIs
  <2> HIDE DEF g
  <2>. QED BY <2>1, <2>2, <2>3, Zenon DEF ParseStep
<1>4. CASE e > Len(s)
  <2>1. NothingFound(s, j)
    BY <1>1, <1>2, <1>4 DEF NothingFound
  <2>2. j \in 1 .. Len(s)
    BY <1>1, <1>2 DEF e
  <2>3. g[j][FALSE] = <<Len(s)>>
    BY <1>3, <2>1, <2>2
  <2>. QED BY <1>4, <2>3 DEF e
<1>5. CASE ~(e > Len(s))
  <2>0. e \in 1 .. Len(s) /\ s[e] = Space /\ e \in i .. Len(s)
    BY <1>1, <1>2, <1>5
  <2> DEFINE D == i .. e
             rk == [k \in D |-> e - k]
             T == {k \in D : g[k][FALSE] = <<e>> \o g[e + 2][FALSE]}
  <2>1. ASSUME NEW k \in D, \A l \in D : rk[l] < rk[k] => l \in T PROVE k \in T
    <3>1. k \in 1 .. Len(s) /\ e \in k .. Len(s)
      BY <1>1, <2>0
    <3>2. ~NothingFound(s, k)
      BY <1>1, <2>0, <3>1 DEF NothingFound
    <3>3. CASE k = e
      <4>1. g[k][FALSE] = <<k>> \o g[k + 2][FALSE]
        BY <1>3, <2>0, <3>1, <3>2, <3>3
      <4>. QED BY <3>3, <4>1
    <3>4. CASE k # e
      <4>1. k \in i .. e - 1 /\ k + 1 \in D /\ rk[k + 1] < rk[k]
        BY <2>0, <3>4
      <4>2. s[k] # Space
        BY <1>2, <4>1
      <4>3. g[k][FALSE] = g[k + 1][FALSE]
        BY <1>3, <3>1, <3>2, <4>2
      <4>4. k + 1 \in T
        BY <2>1, <4>1
      <4>5. g[k + 1][FALSE] = <<e>> \o g[e + 2][FALSE]
        BY <4>4
      <4> HIDE DEF g
      <4>. QED BY <4>3, <4>5
    <3>. QED BY <3>3, <3>4
  <2>2. rk \in [D -> Nat]
    BY <2>0
  <2>3. D \subseteq T
    <3> HIDE DEF D, T, rk
    <3>. QED BY <2>1, <2>2, RankInduction
  <2>4. j \in D
    BY DEF e
  <2>5. g[j][FALSE] = <<e>> \o g[e + 2][FALSE]
    BY <2>3, <2>4
  <2>. QED BY <1>5, <2>5 DEF e
<1>. QED BY <1>4, <1>5

(* The words that end at E, the first of which begins at a.                *)
Cuts(s, a, E, kept) ==
  [k \in 1 .. Len(E) |-> Word(SubSeq(s, IF k = 1 THEN a ELSE E[k - 1] + 1, E[k]), kept)]

(* There is one word for each end, made of bytes.                          *)
LEMMA CutsTyped ==
  ASSUME NEW s \in Seq(Bytes), NEW a \in 1 .. Len(s) + 1, NEW E \in Seq(1 .. Len(s)),
         NEW kept \in BOOLEAN
  PROVE  /\ Cuts(s, a, E, kept) \in Seq(Seq(Bytes)) /\ Len(Cuts(s, a, E, kept)) = Len(E)
         /\ \A k \in 1 .. Len(E) :
              Cuts(s, a, E, kept)[k] = Word(SubSeq(s, IF k = 1 THEN a ELSE E[k - 1] + 1, E[k]), kept)
<1> DEFINE begin(k) == IF k = 1 THEN a ELSE E[k - 1] + 1
<1>1. Len(s) \in Nat /\ Len(E) \in Nat
  BY LenProperties
<1>2. ASSUME NEW k \in 1 .. Len(E) PROVE Word(SubSeq(s, begin(k), E[k]), kept) \in Seq(Bytes)
  <2>1. E[k] \in 1 .. Len(s)
    BY ElementOfSeq
  <2>2. begin(k) \in 1 .. Len(s) + 1
    <3>1. CASE k = 1
      BY <1>1, <3>1
    <3>2. CASE k # 1
      <4>1. k - 1 \in 1 .. Len(E)
        BY <1>1, <3>2
      <4>2. E[k - 1] \in 1 .. Len(s)
        BY <4>1, ElementOfSeq
      <4>. QED BY <1>1, <3>2, <4>2
    <3>. QED BY <3>1, <3>2
  <2>3. E[k] \in Int /\ E[k] <= Len(s)
    BY <1>1, <2>1
  <2> HIDE DEF begin
  <2>4. SubSeq(s, begin(k), E[k]) \in Seq(Bytes)
    BY <2>2, <2>3, PartTyped
  <2>. QED BY <2>4, WordTyped
<1>3. Cuts(s, a, E, kept) = [k \in 1 .. Len(E) |-> Word(SubSeq(s, begin(k), E[k]), kept)]
  BY DEF Cuts
<1> HIDE DEF begin
<1>4. /\ Cuts(s, a, E, kept) \in Seq(Seq(Bytes)) /\ Len(Cuts(s, a, E, kept)) = Len(E)
      /\ \A k \in 1 .. Len(E) : Cuts(s, a, E, kept)[k] = Word(SubSeq(s, begin(k), E[k]), kept)
  BY <1>1, <1>2, <1>3
<1>. QED BY <1>4 DEF begin

(* One more end in front is one more word in front.                        *)
LEMMA CutsCons ==
  ASSUME NEW s \in Seq(Bytes), NEW a \in 1 .. Len(s) + 1, NEW E \in Seq(1 .. Len(s)),
         NEW e \in 1 .. Len(s), NEW kept \in BOOLEAN
  PROVE  Cuts(s, a, <<e>> \o E, kept) = <<Word(SubSeq(s, a, e), kept)>> \o Cuts(s, e + 1, E, kept)
<1> DEFINE h == <<e>>
           x == Word(SubSeq(s, a, e), kept)
           X == <<x>>
           F == h \o E
           l == Cuts(s, a, F, kept)
           c == Cuts(s, e + 1, E, kept)
           r == X \o c
<1>1. Len(s) \in Nat /\ Len(E) \in Nat /\ e + 1 \in 1 .. Len(s) + 1
  BY LenProperties
<1>2. h \in Seq(1 .. Len(s)) /\ Len(h) = 1 /\ h[1] = e
  OBVIOUS
<1>3. /\ F \in Seq(1 .. Len(s)) /\ Len(F) = Len(E) + 1 /\ F[1] = e
      /\ \A i \in 1 .. Len(E) : F[i + 1] = E[i]
  <2> HIDE DEF h
  <2>1. h \in Seq(1 .. Len(s))
    BY <1>2
  <2>2. /\ F \in Seq(1 .. Len(s)) /\ Len(F) = Len(h) + Len(E)
        /\ \A i \in 1 .. Len(h) + Len(E) : F[i] = IF i <= Len(h) THEN h[i] ELSE E[i - Len(h)]
    BY <2>1, ConcatProperties
  <2> HIDE DEF F
  <2>3. ASSUME NEW i \in 1 .. Len(E) PROVE F[i + 1] = E[i]
    <3>1. i + 1 \in 1 .. Len(h) + Len(E) /\ ~(i + 1 <= Len(h)) /\ (i + 1) - Len(h) = i
      BY <1>1, <1>2
    <3>2. F[i + 1] = E[(i + 1) - Len(h)]
      BY <2>2, <3>1
    <3>. QED BY <3>1, <3>2
  <2>4. F[1] = e
    BY <1>1, <1>2, <2>2
  <2>. QED BY <1>1, <1>2, <2>2, <2>3, <2>4
<1>4. x \in Seq(Bytes)
  <2>1. e \in Int /\ e <= Len(s)
    BY <1>1
  <2>2. SubSeq(s, a, e) \in Seq(Bytes)
    BY <2>1, PartTyped
  <2>. QED BY <2>2, WordTyped
<1> HIDE DEF F, h, x
<1>5. /\ l \in Seq(Seq(Bytes)) /\ Len(l) = Len(F)
      /\ \A k \in 1 .. Len(F) : l[k] = Word(SubSeq(s, IF k = 1 THEN a ELSE F[k - 1] + 1, F[k]), kept)
  BY <1>3, CutsTyped
<1>6. /\ c \in Seq(Seq(Bytes)) /\ Len(c) = Len(E)
      /\ \A k \in 1 .. Len(E) : c[k] = Word(SubSeq(s, IF k = 1 THEN e + 1 ELSE E[k - 1] + 1, E[k]), kept)
  BY <1>1, CutsTyped
<1> HIDE DEF l, c
<1>7. X \in Seq(Seq(Bytes)) /\ Len(X) = 1 /\ X[1] = x
  BY <1>4
<1> HIDE DEF X
<1>8. /\ r \in Seq(Seq(Bytes)) /\ Len(r) = Len(X) + Len(c)
      /\ \A k \in 1 .. Len(X) + Len(c) : r[k] = IF k <= Len(X) THEN X[k] ELSE c[k - Len(X)]
  <2>1. X \in Seq(Seq(Bytes)) /\ c \in Seq(Seq(Bytes))
    BY <1>6, <1>7
  <2>. QED BY <2>1, ConcatProperties
<1> HIDE DEF r
<1>9. ASSUME NEW k \in 1 .. Len(l) PROVE l[k] = r[k]
  <2>1. k \in 1 .. Len(F) /\ k \in 1 .. Len(E) + 1
    BY <1>3, <1>5
  <2>2. CASE k = 1
    <3>1. l[1] = x
      <4>1. l[1] = Word(SubSeq(s, a, F[1]), kept)
        BY <1>5, <2>1, <2>2
      <4>. QED BY <1>3, <4>1 DEF x
    <3>2. r[1] = x
      BY <1>1, <1>6, <1>7, <1>8
    <3>. QED BY <2>2, <3>1, <3>2
  <2>3. CASE k # 1
    <3> DEFINE i == k - 1
    <3>1. i \in 1 .. Len(E) /\ i + 1 = k
      BY <1>1, <2>1, <2>3
    <3>2. r[k] = c[i]
      <4>1. k \in 1 .. Len(X) + Len(c) /\ ~(k <= Len(X)) /\ k - Len(X) = i
        BY <1>1, <1>6, <1>7, <2>1, <2>3
      <4>2. r[k] = c[k - Len(X)]
        BY <1>8, <4>1
      <4>. QED BY <4>1, <4>2
    <3>3. l[k] = Word(SubSeq(s, F[i] + 1, F[k]), kept)
      BY <1>5, <2>1, <2>3
    <3> HIDE DEF i
    <3>4. F[k] = E[i]
      BY <1>3, <3>1
    <3>5. F[i] = IF i = 1 THEN e ELSE E[i - 1]
      <4>1. CASE i = 1
        BY <1>3, <4>1
      <4>2. CASE i # 1
        <5>1. i - 1 \in 1 .. Len(E) /\ (i - 1) + 1 = i
          BY <1>1, <3>1, <4>2
        <5>2. F[(i - 1) + 1] = E[i - 1]
          BY <1>3, <5>1
        <5>. QED BY <4>2, <5>1, <5>2
      <4>. QED BY <4>1, <4>2
    <3>6. c[i] = Word(SubSeq(s, IF i = 1 THEN e + 1 ELSE E[i - 1] + 1, E[i]), kept)
      BY <1>6, <3>1
    <3>7. F[i] + 1 = IF i = 1 THEN e + 1 ELSE E[i - 1] + 1
      BY <3>5
    <3>. QED BY <3>2, <3>3, <3>4, <3>6, <3>7
  <2>. QED BY <2>2, <2>3
<1>10. l = r
  <2>1. Len(l) = Len(r)
    BY <1>1, <1>3, <1>5, <1>6, <1>7, <1>8
  <2>. QED BY <1>5, <1>8, <1>9, <2>1, SeqEqual
<1>. QED BY <1>10 DEF l, r, X, x, c, F, h

(* A word with its separator, and the last word, are cut to the word.      *)
LEMMA CutWord ==
  ASSUME NEW s \in Seq(Bytes), NEW a \in 1 .. Len(s), NEW e \in a + 1 .. Len(s),
         \A k \in a .. e - 1 : s[k] # Space, s[e] = Space
  PROVE  Cut(SubSeq(s, a, e)) = SubSeq(s, a, e - 1)
<1> DEFINE t == SubSeq(s, a, e)
           n == e - a + 1
<1>1. Len(s) \in Nat
  BY LenProperties
<1>2. t \in Seq(Bytes) /\ Len(t) = n /\ \A i \in 1 .. n : t[i] = s[a + i - 1]
  <2>1. a \in 1 .. Len(s) + 1 /\ e \in a - 1 .. Len(s)
    BY <1>1
  <2>. QED BY <2>1, Part
<1>3. n \in Nat /\ n >= 2 /\ a + n - 1 = e
  BY <1>1
<1> HIDE DEF t, n
<1>4. Find(t, 1, Space) = n
  <2>1. t[n] = Space
    BY <1>2, <1>3
  <2>2. ASSUME NEW k \in 1 .. n - 1 PROVE t[k] # Space
    <3>1. k \in 1 .. n /\ a + k - 1 \in a .. e - 1
      BY <1>1, <1>3
    <3>. QED BY <1>2, <3>1
  <2>3. 1 \in 1 .. Len(t) + 1 /\ n \in 1 .. Len(t) + 1
    BY <1>2, <1>3
  <2>4. t \in Seq(Bytes)
    BY <1>2
  <2>5. n <= Len(t) => t[n] = Space
    BY <2>1
  <2>. QED BY <2>2, <2>3, <2>4, <2>5, FindAt
<1>5. SubSeq(t, 1, n - 1) = SubSeq(s, a, e - 1)
  <2> DEFINE m == n - 1
  <2>1. /\ a \in 1 .. Len(s) /\ e \in 1 .. Len(s) /\ 1 \in 1 .. e - a + 1
        /\ m \in 1 .. e - a + 1 /\ a + 1 - 1 = a /\ a + m - 1 = e - 1
    BY <1>1, <1>3 DEF n
  <2> HIDE DEF m
  <2>2. SubSeq(SubSeq(s, a, e), 1, m) = SubSeq(s, a + 1 - 1, a + m - 1)
    BY <2>1, SubSeqOfSubSeq
  <2>. QED BY <2>1, <2>2 DEF t, m
<1>. QED BY <1>4, <1>5 DEF Cut, t

(* The last word has no separator, and is all that is left.                *)
LEMMA CutLast ==
  ASSUME NEW s \in Seq(Bytes), NEW a \in 1 .. Len(s), \A k \in a .. Len(s) : s[k] # Space
  PROVE  Cut(SubSeq(s, a, Len(s))) = SubSeq(s, a, Len(s))
<1> DEFINE t == SubSeq(s, a, Len(s))
           n == Len(s) - a + 1
<1>1. Len(s) \in Nat
  BY LenProperties
<1>2. t \in Seq(Bytes) /\ Len(t) = n /\ \A i \in 1 .. n : t[i] = s[a + i - 1]
  <2>1. a \in 1 .. Len(s) + 1 /\ Len(s) \in a - 1 .. Len(s)
    BY <1>1
  <2>. QED BY <2>1, Part
<1>3. n \in Nat
  BY <1>1
<1>4. ASSUME NEW k \in 1 .. n PROVE t[k] # Space
  <2>1. a + k - 1 \in a .. Len(s)
    BY <1>1
  <2>. QED BY <1>2, <2>1
<1> HIDE DEF t, n
<1>5. Find(t, 1, Space) = n + 1
  <2> DEFINE e == n + 1
  <2>1. /\ 1 \in 1 .. Len(t) + 1 /\ e \in 1 .. Len(t) + 1
        /\ \A k \in 1 .. e - 1 : t[k] # Space /\ ~(e <= Len(t))
    BY <1>2, <1>3, <1>4
  <2>2. ~(e <= Len(t))
    BY <1>2, <1>3
  <2>3. t \in Seq(Bytes)
    BY <1>2
  <2> HIDE DEF e
  <2>4. Find(t, 1, Space) = e
    BY <2>1, <2>2, <2>3, FindAt
  <2>. QED BY <2>4 DEF e
<1>6. (n + 1) - 1 = Len(t)
  BY <1>2, <1>3
<1>7. SubSeq(t, 1, Len(t)) = t
  BY <1>2, SubSeqFull
<1>. QED BY <1>5, <1>6, <1>7 DEF Cut, t

(* With or without the cut, TokenClear leaves the word.                    *)
LEMMA WordIs ==
  ASSUME NEW s \in Seq(Bytes), NEW a \in 1 .. Len(s), NEW e \in a + 1 .. Len(s),
         \A k \in a .. e - 1 : s[k] \notin {Space, CR, LF}, s[e] = Space, NEW kept \in BOOLEAN
  PROVE  Word(SubSeq(s, a, e), kept) = SubSeq(s, a, e - 1)
<1> DEFINE m == e - 1
           n == e - a
           t == SubSeq(s, a, e)
           u == SubSeq(s, a, m)
<1>1. Len(s) \in Nat
  BY LenProperties
<1>2. n \in Nat /\ n >= 1 /\ m - a + 1 = n /\ e - a + 1 = n + 1
  BY <1>1
<1>3. t \in Seq(Bytes) /\ Len(t) = n + 1 /\ \A i \in 1 .. n + 1 : t[i] = s[a + i - 1]
  <2>1. a \in 1 .. Len(s) + 1 /\ e \in a - 1 .. Len(s)
    BY <1>1
  <2> HIDE DEF n
  <2>2. /\ t \in Seq(Bytes) /\ Len(t) = e - a + 1
        /\ \A i \in 1 .. e - a + 1 : t[i] = s[a + i - 1]
    BY <2>1, Part
  <2> HIDE DEF t
  <2>. QED BY <1>2, <2>2
<1>4. u \in Seq(Bytes) /\ Len(u) = n /\ \A i \in 1 .. n : u[i] = s[a + i - 1]
  <2>1. a \in 1 .. Len(s) + 1 /\ m \in a - 1 .. Len(s)
    BY <1>1
  <2> HIDE DEF n, m
  <2>2. /\ u \in Seq(Bytes) /\ Len(u) = m - a + 1
        /\ \A i \in 1 .. m - a + 1 : u[i] = s[a + i - 1]
    BY <2>1, Part
  <2> HIDE DEF u
  <2>. QED BY <1>2, <2>2
<1>5. \A i \in 1 .. n : s[a + i - 1] \notin {Space, CR, LF}
  <2>1. TAKE i \in 1 .. n
  <2>2. a + i - 1 \in a .. e - 1
    BY <1>1
  <2>. QED BY <2>2
<1>6. s[a + (n + 1) - 1] = Space
  <2>1. a + (n + 1) - 1 = e
    BY <1>1
  <2>. QED BY <2>1
<1>7. Cut(t) = u
  <2>1. \A k \in a .. e - 1 : s[k] # Space
    OBVIOUS
  <2>. QED BY <2>1, CutWord
<1>8. SubSeq(t, 1, n) = u
  <2>1. /\ a \in 1 .. Len(s) /\ e \in 1 .. Len(s) /\ 1 \in 1 .. e - a + 1
        /\ n \in 1 .. e - a + 1 /\ a + 1 - 1 = a /\ a + n - 1 = m
    BY <1>1
  <2> HIDE DEF m, n
  <2>2. SubSeq(SubSeq(s, a, e), 1, n) = SubSeq(s, a + 1 - 1, a + n - 1)
    BY <2>1, SubSeqOfSubSeq
  <2>. QED BY <2>1, <2>2
<1> HIDE DEF t, u, n
<1>9. CASE kept
  <2>1. n \in 1 .. Len(u) /\ SubSeq(u, 1, n) = u
    BY <1>2, <1>4, SubSeqFull
  <2>2. /\ \A k \in 1 .. n : u[k] \notin {Space, CR, LF}
        /\ \A k \in n + 1 .. Len(u) : u[k] = Space
    <3>1. ASSUME NEW k \in 1 .. n PROVE u[k] \notin {Space, CR, LF}
      <4>1. u[k] = s[a + k - 1]
        BY <1>4
      <4>2. s[a + k - 1] \notin {Space, CR, LF}
        BY <1>5
      <4>. QED BY <4>1, <4>2, Zenon
    <3>2. n + 1 .. Len(u) = {}
      BY <1>2, <1>4
    <3>. QED BY <3>1, <3>2
  <2>3. TokenClear(u) = SubSeq(u, 1, n)
    BY <1>4, <2>1, <2>2, ClearWord
  <2>. QED BY <1>7, <1>9, <2>1, <2>3 DEF Word, t, u
<1>10. CASE ~kept
  <2>1. n \in 1 .. Len(t)
    BY <1>2, <1>3
  <2>2. ASSUME NEW k \in 1 .. n PROVE t[k] \notin {Space, CR, LF}
    <3>1. k \in 1 .. n + 1
      BY <1>2
    <3>2. t[k] = s[a + k - 1]
      BY <1>3, <3>1
    <3>3. s[a + k - 1] \notin {Space, CR, LF}
      BY <1>5
    <3>. QED BY <3>2, <3>3, Zenon
  <2>3. \A k \in n + 1 .. Len(t) : t[k] = Space
    <3>1. TAKE k \in n + 1 .. Len(t)
    <3>2. k = n + 1 /\ k \in 1 .. n + 1
      BY <1>2, <1>3
    <3>. QED BY <1>3, <1>6, <3>2
  <2>4. TokenClear(t) = SubSeq(t, 1, n)
    BY <1>3, <2>1, <2>2, <2>3, ClearWord
  <2>. QED BY <1>8, <1>10, <2>4 DEF Word, t, u
<1>. QED BY <1>9, <1>10

(* And so the last word.                                                   *)
LEMMA LastWordIs ==
  ASSUME NEW s \in Seq(Bytes), NEW a \in 1 .. Len(s),
         \A k \in a .. Len(s) : s[k] \notin {Space, CR, LF}, NEW kept \in BOOLEAN
  PROVE  Word(SubSeq(s, a, Len(s)), kept) = SubSeq(s, a, Len(s))
<1> DEFINE t == SubSeq(s, a, Len(s))
           n == Len(s) - a + 1
<1>1. Len(s) \in Nat
  BY LenProperties
<1>2. n \in Nat /\ n >= 1
  BY <1>1
<1>3. t \in Seq(Bytes) /\ Len(t) = n /\ \A i \in 1 .. n : t[i] = s[a + i - 1]
  <2>1. a \in 1 .. Len(s) + 1 /\ Len(s) \in a - 1 .. Len(s)
    BY <1>1
  <2>. QED BY <2>1, Part
<1>4. \A i \in 1 .. n : s[a + i - 1] \notin {Space, CR, LF}
  <2>1. TAKE i \in 1 .. n
  <2>2. a + i - 1 \in a .. Len(s)
    BY <1>1
  <2>. QED BY <2>2
<1>5. Cut(t) = t
  <2>1. \A k \in a .. Len(s) : s[k] # Space
    OBVIOUS
  <2>. QED BY <2>1, CutLast
<1> HIDE DEF t, n
<1>6. TokenClear(t) = t
  <2>1. n \in 1 .. Len(t) /\ SubSeq(t, 1, n) = t
    BY <1>2, <1>3, SubSeqFull
  <2>2. /\ \A k \in 1 .. n : t[k] \notin {Space, CR, LF}
        /\ \A k \in n + 1 .. Len(t) : t[k] = Space
    <3>1. ASSUME NEW k \in 1 .. n PROVE t[k] \notin {Space, CR, LF}
      <4>1. t[k] = s[a + k - 1]
        BY <1>3
      <4>2. s[a + k - 1] \notin {Space, CR, LF}
        BY <1>4
      <4>. QED BY <4>1, <4>2, Zenon
    <3>2. n + 1 .. Len(t) = {}
      BY <1>2, <1>3
    <3>. QED BY <3>1, <3>2
  <2>3. TokenClear(t) = SubSeq(t, 1, n)
    BY <1>3, <2>1, <2>2, ClearWord
  <2>. QED BY <2>1, <2>3
<1>. QED BY <1>5, <1>6 DEF Word, t

(* What is read of a list of words: all but a last word of one byte.       *)
Trim(w) == IF Len(w[Len(w)]) = 1 THEN SubSeq(w, 1, Len(w) - 1) ELSE w

(* A word in front of a list is read, whatever it is.                      *)
LEMMA TrimCons ==
  ASSUME NEW x \in Seq(Bytes), NEW w \in Seq(Seq(Bytes)), w # <<>>
  PROVE  /\ Trim(<<x>> \o w) = <<x>> \o Trim(w)
         /\ Len(<<x>> \o w) = Len(w) + 1
         /\ \A k \in 1 .. Len(w) : (<<x>> \o w)[k + 1] = w[k]
         /\ (<<x>> \o w)[1] = x
<1> DEFINE h == <<x>>
           n == Len(w)
           v == h \o w
<1>1. n \in Nat /\ n >= 1
  BY LenProperties, EmptySeq
<1>2. h \in Seq(Seq(Bytes)) /\ Len(h) = 1 /\ h[1] = x
  OBVIOUS
<1> HIDE DEF h
<1>3. /\ v \in Seq(Seq(Bytes)) /\ Len(v) = Len(h) + Len(w)
      /\ \A k \in 1 .. Len(h) + Len(w) : v[k] = IF k <= Len(h) THEN h[k] ELSE w[k - Len(h)]
  <2>1. h \in Seq(Seq(Bytes))
    BY <1>2
  <2>. QED BY <2>1, ConcatProperties
<1> HIDE DEF v
<1>4. Len(v) = n + 1 /\ v[1] = x
  BY <1>1, <1>2, <1>3
<1>5. ASSUME NEW k \in 1 .. n PROVE v[k + 1] = w[k]
  <2>1. k + 1 \in 1 .. Len(h) + Len(w) /\ ~(k + 1 <= Len(h)) /\ (k + 1) - Len(h) = k
    BY <1>1, <1>2
  <2>2. v[k + 1] = w[(k + 1) - Len(h)]
    BY <1>3, <2>1
  <2>. QED BY <2>1, <2>2
<1>6. v[Len(v)] = w[n]
  <2>1. n \in 1 .. n
    BY <1>1
  <2>2. v[n + 1] = w[n]
    BY <1>5, <2>1
  <2>. QED BY <1>4, <2>2
<1>7. CASE Len(w[n]) = 1
  <2>1. Trim(v) = SubSeq(v, 1, n)
    <3>1. Len(v) - 1 = n
      BY <1>1, <1>4
    <3>. QED BY <1>6, <1>7, <3>1 DEF Trim
  <2>2. Trim(w) = SubSeq(w, 1, n - 1)
    BY <1>7 DEF Trim
  <2>3. SubSeq(v, 1, n) = h \o SubSeq(w, 1, n - 1)
    <3> DEFINE l == SubSeq(v, 1, n)
               z == SubSeq(w, 1, n - 1)
               r == h \o z
    <3>1. /\ l \in Seq(Seq(Bytes)) /\ Len(l) = n - 1 + 1
          /\ \A i \in 1 .. n - 1 + 1 : l[i] = v[1 + i - 1]
      <4>1. 1 \in 1 .. Len(v) + 1 /\ n \in 1 - 1 .. Len(v)
        BY <1>1, <1>4
      <4> HIDE DEF n
      <4>. QED BY <1>3, <4>1, Part
    <3>2. /\ z \in Seq(Seq(Bytes)) /\ Len(z) = (n - 1) - 1 + 1
          /\ \A i \in 1 .. (n - 1) - 1 + 1 : z[i] = w[1 + i - 1]
      <4> DEFINE m == n - 1
      <4>1. 1 \in 1 .. Len(w) + 1 /\ m \in 1 - 1 .. Len(w)
        BY <1>1
      <4> HIDE DEF m
      <4>2. /\ SubSeq(w, 1, m) \in Seq(Seq(Bytes)) /\ Len(SubSeq(w, 1, m)) = m - 1 + 1
            /\ \A i \in 1 .. m - 1 + 1 : SubSeq(w, 1, m)[i] = w[1 + i - 1]
        BY <4>1, Part
      <4>. QED BY <4>2 DEF m
    <3> HIDE DEF l, z
    <3>3. Len(l) = n /\ Len(z) = n - 1
      BY <1>1, <3>1, <3>2
    <3>4. /\ r \in Seq(Seq(Bytes)) /\ Len(r) = Len(h) + Len(z)
          /\ \A k \in 1 .. Len(h) + Len(z) : r[k] = IF k <= Len(h) THEN h[k] ELSE z[k - Len(h)]
      <4>1. h \in Seq(Seq(Bytes)) /\ z \in Seq(Seq(Bytes))
        BY <1>2, <3>2
      <4>. QED BY <4>1, ConcatProperties
    <3> HIDE DEF r
    <3>5. ASSUME NEW i \in 1 .. Len(l) PROVE l[i] = r[i]
      <4>1. i \in 1 .. n - 1 + 1 /\ 1 + i - 1 = i /\ i \in 1 .. n
        BY <1>1, <3>3
      <4>2. l[i] = v[i]
        BY <3>1, <4>1
      <4>3. CASE i = 1
        <5>1. r[1] = x
          BY <1>1, <1>2, <3>3, <3>4
        <5>. QED BY <1>4, <4>2, <4>3, <5>1
      <4>4. CASE i # 1
        <5>1. /\ i - 1 \in 1 .. n /\ i - 1 \in 1 .. (n - 1) - 1 + 1 /\ (i - 1) + 1 = i
              /\ 1 + (i - 1) - 1 = i - 1
          BY <1>1, <4>1, <4>4
        <5>2. v[(i - 1) + 1] = w[i - 1]
          BY <1>5, <5>1
        <5>3. z[i - 1] = w[1 + (i - 1) - 1]
          BY <3>2, <5>1
        <5>4. i \in 1 .. Len(h) + Len(z) /\ ~(i <= Len(h)) /\ i - Len(h) = i - 1
          BY <1>1, <1>2, <3>3, <4>1, <4>4
        <5>5. r[i] = z[i - Len(h)]
          BY <3>4, <5>4
        <5>. QED BY <4>2, <5>1, <5>2, <5>3, <5>4, <5>5
      <4>. QED BY <4>3, <4>4
    <3>6. Len(l) = Len(r)
      BY <1>1, <1>2, <3>3, <3>4
    <3>7. l = r
      BY <3>1, <3>4, <3>5, <3>6, SeqEqual
    <3>. QED BY <3>7 DEF l, r, z
  <2>4. Trim(v) = h \o Trim(w)
    BY <2>1, <2>2, <2>3
  <2>. QED BY <1>4, <1>5, <2>4 DEF v, h
<1>8. CASE Len(w[n]) # 1
  <2>1. Trim(v) = v /\ Trim(w) = w
    BY <1>6, <1>8 DEF Trim
  <2>2. Trim(v) = h \o Trim(w)
    BY <2>1 DEF v
  <2>. QED BY <1>4, <1>5, <2>2 DEF v, h
<1>. QED BY <1>7, <1>8

(* From any place on there is at least one word; what it and its followers *)
(* are depends on whether a separator is left.                             *)
LEMMA SomeWord ==
  ASSUME NEW s \in Seq(Bytes), NEW i \in 1 .. Len(s) + 1
  PROVE  /\ WordFrom(s)[i] \in Seq(Seq(Bytes)) /\ WordFrom(s)[i] # <<>>
         /\ Find(s, i, Space) \in i .. Len(s) + 1
         /\ Find(s, i, Space) > Len(s) =>
              WordFrom(s)[i] = <<SubSeq(s, i, Len(s))>>
         /\ Find(s, i, Space) <= Len(s) =>
              /\ Find(s, i, Space) + 1 \in 1 .. Len(s) + 1
              /\ WordFrom(s)[i] = <<SubSeq(s, i, Find(s, i, Space) - 1)>>
                                  \o WordFrom(s)[Find(s, i, Space) + 1]
              /\ SubSeq(s, i, Find(s, i, Space) - 1) \in Seq(Bytes)
              /\ WordFrom(s)[Find(s, i, Space) + 1] \in Seq(Seq(Bytes))
<1> DEFINE e == Find(s, i, Space)
           W == WordFrom(s)
<1>1. Len(s) \in Nat /\ e \in i .. Len(s) + 1
  BY LenProperties, FindIs
<1>2. W \in [1 .. Len(s) + 1 -> Seq(Seq(Bytes))]
  BY WordFromIs
<1>3. W[i] \in Seq(Seq(Bytes))
  BY <1>2
<1>4. e > Len(s) => W[i] = <<SubSeq(s, i, Len(s))>>
  BY WordFromIs
<1>5. e <= Len(s) => W[i] = <<SubSeq(s, i, e - 1)>> \o W[e + 1]
  <2>1. ~(e > Len(s)) => W[i] = <<SubSeq(s, i, e - 1)>> \o W[e + 1]
    BY WordFromIs
  <2>2. e <= Len(s) => ~(e > Len(s))
    BY <1>1
  <2>. QED BY <2>1, <2>2, Zenon
<1>6. e - 1 \in Int /\ e - 1 <= Len(s) /\ (e <= Len(s) => e + 1 \in 1 .. Len(s) + 1)
  BY <1>1
<1>7. SubSeq(s, i, e - 1) \in Seq(Bytes)
  <2> DEFINE n == e - 1
  <2>1. n \in Int /\ n <= Len(s)
    BY <1>6
  <2> HIDE DEF n
  <2>2. SubSeq(s, i, n) \in Seq(Bytes)
    BY <2>1, PartTyped
  <2>. QED BY <2>2 DEF n
<1>8. e <= Len(s) => W[e + 1] \in Seq(Seq(Bytes))
  BY <1>2, <1>6
<1> HIDE DEF e, W
<1>9. W[i] # <<>>
  <2>1. CASE e > Len(s)
    <3> DEFINE x == SubSeq(s, i, Len(s))
    <3>1. W[i] = <<x>>
      BY <1>4, <2>1
    <3> HIDE DEF x
    <3>. QED BY <3>1
  <2>2. CASE ~(e > Len(s))
    <3> DEFINE x == SubSeq(s, i, e - 1)
               v == W[e + 1]
    <3>0. e <= Len(s)
      BY <1>1, <2>2
    <3>1. x \in Seq(Bytes) /\ v \in Seq(Seq(Bytes))
      BY <1>7, <1>8, <3>0
    <3>2. W[i] = <<x>> \o v
      BY <1>5, <3>0, Zenon
    <3> HIDE DEF x, v
    <3>3. <<x>> \in Seq(Seq(Bytes)) /\ Len(<<x>>) = 1
      BY <3>1
    <3>4. Len(<<x>> \o v) = 1 + Len(v) /\ Len(v) \in Nat
      BY <3>1, <3>3, ConcatProperties, LenProperties
    <3>5. Len(<<x>> \o v) # 0
      BY <3>4
    <3>. QED BY <3>2, <3>5, EmptySeq
  <2>. QED BY <2>1, <2>2
<1>10. e <= Len(s) => e + 1 \in 1 .. Len(s) + 1
  BY <1>6
<1>. QED BY <1>1, <1>3, <1>4, <1>5, <1>7, <1>8, <1>9, <1>10 DEF e, W

(* What is read from a word on if none of them is empty.                   *)
ReadsWell(s, i, kept) ==
  (\A k \in 1 .. Len(WordFrom(s)[i]) : WordFrom(s)[i][k] # <<>>)
    => /\ i <= Len(s)
       /\ Cuts(s, i, Parse(s)[i + 1][FALSE], kept) = Trim(WordFrom(s)[i])

(* No byte is one of those that WellSpaced excludes.                       *)
Plain(s) == \A k \in 1 .. Len(s) : s[k] \notin {0, CR, LF, Quote}

(* The scan returns places in the command.                                 *)
LEMMA ParseTyped ==
  ASSUME NEW s \in Seq(Bytes)
  PROVE  \A i \in 1 .. Len(s) + 2 : Parse(s)[i][FALSE] \in Seq(1 .. Len(s))
<1>1. Parse(s) \in [1 .. Len(s) + 2 -> [BOOLEAN -> Seq(1 .. Len(s))]]
  BY ParseIs
<1>. QED BY <1>1

(* A single end gives a single word.                                       *)
LEMMA OneCut ==
  ASSUME NEW s \in Seq(Bytes), NEW a \in 1 .. Len(s),
         \A k \in a .. Len(s) : s[k] \notin {Space, CR, LF}, NEW kept \in BOOLEAN
  PROVE  Cuts(s, a, <<Len(s)>>, kept) = <<SubSeq(s, a, Len(s))>>
<1> DEFINE E == <<Len(s)>>
           c == Cuts(s, a, E, kept)
<1>1. Len(s) \in Nat
  BY LenProperties
<1>2. E \in Seq(1 .. Len(s)) /\ Len(E) = 1 /\ E[1] = Len(s)
  BY <1>1
<1>3. a \in 1 .. Len(s) + 1
  BY <1>1
<1> HIDE DEF E
<1>4. /\ c \in Seq(Seq(Bytes)) /\ Len(c) = 1
      /\ c[1] = Word(SubSeq(s, a, Len(s)), kept)
  <2>1. /\ c \in Seq(Seq(Bytes)) /\ Len(c) = Len(E)
        /\ \A k \in 1 .. Len(E) : c[k] = Word(SubSeq(s, IF k = 1 THEN a ELSE E[k - 1] + 1, E[k]), kept)
    <3>1. E \in Seq(1 .. Len(s))
      BY <1>2
    <3>. QED BY <1>3, <3>1, CutsTyped, Zenon
  <2>. QED BY <1>2, <2>1
<1>5. Word(SubSeq(s, a, Len(s)), kept) = SubSeq(s, a, Len(s))
  BY LastWordIs
<1> HIDE DEF c
<1>6. c = <<c[1]>>
  BY <1>4
<1>. QED BY <1>4, <1>5, <1>6 DEF c, E

(* From every place where words begin, none of them empty, ParseString and *)
(* operator[] read all of them but a last one of one byte.                 *)
LEMMA WordsAreRead ==
  ASSUME NEW s \in Seq(Bytes), Plain(s), NEW kept \in BOOLEAN
  PROVE  \A i \in 1 .. Len(s) + 1 : ReadsWell(s, i, kept)
<1> DEFINE D == 1 .. Len(s) + 1
           rk == [i \in D |-> Len(s) + 1 - i]
           T == {i \in D : ReadsWell(s, i, kept)}
           W == WordFrom(s)
           P == Parse(s)
<1>1. Len(s) \in Nat
  BY LenProperties
<1>2. ASSUME NEW i \in D, \A j \in D : rk[j] < rk[i] => j \in T PROVE i \in T
  <2> DEFINE e == Find(s, i, Space)
  <2>0. /\ i \in Nat /\ i >= 1 /\ i <= Len(s) + 1
    BY <1>1
  <2>1. SUFFICES ASSUME \A k \in 1 .. Len(W[i]) : W[i][k] # <<>>
                 PROVE  i <= Len(s) /\ Cuts(s, i, P[i + 1][FALSE], kept) = Trim(W[i])
    BY DEF ReadsWell
  <2>2. /\ W[i] \in Seq(Seq(Bytes)) /\ W[i] # <<>> /\ e \in i .. Len(s) + 1
        /\ e > Len(s) => W[i] = <<SubSeq(s, i, Len(s))>>
    BY SomeWord
  <2>3. e <= Len(s) => /\ e + 1 \in D
                       /\ W[i] = <<SubSeq(s, i, e - 1)>> \o W[e + 1]
                       /\ SubSeq(s, i, e - 1) \in Seq(Bytes)
                       /\ W[e + 1] \in Seq(Seq(Bytes))
    BY SomeWord
  <2>4. \A k \in i .. e - 1 : s[k] # Space
    BY FindIs
  <2>5. e <= Len(s) => s[e] = Space
    BY FindIs
  <2>6. \A j \in i .. e : i <= Len(s) /\ j <= Len(s) =>
          P[j][FALSE] = IF e > Len(s) THEN <<Len(s)>> ELSE <<e>> \o P[e + 2][FALSE]
    <3>1. TAKE j \in i .. Find(s, i, Space)
    <3>2. SUFFICES ASSUME i <= Len(s), j <= Len(s)
                   PROVE  P[j][FALSE] = IF e > Len(s) THEN <<Len(s)>> ELSE <<e>> \o P[e + 2][FALSE]
      OBVIOUS
    <3>3. i \in 1 .. Len(s)
      BY <2>0, <3>2
    <3>4. \A k \in 1 .. Len(s) : s[k] # Quote /\ s[k] # 0
      BY DEF Plain
    <3>. QED BY <3>2, <3>3, <3>4, ScanWord
  <2> HIDE DEF e
  <2>7. CASE e > Len(s)
    <3>1. W[i] = <<SubSeq(s, i, Len(s))>> /\ e = Len(s) + 1
      BY <1>1, <2>2, <2>7
    <3>2. SubSeq(s, i, Len(s)) # <<>>
      <4>1. 1 \in 1 .. Len(W[i]) /\ W[i][1] = SubSeq(s, i, Len(s))
        BY <3>1
      <4>. QED BY <2>1, <4>1
    <3>3. i <= Len(s)
      <4>1. SUFFICES ASSUME i = Len(s) + 1 PROVE FALSE
        BY <1>1, <2>0
      <4>2. SubSeq(s, Len(s) + 1, Len(s)) = <<>>
        BY <1>1, SubSeqEmpty
      <4>. QED BY <3>2, <4>1, <4>2
    <3>4. Len(SubSeq(s, i, Len(s))) = Len(s) - i + 1
      <4>1. i \in 1 .. Len(s) + 1 /\ Len(s) \in i - 1 .. Len(s)
        BY <1>1, <3>3
      <4>. QED BY <4>1, Part
    <3> DEFINE t == SubSeq(s, i, Len(s))
    <3>5. CASE i = Len(s)
      <4>1. P[Len(s) + 1][FALSE] = <<>>
        <5>1. Len(s) + 1 \in 1 .. Len(s) + 2 /\ FALSE \in BOOLEAN /\ Len(s) + 1 > Len(s)
          BY <1>1
        <5>2. P[Len(s) + 1][FALSE] = ParseStep(s, P, Len(s) + 1, FALSE)
          BY <5>1, ParseIs
        <5>. QED BY <5>1, <5>2 DEF ParseStep
      <4>2. Cuts(s, i, <<>>, kept) = <<>>
        <5>1. <<>> \in Seq(1 .. Len(s)) /\ Len(<<>>) = 0
          BY EmptySeq
        <5>0. i \in 1 .. Len(s) + 1
          OBVIOUS
        <5> DEFINE e0 == <<>>
        <5>3. e0 \in Seq(1 .. Len(s))
          BY <5>1
        <5> HIDE DEF e0
        <5>4. Cuts(s, i, e0, kept) \in Seq(Seq(Bytes)) /\ Len(Cuts(s, i, e0, kept)) = Len(e0)
          BY <5>0, <5>3, CutsTyped
        <5>2. Cuts(s, i, <<>>, kept) \in Seq(Seq(Bytes)) /\ Len(Cuts(s, i, <<>>, kept)) = 0
          BY <5>1, <5>4 DEF e0
        <5>. QED BY <5>2, EmptySeq
      <4>3. Trim(W[i]) = <<>>
        <5>1. Len(t) = 1
          BY <1>1, <3>4, <3>5
        <5> HIDE DEF t
        <5>2. W[i] = <<t>>
          BY <3>1 DEF t
        <5>3. Trim(<<t>>) = SubSeq(<<t>>, 1, 0)
          <6>1. Len(<<t>>) = 1 /\ <<t>>[1] = t
            OBVIOUS
          <6>2. Len(<<t>>) - 1 = 0
            BY <6>1
          <6>. QED BY <5>1, <6>1, <6>2 DEF Trim
        <5>4. SubSeq(<<t>>, 1, 0) = <<>>
          BY SubSeqEmpty
        <5>. QED BY <5>2, <5>3, <5>4
      <4>4. P[i + 1][FALSE] = <<>>
        BY <3>5, <4>1
      <4>. QED BY <3>3, <4>2, <4>3, <4>4
    <3>6. CASE i # Len(s)
      <4>1. i + 1 \in i .. e /\ i + 1 <= Len(s)
        BY <1>1, <2>0, <3>1, <3>3, <3>6
      <4>2. P[i + 1][FALSE] = <<Len(s)>>
        BY <2>6, <2>7, <3>3, <4>1
      <4>3. Cuts(s, i, <<Len(s)>>, kept) = <<t>>
        <5>1. i \in 1 .. Len(s) /\ \A k \in i .. Len(s) : s[k] # Space
          BY <1>1, <2>0, <2>4, <3>1, <3>3
        <5>2. \A k \in i .. Len(s) : s[k] \notin {CR, LF}
          BY <2>0 DEF Plain
        <5>. QED BY <5>1, <5>2, OneCut
      <4>4. Trim(W[i]) = W[i]
        <5>1. Len(t) # 1
          BY <1>1, <2>0, <3>4, <3>6
        <5> HIDE DEF t
        <5>2. W[i] = <<t>>
          BY <3>1 DEF t
        <5>3. Len(<<t>>) = 1 /\ <<t>>[1] = t
          OBVIOUS
        <5>. QED BY <5>1, <5>2, <5>3 DEF Trim
      <4>. QED BY <3>1, <3>3, <4>2, <4>3, <4>4
    <3>. QED BY <3>5, <3>6
  <2>8. CASE ~(e > Len(s))
    <3> DEFINE x == SubSeq(s, i, e - 1)
               v == W[e + 1]
               E == P[e + 2][FALSE]
    <3>1. e <= Len(s) /\ i <= Len(s)
      BY <1>1, <2>0, <2>2, <2>8
    <3>2. e + 1 \in D /\ W[i] = <<x>> \o v /\ x \in Seq(Bytes) /\ v \in Seq(Seq(Bytes))
      BY <2>3, <3>1
    <3>3. v # <<>>
      BY <3>2, SomeWord
    <3>4. e + 1 \in T
      <4>1. rk[e + 1] < rk[i]
        BY <1>1, <2>0, <2>2, <3>2
      <4>. QED BY <1>2, <3>2, <4>1
    <3> HIDE DEF x, v
    <3>5. /\ Trim(<<x>> \o v) = <<x>> \o Trim(v)
          /\ Len(<<x>> \o v) = Len(v) + 1
          /\ \A k \in 1 .. Len(v) : (<<x>> \o v)[k + 1] = v[k]
          /\ (<<x>> \o v)[1] = x
      BY <3>2, <3>3, TrimCons
    <3>6. Len(v) \in Nat
      BY <3>2, LenProperties
    <3>7. \A k \in 1 .. Len(v) : v[k] # <<>>
      <4>1. TAKE k \in 1 .. Len(v)
      <4>2. k + 1 \in 1 .. Len(W[i])
        BY <3>2, <3>5, <3>6
      <4>3. W[i][k + 1] = v[k]
        BY <3>2, <3>5
      <4>. QED BY <2>1, <4>2, <4>3
    <3>8. x # <<>>
      <4>1. 1 \in 1 .. Len(W[i])
        BY <3>2, <3>5, <3>6
      <4>2. W[i][1] = x
        BY <3>2, <3>5
      <4>. QED BY <2>1, <4>1, <4>2
    <3>9. i <= e - 1
      <4>1. SUFFICES ASSUME e = i PROVE FALSE
        BY <1>1, <2>0, <2>2
      <4>2. SubSeq(s, i, i - 1) = <<>>
        BY <2>0, SubSeqEmpty
      <4>. QED BY <3>8, <4>1, <4>2 DEF x
    <3>10. Cuts(s, e + 1, P[(e + 1) + 1][FALSE], kept) = Trim(v)
      BY <3>4, <3>7 DEF ReadsWell, v
    <3>11. e \in Nat /\ (e + 1) + 1 = e + 2 /\ e + 2 \in 1 .. Len(s) + 2
      BY <1>1, <2>0, <2>2, <3>1
    <3>12. E \in Seq(1 .. Len(s))
      BY <3>11, ParseTyped
    <3>13. Cuts(s, e + 1, E, kept) = Trim(v)
      BY <3>10, <3>11
    <3>14. P[i + 1][FALSE] = <<e>> \o E
      <4>1. i + 1 \in i .. e /\ i + 1 <= Len(s)
        BY <1>1, <2>0, <2>2, <3>1, <3>9
      <4>. QED BY <2>6, <2>8, <3>1, <4>1
    <3> HIDE DEF E, P, W, T, rk
    <3>15. Cuts(s, i, <<e>> \o E, kept) = <<Word(SubSeq(s, i, e), kept)>> \o Cuts(s, e + 1, E, kept)
      <4>1. e \in 1 .. Len(s) /\ i \in 1 .. Len(s) + 1
        BY <1>1, <2>0, <3>1, <3>11, <3>9
      <4>. QED BY <3>12, <4>1, CutsCons
    <3>16. Word(SubSeq(s, i, e), kept) = x
      <4>1. i \in 1 .. Len(s) /\ e \in i + 1 .. Len(s)
        BY <1>1, <2>0, <3>1, <3>11, <3>9
      <4>2. \A k \in i .. e - 1 : s[k] \notin {CR, LF}
        BY <2>0, <3>1, <3>11 DEF Plain
      <4>3. \A k \in i .. e - 1 : s[k] \notin {Space, CR, LF}
        BY <2>4, <4>2
      <4>4. s[e] = Space
        BY <2>5, <3>1
      <4>5. Word(SubSeq(s, i, e), kept) = SubSeq(s, i, e - 1)
        BY <4>1, <4>3, <4>4, WordIs
      <4>. QED BY <4>5 DEF x
    <3>. QED BY <3>1, <3>2, <3>5, <3>13, <3>14, <3>15, <3>16
  <2>. QED BY <2>7, <2>8
<1>3. rk \in [D -> Nat]
  BY <1>1
<1>4. D \subseteq T
  <2> HIDE DEF D, rk, T
  <2>. QED BY <1>2, <1>3, RankInduction
<1>. QED BY <1>4

(* A command with one space between its words is read as its words, unless *)
(* the last one is a byte.                                                 *)
LEMMA CommandWords ==
  ASSUME NEW p \in Seq(Bytes), IsCommand(p), WellSpaced(p), ~LastWordIsByte(Words(p)),
         NEW kept \in BOOLEAN
  PROVE  Tokens(p, kept) = Words(p)
<1> DEFINE e == Find(p, 1, Space)
           w == Words(p)
           n == Len(w)
           P == Parse(p)
           W == WordFrom(p)
<1>1. Len(p) \in Nat /\ Len(p) >= 3
  BY LenProperties DEF IsCommand
<1>2. /\ TokenClear(p) = p
      /\ Plain(p)
      /\ \A k \in 1 .. Len(w) : w[k] # <<>>
      /\ ~LastWordIsByte(w)
  BY DEF WellSpaced, Plain
<1>3. w = W[1]
  BY WordsIsWordFrom
<1>4. 1 \in 1 .. Len(p) + 1 /\ 1 \in 1 .. Len(p)
  BY <1>1
<1>5. Tokens(p, kept) = Cuts(p, 1, P[1][FALSE], kept)
  <2>1. p # <<>>
    BY <1>1, EmptySeq
  <2>2. Ends(p) = P[1][FALSE]
    BY <2>1, EndsIsParse
  <2>. QED BY <1>2, <2>2 DEF Tokens, Cuts
<1>6. /\ W[1] \in Seq(Seq(Bytes)) /\ W[1] # <<>> /\ e \in 1 .. Len(p) + 1
      /\ e > Len(p) => W[1] = <<SubSeq(p, 1, Len(p))>>
  BY <1>4, SomeWord
<1>7. e <= Len(p) => /\ e + 1 \in 1 .. Len(p) + 1
                     /\ W[1] = <<SubSeq(p, 1, e - 1)>> \o W[e + 1]
                     /\ SubSeq(p, 1, e - 1) \in Seq(Bytes)
                     /\ W[e + 1] \in Seq(Seq(Bytes))
  BY <1>4, SomeWord
<1>8. \A k \in 1 .. e - 1 : p[k] # Space
  BY <1>4, FindIs
<1>9. e <= Len(p) => p[e] = Space
  BY <1>4, FindIs
<1>10. P[1][FALSE] = IF e > Len(p) THEN <<Len(p)>> ELSE <<e>> \o P[e + 2][FALSE]
  <2>1. 1 \in 1 .. Find(p, 1, Space) /\ 1 <= Len(p)
    BY <1>1, <1>6
  <2>2. \A k \in 1 .. Len(p) : p[k] # Quote /\ p[k] # 0
    BY <1>2 DEF Plain
  <2>. QED BY <1>4, <2>1, <2>2, ScanWord
<1> HIDE DEF e, P, W, w
<1>11. CASE e > Len(p)
  <2>1. w = <<p>>
    BY <1>3, <1>6, <1>11, SubSeqFull
  <2>3. \A k \in 1 .. Len(p) : p[k] # Space
    BY <1>1, <1>6, <1>8, <1>11
  <2>0. \A k \in 1 .. Len(p) : p[k] \notin {Space, CR, LF}
    BY <1>2, <2>3 DEF Plain
  <2>4. Cuts(p, 1, <<Len(p)>>, kept) = <<SubSeq(p, 1, Len(p))>>
    BY <1>4, <2>0, OneCut
  <2>5. Tokens(p, kept) = <<p>>
    BY <1>5, <1>10, <1>11, <2>4, SubSeqFull
  <2>. QED BY <2>1, <2>5 DEF w
<1>12. CASE ~(e > Len(p))
  <2> DEFINE x == SubSeq(p, 1, e - 1)
             v == W[e + 1]
             E == P[e + 2][FALSE]
  <2>1. e <= Len(p) /\ e \in Nat /\ e >= 1
    BY <1>1, <1>6, <1>12
  <2>2. e + 1 \in 1 .. Len(p) + 1 /\ w = <<x>> \o v /\ x \in Seq(Bytes) /\ v \in Seq(Seq(Bytes))
    BY <1>3, <1>7, <2>1
  <2>3. v # <<>>
    BY <2>2, SomeWord DEF W
  <2>4. ReadsWell(p, e + 1, kept)
    BY <1>2, <2>2, WordsAreRead
  <2> HIDE DEF x, v
  <2>5. /\ Trim(<<x>> \o v) = <<x>> \o Trim(v)
        /\ Len(<<x>> \o v) = Len(v) + 1
        /\ \A k \in 1 .. Len(v) : (<<x>> \o v)[k + 1] = v[k]
        /\ (<<x>> \o v)[1] = x
    BY <2>2, <2>3, TrimCons
  <2>6. Len(v) \in Nat /\ Len(v) # 0
    BY <2>2, <2>3, LenProperties, EmptySeq
  <2>7. \A k \in 1 .. Len(v) : v[k] # <<>>
    <3>1. TAKE k \in 1 .. Len(v)
    <3>2. k + 1 \in 1 .. Len(w)
      BY <2>2, <2>5, <2>6
    <3>3. w[k + 1] = v[k]
      BY <2>2, <2>5
    <3>. QED BY <1>2, <3>2, <3>3
  <2>8. x # <<>>
    <3>1. 1 \in 1 .. Len(w)
      BY <2>2, <2>5, <2>6
    <3>2. w[1] = x
      BY <2>2, <2>5
    <3>. QED BY <1>2, <3>1, <3>2
  <2>9. 1 <= e - 1
    <3>1. SUFFICES ASSUME e = 1 PROVE FALSE
      BY <2>1
    <3>2. SubSeq(p, 1, 0) = <<>> /\ e - 1 = 0
      BY <3>1, SubSeqEmpty
    <3>. QED BY <2>8, <3>2 DEF x
  <2>10. Cuts(p, e + 1, P[(e + 1) + 1][FALSE], kept) = Trim(v)
    BY <2>4, <2>7 DEF ReadsWell, v, W, P
  <2>11. (e + 1) + 1 = e + 2 /\ e + 2 \in 1 .. Len(p) + 2
    BY <1>1, <2>1
  <2>12. E \in Seq(1 .. Len(p))
    BY <2>11, ParseTyped DEF P
  <2>13. Cuts(p, e + 1, E, kept) = Trim(v)
    BY <2>10, <2>11
  <2>14. P[1][FALSE] = <<e>> \o E
    BY <1>10, <1>12
  <2> HIDE DEF E
  <2>15. Cuts(p, 1, <<e>> \o E, kept) = <<Word(SubSeq(p, 1, e), kept)>> \o Cuts(p, e + 1, E, kept)
    <3>1. e \in 1 .. Len(p)
      BY <1>1, <2>1
    <3>. QED BY <1>4, <2>12, <3>1, CutsCons
  <2>16. Word(SubSeq(p, 1, e), kept) = x
    <3>1. e \in 1 + 1 .. Len(p)
      BY <1>1, <2>1, <2>9
    <3>2. \A k \in 1 .. e - 1 : p[k] \notin {CR, LF}
      BY <1>1, <1>2, <2>1 DEF Plain
    <3>3. \A k \in 1 .. e - 1 : p[k] \notin {Space, CR, LF}
      BY <1>8, <3>2
    <3>4. p[e] = Space
      BY <1>9, <2>1
    <3>5. Word(SubSeq(p, 1, e), kept) = SubSeq(p, 1, e - 1)
      BY <1>4, <3>1, <3>3, <3>4, WordIs
    <3>. QED BY <3>5 DEF x
  <2>17. Tokens(p, kept) = Trim(w)
    BY <1>5, <2>2, <2>5, <2>13, <2>14, <2>15, <2>16
  <2>18. n > 1
    BY <2>2, <2>5, <2>6
  <2> HIDE DEF n
  <2>19. Len(w[n]) # 1
    BY <1>2, <2>18 DEF LastWordIsByte, n
  <2>20. Trim(w) = w
    BY <2>19 DEF Trim, n
  <2>. QED BY <2>17, <2>20 DEF w
<1>. QED BY <1>11, <1>12
-----------------------------------------------------------------------------
(* The inductive invariant.  Its first conjuncts are about the buffer...   *)

(* Between connections nothing is on its way and the buffer is empty: this *)
(* is what `clear` is for.                                                 *)
ClearedOffline == ~online => wire = <<>> /\ data = <<>> /\ rpos = 0 /\ ~inRecv

(* ... and these about what the bytes mean.  Every packet that is a        *)
(* command has been read as one.                                           *)
RanIsRead ==
  /\ Len(ran) = Len(delivered)
  /\ \A i \in 1 .. Len(delivered) :
       \E kept \in BOOLEAN :
         ran[i] = IF IsCommand(delivered[i]) THEN Tokens(delivered[i], kept) ELSE <<>>

(* What is still to be read ends where a frame ends.                       *)
RestEndsWell == online => WellEnded(Pending \o wire)

(* The bytes u mean the packets a, whatever comes behind them.             *)
Means(u, a) == \A w \in Seq(Bytes) : Packets(u \o w) = a \o Packets(w)

(* What has been delivered is what the bytes read mean.                    *)
ConsumedIsDelivered == online => Means(consumed, delivered)

(* The bytes of clean packets mean these packets, wherever the network is  *)
(* with them.                                                              *)
AllClean == \A i \in 1 .. Len(sent) : Clean(sent[i])
WrittenIsSent == online /\ AllClean => Means(received \o wire, sent)

(* All of it.                                                              *)
IndInv ==
  /\ TypeOK /\ ClearedOffline /\ NothingLost /\ NothingHeldBack
  /\ RanIsRead /\ RestEndsWell /\ ConsumedIsDelivered /\ WrittenIsSent
-----------------------------------------------------------------------------
(* Facts about the buffer.                                                 *)

(* What is left to read is bytes.                                          *)
LEMMA PendingTyped ==
  ASSUME TypeOK
  PROVE  /\ Len(data) \in Nat /\ rpos \in Nat /\ rpos <= Len(data) /\ Len(wire) \in Nat
         /\ Pending \in Seq(Bytes) /\ Pending \o wire \in Seq(Bytes)
<1>1. /\ Len(data) \in Nat /\ rpos \in Nat /\ rpos <= Len(data) /\ Len(wire) \in Nat
  BY LenProperties DEF TypeOK
<1>2. Pending \in Seq(Bytes)
  <2>1. data \in Seq(Bytes) /\ rpos + 1 \in 1 .. Len(data) + 1 /\ Len(data) \in (rpos + 1) - 1 .. Len(data)
    BY <1>1 DEF TypeOK
  <2>. QED BY <2>1, Part DEF Pending
<1>3. wire \in Seq(Bytes)
  BY DEF TypeOK
<1>4. Pending \o wire \in Seq(Bytes)
  BY <1>2, <1>3, ConcatProperties
<1>. QED BY <1>1, <1>2, <1>4

(* The packets sent are bytes.                                             *)
LEMMA PayloadsAreBytes == Seq(Payloads) \subseteq Seq(Seq(Bytes)) /\ Payloads \subseteq Seq(Bytes)
<1>1. Payloads \subseteq Seq(Bytes)
  BY PayloadsAssumption DEF Bytes
<1>. QED BY <1>1

(* The rest of a buffer after a write is the rest before it and what was   *)
(* written.                                                                *)
LEMMA RestGrows ==
  ASSUME NEW d \in Seq(Bytes), NEW w \in Seq(Bytes), NEW r \in 0 .. Len(d)
  PROVE  SubSeq(d \o w, r + 1, Len(d \o w)) = SubSeq(d, r + 1, Len(d)) \o w
<1> DEFINE u == d \o w
           a == SubSeq(u, r + 1, Len(u))
           b == SubSeq(d, r + 1, Len(d))
           z == b \o w
<1>0. Len(d) \in Nat /\ Len(w) \in Nat
  BY LenProperties
<1>1. /\ u \in Seq(Bytes) /\ Len(u) = Len(d) + Len(w)
      /\ \A i \in 1 .. Len(d) + Len(w) : u[i] = IF i <= Len(d) THEN d[i] ELSE w[i - Len(d)]
  BY ConcatProperties
<1> HIDE DEF u
<1>2. /\ a \in Seq(Bytes) /\ Len(a) = Len(u) - (r + 1) + 1
      /\ \A i \in 1 .. Len(u) - (r + 1) + 1 : a[i] = u[(r + 1) + i - 1]
  <2>1. u \in Seq(Bytes) /\ r + 1 \in 1 .. Len(u) + 1 /\ Len(u) \in (r + 1) - 1 .. Len(u)
    BY <1>0, <1>1
  <2>. QED BY <2>1, Part
<1>3. /\ b \in Seq(Bytes) /\ Len(b) = Len(d) - (r + 1) + 1
      /\ \A i \in 1 .. Len(d) - (r + 1) + 1 : b[i] = d[(r + 1) + i - 1]
  <2>1. r + 1 \in 1 .. Len(d) + 1 /\ Len(d) \in (r + 1) - 1 .. Len(d)
    BY <1>0
  <2>. QED BY <2>1, Part
<1> HIDE DEF a, b
<1>4. /\ z \in Seq(Bytes) /\ Len(z) = Len(b) + Len(w)
      /\ \A i \in 1 .. Len(b) + Len(w) : z[i] = IF i <= Len(b) THEN b[i] ELSE w[i - Len(b)]
  <2>1. b \in Seq(Bytes)
    BY <1>3
  <2>. QED BY <2>1, ConcatProperties
<1> HIDE DEF z
<1>5. Len(a) = Len(d) + Len(w) - r /\ Len(b) = Len(d) - r /\ Len(z) = Len(d) + Len(w) - r
  BY <1>0, <1>1, <1>2, <1>3, <1>4
<1>6. ASSUME NEW i \in 1 .. Len(a) PROVE a[i] = z[i]
  <2>1. /\ i \in 1 .. Len(u) - (r + 1) + 1 /\ (r + 1) + i - 1 = r + i
        /\ r + i \in 1 .. Len(d) + Len(w) /\ i \in 1 .. Len(b) + Len(w)
    BY <1>0, <1>1, <1>5
  <2>2. a[i] = u[r + i]
    BY <1>2, <2>1
  <2>3. CASE r + i <= Len(d)
    <3>1. u[r + i] = d[r + i]
      BY <1>1, <2>1, <2>3
    <3>2. i <= Len(b) /\ i \in 1 .. Len(d) - (r + 1) + 1
      BY <1>0, <1>5, <2>1, <2>3
    <3>3. z[i] = b[i]
      BY <1>4, <2>1, <3>2
    <3>4. b[i] = d[r + i]
      BY <1>3, <2>1, <3>2
    <3>. QED BY <2>2, <3>1, <3>3, <3>4
  <2>4. CASE ~(r + i <= Len(d))
    <3>1. u[r + i] = w[(r + i) - Len(d)]
      BY <1>1, <2>1, <2>4
    <3>2. ~(i <= Len(b)) /\ (r + i) - Len(d) = i - Len(b)
      BY <1>0, <1>5, <2>1, <2>4
    <3>3. z[i] = w[i - Len(b)]
      BY <1>4, <2>1, <3>2
    <3>. QED BY <2>2, <3>1, <3>2, <3>3
  <2>. QED BY <2>3, <2>4
<1>7. a = z
  <2>1. a \in Seq(Bytes) /\ z \in Seq(Bytes) /\ Len(a) = Len(z)
    BY <1>2, <1>4, <1>5
  <2>. QED BY <1>6, <2>1, SeqEqual
<1>. QED BY <1>7 DEF a, z, b, u

(* What the scan finds is a chunk: nothing in it but its end is a mark.    *)
LEMMA ScanFindsChunk ==
  ASSUME TypeOK, Marks # {}
  PROVE  /\ ChunkEnd \in rpos + 4 .. Len(data)
         /\ IsChunk(SubSeq(data, rpos + 1, ChunkEnd))
<1> DEFINE m == Least(Marks)
           c == SubSeq(data, rpos + 1, ChunkEnd)
<1>1. Len(data) \in Nat /\ rpos \in Nat /\ rpos <= Len(data) /\ data \in Seq(Bytes)
  BY PendingTyped DEF TypeOK
<1>2. rpos + 1 \in Nat /\ rpos + 1 >= 1 /\ MarksFrom(data, rpos + 1) # {}
  BY <1>1 DEF Marks
<1>3. m \in rpos + 1 .. Len(data) - 3 /\ IsMark(data, m) /\ \A k \in rpos + 1 .. m - 1 : ~IsMark(data, k)
  BY <1>1, <1>2, FirstMark DEF Marks
<1> HIDE DEF m
<1>4. ChunkEnd = m + 3
  <2>1. ChunkEnd = m + 4 - 1
    BY MarkIs DEF ChunkEnd, m
  <2>. QED BY <1>1, <1>3, <2>1
<1>5. ChunkEnd \in rpos + 4 .. Len(data)
  BY <1>1, <1>3, <1>4
<1>6. /\ c \in Seq(Bytes) /\ Len(c) = ChunkEnd - (rpos + 1) + 1
      /\ \A i \in 1 .. ChunkEnd - (rpos + 1) + 1 : c[i] = data[(rpos + 1) + i - 1]
  <2>1. rpos + 1 \in 1 .. Len(data) + 1 /\ ChunkEnd \in (rpos + 1) - 1 .. Len(data)
    BY <1>1, <1>5
  <2>. QED BY <1>1, <2>1, Part
<1> HIDE DEF c
<1>7. Len(c) = m + 3 - rpos /\ Len(c) >= 4 /\ Len(c) \in Nat
  BY <1>1, <1>3, <1>4, <1>6
<1>8. ASSUME NEW i \in 1 .. Len(c) PROVE c[i] = data[rpos + i]
  <2>1. i \in 1 .. ChunkEnd - (rpos + 1) + 1 /\ (rpos + 1) + i - 1 = rpos + i
    BY <1>1, <1>6
  <2>. QED BY <1>6, <2>1
<1>9. ASSUME NEW k \in 1 .. Len(c) - 3 PROVE IsMark(c, k) <=> IsMark(data, rpos + k)
  <2>1. /\ k \in 1 .. Len(c) /\ k + 1 \in 1 .. Len(c) /\ k + 2 \in 1 .. Len(c) /\ k + 3 \in 1 .. Len(c)
        /\ rpos + (k + 1) = (rpos + k) + 1 /\ rpos + (k + 2) = (rpos + k) + 2
        /\ rpos + (k + 3) = (rpos + k) + 3
        /\ k + 3 <= Len(c) /\ (rpos + k) + 3 <= Len(data)
    BY <1>1, <1>3, <1>7
  <2>2. /\ c[k] = data[rpos + k] /\ c[k + 1] = data[(rpos + k) + 1]
        /\ c[k + 2] = data[(rpos + k) + 2] /\ c[k + 3] = data[(rpos + k) + 3]
    <3>1. /\ c[k] = data[rpos + k] /\ c[k + 1] = data[rpos + (k + 1)]
          /\ c[k + 2] = data[rpos + (k + 2)] /\ c[k + 3] = data[rpos + (k + 3)]
      BY <1>8, <2>1
    <3>. QED BY <2>1, <3>1
  <2>. QED BY <2>1, <2>2 DEF IsMark
<1>10. IsMark(c, Len(c) - 3)
  <2>1. Len(c) - 3 \in 1 .. Len(c) - 3 /\ rpos + (Len(c) - 3) = m
    BY <1>1, <1>3, <1>7
  <2>. QED BY <1>3, <1>9, <2>1
<1>11. \A k \in 1 .. Len(c) - 4 : ~IsMark(c, k)
  <2>1. TAKE k \in 1 .. Len(c) - 4
  <2>2. k \in 1 .. Len(c) - 3 /\ rpos + k \in rpos + 1 .. m - 1
    BY <1>1, <1>3, <1>7
  <2>. QED BY <1>3, <1>9, <2>2
<1>12. IsChunk(c)
  BY <1>6, <1>7, <1>10, <1>11 DEF IsChunk
<1>. QED BY <1>5, <1>12 DEF c

(* A chunk that is taken is the front of what was left to read.            *)
LEMMA AdvanceSplits ==
  ASSUME TypeOK, NEW k \in rpos + 4 .. Len(data), Advance(k)
  PROVE  /\ Pending = SubSeq(data, rpos + 1, k) \o Pending'
         /\ Pending' \in Seq(Bytes)
         /\ data' \in Seq(Bytes)
         /\ rpos' \in 0 .. Len(data')
         /\ rpos' > 0 => rpos' < Len(data')
<1>1. Len(data) \in Nat /\ rpos \in Nat /\ rpos <= Len(data) /\ data \in Seq(Bytes)
  BY PendingTyped DEF TypeOK
<1>2. CASE k >= Len(data)
  <2>1. k = Len(data) /\ data' = <<>> /\ rpos' = 0
    BY <1>1, <1>2 DEF Advance
  <2>2. Pending' = <<>>
    BY <2>1, SubSeqEmpty DEF Pending
  <2>3. Pending \in Seq(Bytes)
    BY PendingTyped
  <2>4. Pending = SubSeq(data, rpos + 1, k)
    BY <2>1 DEF Pending
  <2>5. Pending = SubSeq(data, rpos + 1, k) \o Pending'
    BY <2>2, <2>3, <2>4, ConcatEmptySeq
  <2>6. data' \in Seq(Bytes) /\ Len(data') = 0 /\ Pending' \in Seq(Bytes)
    BY <2>1, <2>2, EmptySeq
  <2>7. rpos' \in 0 .. Len(data') /\ ~(rpos' > 0)
    BY <2>1, <2>6
  <2>. QED BY <2>5, <2>6, <2>7
<1>3. CASE ~(k >= Len(data))
  <2>1. k < Len(data) /\ data' = data /\ rpos' = k
    BY <1>1, <1>3 DEF Advance
  <2>2. Pending' = SubSeq(data, k + 1, Len(data))
    BY <2>1 DEF Pending
  <2>3. Pending' \in Seq(Bytes)
    <3>1. k + 1 \in 1 .. Len(data) + 1 /\ Len(data) \in (k + 1) - 1 .. Len(data)
      BY <1>1, <2>1
    <3>. QED BY <1>1, <2>2, <3>1, Part
  <2>4. SubSeq(data, rpos + 1, k) \o SubSeq(data, k + 1, Len(data)) = Pending
    <3>1. /\ rpos + 1 \in 1 .. Len(data) + 1 /\ k \in (rpos + 1) - 1 .. Len(data)
          /\ Len(data) \in k .. Len(data)
      BY <1>1, <2>1
    <3>. QED BY <1>1, <3>1, ConcatAdjacentSubSeq DEF Pending
  <2>5. rpos' \in 0 .. Len(data') /\ rpos' < Len(data')
    BY <1>1, <2>1
  <2>6. Pending = SubSeq(data, rpos + 1, k) \o Pending'
    BY <2>2, <2>4
  <2>. QED BY <1>1, <2>1, <2>3, <2>5, <2>6
<1>. QED BY <1>2, <1>3

(* A mark in what is left to read is one the scan finds.                   *)
LEMMA ScanIsComplete ==
  ASSUME TypeOK, Marks = {}
  PROVE  ~HasMark(Pending)
<1>1. /\ Len(data) \in Nat /\ rpos \in Nat /\ rpos <= Len(data) /\ data \in Seq(Bytes)
      /\ Pending \in Seq(Bytes)
  BY PendingTyped DEF TypeOK
<1>2. Len(Pending) = Len(data) - rpos /\ \A i \in 1 .. Len(data) - rpos : Pending[i] = data[rpos + i]
  <2>1. rpos + 1 \in 1 .. Len(data) + 1 /\ Len(data) \in (rpos + 1) - 1 .. Len(data)
    BY <1>1
  <2>2. /\ Len(Pending) = Len(data) - (rpos + 1) + 1
        /\ \A i \in 1 .. Len(data) - (rpos + 1) + 1 : Pending[i] = data[(rpos + 1) + i - 1]
    BY <1>1, <2>1, Part DEF Pending
  <2>3. Len(data) - (rpos + 1) + 1 = Len(data) - rpos
    BY <1>1
  <2>4. \A i \in 1 .. Len(data) - rpos : (rpos + 1) + i - 1 = rpos + i
    BY <1>1
  <2>. QED BY <2>2, <2>3, <2>4
<1>3. SUFFICES ASSUME NEW k, k \in MarksFrom(Pending, 1) PROVE FALSE
  BY DEF HasMark
<1>4. k \in 1 .. Len(Pending) /\ IsMark(Pending, k)
  BY <1>1, <1>3, MarksAre
<1>5. /\ k \in 1 .. Len(data) - rpos /\ k + 1 \in 1 .. Len(data) - rpos
      /\ k + 2 \in 1 .. Len(data) - rpos /\ k + 3 \in 1 .. Len(data) - rpos
      /\ rpos + (k + 1) = (rpos + k) + 1 /\ rpos + (k + 2) = (rpos + k) + 2
      /\ rpos + (k + 3) = (rpos + k) + 3 /\ (rpos + k) + 3 <= Len(data)
  BY <1>1, <1>2, <1>4 DEF IsMark
<1>6. /\ Pending[k] = data[rpos + k] /\ Pending[k + 1] = data[(rpos + k) + 1]
      /\ Pending[k + 2] = data[(rpos + k) + 2] /\ Pending[k + 3] = data[(rpos + k) + 3]
  <2>1. /\ Pending[k] = data[rpos + k] /\ Pending[k + 1] = data[rpos + (k + 1)]
        /\ Pending[k + 2] = data[rpos + (k + 2)] /\ Pending[k + 3] = data[rpos + (k + 3)]
    BY <1>2, <1>5
  <2>. QED BY <1>5, <2>1
<1>7. IsMark(data, rpos + k)
  BY <1>4, <1>5, <1>6 DEF IsMark
<1>8. rpos + k \in MarksFrom(data, rpos + 1)
  <2>1. rpos + k \in rpos + 1 .. Len(data) /\ rpos + 1 \in Nat /\ rpos + 1 >= 1
    BY <1>1, <1>5
  <2>. QED BY <1>1, <1>7, <2>1, MarksAre
<1>. QED BY <1>8 DEF Marks

(* There is no mark in an empty buffer.                                    *)
LEMMA NoMarkInNothing == ~HasMark(<<>>)
BY DEF HasMark, MarksFrom
-----------------------------------------------------------------------------
(* Facts about sequences of packets.                                       *)

(* Packets can be put together in any order of bracketing.                 *)
LEMMA PacketsAssociate ==
  \A a, b, c \in Seq(Seq(Bytes)) : (a \o b) \o c = a \o (b \o c)
BY ConcatAssociative

(* Nothing can be put before or behind bytes, and packets.                 *)
LEMMA NothingBetween ==
  /\ \A s \in Seq(Bytes) : s \o <<>> = s /\ <<>> \o s = s
  /\ \A s \in Seq(Seq(Bytes)) : s \o <<>> = s /\ <<>> \o s = s
BY ConcatEmptySeq

(* No bytes, no packets.                                                   *)
LEMMA PacketsOfNothing == Packets(<<>>) = <<>>
<1>1. <<>> \in Seq(Bytes)
  BY EmptySeq
<1>. QED BY <1>1, NoMarkInNothing, NoMarkNoPackets
-----------------------------------------------------------------------------
(* Each action keeps the invariant.                                        *)

(* The invariant holds at first.                                           *)
LEMMA Initially == Init => IndInv
<1> SUFFICES ASSUME Init PROVE IndInv
  OBVIOUS
<1>1. TypeOK
  <2>1. <<>> \in Seq(Bytes) /\ <<>> \in Seq(Payloads) /\ Len(<<>>) = 0
    BY EmptySeq
  <2>2. <<>> \in Seq(Seq(Bytes)) /\ <<>> \in Seq(Seq(Seq(Bytes)))
    BY EmptySeq
  <2>3. /\ wire \in Seq(Bytes) /\ received \in Seq(Bytes) /\ consumed \in Seq(Bytes)
        /\ data \in Seq(Bytes) /\ sent \in Seq(Payloads) /\ Len(data) = 0 /\ rpos = 0
    BY <2>1 DEF Init
  <2>4. delivered \in Seq(Seq(Bytes)) /\ ran \in Seq(Seq(Seq(Bytes)))
    BY <2>2 DEF Init
  <2>5. online \in BOOLEAN /\ inRecv \in BOOLEAN
    BY DEF Init
  <2>6. rpos \in 0 .. Len(data) /\ ~(rpos > 0)
    BY <2>3
  <2>. QED BY <2>3, <2>4, <2>5, <2>6 DEF TypeOK
<1>2. ~HasMark(Pending)
  <2>1. Pending = <<>>
    BY SubSeqEmpty DEF Init, Pending
  <2>. QED BY <2>1, NoMarkInNothing
<1>3. RanIsRead
  BY EmptySeq DEF Init, RanIsRead
<1>4. ~online
  BY DEF Init
<1>5. ClearedOffline
  BY DEF Init, ClearedOffline
<1>. QED BY <1>1, <1>2, <1>3, <1>4, <1>5
         DEF IndInv, NothingLost, NothingHeldBack, RestEndsWell, ConsumedIsDelivered, WrittenIsSent

(* A connection begins with an empty buffer and nothing on its way.        *)
LEMMA OpenKeeps == IndInv /\ Open => IndInv'
<1> SUFFICES ASSUME IndInv, Open PROVE IndInv'
  OBVIOUS
<1>1. /\ TypeOK /\ data = <<>> /\ rpos = 0 /\ wire = <<>> /\ ~inRecv
      /\ online' = TRUE /\ data' = data /\ rpos' = rpos /\ wire' = wire /\ inRecv' = inRecv
      /\ sent' = <<>> /\ received' = <<>> /\ consumed' = <<>> /\ delivered' = <<>> /\ ran' = <<>>
  BY DEF IndInv, ClearedOffline, Open
<1>2. /\ <<>> \in Seq(Bytes) /\ <<>> \in Seq(Payloads) /\ <<>> \in Seq(Seq(Bytes))
      /\ <<>> \in Seq(Seq(Seq(Bytes))) /\ Len(<<>>) = 0
  BY EmptySeq
<1>3. TypeOK'
  BY <1>1, <1>2 DEF TypeOK
<1>4. Pending' = <<>>
  BY <1>1, SubSeqEmpty DEF Pending
<1>5. <<>> \o <<>> = <<>>
  BY <1>2, NothingBetween
<1>6. NothingLost'
  BY <1>1, <1>4, <1>5 DEF NothingLost
<1>7. NothingHeldBack'
  BY <1>4, NoMarkInNothing DEF NothingHeldBack
<1>8. RanIsRead'
  BY <1>1, <1>2 DEF RanIsRead
<1>9. RestEndsWell'
  BY <1>1, <1>4, <1>5 DEF RestEndsWell, WellEnded
<1>10. ASSUME NEW w \in Seq(Bytes) PROVE Packets(<<>> \o w) = <<>> \o Packets(w)
  <2>1. Packets(w) \in Seq(Seq(Bytes))
    BY PacketsTyped
  <2>. QED BY <2>1, NothingBetween
<1>11. ConsumedIsDelivered'
  BY <1>1, <1>10 DEF ConsumedIsDelivered, Means
<1>12. WrittenIsSent'
  <2>1. received' \o wire' = <<>>
    BY <1>1, <1>5
  <2>. QED BY <1>1, <1>10, <2>1 DEF WrittenIsSent, Means
<1>13. ClearedOffline'
  BY <1>1 DEF ClearedOffline
<1>. QED BY <1>3, <1>6, <1>7, <1>8, <1>9, <1>11, <1>12, <1>13 DEF IndInv

(* A clean packet more adds itself to what the bytes written mean.         *)
LEMMA CleanAdds ==
  ASSUME NEW u \in Seq(Bytes), NEW f \in Seq(Bytes), NEW a \in Seq(Seq(Bytes)), NEW p \in Seq(Bytes),
         f = Frame(p), Clean(p), Means(u, a)
  PROVE  Means(u \o f, Append(a, p))
<1>1. SUFFICES ASSUME NEW w \in Seq(Bytes)
               PROVE  Packets((u \o f) \o w) = Append(a, p) \o Packets(w)
  BY DEF Means
<1>2. f \o w \in Seq(Bytes) /\ Packets(w) \in Seq(Seq(Bytes)) /\ <<p>> \in Seq(Seq(Bytes))
  BY ConcatProperties, PacketsTyped
<1>3. (u \o f) \o w = u \o (f \o w)
  BY BytesAssociative
<1>4. Packets(u \o (f \o w)) = a \o Packets(f \o w)
  BY <1>2 DEF Means
<1>5. Packets(f \o w) = <<p>> \o Packets(w)
  <2>1. IsChunk(f) /\ One(f) = <<p>>
    BY CleanFrame
  <2>2. Packets(f \o w) = One(f) \o Packets(w)
    BY <2>1, ChunkPackets
  <2>. QED BY <2>1, <2>2
<1>6. a \o (<<p>> \o Packets(w)) = (a \o <<p>>) \o Packets(w)
  BY <1>2, PacketsAssociate
<1>7. a \o <<p>> = Append(a, p)
  BY AppendIsConcat
<1>. QED BY <1>3, <1>4, <1>5, <1>6, <1>7

(* SendPto adds a frame behind what is on its way.                         *)
LEMMA SendPtoKeeps == ASSUME IndInv, NEW p \in Payloads, SendPto(p) PROVE IndInv'
<1> DEFINE f == Frame(p)
<1>1. /\ TypeOK /\ online /\ online' = online /\ sent' = Append(sent, p) /\ wire' = wire \o f
      /\ received' = received /\ consumed' = consumed /\ data' = data /\ rpos' = rpos
      /\ inRecv' = inRecv /\ delivered' = delivered /\ ran' = ran
  BY DEF IndInv, SendPto
<1>2. p \in Seq(Bytes) /\ sent \in Seq(Seq(Bytes)) /\ sent \in Seq(Payloads)
  BY <1>1, PayloadsAreBytes DEF TypeOK
<1>3. f \in Seq(Bytes)
  BY <1>2, FrameTyped
<1> HIDE DEF f
<1>4. wire \in Seq(Bytes) /\ received \in Seq(Bytes) /\ Pending \in Seq(Bytes)
      /\ Pending \o wire \in Seq(Bytes)
  BY <1>1, PendingTyped DEF TypeOK
<1>5. wire' \in Seq(Bytes) /\ received \o wire \in Seq(Bytes)
  BY <1>1, <1>3, <1>4, ConcatProperties
<1>6. /\ sent' \in Seq(Payloads) /\ Len(sent') = Len(sent) + 1 /\ Len(sent) \in Nat
      /\ \A i \in 1 .. Len(sent) : sent'[i] = sent[i]
      /\ sent'[Len(sent) + 1] = p
  BY <1>1, <1>2, AppendProperties, LenProperties
<1>7. TypeOK'
  BY <1>1, <1>5, <1>6 DEF TypeOK
<1>8. Pending' = Pending
  BY <1>1 DEF Pending
<1>9. NothingLost' /\ NothingHeldBack' /\ RanIsRead' /\ ClearedOffline'
  <2>1. NothingLost'
    BY <1>1, <1>8 DEF IndInv, NothingLost
  <2>2. NothingHeldBack'
    BY <1>1, <1>8 DEF IndInv, NothingHeldBack
  <2>3. RanIsRead'
    BY <1>1 DEF IndInv, RanIsRead
  <2>4. ClearedOffline'
    BY <1>1 DEF ClearedOffline
  <2>. QED BY <2>1, <2>2, <2>3, <2>4
<1>10. RestEndsWell'
  <2>1. WellEnded(Pending \o wire)
    BY <1>1 DEF IndInv, RestEndsWell
  <2> DEFINE u == Pending \o wire
  <2>2. u \in Seq(Bytes) /\ WellEnded(u)
    BY <1>4, <2>1
  <2> HIDE DEF u
  <2>3. WellEnded(u \o f)
    BY <1>2, <2>2, FrameWellEnded DEF f
  <2>4. Pending \o (wire \o f) = (Pending \o wire) \o f
    BY <1>3, <1>4, BytesAssociative
  <2>. QED BY <1>1, <1>8, <2>3, <2>4 DEF RestEndsWell, u
<1>11. ConsumedIsDelivered'
  BY <1>1 DEF IndInv, ConsumedIsDelivered
<1>12. WrittenIsSent'
  <2>1. SUFFICES ASSUME AllClean'
                 PROVE  Means(received' \o wire', sent')
    BY DEF WrittenIsSent
  <2>2. \A i \in 1 .. Len(sent') : Clean(sent'[i])
    BY <2>1 DEF AllClean
  <2>3. AllClean
    <3>1. \A i \in 1 .. Len(sent) : i \in 1 .. Len(sent')
      BY <1>6
    <3>. QED BY <1>6, <2>2, <3>1 DEF AllClean
  <2>4. Clean(p)
    <3>1. Len(sent) + 1 \in 1 .. Len(sent')
      BY <1>6
    <3>. QED BY <1>6, <2>2, <3>1
  <2> DEFINE u == received \o wire
  <2>5. Means(u, sent)
    BY <1>1, <2>3 DEF IndInv, WrittenIsSent, Means
  <2>6. u \in Seq(Bytes) /\ u \o f = received' \o wire'
    <3>1. received \o (wire \o f) = (received \o wire) \o f
      BY <1>3, <1>4, BytesAssociative
    <3>. QED BY <1>1, <1>5, <3>1
  <2> HIDE DEF u
  <2>7. Means(u \o f, Append(sent, p))
    <3>1. f = Frame(p)
      BY DEF f
    <3>2. u \in Seq(Bytes) /\ f \in Seq(Bytes) /\ sent \in Seq(Seq(Bytes)) /\ p \in Seq(Bytes)
      BY <1>2, <1>3, <2>6
    <3>. QED BY <2>4, <2>5, <3>1, <3>2, CleanAdds
  <2>. QED BY <1>1, <2>6, <2>7
<1>. QED BY <1>7, <1>9, <1>10, <1>11, <1>12 DEF IndInv

(* Recv moves bytes from the network to the end of the buffer.             *)
LEMMA RecvKeeps == ASSUME IndInv, NEW n \in 1 .. Len(wire), Recv(n) PROVE IndInv'
<1> DEFINE a == SubSeq(wire, 1, n)
           b == SubSeq(wire, n + 1, Len(wire))
<1>1. /\ TypeOK /\ online /\ online' = online /\ inRecv' = TRUE
      /\ data' = data \o a /\ received' = received \o a /\ wire' = b
      /\ sent' = sent /\ consumed' = consumed /\ rpos' = rpos
      /\ delivered' = delivered /\ ran' = ran
  BY DEF IndInv, Recv
<1>2. /\ wire \in Seq(Bytes) /\ received \in Seq(Bytes) /\ consumed \in Seq(Bytes) /\ data \in Seq(Bytes)
      /\ Pending \in Seq(Bytes) /\ Len(data) \in Nat /\ rpos \in 0 .. Len(data) /\ Len(wire) \in Nat
  BY <1>1, PendingTyped DEF TypeOK
<1>3. a \in Seq(Bytes) /\ b \in Seq(Bytes)
  <2>1. /\ 1 \in 1 .. Len(wire) + 1 /\ n \in 1 - 1 .. Len(wire)
        /\ n + 1 \in 1 .. Len(wire) + 1 /\ Len(wire) \in (n + 1) - 1 .. Len(wire)
    BY <1>2
  <2>2. a \in Seq(Bytes)
    BY <1>2, <2>1, Part
  <2>3. b \in Seq(Bytes)
    BY <1>2, <2>1, Part
  <2>. QED BY <2>2, <2>3
<1>4. a \o b = wire
  <2>1. 1 \in 1 .. Len(wire) + 1 /\ n \in 1 - 1 .. Len(wire) /\ Len(wire) \in n .. Len(wire)
    BY <1>2
  <2>2. a \o b = SubSeq(wire, 1, Len(wire))
    BY <1>2, <2>1, ConcatAdjacentSubSeq
  <2>. QED BY <1>2, <2>2, SubSeqFull
<1> HIDE DEF a, b
<1>5. /\ data' \in Seq(Bytes) /\ received' \in Seq(Bytes)
      /\ Len(data') = Len(data) + Len(a) /\ Len(a) \in Nat
  BY <1>1, <1>2, <1>3, ConcatProperties, LenProperties
<1>6. TypeOK'
  <2>1. rpos' \in 0 .. Len(data') /\ (rpos' > 0 => rpos' < Len(data'))
    BY <1>1, <1>2, <1>5 DEF TypeOK
  <2>. QED BY <1>1, <1>3, <1>5, <2>1 DEF TypeOK
<1>7. Pending' = Pending \o a
  <2>1. Pending' = SubSeq(data \o a, rpos + 1, Len(data \o a))
    BY <1>1 DEF Pending
  <2>. QED BY <1>2, <1>3, <2>1, RestGrows DEF Pending
<1>8. NothingLost'
  <2>0. consumed \in Seq(Bytes) /\ Pending \in Seq(Bytes) /\ a \in Seq(Bytes)
    BY <1>2, <1>3
  <2>1. consumed \o (Pending \o a) = (consumed \o Pending) \o a
    BY <2>0, BytesAssociative
  <2>2. consumed \o Pending = received
    BY <1>1 DEF IndInv, NothingLost
  <2>. QED BY <1>1, <1>7, <2>1, <2>2 DEF NothingLost
<1>9. RestEndsWell'
  <2>0. Pending \in Seq(Bytes) /\ a \in Seq(Bytes) /\ b \in Seq(Bytes)
    BY <1>2, <1>3
  <2>1. (Pending \o a) \o b = Pending \o wire
    BY <1>4, <2>0, BytesAssociative
  <2>2. Pending' \o wire' = Pending \o wire
    BY <1>1, <1>7, <2>1
  <2>. QED BY <1>1, <2>2 DEF IndInv, RestEndsWell
<1>10. WrittenIsSent'
  <2>1. (received \o a) \o b = received \o wire
    <3>1. received \in Seq(Bytes) /\ a \in Seq(Bytes) /\ b \in Seq(Bytes)
      BY <1>2, <1>3
    <3>2. (received \o a) \o b = received \o (a \o b)
      BY <3>1, BytesAssociative
    <3>. QED BY <1>4, <3>2
  <2>2. received' \o wire' = received \o wire
    BY <1>1, <2>1
  <2>3. AllClean' <=> AllClean
    BY <1>1 DEF AllClean
  <2>. QED BY <1>1, <2>2, <2>3 DEF IndInv, WrittenIsSent, Means
<1>11. RanIsRead'
  BY <1>1 DEF IndInv, RanIsRead
<1>12. ConsumedIsDelivered'
  BY <1>1 DEF IndInv, ConsumedIsDelivered
<1>13. NothingHeldBack' /\ ClearedOffline'
  BY <1>1 DEF NothingHeldBack, ClearedOffline
<1>. QED BY <1>6, <1>8, <1>9, <1>10, <1>11, <1>12, <1>13 DEF IndInv

(* A packet is delivered with what was read of it.                         *)
LEMMA DeliveryIsRead ==
  ASSUME TypeOK, RanIsRead, NEW c \in Seq(Bytes),
         IF Len(Payload(c)) > 0 THEN OnTcpRecv(Payload(c)) ELSE UNCHANGED <<delivered, ran>>
  PROVE  /\ delivered' = delivered \o One(c)
         /\ delivered' \in Seq(Seq(Bytes)) /\ ran' \in Seq(Seq(Seq(Bytes)))
         /\ RanIsRead'
<1> DEFINE p == Payload(c)
<1>1. /\ p \in Seq(Bytes) /\ delivered \in Seq(Seq(Bytes)) /\ ran \in Seq(Seq(Seq(Bytes)))
  BY PayloadTyped DEF TypeOK
<1>2. CASE ~(Len(p) > 0)
  <2>1. delivered' = delivered /\ ran' = ran /\ One(c) = <<>>
    BY <1>2 DEF One
  <2>2. delivered \o <<>> = delivered
    BY <1>1, NothingBetween
  <2>3. RanIsRead'
    BY <2>1 DEF RanIsRead
  <2>. QED BY <1>1, <2>1, <2>2, <2>3
<1>3. CASE Len(p) > 0
  <2>0. PICK kept \in BOOLEAN :
          ran' = Append(ran, IF IsCommand(p) THEN Tokens(p, kept) ELSE <<>>)
    BY <1>3 DEF OnTcpRecv
  <2> DEFINE r == IF IsCommand(p) THEN Tokens(p, kept) ELSE <<>>
  <2>1. delivered' = Append(delivered, p) /\ ran' = Append(ran, r) /\ One(c) = <<p>>
    BY <1>3, <2>0 DEF One, OnTcpRecv
  <2> HIDE DEF p
  <2>2. r \in Seq(Seq(Bytes))
    <3>1. Tokens(p, kept) \in Seq(Seq(Bytes)) /\ <<>> \in Seq(Seq(Bytes))
      BY <1>1, TokensTyped, EmptySeq
    <3>. QED BY <3>1
  <2> HIDE DEF r
  <2>3. /\ delivered' \in Seq(Seq(Bytes)) /\ Len(delivered') = Len(delivered) + 1
        /\ \A i \in 1 .. Len(delivered) : delivered'[i] = delivered[i]
        /\ delivered'[Len(delivered) + 1] = p
    BY <1>1, <2>1, AppendProperties
  <2>4. /\ ran' \in Seq(Seq(Seq(Bytes))) /\ Len(ran') = Len(ran) + 1
        /\ \A i \in 1 .. Len(ran) : ran'[i] = ran[i]
        /\ ran'[Len(ran) + 1] = r
    BY <1>1, <2>1, <2>2, AppendProperties
  <2>5. Len(ran) = Len(delivered) /\ Len(delivered) \in Nat
    BY <1>1, LenProperties DEF RanIsRead
  <2>6. ASSUME NEW i \in 1 .. Len(delivered')
        PROVE  \E k \in BOOLEAN :
                 ran'[i] = IF IsCommand(delivered'[i]) THEN Tokens(delivered'[i], k) ELSE <<>>
    <3>1. CASE i = Len(delivered) + 1
      BY <2>3, <2>4, <2>5, <3>1 DEF r
    <3>2. CASE i # Len(delivered) + 1
      <4>1. i \in 1 .. Len(delivered) /\ i \in 1 .. Len(ran)
        BY <2>3, <2>5, <3>2
      <4>. QED BY <2>3, <2>4, <4>1 DEF RanIsRead
    <3>. QED BY <3>1, <3>2
  <2>7. Len(ran') = Len(delivered')
    BY <2>3, <2>4, <2>5
  <2>8. RanIsRead'
    BY <2>6, <2>7 DEF RanIsRead
  <2>9. Append(delivered, p) = delivered \o <<p>>
    BY <1>1, AppendIsConcat
  <2>. QED BY <2>1, <2>3, <2>4, <2>8, <2>9
<1>. QED BY <1>2, <1>3

(* A chunk moves from the front of the buffer to what has been read, and   *)
(* its packet to what has been delivered.                                  *)
LEMMA TakeChunkKeeps == IndInv /\ TakeChunk => IndInv'
<1> SUFFICES ASSUME IndInv, TakeChunk PROVE IndInv'
  OBVIOUS
<1> DEFINE c == SubSeq(data, rpos + 1, ChunkEnd)
<1>1. /\ TypeOK /\ RanIsRead /\ inRecv /\ Marks # {} /\ Advance(ChunkEnd) /\ consumed' = consumed \o c
      /\ (IF Len(Payload(c)) > 0 THEN OnTcpRecv(Payload(c)) ELSE UNCHANGED <<delivered, ran>>)
      /\ online' = online /\ sent' = sent /\ wire' = wire /\ received' = received /\ inRecv' = inRecv
  BY DEF IndInv, TakeChunk
<1>2. online
  BY <1>1 DEF IndInv, ClearedOffline
<1>3. ChunkEnd \in rpos + 4 .. Len(data) /\ IsChunk(c)
  BY <1>1, ScanFindsChunk
<1>4. /\ Pending = c \o Pending' /\ Pending' \in Seq(Bytes)
      /\ data' \in Seq(Bytes) /\ rpos' \in 0 .. Len(data') /\ (rpos' > 0 => rpos' < Len(data'))
  BY <1>1, <1>3, AdvanceSplits
<1>5. c \in Seq(Bytes)
  BY <1>3 DEF IsChunk
<1> HIDE DEF c
<1>6. /\ wire \in Seq(Bytes) /\ consumed \in Seq(Bytes) /\ Pending \in Seq(Bytes)
      /\ delivered \in Seq(Seq(Bytes)) /\ One(c) \in Seq(Seq(Bytes))
  BY <1>1, <1>5, PendingTyped, OneTyped DEF TypeOK
<1>7. /\ delivered' = delivered \o One(c)
      /\ delivered' \in Seq(Seq(Bytes)) /\ ran' \in Seq(Seq(Seq(Bytes)))
      /\ RanIsRead'
  BY <1>1, <1>5, DeliveryIsRead
<1>8. consumed' \in Seq(Bytes)
  BY <1>1, <1>5, <1>6, ConcatProperties
<1>9. TypeOK'
  BY <1>1, <1>4, <1>7, <1>8 DEF TypeOK
<1>10. NothingLost'
  <2>1. (consumed \o c) \o Pending' = consumed \o (c \o Pending')
    <3>1. consumed \in Seq(Bytes) /\ c \in Seq(Bytes) /\ Pending' \in Seq(Bytes)
      BY <1>4, <1>5, <1>6
    <3>. QED BY <3>1, BytesAssociative
  <2>2. consumed \o Pending = received
    BY <1>2 DEF IndInv, NothingLost
  <2>. QED BY <1>1, <1>4, <2>1, <2>2 DEF NothingLost
<1>11. RestEndsWell'
  <2>1. WellEnded(Pending \o wire)
    BY <1>2 DEF IndInv, RestEndsWell
  <2> DEFINE r == Pending' \o wire
  <2>0. c \in Seq(Bytes) /\ Pending' \in Seq(Bytes) /\ wire \in Seq(Bytes)
    BY <1>4, <1>5, <1>6
  <2>2. (c \o Pending') \o wire = c \o r
    BY <2>0, BytesAssociative
  <2>3. r \in Seq(Bytes)
    BY <1>4, <1>6, ConcatProperties
  <2>4. WellEnded(c \o r)
    BY <1>4, <2>1, <2>2
  <2> HIDE DEF r
  <2>5. WellEnded(r)
    BY <1>3, <2>3, <2>4, RestWellEnded
  <2>. QED BY <1>1, <2>5 DEF RestEndsWell, r
<1>12. ConsumedIsDelivered'
  <2>1. ASSUME NEW w \in Seq(Bytes) PROVE Packets((consumed \o c) \o w) = (delivered \o One(c)) \o Packets(w)
    <3>1. c \o w \in Seq(Bytes) /\ Packets(w) \in Seq(Seq(Bytes))
      BY <1>5, ConcatProperties, PacketsTyped
    <3>2. (consumed \o c) \o w = consumed \o (c \o w)
      BY <1>5, <1>6, BytesAssociative
    <3>3. Packets(consumed \o (c \o w)) = delivered \o Packets(c \o w)
      BY <1>2, <3>1 DEF IndInv, ConsumedIsDelivered, Means
    <3>4. Packets(c \o w) = One(c) \o Packets(w)
      BY <1>3, ChunkPackets
    <3>5. delivered \o (One(c) \o Packets(w)) = (delivered \o One(c)) \o Packets(w)
      BY <1>6, <3>1, PacketsAssociate
    <3>. QED BY <3>2, <3>3, <3>4, <3>5
  <2>2. Means(consumed \o c, delivered \o One(c))
    BY <2>1 DEF Means
  <2>. QED BY <1>1, <1>7, <2>2 DEF ConsumedIsDelivered
<1>13. WrittenIsSent'
  <2>1. AllClean' <=> AllClean
    BY <1>1 DEF AllClean
  <2>. QED BY <1>1, <2>1 DEF IndInv, WrittenIsSent
<1>14. NothingHeldBack' /\ ClearedOffline'
  BY <1>1, <1>2 DEF NothingHeldBack, ClearedOffline
<1>. QED BY <1>7, <1>9, <1>10, <1>11, <1>12, <1>13, <1>14 DEF IndInv

(* Recv returns when the scan finds no mark.                               *)
LEMMA RecvReturnsKeeps == IndInv /\ RecvReturns => IndInv'
<1> SUFFICES ASSUME IndInv, RecvReturns PROVE IndInv'
  OBVIOUS
<1>1. /\ TypeOK /\ Marks = {} /\ inRecv /\ inRecv' = FALSE
      /\ online' = online /\ sent' = sent /\ wire' = wire /\ received' = received
      /\ consumed' = consumed /\ data' = data /\ rpos' = rpos /\ delivered' = delivered /\ ran' = ran
  BY DEF IndInv, RecvReturns
<1>2. online
  BY <1>1 DEF IndInv, ClearedOffline
<1>3. Pending' = Pending
  BY <1>1 DEF Pending
<1>4. ~HasMark(Pending)
  BY <1>1, ScanIsComplete
<1>5. TypeOK'
  BY <1>1 DEF TypeOK
<1>6. ClearedOffline' /\ NothingHeldBack'
  BY <1>1, <1>2, <1>3, <1>4 DEF ClearedOffline, NothingHeldBack
<1>7. NothingLost' /\ RestEndsWell'
  BY <1>1, <1>3 DEF IndInv, NothingLost, RestEndsWell
<1>8. RanIsRead'
  BY <1>1 DEF IndInv, RanIsRead
<1>9. ConsumedIsDelivered'
  BY <1>1 DEF IndInv, ConsumedIsDelivered
<1>10. WrittenIsSent'
  <2>1. AllClean' <=> AllClean
    BY <1>1 DEF AllClean
  <2>. QED BY <1>1, <2>1 DEF IndInv, WrittenIsSent
<1>. QED BY <1>5, <1>6, <1>7, <1>8, <1>9, <1>10 DEF IndInv

(* close_cb clears the buffer, and what was on its way is gone.            *)
LEMMA CloseKeeps == IndInv /\ CloseCb => IndInv'
<1> SUFFICES ASSUME IndInv, CloseCb PROVE IndInv'
  OBVIOUS
<1>1. /\ TypeOK /\ ~inRecv /\ online' = FALSE /\ wire' = <<>> /\ data' = <<>> /\ rpos' = 0
      /\ sent' = sent /\ received' = received /\ consumed' = consumed /\ inRecv' = inRecv
      /\ delivered' = delivered /\ ran' = ran
  BY DEF IndInv, CloseCb
<1>2. <<>> \in Seq(Bytes) /\ Len(<<>>) = 0
  BY EmptySeq
<1>3. wire' \in Seq(Bytes) /\ data' \in Seq(Bytes) /\ rpos' \in 0 .. Len(data') /\ ~(rpos' > 0)
  BY <1>1, <1>2
<1>4. TypeOK'
  BY <1>1, <1>3 DEF TypeOK
<1>5. Pending' = <<>>
  BY <1>1, SubSeqEmpty DEF Pending
<1>6. ClearedOffline'
  BY <1>1 DEF ClearedOffline
<1>7. NothingHeldBack'
  BY <1>5, NoMarkInNothing DEF NothingHeldBack
<1>8. RanIsRead'
  BY <1>1 DEF IndInv, RanIsRead
<1>9. NothingLost' /\ RestEndsWell' /\ ConsumedIsDelivered' /\ WrittenIsSent'
  BY <1>1 DEF NothingLost, RestEndsWell, ConsumedIsDelivered, WrittenIsSent
<1>. QED BY <1>4, <1>6, <1>7, <1>8, <1>9 DEF IndInv

(* A step that changes nothing.                                            *)
LEMMA StutterKeeps == IndInv /\ UNCHANGED vars => IndInv'
<1> SUFFICES ASSUME IndInv, UNCHANGED vars PROVE IndInv'
  OBVIOUS
<1>1. /\ online' = online /\ sent' = sent /\ wire' = wire /\ received' = received
      /\ consumed' = consumed /\ data' = data /\ rpos' = rpos /\ inRecv' = inRecv
      /\ delivered' = delivered /\ ran' = ran
  BY DEF vars
<1>2. Pending' = Pending
  BY <1>1 DEF Pending
<1>3. TypeOK' /\ ClearedOffline'
  BY <1>1 DEF IndInv, TypeOK, ClearedOffline
<1>4. NothingLost' /\ NothingHeldBack' /\ RestEndsWell'
  BY <1>1, <1>2 DEF IndInv, NothingLost, NothingHeldBack, RestEndsWell
<1>5. RanIsRead'
  BY <1>1 DEF IndInv, RanIsRead
<1>6. ConsumedIsDelivered'
  BY <1>1 DEF IndInv, ConsumedIsDelivered
<1>7. WrittenIsSent'
  <2>1. AllClean' <=> AllClean
    BY <1>1 DEF AllClean
  <2>. QED BY <1>1, <2>1 DEF IndInv, WrittenIsSent
<1>. QED BY <1>3, <1>4, <1>5, <1>6, <1>7 DEF IndInv

(* Every step keeps the invariant.                                         *)
LEMMA Inductive == IndInv /\ [Next]_vars => IndInv'
<1> SUFFICES ASSUME IndInv, [Next]_vars PROVE IndInv'
  OBVIOUS
<1>1. CASE Open
  BY <1>1, OpenKeeps
<1>2. ASSUME NEW p \in Payloads, SendPto(p) PROVE IndInv'
  BY <1>2, SendPtoKeeps
<1>3. ASSUME NEW n \in 1 .. Len(wire), Recv(n) PROVE IndInv'
  BY <1>3, RecvKeeps
<1>4. CASE TakeChunk
  BY <1>4, TakeChunkKeeps
<1>5. CASE RecvReturns
  BY <1>5, RecvReturnsKeeps
<1>6. CASE CloseCb
  BY <1>6, CloseKeeps
<1>7. CASE UNCHANGED vars
  BY <1>7, StutterKeeps
<1>. QED BY <1>1, <1>2, <1>3, <1>4, <1>5, <1>6, <1>7 DEF Next
-----------------------------------------------------------------------------
(* The results.                                                            *)

(* The inductive invariant holds in every reachable state: the buffer's    *)
(* positions and contents fit, what has been read, what has been delivered *)
(* and what has been run agree, and the rest ends where a frame ends.      *)
THEOREM BufferInvariant == Spec => []IndInv
BY Initially, Inductive, PTL DEF Spec

(* Type correctness, and with it that SendPto, Recv and the tokenizer make *)
(* bytes of bytes, and that no space is lost in front of an empty buffer   *)
(* (fixRwPos).                                                             *)
THEOREM FramingTypes == Spec => []TypeOK
<1>1. IndInv => TypeOK
  BY DEF IndInv
<1>. QED BY <1>1, BufferInvariant, PTL

(* However the stream is cut and however often Recv runs, the bytes taken  *)
(* out of the buffer and those left in it are the bytes of this            *)
(* connection, in order.                                                   *)
THEOREM StreamIsKept == Spec => []NothingLost
<1>1. IndInv => NothingLost
  BY DEF IndInv
<1>. QED BY <1>1, BufferInvariant, PTL

(* When Recv has returned, the buffer holds no complete packet.            *)
THEOREM NoPacketWaits == Spec => []NothingHeldBack
<1>1. IndInv => NothingHeldBack
  BY DEF IndInv
<1>. QED BY <1>1, BufferInvariant, PTL

(* What Recv passes on depends on the bytes of the connection alone: not   *)
(* on where the network cut them, nor on what an earlier connection left.  *)
THEOREM CutsAreInvisible == Spec => []CutsDoNotMatter
<1>1. IndInv => CutsDoNotMatter
  <2>1. SUFFICES ASSUME IndInv, online, ~inRecv PROVE delivered = Packets(received)
    BY DEF CutsDoNotMatter
  <2>2. Pending \in Seq(Bytes) /\ delivered \in Seq(Seq(Bytes))
    BY <2>1, PendingTyped DEF IndInv, TypeOK
  <2>3. consumed \o Pending = received /\ ~HasMark(Pending)
    BY <2>1 DEF IndInv, NothingLost, NothingHeldBack
  <2>4. Packets(consumed \o Pending) = delivered \o Packets(Pending)
    BY <2>1, <2>2 DEF IndInv, ConsumedIsDelivered, Means
  <2>5. Packets(Pending) = <<>> /\ delivered \o <<>> = delivered
    BY <2>2, <2>3, NoMarkNoPackets, NothingBetween
  <2>. QED BY <2>3, <2>4, <2>5
<1>. QED BY <1>1, BufferInvariant, PTL

(* Whatever the packets hold, WritefixEMark2 frames them so that the       *)
(* receiver finds the end of each: when all is read nothing is left over   *)
(* that would become the beginning of the next packet.                     *)
THEOREM FramesAreSelfContained == Spec => []FramesEndClean
<1>1. IndInv => FramesEndClean
  <2>1. SUFFICES ASSUME IndInv, Arrived PROVE Pending = <<>>
    BY DEF FramesEndClean
  <2>2. online /\ wire = <<>> /\ ~inRecv
    BY <2>1 DEF Arrived
  <2>3. Pending \in Seq(Bytes) /\ ~HasMark(Pending) /\ WellEnded(Pending \o wire)
    BY <2>1, <2>2, PendingTyped DEF IndInv, NothingHeldBack, RestEndsWell
  <2>4. Pending \o wire = Pending
    BY <2>2, <2>3, NothingBetween
  <2>. QED BY <2>3, <2>4, WellEndedHasMark
<1>. QED BY <1>1, BufferInvariant, PTL

(* Packets that are Clean arrive as SendPto was given them, all of them    *)
(* and in order, however many there are and however they are cut.          *)
THEOREM CleanPacketsArrive == Spec => []SentIsDelivered
<1>1. IndInv => SentIsDelivered
  <2>1. SUFFICES ASSUME IndInv, Arrived, AllClean PROVE delivered = sent
    BY DEF SentIsDelivered, AllClean
  <2>2. online /\ wire = <<>> /\ ~inRecv
    BY <2>1 DEF Arrived
  <2>3. /\ Pending \in Seq(Bytes) /\ received \in Seq(Bytes) /\ delivered \in Seq(Seq(Bytes))
        /\ sent \in Seq(Seq(Bytes)) /\ <<>> \in Seq(Bytes)
    BY <2>1, PendingTyped, PayloadsAreBytes, EmptySeq DEF IndInv, TypeOK
  <2>4. Packets((received \o wire) \o <<>>) = sent \o Packets(<<>>)
    BY <2>1, <2>2, <2>3 DEF IndInv, WrittenIsSent, Means
  <2>5. (received \o wire) \o <<>> = received
    BY <2>2, <2>3, NothingBetween
  <2>6. Packets(received) = sent
    BY <2>3, <2>4, <2>5, PacketsOfNothing, NothingBetween
  <2>7. consumed \o Pending = received /\ ~HasMark(Pending)
    BY <2>1, <2>2 DEF IndInv, NothingLost, NothingHeldBack
  <2>8. Packets(consumed \o Pending) = delivered \o Packets(Pending)
    BY <2>1, <2>2, <2>3 DEF IndInv, ConsumedIsDelivered, Means
  <2>9. Packets(Pending) = <<>> /\ delivered \o <<>> = delivered
    BY <2>3, <2>7, NoMarkNoPackets, NothingBetween
  <2>. QED BY <2>6, <2>7, <2>8, <2>9
<1>. QED BY <1>1, BufferInvariant, PTL

(* XTokenizer reads a command that is written with single spaces as its    *)
(* words, of any number and length, unless the last of several is a single *)
(* byte.                                                                   *)
THEOREM CommandsAreRead == Spec => []CommandRead
<1>1. IndInv => CommandRead
  <2>1. SUFFICES ASSUME IndInv, NEW i \in 1 .. Len(delivered),
                        IsCommand(delivered[i]), WellSpaced(delivered[i]),
                        ~LastWordIsByte(Words(delivered[i]))
                 PROVE  ran[i] = Words(delivered[i])
    BY DEF CommandRead
  <2> DEFINE p == delivered[i]
  <2>2. p \in Seq(Bytes)
    <3>1. delivered \in Seq(Seq(Bytes))
      BY <2>1 DEF IndInv, TypeOK
    <3>. QED BY <3>1, ElementOfSeq
  <2>3. PICK kept \in BOOLEAN : ran[i] = Tokens(p, kept)
    BY <2>1 DEF IndInv, RanIsRead
  <2>4. IsCommand(p) /\ WellSpaced(p) /\ ~LastWordIsByte(Words(p))
    BY <2>1
  <2>5. Tokens(p, kept) = Words(p)
    <3> HIDE DEF p
    <3>. QED BY <2>2, <2>4, CommandWords
  <2>. QED BY <2>3, <2>5
<1>. QED BY <1>1, BufferInvariant, PTL
=============================================================================
