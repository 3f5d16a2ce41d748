------------------------------- MODULE EMark -------------------------------
(***************************************************************************)
(* The text protocol of CxDChunkEMark and CxNetBuffer (LibXs/XNetBuffer.h) *)
(* and the splitting of a command into words by XTokenizer                 *)
(* (LibXs/XString/XStringEx.cpp), as operators.                            *)
(*                                                                         *)
(* A byte is its value, a buffer a sequence of bytes counted from 1.       *)
(***************************************************************************)
EXTENDS Integers, Sequences

Bytes == 0 .. 255

CR == 13
LF == 10
Space == 32
Quote == 34
Mark == <<CR, LF, CR, LF>>

(* m stands in s at position k.                                            *)
At(s, k, m) == k + Len(m) - 1 <= Len(s) /\ SubSeq(s, k, k + Len(m) - 1) = m

Least(S) == CHOOSE i \in S : \A j \in S : i <= j

(* The first place of the byte b in s from i on, or the one behind s.      *)
Find(s, i, b) == Least({k \in i .. Len(s) : s[k] = b} \cup {Len(s) + 1})

IsDigit(b) == b \in 48 .. 57

(* atoi: white space, then digits up to the first other byte.  (A sign is  *)
(* left out.)                                                              *)
Atoi(s) ==
  LET b == Least({i \in 1 .. Len(s) : s[i] \notin {32} \cup 9 .. 13} \cup {Len(s) + 1})
      e == Least({i \in b .. Len(s) : ~IsDigit(s[i])} \cup {Len(s) + 1})
      val[i \in b - 1 .. e - 1] == IF i < b THEN 0 ELSE 10 * val[i - 1] + s[i] - 48
  IN  val[e - 1]

(* x_str_255t: "&#13;" for a carriage return.  Only bytes of the mark are  *)
(* ever written this way.                                                  *)
Code(b) == <<38, 35, 48 + b \div 10, 48 + (b % 10), 59>>

MarkCode == Code(CR) \o Code(LF) \o Code(CR) \o Code(LF)
-----------------------------------------------------------------------------
(* Mutations of definitions below, used to validate the properties.        *)

\* The last byte is written as it is.
LastPlain(b) == <<b>>

\* The length of the mark is not subtracted from that of the packet.
PayloadWithMark(chunk) == chunk

\* The character codes are left in the packet.
DecodeNothing(s) == s

-----------------------------------------------------------------------------
(* What WritefixEMark2 makes of the last byte of a packet.                 *)
LastByte(b) == IF b \in {CR, LF} THEN Code(b) ELSE <<b>>

(* What it makes of the bytes before the last four: it looks for the mark  *)
(* at _dat + 1 for every i.  When it is there, each round writes the coded *)
(* mark and steps over four bytes; when not, the bytes are copied.         *)
Head0(p, l) ==
  IF At(p, 2, Mark)
  THEN [i \in 1 .. Len(MarkCode) * ((l + 3) \div 4) |-> MarkCode[((i - 1) % Len(MarkCode)) + 1]]
  ELSE SubSeq(p, 1, l)

(* WritefixEMark2: the bytes SendPto sends for the packet p.               *)
Frame(p) ==
  LET n == Len(p)
      l == n - Len(Mark)
      body == IF l > 0 THEN Head0(p, l) \o SubSeq(p, l + 1, n - 1) ELSE SubSeq(p, 1, n - 1)
  IN  IF n < 1 THEN <<>> ELSE body \o LastByte(p[n]) \o Mark

(* Decode: "&#", what follows up to ";" or, without one, to the end of the *)
(* chunk, becomes the byte of that number.                                 *)
Decode(s) ==
  LET dec[i \in 1 .. Len(s) + 2] ==
        IF i > Len(s) THEN <<>>
        ELSE IF At(s, i, <<38, 35>>)
             THEN <<Atoi(SubSeq(s, i + 2, Find(s, i + 2, 59) - 1)) % 256>>
                  \o dec[Find(s, i + 2, 59) + 1]
             ELSE <<s[i]>> \o dec[i + 1]
  IN  dec[1]

(* What Recv passes on of a chunk: getChunkEMark has decoded it, mark and  *)
(* all, and Recv takes four off the length that is left.                   *)
Payload(chunk) == SubSeq(Decode(chunk), 1, Len(Decode(chunk)) - Len(Mark))
-----------------------------------------------------------------------------
(* TokenClear: without spaces and line ends on either side.                *)
TokenClear(s) ==
  LET I == {i \in 1 .. Len(s) : s[i] \notin {Space, CR, LF}}
  IN  IF I = {} THEN <<>>
      ELSE SubSeq(s, Least(I), CHOOSE i \in I : \A j \in I : j <= i)

(* ParseString after a separator at i: `i += _el` and the loop's i++.      *)
AfterSeparator(i) == i + 2

(* strstr looks at a string that ends with its first byte 0: from i on no  *)
(* separator is found behind such a byte.                                  *)
NothingFound(s, i) == \A k \in i .. Len(s) : s[k] = Space => \E j \in i .. k : s[j] = 0

(* ParseString: the positions at which the words end, each behind its      *)
(* separator.  When no separator is found, all that is left is the last    *)
(* word.                                                                   *)
Ends(s) ==
  LET parse[i \in 1 .. Len(s) + 2] ==
        [quoted \in BOOLEAN |->
          LET q == IF s[i] = Quote THEN ~quoted ELSE quoted
          IN  IF i > Len(s) THEN <<>>
              ELSE IF NothingFound(s, i) THEN <<Len(s)>>
              ELSE IF s[i] = Space /\ ~q THEN <<i>> \o parse[AfterSeparator(i)][q]
              ELSE parse[i + 1][q]]
  IN  IF s = <<>> THEN <<>> ELSE parse[1][FALSE]

(* operator[] cuts a word at its first separator.                          *)
Cut(w) == SubSeq(w, 1, Find(w, 1, Space) - 1)

(* Mutation of the next definition: at(_idx) without TokenClear.           *)
WordNotCleared(w, kept) == IF kept THEN Cut(w) ELSE w

(* GetValueStringByIndex.  m_xendl points into the constructor's parameter *)
(* _delim, which is gone by then: the separator may be there still (kept), *)
(* or what has taken its place is empty or not found in the word.          *)
Word(w, kept) == TokenClear(IF kept THEN Cut(w) ELSE w)

(* The words of an XTokenizer made of the packet p.                        *)
Tokens(p, kept) ==
  LET s == TokenClear(p)
      e == Ends(s)
  IN  [k \in 1 .. Len(e) |-> Word(SubSeq(s, IF k = 1 THEN 1 ELSE e[k - 1] + 1, e[k]), kept)]

(* DoCmd: what it takes for a packet to be looked at as a command.         *)
IsCommand(p) == Len(p) >= 3 /\ p[1] = 64 /\ p[2] = 33
=============================================================================
