------------------------------ MODULE Framing ------------------------------
(***************************************************************************)
(* The stream between two ends that speak the text protocol: packets       *)
(* written by CxTcpClient::SendPto (GxProxy/myClient.cpp), cut by the      *)
(* network wherever it likes, put together again by CxTcpClient::Recv with *)
(* a CxNetBuffer (LibXs/XNetBuffer.h), and read as commands by DoCmd.      *)
(*                                                                         *)
(* The receiver's object is used for one connection after another; what    *)
(* `sent` to `ran` hold concerns the present one.  Recv is a step per      *)
(* chunk, since it calls its delegate between two of them.  Reallocation   *)
(* of the buffer is left out: there is always room.                        *)
(***************************************************************************)
EXTENDS EMark

CONSTANTS
  Payloads,       \* the packets that may be sent
  MaxSends        \* the bound on packets sent on one connection

ASSUME PayloadsAssumption == Payloads \subseteq Seq(0 .. 255)
ASSUME MaxSendsAssumption == MaxSends \in Nat

VARIABLES
  online,       \* the connection is open
  sent,         \* packets given to SendPto
  wire,         \* bytes on their way
  received,     \* history: bytes given to Recv
  consumed,     \* history: bytes taken out of the buffer
  data,         \* CxNetBuffer::data up to _wpos
  rpos,         \* CxNetBuffer::_rpos
  inRecv,       \* Recv is in its loop
  delivered,    \* packets given to OnTcpRecv
  ran           \* the words of each packet that is a command, <<>> if it is none

vars == <<online, sent, wire, received, consumed, data, rpos, inRecv, delivered, ran>>

(* getContentLength, getReaderPtr: what is left to read.                   *)
Pending == SubSeq(data, rpos + 1, Len(data))

(* The last conjunct: no space is lost in front of an empty buffer, which  *)
(* would then grow with every packet.                                      *)
TypeOK ==
  /\ online \in BOOLEAN /\ inRecv \in BOOLEAN
  /\ sent \in Seq(Payloads)
  /\ wire \in Seq(Bytes) /\ received \in Seq(Bytes) /\ consumed \in Seq(Bytes)
  /\ data \in Seq(Bytes)
  /\ rpos \in 0 .. Len(data)
  /\ delivered \in Seq(Seq(Bytes))
  /\ ran \in Seq(Seq(Seq(Bytes)))
  /\ rpos > 0 => rpos < Len(data)

Init ==
  /\ online = FALSE /\ inRecv = FALSE
  /\ sent = <<>> /\ wire = <<>> /\ received = <<>> /\ consumed = <<>>
  /\ data = <<>> /\ rpos = 0
  /\ delivered = <<>> /\ ran = <<>>

(* Where a scan of s that starts at i finds marks, and where that of       *)
(* getChunkEMark does.                                                     *)
MarksFrom(s, i) == {k \in i .. Len(s) : At(s, k, Mark)}
Marks == MarksFrom(data, rpos + 1)
-----------------------------------------------------------------------------
(* Mutations of definitions below, used to validate the properties.        *)

\* The scan goes on to the last mark in the buffer.
ChunkEndGreedy == (CHOOSE k \in Marks : \A j \in Marks : j <= k) + Len(Mark) - 1

\* rposInc without fixRwPos.
AdvanceOnly(k) == rpos' = k /\ UNCHANGED data

\* SetFD(-1) without m_input.clear().
CloseCbKeeps ==
  /\ online /\ ~inRecv
  /\ online' = FALSE
  /\ wire' = <<>>
  /\ UNCHANGED <<sent, received, consumed, data, rpos, inRecv, delivered, ran>>

\* Recv does not look for another chunk.
RecvReturnsEarly ==
  /\ inRecv
  /\ inRecv' = FALSE
  /\ UNCHANGED <<online, sent, wire, received, consumed, data, rpos, delivered, ran>>

-----------------------------------------------------------------------------
(* connect_cb of either side: SetFD(fd).  The input buffer is as the last  *)
(* connection has left it.                                                 *)
Open ==
  /\ ~online
  /\ online' = TRUE
  /\ sent' = <<>> /\ received' = <<>> /\ consumed' = <<>>
  /\ delivered' = <<>> /\ ran' = <<>>
  /\ UNCHANGED <<wire, data, rpos, inRecv>>

(* SendPto at the other end.                                               *)
SendPto(p) ==
  /\ online
  /\ Len(sent) < MaxSends
  /\ sent' = Append(sent, p)
  /\ wire' = wire \o Frame(p)
  /\ UNCHANGED <<online, received, consumed, data, rpos, inRecv, delivered, ran>>

(* read_cb -> Recv with the first n bytes of what is on its way: write.    *)
Recv(n) ==
  /\ online /\ ~inRecv
  /\ inRecv' = TRUE
  /\ data' = data \o SubSeq(wire, 1, n)
  /\ received' = received \o SubSeq(wire, 1, n)
  /\ wire' = SubSeq(wire, n + 1, Len(wire))
  /\ UNCHANGED <<online, sent, consumed, rpos, delivered, ran>>

(* getChunkEMark: the chunk ends with the first mark.                      *)
ChunkEnd == Least(Marks) + Len(Mark) - 1

(* rposInc, and fixRwPos when everything is read.                          *)
Advance(k) ==
  IF k >= Len(data) THEN data' = <<>> /\ rpos' = 0 ELSE rpos' = k /\ UNCHANGED data

(* OnTcpRecv with a packet that is not empty: DoCmd looks at it first.     *)
OnTcpRecv(p) ==
  /\ delivered' = Append(delivered, p)
  /\ \E kept \in BOOLEAN : ran' = Append(ran, IF IsCommand(p) THEN Tokens(p, kept) ELSE <<>>)

TakeChunk ==
  LET chunk == SubSeq(data, rpos + 1, ChunkEnd)
  IN  /\ inRecv
      /\ Marks # {}
      /\ Advance(ChunkEnd)
      /\ consumed' = consumed \o chunk
      /\ IF Len(Payload(chunk)) > 0 THEN OnTcpRecv(Payload(chunk)) ELSE UNCHANGED <<delivered, ran>>
      /\ UNCHANGED <<online, sent, wire, received, inRecv>>

(* getChunkEMark finds no mark, and the loop ends.                         *)
RecvReturns ==
  /\ inRecv
  /\ Marks = {}
  /\ inRecv' = FALSE
  /\ UNCHANGED <<online, sent, wire, received, consumed, data, rpos, delivered, ran>>

(* The connection ends, whatever is still on its way: close_cb, SetFD(-1). *)
CloseCb ==
  /\ online /\ ~inRecv
  /\ online' = FALSE
  /\ wire' = <<>>
  /\ data' = <<>> /\ rpos' = 0
  /\ UNCHANGED <<sent, received, consumed, inRecv, delivered, ran>>

Next ==
  \/ Open
  \/ \E p \in Payloads : SendPto(p)
  \/ \E n \in 1 .. Len(wire) : Recv(n)
  \/ TakeChunk
  \/ RecvReturns
  \/ CloseCb

Spec == Init /\ [][Next]_vars
-----------------------------------------------------------------------------
(* What the stream s means, by its marks from left to right: the packets   *)
(* in it that are not empty, and what follows the last mark.               *)
Packets(s) ==
  LET from[i \in 1 .. Len(s) + 1] ==
        IF MarksFrom(s, i) = {} THEN <<>>
        ELSE LET e == Least(MarksFrom(s, i)) + Len(Mark)
                 p == Payload(SubSeq(s, i, e - 1))
             IN  (IF Len(p) > 0 THEN <<p>> ELSE <<>>) \o from[e]
  IN  from[1]

HasMark(s) == MarksFrom(s, 1) # {}

(* Packets do not depend on where the stream was cut, on what was received *)
(* before the connection was opened, or on what is still to come.          *)
CutsDoNotMatter == online /\ ~inRecv => delivered = Packets(received)

(* No byte is lost or read twice: what has been taken out of the buffer    *)
(* and what is left in it make up what was received.                       *)
NothingLost == online => consumed \o Pending = received

(* Recv leaves no complete packet behind, where it would stay until more   *)
(* bytes arrive.                                                           *)
NothingHeldBack == ~inRecv => ~HasMark(Pending)

(* Nothing is left of a packet, whatever its bytes, once all of its frame  *)
(* is read: the end of one frame is never taken for part of the next.      *)
Arrived == online /\ wire = <<>> /\ ~inRecv
FramesEndClean == Arrived => Pending = <<>>

(* A packet arrives as it was sent if it is not empty and holds no "&#"    *)
(* and no mark, unless it ends with the mark, which is then broken by the  *)
(* code for the last byte.  But the packet of one byte and the mark comes  *)
(* out mangled: the mark is looked for behind the first byte only, and     *)
(* found there.  Nothing is written for an empty packet.                   *)
Clean(p) ==
  /\ p # <<>>
  /\ ~HasMark(SubSeq(p, 1, Len(p) - 1))
  /\ ~At(p, 2, Mark)
  /\ \A k \in 1 .. Len(p) : ~At(p, k, <<38, 35>>)

SentIsDelivered ==
  Arrived /\ (\A i \in 1 .. Len(sent) : Clean(sent[i])) => delivered = sent

(* The words of s: what its separators separate.                           *)
Words(s) ==
  LET word[i \in 1 .. Len(s) + 1] ==
        LET e == Find(s, i, Space)
        IN  IF e > Len(s) THEN <<SubSeq(s, i, Len(s))>> ELSE <<SubSeq(s, i, e - 1)>> \o word[e + 1]
  IN  word[1]

(* Between words there is one space, none around them; there is no quote,  *)
(* which holds words together, no line end and no byte 0.                  *)
WellSpaced(p) ==
  /\ TokenClear(p) = p
  /\ \A k \in 1 .. Len(p) : p[k] \notin {0, CR, LF, Quote}
  /\ \A k \in 1 .. Len(Words(p)) : Words(p)[k] # <<>>

(* The case left out below: ParseString steps over a last word of one byte *)
(* behind a separator, a port of one digit say, as if it were not there.   *)
LastWordIsByte(w) == Len(w) > 1 /\ Len(w[Len(w)]) = 1

(* The words of a command with one space between them arrive as they were  *)
(* written, whatever has become of the separator the tokenizer points to.  *)
CommandRead ==
  \A i \in 1 .. Len(delivered) :
    LET w == Words(delivered[i])
    IN  IsCommand(delivered[i]) /\ WellSpaced(delivered[i]) /\ ~LastWordIsByte(w) => ran[i] = w
=============================================================================
