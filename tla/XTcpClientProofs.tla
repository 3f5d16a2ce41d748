-------------------------- MODULE XTcpClientProofs --------------------------
(***************************************************************************)
(* Proofs about the blocking client, for any number of descriptors and of  *)
(* calls of Connect.  The argument is about what a number stands for: the  *)
(* client's own connection, one that nobody reads from, or - once it has   *)
(* taken a descriptor that was not its own - anything.  The last theorem   *)
(* says that the client notices a reset.                                   *)
(***************************************************************************)
EXTENDS XTcpClient, WellFoundedInduction, TLAPS

(* Connections are numbered in the order of the calls of Connect.          *)
Numbered == \A f \in Fds : fds[f] \in Connections => fds[f] <= tries

(* What m_input holds came from the connection that Step can read from.    *)
InputOfSocket ==
  \A n \in Connections :
    OpenOn(m_socket, n) /\ peer[n] # "refused" => input \subseteq {n}

(* Descriptor 0 is standard input until the client closes it.              *)
StdinKept == (fds[0] = Std /\ other # 0) \/ 0 \in victims

(* Until the client has taken a descriptor from somebody, the others have  *)
(* what they opened, and a client in order holds its own connection.       *)
OwnDescriptors ==
  victims = {} =>
    /\ other # None => fds[other] = File
    /\ InOrder => fds[sk] \in Connections

IndInv ==
  /\ TypeOK /\ Numbered /\ InputOfSocket /\ StdinKept /\ OwnDescriptors
  /\ PacketsOfOne /\ FirstVictim /\ UnseenNeedsStdin

USE MaxFdAssumption, MaxConnectsAssumption
-----------------------------------------------------------------------------
LEMMA LowestFree ==
  ASSUME FreeFds # {}
  PROVE  Lowest \in Fds /\ fds[Lowest] = Free
<1>1. FreeFds \subseteq Nat
  BY DEF FreeFds, Fds
<1>2. PICK m \in FreeFds : \A y \in FreeFds : ~ (<<y, m>> \in OpToRel(<, Nat))
  BY <1>1, WFMin, NatLessThanWellFounded
<1>3. \A y \in FreeFds : m <= y
  <2>1. TAKE y \in FreeFds
  <2>2. ~(y < m)
    BY <1>1, <1>2 DEF OpToRel
  <2>. QED BY <1>1, <2>2
<1>4. Lowest \in FreeFds
  BY <1>3 DEF Lowest
<1>. QED BY <1>4 DEF FreeFds

LEMMA InitInv == Init => IndInv
<1> SUFFICES ASSUME Init PROVE IndInv
  OBVIOUS
<1>1. fds[0] = Std /\ \A f \in Fds : fds[f] \in {Free, Std}
  BY DEF Init, Fds
<1>2. TypeOK
  <2>1. /\ fds \in [Fds -> {Free, Std, File} \cup Connections]
        /\ peer \in [Connections -> {"none", "refused", "up", "fin", "rst", "dead", "taken"}]
    BY DEF Init
  <2>2. /\ tries \in 0 .. MaxConnects
        /\ sk \in Fds \cup {None} /\ m_socket \in Fds \cup {None}
        /\ other \in Fds \cup {None}
        /\ m_socket # XInvalid
    BY DEF Init, None, XInvalid
  <2>3. /\ connected \in BOOLEAN /\ guilty \in BOOLEAN /\ mixed \in BOOLEAN
        /\ input \subseteq Connections /\ unseen \subseteq Connections
        /\ fault \in {"none", "abort", "sigpipe"}
        /\ victims \subseteq Fds
        /\ ~connected
    BY Zenon DEF Init
  <2>. QED BY <2>1, <2>2, <2>3 DEF TypeOK
<1>3. Numbered /\ InputOfSocket
  BY <1>1 DEF Init, Numbered, InputOfSocket, Connections, Free, Std
<1>4. StdinKept /\ OwnDescriptors
  BY <1>1 DEF Init, StdinKept, OwnDescriptors, InOrder, None
<1>. QED BY <1>2, <1>3, <1>4 DEF Init, IndInv, PacketsOfOne, FirstVictim,
          UnseenNeedsStdin

(* A call of Connect takes the next number.                                *)
LEMMA NextConnection ==
  ASSUME TypeOK, tries < MaxConnects
  PROVE  tries + 1 \in Connections /\ tries + 1 \in 1 .. MaxConnects
BY DEF TypeOK, Connections

LEMMA ConnectRefusedPreserves ==
  ASSUME IndInv, ConnectRefused
  PROVE  IndInv'
<1>1. tries + 1 \in Connections
  BY NextConnection DEF IndInv, ConnectRefused
<1>2. CASE FreeFds = {}
  BY <1>1, <1>2 DEF ConnectRefused, IndInv, TypeOK, Numbered, InputOfSocket,
     StdinKept, OwnDescriptors, PacketsOfOne, FirstVictim, UnseenNeedsStdin,
     OpenOn, InOrder, Fds, Connections, None, XInvalid, history
<1>3. CASE FreeFds # {}
  <2>1. Lowest \in Fds /\ fds[Lowest] = Free
    BY <1>3, LowestFree
  <2>2. /\ fds' = [fds EXCEPT ![Lowest] = tries + 1]
        /\ peer' = [peer EXCEPT ![tries + 1] = "refused"]
    BY <1>3 DEF ConnectRefused
  <2> HIDE DEF Lowest
  <2>3. TypeOK'
    BY <1>1, <2>1, <2>2 DEF ConnectRefused, IndInv, TypeOK, Fds, Connections,
       None, XInvalid, history
  <2>4. Numbered'
    BY <1>1, <2>1, <2>2 DEF ConnectRefused, IndInv, TypeOK, Numbered, Fds, Connections
  <2>5. InputOfSocket'
    <3> SUFFICES ASSUME NEW n \in Connections,
                        OpenOn(m_socket, n)', peer'[n] # "refused"
                 PROVE  input' \subseteq {n}
      BY DEF InputOfSocket
    <3>1. m_socket' = m_socket /\ input' = input
      BY DEF ConnectRefused
    <3>2. n # tries + 1
      BY <2>2 DEF IndInv, TypeOK
    <3>3. OpenOn(m_socket, n)
      BY <2>1, <2>2, <3>1, <3>2 DEF OpenOn, IndInv, TypeOK
    <3>4. peer'[n] = peer[n]
      BY <2>2, <3>2 DEF IndInv, TypeOK
    <3>. QED BY <3>1, <3>3, <3>4 DEF IndInv, InputOfSocket
  <2>6. StdinKept' /\ OwnDescriptors'
    BY <1>1, <2>1, <2>2 DEF ConnectRefused, IndInv, TypeOK, StdinKept,
       OwnDescriptors, InOrder, Fds, Connections, Free, Std, File, None,
       XInvalid, history
  <2>7. PacketsOfOne' /\ FirstVictim' /\ UnseenNeedsStdin'
    BY DEF ConnectRefused, IndInv, PacketsOfOne, FirstVictim, UnseenNeedsStdin, history
  <2>. QED BY <2>3, <2>4, <2>5, <2>6, <2>7 DEF IndInv
<1>. QED BY <1>2, <1>3

LEMMA ConnectPreserves ==
  ASSUME IndInv, Connect
  PROVE  IndInv'
<1>1. tries + 1 \in Connections
  BY NextConnection DEF IndInv, Connect
<1>2. Lowest \in Fds /\ fds[Lowest] = Free
  BY LowestFree DEF Connect
<1> HIDE DEF Lowest
<1>3. /\ fds' = [fds EXCEPT ![Lowest] = tries + 1]
      /\ peer' = [peer EXCEPT ![tries + 1] = "up"]
  BY DEF Connect
<1>4. Numbered'
  BY <1>1, <1>2, <1>3 DEF Connect, IndInv, TypeOK, Numbered, Fds, Connections
<1>5. PacketsOfOne' /\ FirstVictim'
  BY DEF Connect, IndInv, PacketsOfOne, FirstVictim
<1>6. CASE TakenForFailure(Lowest)
  <2>1. /\ unseen' = unseen \cup {tries + 1} /\ Lowest = 0
        /\ UNCHANGED <<m_socket, connected, input>>
    BY <1>6 DEF Connect, TakenForFailure, XInvalid
  <2>2. 0 \in victims
    BY <1>2, <2>1 DEF IndInv, StdinKept, Free, Std
  <2>3. TypeOK'
    BY <1>1, <1>2, <1>3, <2>1 DEF Connect, IndInv, TypeOK, Fds, Connections
  <2>4. InputOfSocket'
    <3> SUFFICES ASSUME NEW n \in Connections,
                        OpenOn(m_socket, n)', peer'[n] # "refused"
                 PROVE  input' \subseteq {n}
      BY DEF InputOfSocket
    <3>1. m_socket \in Fds /\ m_socket # 0
      BY <2>1 DEF OpenOn, IndInv, TypeOK, XInvalid
    <3>2. OpenOn(m_socket, n)
      BY <1>3, <2>1, <3>1 DEF OpenOn, IndInv, TypeOK
    <3>3. n # tries + 1
      BY <3>1, <3>2 DEF OpenOn, IndInv, TypeOK, Numbered
    <3>4. peer'[n] = peer[n]
      BY <1>3, <3>3 DEF IndInv, TypeOK
    <3>. QED BY <2>1, <3>2, <3>4 DEF IndInv, InputOfSocket
  <2>. QED BY <1>4, <1>5, <2>2, <2>3, <2>4 DEF Connect, IndInv, StdinKept,
            OwnDescriptors, UnseenNeedsStdin
<1>7. CASE ~TakenForFailure(Lowest)
  <2>1. /\ m_socket' = Lowest /\ input' = {} /\ connected' = TRUE
        /\ unseen' = unseen /\ Lowest # 0
    BY <1>7 DEF Connect, Taken, TakenForFailure, XInvalid
  <2>2. TypeOK'
    BY <1>1, <1>2, <1>3, <2>1 DEF Connect, IndInv, TypeOK, Fds, Connections,
       None, XInvalid
  <2>3. InputOfSocket'
    BY <2>1 DEF InputOfSocket
  <2>4. StdinKept'
    BY <1>2, <1>3, <2>1 DEF Connect, IndInv, TypeOK, StdinKept, Fds
  <2>5. OwnDescriptors'
    BY <1>1, <1>2, <1>3, <2>1 DEF Connect, IndInv, TypeOK, OwnDescriptors,
       InOrder, Fds, Connections, Free, File, None
  <2>6. UnseenNeedsStdin'
    BY <2>1 DEF Connect, IndInv, UnseenNeedsStdin
  <2>. QED BY <1>4, <1>5, <2>2, <2>3, <2>4, <2>5, <2>6 DEF IndInv
<1>. QED BY <1>6, <1>7

(* What Disconnect and a failing Step have in common.                      *)
LEMMA DisconnectedPreserves ==
  ASSUME IndInv, Disconnected,
         UNCHANGED <<tries, input, other, fault, mixed, unseen>>,
         peer' \in [Connections -> {"none", "refused", "up", "fin", "rst", "dead", "taken"}],
         \A n \in Connections : peer'[n] # "refused" => peer[n] # "refused"
  PROVE  IndInv'
<1>1. TypeOK'
  <2>1. fds' \in [Fds -> {Free, Std, File} \cup Connections]
    BY DEF IndInv, TypeOK, Disconnected, Free
  <2>2. victims' \subseteq Fds /\ guilty' \in BOOLEAN
    BY Zenon DEF IndInv, TypeOK, Disconnected, InOrder
  <2>3. connected' = FALSE /\ sk' = sk /\ m_socket' = m_socket
    BY DEF Disconnected
  <2>. QED BY <2>1, <2>2, <2>3 DEF IndInv, TypeOK
<1>2. Numbered' /\ InputOfSocket'
  BY DEF IndInv, TypeOK, Disconnected, Numbered, InputOfSocket, OpenOn, Fds,
     Connections, Free
<1>3. StdinKept'
  BY DEF IndInv, TypeOK, Disconnected, StdinKept, Fds, Std
<1>4. OwnDescriptors'
  BY DEF IndInv, TypeOK, Disconnected, OwnDescriptors, InOrder, Fds,
     Connections, Free, Std, File, None
<1>5. FirstVictim'
  BY DEF IndInv, TypeOK, Disconnected, FirstVictim, OwnDescriptors, Fds,
     Connections, Std, File
<1>6. PacketsOfOne' /\ UnseenNeedsStdin'
  BY DEF IndInv, TypeOK, Disconnected, PacketsOfOne, UnseenNeedsStdin
<1>. QED BY <1>1, <1>2, <1>3, <1>4, <1>5, <1>6 DEF IndInv

LEMMA StepFailsPreserves ==
  ASSUME IndInv, StepFails
  PROVE  IndInv'
<1>1. /\ peer' \in [Connections -> {"none", "refused", "up", "fin", "rst", "dead", "taken"}]
      /\ \A n \in Connections : peer'[n] # "refused" => peer[n] # "refused"
  BY DEF IndInv, TypeOK, StepFails
<1>. QED BY <1>1, DisconnectedPreserves DEF StepFails

LEMMA DisconnectPreserves ==
  ASSUME IndInv, Disconnect
  PROVE  IndInv'
<1>1. peer' \in [Connections -> {"none", "refused", "up", "fin", "rst", "dead", "taken"}]
  BY DEF IndInv, TypeOK, Disconnect
<1>. QED BY <1>1, DisconnectedPreserves DEF Disconnect

LEMMA StepReceivesPreserves ==
  ASSUME IndInv, NEW n \in Connections, StepReceives(n)
  PROVE  IndInv'
<1>1. input \subseteq {n}
  BY DEF IndInv, InputOfSocket, StepReceives
<1>2. input' \subseteq {n} /\ mixed' = FALSE
  BY <1>1 DEF StepReceives, IndInv, TypeOK, PacketsOfOne
<1>3. TypeOK' /\ PacketsOfOne'
  BY <1>2 DEF StepReceives, IndInv, TypeOK, PacketsOfOne, Connections
<1>4. InputOfSocket'
  BY <1>2 DEF StepReceives, IndInv, TypeOK, InputOfSocket, OpenOn
<1>. QED BY <1>3, <1>4 DEF StepReceives, IndInv, Numbered, StdinKept,
          OwnDescriptors, InOrder, FirstVictim, UnseenNeedsStdin

(* Steps that change the state of connections, or end the process.         *)
LEMMA PeerPreserves ==
  ASSUME IndInv,
         UNCHANGED <<fds, tries, client, other, history>>,
         fault' \in {"none", "abort", "sigpipe"},
         peer' \in [Connections -> {"none", "refused", "up", "fin", "rst", "dead", "taken"}],
         \A n \in Connections : peer'[n] # "refused" => peer[n] # "refused"
  PROVE  IndInv'
BY DEF IndInv, TypeOK, Numbered, InputOfSocket, StdinKept, OwnDescriptors,
   PacketsOfOne, FirstVictim, UnseenNeedsStdin, OpenOn, InOrder, client, history

LEMMA OtherOpensPreserves ==
  ASSUME IndInv, OtherOpens
  PROVE  IndInv'
<1>1. Lowest \in Fds /\ fds[Lowest] = Free
  BY LowestFree DEF OtherOpens
<1>2. fds' = [fds EXCEPT ![Lowest] = File] /\ other' = Lowest
  BY DEF OtherOpens
<1> HIDE DEF Lowest
<1>3. TypeOK'
  BY <1>1, <1>2 DEF OtherOpens, IndInv, TypeOK, Fds, client, history
<1>4. Numbered' /\ InputOfSocket'
  BY <1>1, <1>2 DEF OtherOpens, IndInv, TypeOK, Numbered, InputOfSocket,
     OpenOn, Fds, Connections, File, client
<1>5. StdinKept'
  BY <1>1, <1>2 DEF OtherOpens, IndInv, TypeOK, StdinKept, Fds, Free, Std, history
<1>6. OwnDescriptors'
  BY <1>1, <1>2 DEF OtherOpens, IndInv, TypeOK, OwnDescriptors, InOrder, Fds,
     Connections, Free, File, None, client, history
<1>. QED BY <1>3, <1>4, <1>5, <1>6 DEF OtherOpens, IndInv, PacketsOfOne,
          FirstVictim, UnseenNeedsStdin, history

LEMMA OtherClosesPreserves ==
  ASSUME IndInv, OtherCloses
  PROVE  IndInv'
<1>1. other \in Fds /\ other' = None /\ fds' = [fds EXCEPT ![other] = Free]
  BY DEF OtherCloses, IndInv, TypeOK
<1>3. TypeOK'
  BY <1>1 DEF OtherCloses, IndInv, TypeOK, Fds, client, history
<1>4. Numbered' /\ InputOfSocket'
  BY <1>1 DEF OtherCloses, IndInv, TypeOK, Numbered, InputOfSocket,
     OpenOn, Fds, Connections, Free, client
<1>5. StdinKept'
  BY <1>1 DEF OtherCloses, IndInv, TypeOK, StdinKept, Fds, None, history
<1>6. OwnDescriptors'
  BY <1>1 DEF OtherCloses, IndInv, TypeOK, OwnDescriptors, InOrder, Fds,
     Connections, Free, File, None, client, history
<1>. QED BY <1>3, <1>4, <1>5, <1>6 DEF OtherCloses, IndInv, PacketsOfOne,
          FirstVictim, UnseenNeedsStdin, history

LEMMA StutterPreserves ==
  ASSUME IndInv, UNCHANGED vars
  PROVE  IndInv'
BY DEF vars, client, history, IndInv, TypeOK, Numbered, InputOfSocket,
   StdinKept, OwnDescriptors, PacketsOfOne, FirstVictim, UnseenNeedsStdin,
   OpenOn, InOrder

LEMMA NextPreserves == IndInv /\ [Next]_vars => IndInv'
<1> SUFFICES ASSUME IndInv, [Next]_vars PROVE IndInv'
  OBVIOUS
<1>1. CASE Connect
  BY <1>1, ConnectPreserves
<1>2. CASE ConnectRefused
  BY <1>2, ConnectRefusedPreserves
<1>3. CASE Disconnect
  BY <1>3, DisconnectPreserves
<1>4. CASE StepAborts
  BY <1>4, PeerPreserves DEF StepAborts, IndInv, TypeOK
<1>5. CASE StepFails
  BY <1>5, StepFailsPreserves
<1>6. ASSUME NEW n \in Connections, StepReceives(n) PROVE IndInv'
  BY <1>6, StepReceivesPreserves
<1>7. ASSUME NEW n \in Connections, Send(n) \/ PeerCloses(n) \/ PeerResets(n)
      PROVE  IndInv'
  <2>1. /\ UNCHANGED <<fds, tries, client, other, history>>
        /\ fault' \in {"none", "abort", "sigpipe"}
    BY <1>7 DEF Send, PeerCloses, PeerResets, IndInv, TypeOK, Running
  <2>2. peer' \in [Connections -> {"none", "refused", "up", "fin", "rst", "dead", "taken"}]
    BY <1>7 DEF Send, PeerCloses, PeerResets, IndInv, TypeOK
  <2>3. \A m \in Connections : peer'[m] # "refused" => peer[m] # "refused"
    BY <1>7 DEF Send, PeerCloses, PeerResets, IndInv, TypeOK
  <2>. QED BY <2>1, <2>2, <2>3, PeerPreserves
<1>8. CASE OtherOpens
  BY <1>8, OtherOpensPreserves
<1>9. CASE OtherCloses
  BY <1>9, OtherClosesPreserves
<1>10. CASE UNCHANGED vars
  BY <1>10, StutterPreserves
<1>. QED BY <1>1, <1>2, <1>3, <1>4, <1>5, <1>6, <1>7, <1>8, <1>9, <1>10
          DEF Next, Step

(* The inductive invariant holds of the client.                            *)
THEOREM ClientInvariant == Spec => []IndInv
<1>. QED BY InitInv, NextPreserves, PTL DEF Spec

(* The client's variables keep their types, m_socket is never the number   *)
(* that stands for failure (Connect, XTcpClient.cpp:26-28), and a client   *)
(* that says it is connected has a descriptor.                             *)
THEOREM ClientTyped == Spec => []TypeOK
<1>1. IndInv => TypeOK
  BY DEF IndInv
<1>. QED BY <1>1, ClientInvariant, PTL

(* Connect clears m_input, so no packet is made of the bytes of two        *)
(* connections, whatever numbers their descriptors had                     *)
(* (XTcpClient.cpp:29, 113-130).                                           *)
THEOREM PacketsNotMixed == Spec => []PacketsOfOne
<1>1. IndInv => PacketsOfOne
  BY DEF IndInv
<1>. QED BY <1>1, ClientInvariant, PTL

(* Disconnect (XTcpClient.cpp:42-47) closes a descriptor of somebody else  *)
(* for the first time only when the client is offline or sk and m_socket   *)
(* differ.                                                                 *)
THEOREM FirstVictimOffline == Spec => []FirstVictim
<1>1. IndInv => FirstVictim
  BY DEF IndInv
<1>. QED BY <1>1, ClientInvariant, PTL

(* A connection is taken for a failure (xnet.cpp:163, xnet.h:16) only      *)
(* after the client has closed standard input.                             *)
THEOREM UnseenExplained == Spec => []UnseenNeedsStdin
<1>1. IndInv => UnseenNeedsStdin
  BY DEF IndInv
<1>. QED BY <1>1, ClientInvariant, PTL
-----------------------------------------------------------------------------
(* A reset connection the client is still on, and the end of that.         *)
IsReset(n) == connected /\ OpenOn(m_socket, n) /\ peer[n] = "rst" /\ Running
Noticed(n) == ~connected \/ ~OpenOn(m_socket, n) \/ peer[n] = "taken" \/ ~Running

(* The next Step fails, and takes the client offline.                      *)
CanFail == Running /\ connected /\ Fails(m_socket)

(* And it can: ENABLED is a word the prover does not know, and what Step   *)
(* does is defined in every state.                                         *)
StepCanFail == CanFail => ENABLED <<StepAborts \/ StepFails>>_vars

(* No step makes a reset undone: it is not the connection a Connect makes, *)
(* and only Send and Step take the error.                                  *)
LEMMA ResetStays ==
  ASSUME NEW n \in Connections, IndInv, IsReset(n), [Next]_vars
  PROVE  IsReset(n)' \/ Noticed(n)'
<1>1. peer \in [Connections -> {"none", "refused", "up", "fin", "rst", "dead", "taken"}]
  BY DEF IndInv, TypeOK
<1>2. n # tries + 1
  <2>1. n <= tries /\ tries \in Nat /\ n \in Nat
    BY DEF IndInv, Numbered, TypeOK, IsReset, OpenOn, Connections
  <2>. QED BY <2>1
<1>3. SUFFICES ASSUME ~Noticed(n)' PROVE peer'[n] = "rst"
  BY DEF IsReset, Noticed
<1>4. peer[n] = "rst"
  BY DEF IsReset
<1>5. CASE Connect \/ ConnectRefused
  BY <1>1, <1>2, <1>4, <1>5 DEF Connect, ConnectRefused
<1>6. CASE Disconnect \/ StepAborts \/ StepFails
  BY <1>3, <1>6 DEF Disconnect, StepAborts, StepFails, Disconnected, Noticed, Running
<1>7. ASSUME NEW k \in Connections, StepReceives(k) PROVE peer'[n] = "rst"
  BY <1>4, <1>7 DEF StepReceives
<1>8. ASSUME NEW k \in Connections, Send(k) PROVE peer'[n] = "rst"
  BY <1>1, <1>3, <1>4, <1>8 DEF Send, Noticed
<1>9. ASSUME NEW k \in Connections, PeerCloses(k) \/ PeerResets(k) PROVE peer'[n] = "rst"
  BY <1>1, <1>4, <1>9 DEF PeerCloses, PeerResets
<1>10. CASE OtherOpens \/ OtherCloses
  BY <1>4, <1>10 DEF OtherOpens, OtherCloses
<1>11. CASE UNCHANGED vars
  BY <1>4, <1>11 DEF vars
<1>. QED BY <1>5, <1>6, <1>7, <1>8, <1>9, <1>10, <1>11 DEF Next, Step

(* And the next Step that is taken ends it.                                *)
LEMMA StepNotices ==
  ASSUME NEW n \in Connections, <<StepAborts \/ StepFails>>_vars
  PROVE  Noticed(n)'
BY DEF StepAborts, StepFails, Noticed, Disconnected, Running

(* A reset takes the client offline (Step, XTcpClient.cpp), unless Send    *)
(* has had the error first or the client has connected anew.               *)
THEOREM ResetsAreNoticed == FairSpec /\ []StepCanFail => ResetNoticed
<1>1. ASSUME NEW n \in Connections
      PROVE  FairSpec /\ []StepCanFail =>
               (connected /\ OpenOn(m_socket, n) /\ peer[n] = "rst"
                 ~> ~connected \/ ~OpenOn(m_socket, n) \/ peer[n] = "taken" \/ ~Running)
  <2>1. IndInv /\ IsReset(n) /\ [Next]_vars => IsReset(n)' \/ Noticed(n)'
    BY ResetStays
  <2>2. <<StepAborts \/ StepFails>>_vars => Noticed(n)'
    BY StepNotices
  <2>3. IsReset(n) => CanFail
    BY DEF IsReset, CanFail, Fails, OpenOn
  <2>4. /\ connected /\ OpenOn(m_socket, n) /\ peer[n] = "rst" => IsReset(n) \/ Noticed(n)
        /\ Noticed(n) <=> ~connected \/ ~OpenOn(m_socket, n) \/ peer[n] = "taken" \/ ~Running
    BY DEF IsReset, Noticed
  <2> QED
    BY <2>1, <2>2, <2>3, <2>4, ClientInvariant, PTL DEF FairSpec, Spec, StepCanFail
<1> QED BY <1>1 DEF ResetNoticed
=============================================================================
