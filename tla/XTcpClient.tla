----------------------------- MODULE XTcpClient -----------------------------
(***************************************************************************)
(* The blocking client XsTcpClient (LibXs/XTcpClient.cpp) on the socket    *)
(* calls of LibXs/xnet.cpp, POSIX build, together with the process's table *)
(* of descriptors.  One thread calls Connect, Step, Send and Disconnect in *)
(* any order; the rest of the process opens and closes a file now and      *)
(* then; the peer may close or reset the connection.                       *)
(*                                                                         *)
(* The table matters because the client keeps the numbers m_socket and sk  *)
(* after it has closed them, and because xnet_connect uses 0 for "failed". *)
(* Packets are left to module Framing: of the bytes in m_input only the    *)
(* connections they came from are kept.                                    *)
(***************************************************************************)
EXTENDS Integers, FiniteSets

CONSTANTS
  MaxFd,          \* the bound on descriptors, 0 .. MaxFd
  MaxConnects     \* the bound on calls of Connect

ASSUME MaxFdAssumption == MaxFd \in Nat
ASSUME MaxConnectsAssumption == MaxConnects \in Nat

Fds == 0 .. MaxFd
Connections == 1 .. MaxConnects
None == -1                      \* INVALID_SOCKET, -1
XInvalid == 0                   \* X_INVALID_SOCKET, 0

(* What a descriptor is open on, if it is not a connection.                *)
Free == 0
Std  == -1
File == -2

VARIABLES
  fds,          \* fds[f]: what descriptor f is open on
  peer,         \* peer[n]: the state of connection n
  tries,        \* number of calls of Connect
  sk, m_socket, \* the two descriptors the client keeps
  connected,    \* m_connected
  input,        \* the connections that bytes in m_input came from
  other,        \* the descriptor of the rest of the process's file, or None
  fault,        \* "none", or what ended the process
  victims,      \* history: descriptors closed that were not the client's
  guilty,       \* history: the client took itself to be in order at the first
  mixed,        \* history: a packet was made of bytes of two connections
  unseen        \* history: connections made and reported as failed

client == <<sk, m_socket, connected, input>>
history == <<victims, guilty, mixed, unseen>>
vars == <<fds, peer, tries, client, other, fault, history>>

(* Connections: "refused" is a socket whose connect failed, "rst" one that *)
(* was reset and has the error still to report, "dead" one that has not,   *)
(* "taken" one whose error Send has had.                                   *)
TypeOK ==
  /\ fds \in [Fds -> {Free, Std, File} \cup Connections]
  /\ peer \in [Connections -> {"none", "refused", "up", "fin", "rst", "dead", "taken"}]
  /\ tries \in 0 .. MaxConnects
  /\ sk \in Fds \cup {None} /\ m_socket \in Fds \cup {None}
  /\ connected \in BOOLEAN /\ guilty \in BOOLEAN /\ mixed \in BOOLEAN
  /\ input \subseteq Connections /\ unseen \subseteq Connections
  /\ other \in Fds \cup {None}
  /\ fault \in {"none", "abort", "sigpipe"}
  /\ victims \subseteq Fds
  /\ m_socket # XInvalid
  /\ connected => m_socket # None

(* The constructor: sk is not initialised.                                 *)
Init ==
  /\ fds = [f \in Fds |-> IF f = 0 THEN Std ELSE Free]
  /\ peer = [n \in Connections |-> "none"]
  /\ tries = 0
  /\ sk \in Fds \cup {None} /\ m_socket = None
  /\ connected = FALSE /\ input = {}
  /\ other = None /\ fault = "none"
  /\ victims = {} /\ guilty = FALSE /\ mixed = FALSE /\ unseen = {}

Running == fault = "none"

FreeFds == {f \in Fds : fds[f] = Free}

(* socket(), open(): the lowest free descriptor.                           *)
Lowest == CHOOSE f \in FreeFds : \A g \in FreeFds : f <= g

OpenOn(f, n) == f \in Fds /\ fds[f] = n /\ n \in Connections

(* The client's two numbers agree and are those of a connection it has not *)
(* closed: as far as it knows.                                             *)
InOrder == connected /\ sk = m_socket
-----------------------------------------------------------------------------
(* Mutations of definitions below, used to validate the properties.        *)

\* Connect without m_input.clear().
TakenUncleared(f) ==
  /\ m_socket' = f
  /\ connected' = TRUE
  /\ UNCHANGED <<input, unseen>>

\* Connect without the test of the result; with one that is too wide.
NeverFailed(f) == FALSE
TakenBelowTwo(f) == f <= 1

\* Step ignores a negative result.
GiveUpIgnored == UNCHANGED <<fds, sk, m_socket, connected, victims, guilty>>

\* Disconnect without m_connected = false.
DisconnectedStillUp ==
  /\ fds' = IF sk \in Fds THEN [fds EXCEPT ![sk] = Free] ELSE fds
  /\ LET hit == sk \in Fds /\ fds[sk] \in {Std, File}
     IN  /\ victims' = IF hit THEN victims \cup {sk} ELSE victims
         /\ guilty' = IF hit /\ victims = {} THEN InOrder ELSE guilty
  /\ UNCHANGED <<connected, sk, m_socket>>

-----------------------------------------------------------------------------
(* Connect.                                                                *)

(* xnet_connect fails: no descriptor is free, or the target refuses, and   *)
(* then the socket is left open.  sk is set all the same.                  *)
ConnectRefused ==
  /\ Running
  /\ tries < MaxConnects
  /\ tries' = tries + 1
  /\ IF FreeFds = {} THEN UNCHANGED <<fds, peer>>
     ELSE /\ fds' = [fds EXCEPT ![Lowest] = tries + 1]
          /\ peer' = [peer EXCEPT ![tries + 1] = "refused"]
  /\ sk' = XInvalid
  /\ UNCHANGED <<m_socket, connected, input, other, fault, history>>

(* `sk != X_INVALID_SOCKET` does not hold for descriptor 0.                *)
TakenForFailure(f) == f = XInvalid

Taken(f) ==
  /\ m_socket' = f
  /\ input' = {}
  /\ connected' = TRUE
  /\ UNCHANGED unseen

Connect ==
  /\ Running
  /\ tries < MaxConnects
  /\ FreeFds # {}
  /\ tries' = tries + 1
  /\ fds' = [fds EXCEPT ![Lowest] = tries + 1]
  /\ peer' = [peer EXCEPT ![tries + 1] = "up"]
  /\ sk' = Lowest
  /\ IF TakenForFailure(Lowest)
     THEN unseen' = unseen \cup {tries + 1} /\ UNCHANGED <<m_socket, connected, input>>
     ELSE Taken(Lowest)
  /\ UNCHANGED <<other, fault, victims, guilty, mixed>>

(* Disconnect: close(sk), whatever that is by now.                         *)
Disconnected ==
  /\ connected' = FALSE
  /\ fds' = IF sk \in Fds THEN [fds EXCEPT ![sk] = Free] ELSE fds
  /\ LET hit == sk \in Fds /\ fds[sk] \in {Std, File}
     IN  /\ victims' = IF hit THEN victims \cup {sk} ELSE victims
         /\ guilty' = IF hit /\ victims = {} THEN InOrder ELSE guilty
  /\ UNCHANGED <<sk, m_socket>>

Disconnect ==
  /\ Running
  /\ Disconnected
  /\ UNCHANGED <<peer, tries, input, other, fault, mixed, unseen>>
-----------------------------------------------------------------------------
(* Step: select on m_socket, then recv.                                    *)

(* FD_SET(-1) writes outside the set; a build that checks this aborts.     *)
StepAborts ==
  /\ Running
  /\ m_socket = None
  /\ fault' = "abort"
  /\ UNCHANGED <<fds, peer, tries, client, other, history>>

(* select or recv fails: on no descriptor, a closed one, a file, a socket  *)
(* that is not connected, or one that was reset.                           *)
Fails(f) ==
  \/ f = None
  \/ f \in Fds /\ fds[f] \in {Free, Std, File}
  \/ \E n \in Connections : OpenOn(f, n) /\ peer[n] \in {"refused", "rst"}

(* recv reports the error of a reset once.                                 *)
StepFails ==
  /\ Running
  /\ Fails(m_socket)
  /\ peer' = [n \in Connections |->
                IF OpenOn(m_socket, n) /\ peer[n] = "rst" THEN "dead" ELSE peer[n]]
  /\ Disconnected
  /\ UNCHANGED <<tries, input, other, fault, mixed, unseen>>

(* Bytes arrive; they complete a packet or not, and bytes of another may   *)
(* follow.  (On a connection closed in order recv returns 0, which is no   *)
(* error and no data: Step does nothing.)                                  *)
StepReceives(n) ==
  /\ Running
  /\ OpenOn(m_socket, n)
  /\ peer[n] \in {"up", "fin"}
  /\ \/ input' = input \cup {n} /\ UNCHANGED mixed
     \/ /\ mixed' = (mixed \/ input \cup {n} # {n})
        /\ input' \in {{}, {n}}
  /\ UNCHANGED <<fds, peer, tries, sk, m_socket, connected, other, fault,
                 victims, guilty, unseen>>

(* Send does nothing unless connected.  The first send on a connection     *)
(* that was reset takes the error, and nobody calls Disconnect; the next   *)
(* one, and one on a socket never connected, raises SIGPIPE.               *)
Send(n) ==
  /\ Running
  /\ connected
  /\ OpenOn(sk, n)
  /\ \/ peer[n] = "rst" /\ peer' = [peer EXCEPT ![n] = "taken"] /\ UNCHANGED fault
     \/ peer[n] \in {"dead", "taken", "refused"} /\ fault' = "sigpipe" /\ UNCHANGED peer
  /\ UNCHANGED <<fds, tries, client, other, history>>
-----------------------------------------------------------------------------
(* The peer, and the rest of the process.                                  *)
PeerCloses(n) ==
  /\ Running
  /\ peer[n] = "up"
  /\ peer' = [peer EXCEPT ![n] = "fin"]
  /\ UNCHANGED <<fds, tries, client, other, fault, history>>

PeerResets(n) ==
  /\ Running
  /\ peer[n] \in {"up", "fin"}
  /\ peer' = [peer EXCEPT ![n] = IF peer[n] = "up" THEN "rst" ELSE "dead"]
  /\ UNCHANGED <<fds, tries, client, other, fault, history>>

OtherOpens ==
  /\ Running
  /\ other = None /\ FreeFds # {}
  /\ other' = Lowest
  /\ fds' = [fds EXCEPT ![Lowest] = File]
  /\ UNCHANGED <<peer, tries, client, fault, history>>

OtherCloses ==
  /\ Running
  /\ other # None
  /\ other' = None
  /\ fds' = [fds EXCEPT ![other] = Free]
  /\ UNCHANGED <<peer, tries, client, fault, history>>

Step == StepAborts \/ StepFails \/ \E n \in Connections : StepReceives(n)

Next ==
  \/ Connect \/ ConnectRefused \/ Disconnect
  \/ Step
  \/ \E n \in Connections : Send(n)
  \/ \E n \in Connections : PeerCloses(n)
  \/ \E n \in Connections : PeerResets(n)
  \/ OtherOpens \/ OtherCloses

Spec == Init /\ [][Next]_vars

(* The program's loop calls Step for ever (test_client_main.cpp:101-112).  *)
FairSpec == Spec /\ WF_vars(StepAborts \/ StepFails)
-----------------------------------------------------------------------------
(* A packet is made of the bytes of one connection, though one m_input     *)
(* serves all of them and a descriptor's number is used again.             *)
PacketsOfOne == ~mixed

(* The first descriptor the client takes from somebody else is one it had  *)
(* closed before or never had: it is not connected, or a failed Connect    *)
(* has set sk to 0 under a connection.                                     *)
FirstVictim == ~guilty

(* A connection that is made is reported as made, unless the client has    *)
(* closed standard input before.                                           *)
UnseenNeedsStdin == unseen # {} => 0 \in victims

(* A reset is noticed: Step takes the client offline, unless Send has had  *)
(* the error first or the client has connected anew.                       *)
ResetNoticed ==
  \A n \in Connections :
    connected /\ OpenOn(m_socket, n) /\ peer[n] = "rst"
      ~> ~connected \/ ~OpenOn(m_socket, n) \/ peer[n] = "taken" \/ ~Running
=============================================================================
