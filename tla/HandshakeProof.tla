--------------------------- MODULE HandshakeProof ---------------------------
(***************************************************************************)
(* The set-up handshake of module Handshake, for every set of clients, all *)
(* names and any number of datagrams in flight: each client gets one       *)
(* child, behind the port it is connected to, no port is left unserved,    *)
(* and the parent opens at most one socket more than it has clients.  The  *)
(* same for clients that first choose an address and may exit for want of  *)
(* one (module Setup), and their choice is right for addresses of any      *)
(* width and hosts with any interfaces.                                    *)
(***************************************************************************)
EXTENDS Setup, FiniteSetTheorems, SequenceTheorems, TLAPS

-----------------------------------------------------------------------------
(* The inductive invariant. *)

\* The contents of the filename buffer.
Files == Seq(STRING)

\* Everything but the number of sockets, which is what TypeOK adds.
Shape ==
  /\ ppc \in {"idle", "name", "ack", "acked"}
  /\ port \in Nat
  /\ filename \in Files
  /\ pcliaddr \in Clients \cup {NoClient}
  /\ sPipe \in Nat
  /\ children \subseteq [port : Nat, client : Clients, file : Files]
  /\ cpc \in [Clients -> {"name", "port", "gotport", "echo", "gotecho",
                         "transfer", "aborted"}]
  /\ conn \in [Clients -> Nat] /\ newPort \in [Clients -> Nat]
  /\ cPipe \in [Clients -> Nat]
  /\ toServer \subseteq [client : Clients, port : Nat, body : {"name", "ack", "request"}]
  /\ toClient \subseteq [client : Clients, port : Nat, number : Nat]
  /\ inbox \in [Clients -> SUBSET [client : Clients, port : Nat, number : Nat]]

\* The two alarms, which nothing else depends on.
Alarms == sArmed \in BOOLEAN /\ cArmed \in [Clients -> BOOLEAN]

\* What the server says: the listening socket hands out numbers of sockets
\* that are open, and a client that has not connected has heard no other.
AnswersOK ==
  /\ \A m \in toClient :
       m.port \in 0..port /\ (m.port = Listening => m.number \in 1..port)
  /\ \A c \in Clients : \A m \in inbox[c] :
       /\ m.client = c
       /\ m.port = Listening => m.number \in 1..port
       /\ conn[c] = Listening => m.port = Listening

\* A client connects once, to a socket that is open.
ConnOK ==
  \A c \in Clients :
    /\ cpc[c] \in {"name", "port", "gotport"} => conn[c] = Listening
    /\ cpc[c] = "gotport" => newPort[c] \in 1..port
    /\ conn[c] \in 0..port /\ newPort[c] \in 0..port

\* What a client sends past the listening socket goes to the port it is
\* connected to, so the sender of an ACK is connected to the socket it came by.
AcksOK ==
  /\ \A m \in toServer : m.port # Listening => m.port = conn[m.client]
  /\ ppc = "acked" => pcliaddr \in Clients /\ conn[pcliaddr] = port
  /\ ppc # "idle" => port > 0

\* The sockets are those of the children and, in a call of mydg_echo, the latest.
SocketsOK ==
  /\ \A k \in 1..port : (k = port /\ ppc # "idle") \/ \E x \in children : x.port = k
  /\ \A x \in children :
       /\ x.port \in 1..port /\ (ppc # "idle" => x.port # port)
       /\ conn[x.client] = x.port
  /\ \A x, y \in children : x.port = y.port => x = y

HInv == Shape /\ AnswersOK /\ ConnOK /\ AcksOK /\ SocketsOK

-----------------------------------------------------------------------------
(* Steps. *)

\* A datagram on the wire was there before, or is the one just sent.
LEMMA SentIn ==
  ASSUME NEW net, NEW m
  PROVE  Sent(net, m) \subseteq net \cup {m}
BY DEF Sent

\* The buffer holds a name and what a longer one left.
LEMMA ReceivedType ==
  ASSUME NEW old \in Files, NEW name \in Files
  PROVE  Received(old, name) \in Files
<1> USE DEF Files
<1>1. Len(name) \in Nat /\ Len(old) \in Nat
  BY LenProperties
<1>2. \A i \in (Len(name) + 1)..Len(old) : old[i] \in STRING
  BY <1>1, ElementOfSeq
<1>3. SubSeq(old, Len(name) + 1, Len(old)) \in Seq(STRING)
  BY <1>1, <1>2, SubSeqProperties
<1> QED BY <1>3, ConcatProperties DEF Received

\* The empty name is one.
LEMMA NoName == <<>> \in Files
BY DEF Files

\* The invariant holds at the start.
LEMMA InitHInv == Init => HInv
<1> SUFFICES ASSUME Init PROVE HInv
  OBVIOUS
<1>1. Shape
  BY NoName DEF Init, Shape, Listening
<1>2. AnswersOK /\ ConnOK /\ AcksOK /\ SocketsOK
  BY DEF Init, AnswersOK, ConnOK, AcksOK, SocketsOK, Listening
<1> QED BY <1>1, <1>2 DEF HInv

\* Each step of the server and of its children keeps the invariant.
LEMMA ServerStep ==
  HInv /\ Server => HInv'
<1> SUFFICES ASSUME HInv, Server PROVE HInv'
  OBVIOUS
<1> USE DEF HInv, Listening, clientVars
<1>1. CASE ServerAlarm
  <2>1. Shape'
    BY <1>1 DEF ServerAlarm, Shape
  <2>2. AnswersOK' /\ ConnOK' /\ AcksOK' /\ SocketsOK'
    BY <1>1 DEF ServerAlarm, Shape, AnswersOK, ConnOK, AcksOK, SocketsOK
  <2> QED BY <2>1, <2>2
<1>2. CASE ServerTimeout
  <2>1. Shape'
    BY <1>2 DEF ServerTimeout, Shape
  <2>2. AnswersOK' /\ ConnOK' /\ AcksOK' /\ SocketsOK'
    BY <1>2 DEF ServerTimeout, Shape, AnswersOK, ConnOK, AcksOK, SocketsOK
  <2> QED BY <2>1, <2>2
<1>3. CASE ServerFork
  <2> DEFINE new == [port |-> port, client |-> pcliaddr, file |-> filename]
  <2>0. new \in [port : Nat, client : Clients, file : Files]
    BY <1>3 DEF ServerFork, AcksOK, Shape
  <2>1. /\ children' = children \cup {new} /\ new.port = port /\ new.client = pcliaddr
        /\ pcliaddr \in Clients /\ conn[pcliaddr] = port /\ port > 0
        /\ ppc = "acked" /\ ppc' = "idle" /\ toServer' \subseteq toServer
        /\ UNCHANGED <<port, clientVars, toClient>>
    BY <1>3 DEF ServerFork, AcksOK, Shape
  <2> HIDE DEF new
  <2>2. Shape'
    BY <1>3, <2>0, <2>1 DEF ServerFork, Shape
  <2>3. AnswersOK' /\ ConnOK' /\ AcksOK'
    BY <2>1 DEF AnswersOK, ConnOK, AcksOK
  <2>4. SocketsOK'
    <3>1. \A k \in (1..port)' : \E x \in children' : x.port = k
      BY <2>1 DEF SocketsOK
    <3>2. \A x \in children' :
            x.port \in (1..port)' /\ conn[x.client]' = x.port
      BY <2>0, <2>1 DEF SocketsOK, Shape
    <3>3. \A x, y \in children' : x.port = y.port => x = y
      BY <2>1 DEF SocketsOK
    <3> QED BY <2>1, <3>1, <3>2, <3>3 DEF SocketsOK
  <2> QED BY <2>2, <2>3, <2>4
<1>4. ASSUME NEW m \in toServer, ServerReceiveName(m) PROVE HInv'
  <2> DEFINE new == ToClient(m.client, Listening, port')
  <2>1. /\ port' = (IF ppc = "idle" THEN port + 1 ELSE port) /\ port' \in Nat /\ port' > 0
        /\ ppc' = "ack" /\ ppc \in {"idle", "name"} /\ m.client \in Clients
        /\ toClient' \subseteq toClient \cup {new} /\ toServer' \subseteq toServer
        /\ UNCHANGED <<sPipe, children, clientVars>>
    BY <1>4, SentIn DEF ServerReceiveName, ConnectionPort, AcksOK, Shape
  <2>2. /\ new \in [client : Clients, port : Nat, number : Nat]
        /\ new.port = Listening /\ new.number = port'
    BY <2>1 DEF ToClient
  <2>3. port <= port' /\ port \in Nat
    BY <2>1 DEF Shape
  <2> HIDE DEF new
  <2>4. Shape'
    <3>1. filename' \in Files
      <4>1. PICK old \in {filename, <<>>} : filename' = Received(old, Name[m.client])
        BY <1>4 DEF ServerReceiveName
      <4>2. Name[m.client] \in Files
        BY <2>1, HandshakeAssumption DEF Files
      <4>3. old \in Files
        BY NoName DEF Shape
      <4> QED BY <4>1, <4>2, <4>3, ReceivedType
    <3> QED BY <1>4, <2>1, <2>2, <3>1 DEF ServerReceiveName, Shape
  <2>5. AnswersOK'
    BY <2>1, <2>2, <2>3 DEF AnswersOK
  <2>6. ConnOK' /\ AcksOK'
    BY <2>1, <2>3 DEF ConnOK, AcksOK
  <2>7. SocketsOK'
    BY <2>1, <2>3 DEF SocketsOK
  <2> QED BY <2>4, <2>5, <2>6, <2>7
<1>5. ASSUME NEW m \in toServer, ServerReceiveAck(m) PROVE HInv'
  BY <1>5, SentIn DEF ServerReceiveAck, ToClient, Shape, AnswersOK, ConnOK, AcksOK, SocketsOK
<1> QED BY <1>1, <1>2, <1>3, <1>4, <1>5 DEF Server

\* Each step of a client keeps the invariant.
LEMMA ClientStep ==
  ASSUME NEW c \in Clients
  PROVE  HInv /\ Client(c) => HInv'
<1> SUFFICES ASSUME HInv, Client(c) PROVE HInv'
  OBVIOUS
<1> USE DEF HInv, Listening, serverVars, clientVars
<1>1. CASE SendName(c)
  BY <1>1, SentIn DEF SendName, ToServer, Shape, AnswersOK, ConnOK, AcksOK, SocketsOK
<1>2. CASE ClientAlarm(c) \/ PortTimeout(c)
  <2>1. Shape'
    BY <1>2 DEF ClientAlarm, PortTimeout, Shape
  <2>2. AnswersOK' /\ ConnOK' /\ AcksOK' /\ SocketsOK'
    BY <1>2 DEF ClientAlarm, PortTimeout, Shape, AnswersOK, ConnOK, AcksOK, SocketsOK
  <2> QED BY <2>1, <2>2
<1>3. CASE SendAck(c)
  BY <1>3, SentIn DEF SendAck, ToServer, Shape, AnswersOK, ConnOK, AcksOK, SocketsOK
<1>4. CASE EchoTimeout(c) \/ StartTransfer(c)
  <2>1. Shape'
    BY <1>4 DEF EchoTimeout, StartTransfer, Shape
  <2>2. AnswersOK' /\ ConnOK' /\ AcksOK' /\ SocketsOK'
    BY <1>4 DEF EchoTimeout, StartTransfer, Shape, AnswersOK, ConnOK, AcksOK, SocketsOK
  <2> QED BY <2>1, <2>2
<1>5. CASE SendRequest(c)
  BY <1>5, SentIn DEF SendRequest, ToServer, Shape, AnswersOK, ConnOK, AcksOK, SocketsOK
<1>6. ASSUME NEW m \in toClient, Deliver(c, m) PROVE HInv'
  BY <1>6 DEF Deliver, Shape, AnswersOK, ConnOK, AcksOK, SocketsOK
<1>7. ASSUME NEW m \in inbox[c], ReceivePort(c, m) \/ ReceiveEcho(c, m) PROVE HInv'
  BY <1>7 DEF ReceivePort, ReceiveEcho, Shape, AnswersOK, ConnOK, AcksOK, SocketsOK
<1> QED BY <1>1, <1>2, <1>3, <1>4, <1>5, <1>6, <1>7 DEF Client

\* Each step keeps the invariant.
LEMMA NextHInv == HInv /\ [Next]_vars => HInv'
<1> SUFFICES ASSUME HInv, [Next]_vars PROVE HInv'
  OBVIOUS
<1>1. CASE Network
  BY <1>1 DEF Network, Lose, HInv, serverVars, clientVars, Shape, AnswersOK, ConnOK,
         AcksOK, SocketsOK
<1>2. CASE UNCHANGED vars
  BY <1>2 DEF vars, HInv, serverVars, clientVars, Shape, AnswersOK, ConnOK, AcksOK, SocketsOK
<1> QED BY <1>1, <1>2, ServerStep, ClientStep DEF Next

\* Each step leaves the alarms on or off.
LEMMA NextAlarms == Alarms /\ [Next]_vars => Alarms'
<1> SUFFICES ASSUME Alarms, [Next]_vars PROVE Alarms'
  OBVIOUS
<1> USE DEF Alarms, serverVars, clientVars
<1>1. ASSUME NEW c \in Clients, Client(c) PROVE Alarms'
  BY <1>1 DEF Client, SendName, ClientAlarm, PortTimeout, SendAck, EchoTimeout,
         StartTransfer, SendRequest, Deliver, ReceivePort, ReceiveEcho
<1>2. CASE Server
  BY <1>2 DEF Server, ServerAlarm, ServerTimeout, ServerFork, ServerReceiveName,
         ServerReceiveAck
<1>3. CASE Network \/ UNCHANGED vars
  BY <1>3 DEF Network, vars
<1> QED BY <1>1, <1>2, <1>3 DEF Next

\* The alarms of the clients are on or off in every reachable state.
LEMMA AlarmsTyped == Spec => []Alarms
<1>1. Init => Alarms
  BY DEF Init, Alarms
<1> QED BY <1>1, NextAlarms, PTL DEF Spec

\* A child is behind the port its client is connected to, so a client has one.
LEMMA HInvOneChild == HInv => OneChildPerClient
BY DEF HInv, Shape, SocketsOK, OneChildPerClient

\* A client that has connected is connected to an open socket.
LEMMA HInvServed == HInv => PortIsServed
<1> SUFFICES ASSUME HInv, NEW c \in Clients, conn[c] # Listening
             PROVE  \/ conn[c] = port /\ ppc # "idle"
                    \/ \E x \in children : x.port = conn[c]
  BY DEF PortIsServed
<1>1. conn[c] \in 1..port
  BY DEF HInv, Shape, ConnOK, Listening
<1> QED BY <1>1 DEF HInv, SocketsOK

\* The children's ports are 1 to n and their clients are different, so there are
\* at most as many as clients, and one more socket.
LEMMA FewSockets == HInv => port <= Cardinality(Clients) + 1
<1> SUFFICES ASSUME HInv PROVE port <= Cardinality(Clients) + 1
  OBVIOUS
<1> DEFINE n == IF ppc = "idle" THEN port ELSE port - 1
           f == [k \in 1..n |-> (CHOOSE x \in children : x.port = k).client]
<1>1. n \in Nat /\ port \in Nat /\ port <= n + 1
  BY DEF HInv, Shape, AcksOK
<1>2. \A k \in 1..n : k \in 1..port /\ \E x \in children : x.port = k
  BY <1>1 DEF HInv, SocketsOK
<1>3. \A k \in 1..n : f[k] \in Clients /\ conn[f[k]] = k
  <2> SUFFICES ASSUME NEW k \in 1..n PROVE f[k] \in Clients /\ conn[f[k]] = k
    OBVIOUS
  <2> DEFINE x == CHOOSE y \in children : y.port = k
  <2>1. x \in children /\ x.port = k
    BY <1>2
  <2>2. f[k] = x.client
    OBVIOUS
  <2> HIDE DEF x, f
  <2> QED BY <2>1, <2>2 DEF HInv, Shape, SocketsOK
<1> HIDE DEF n
<1>4. f \in Injection(1..n, Clients)
  <2>1. f \in [1..n -> Clients]
    BY <1>3
  <2>2. \A j, k \in 1..n : f[j] = f[k] => j = k
    BY <1>3
  <2> HIDE DEF f
  <2> QED BY <2>1, <2>2 DEF Injection, IsInjective
<1> HIDE DEF f
<1>5. Cardinality(1..n) <= Cardinality(Clients)
  BY <1>4, FS_Injection, HandshakeAssumption
<1>6. Cardinality(1..n) = n /\ Cardinality(Clients) \in Nat
  BY <1>1, FS_Interval, FS_CardinalityType, HandshakeAssumption
<1> QED BY <1>1, <1>5, <1>6

\* The types, with the bound on the number of sockets.
LEMMA HInvTypes == HInv /\ Alarms => TypeOK
<1> SUFFICES ASSUME HInv, Alarms PROVE TypeOK
  OBVIOUS
<1>1. port \in Nat /\ Cardinality(Clients) \in Nat
  BY FS_CardinalityType, HandshakeAssumption DEF HInv, Shape
<1>2. \A p \in 0..port : p \in Ports
  BY <1>1, FewSockets DEF Ports
<1>3. port \in Ports
  BY <1>1, <1>2
<1>4. conn \in [Clients -> Ports] /\ newPort \in [Clients -> Ports]
  BY <1>2 DEF HInv, Shape, ConnOK
<1>5. \A x \in children : x.port \in Ports /\ x.client \in Clients
  BY <1>2 DEF HInv, Shape, SocketsOK
<1>6. \A m \in toServer : m.client \in Clients /\ m.port \in Ports
  BY <1>1, <1>2, <1>4 DEF HInv, Shape, AcksOK, Listening
<1>7. \A m \in toClient : m.client \in Clients /\ m.port \in Ports
  BY <1>2 DEF HInv, Shape, AnswersOK
<1>8. \A c \in Clients : \A m \in inbox[c] : m.client = c
  BY DEF HInv, AnswersOK
<1> QED BY <1>3, <1>4, <1>5, <1>6, <1>7, <1>8 DEF TypeOK, HInv, Shape, Alarms

-----------------------------------------------------------------------------
(* Theorems. *)

\* The invariant of the set-up: how the server's children, their ports and the
\* clients that know of them belong together (udpserv.c, udpcli.c).
THEOREM HandshakeInvariant == Spec => []HInv
BY InitHInv, NextHInv, PTL DEF Spec

\* OneChildPerClient, for any number of clients: a name that is sent again, and
\* an ACK that is any datagram, never give a client a second child, nor one
\* behind another port.
THEOREM OneChild == Spec => []OneChildPerClient
BY HInvOneChild, HandshakeInvariant, PTL

\* PortIsServed: a client is never connected to a socket the parent has given
\* up.
THEOREM NoPortAbandoned == Spec => []PortIsServed
BY HInvServed, HandshakeInvariant, PTL

\* TypeOK, with its bound: the parent, which never closes a connection socket,
\* opens at most one more than it has clients.
THEOREM TypeCorrect == Spec => []TypeOK
BY HInvTypes, HandshakeInvariant, AlarmsTyped, PTL

-----------------------------------------------------------------------------
(* With the choice of an address before it. *)

\* A client that chooses, connects its socket or exits changes nothing of the
\* handshake but its own state.
LEMMA PrepareStep ==
  ASSUME NEW c \in Clients
  PROVE  /\ HInv /\ Prepare(c) => HInv'
         /\ Alarms /\ Prepare(c) => Alarms'
<1>1. ASSUME Prepare(c)
      PROVE  /\ UNCHANGED <<serverVars, conn, newPort, cArmed, cPipe, inbox, toServer, toClient>>
             /\ cpc' = cpc \/ cpc' = [cpc EXCEPT ![c] = "aborted"]
  BY <1>1 DEF Prepare, Choose, BindAndConnect, BindFails, vars, clientVars
<1>2. ASSUME HInv, Prepare(c) PROVE HInv'
  <2>1. Shape'
    BY <1>1, <1>2 DEF HInv, Shape, serverVars
  <2>2. AnswersOK' /\ AcksOK' /\ SocketsOK'
    BY <1>1, <1>2 DEF HInv, AnswersOK, AcksOK, SocketsOK, serverVars
  <2>3. ConnOK'
    <3>1. \A x \in Clients : cpc'[x] = cpc[x] \/ cpc'[x] = "aborted"
      BY <1>1, <1>2 DEF HInv, Shape
    <3> QED BY <1>1, <1>2, <3>1 DEF HInv, ConnOK, serverVars
  <2> QED BY <2>1, <2>2, <2>3 DEF HInv
<1>3. ASSUME Alarms, Prepare(c) PROVE Alarms'
  BY <1>1, <1>3 DEF Alarms, serverVars
<1> QED BY <1>2, <1>3

\* What holds of a client that has its address at once holds of one that has to
\* choose it: the steps of the two specifications keep the same invariant.
THEOREM SetupInvariant == SetupSpec => [](HInv /\ Alarms)
<1>1. SetupInit => HInv /\ Alarms
  BY InitHInv DEF SetupInit, Init, Alarms
<1>2. HInv /\ Alarms /\ [SetupNext]_<<vars, setupVars>> => HInv' /\ Alarms'
  <2> SUFFICES ASSUME HInv, Alarms, [SetupNext]_<<vars, setupVars>>
               PROVE  HInv' /\ Alarms'
    OBVIOUS
  <2>1. CASE [Next]_vars
    BY <2>1, NextHInv, NextAlarms
  <2>2. ASSUME NEW c \in Clients, Prepare(c) PROVE HInv' /\ Alarms'
    BY <2>2, PrepareStep
  <2> QED BY <2>1, <2>2 DEF SetupNext, Next
<1> QED BY <1>1, <1>2, PTL DEF SetupSpec

\* The same of clients that choose an address, connect their socket and may exit
\* before the handshake: one child for each at most, no port left unserved, and
\* no more sockets than the bound of TypeOK allows.
THEOREM SetupSafe == SetupSpec => [](TypeOK /\ OneChildPerClient /\ PortIsServed)
<1>1. HInv /\ Alarms => TypeOK /\ OneChildPerClient /\ PortIsServed
  BY HInvTypes, HInvOneChild, HInvServed
<1> QED BY <1>1, SetupInvariant, PTL

-----------------------------------------------------------------------------
(* The choice itself: what the loops over bits and interfaces compute. *)

\* A non-empty set of naturals has a least element.
LEMMA LeastNumber ==
  ASSUME NEW T \in SUBSET Nat, T # {}
  PROVE  \E x \in T : \A y \in T : x <= y
<1>1. PICK x \in T : \A y \in T : ~ (<<y, x>> \in OpToRel(<, Nat))
  BY WFMin, NatLessThanWellFounded
<1>2. ASSUME NEW y \in T PROVE x <= y
  <2>1. x \in Nat /\ y \in Nat
    OBVIOUS
  <2>2. <<y, x>> \in OpToRel(<, Nat) <=> y < x
    BY <2>1 DEF OpToRel
  <2>3. ~(y < x)
    BY <1>1, <2>2
  <2> QED BY <2>1, <2>3
<1> QED BY <1>2

\* Powers of two count the subsets of an interval.
LEMMA PowerCounts ==
  ASSUME NEW n \in Nat
  PROVE  /\ IsFiniteSet(SUBSET (1..n)) /\ Cardinality(SUBSET (1..n)) = 2^n
         /\ 2^n \in Nat \ {0}
<1>1. IsFiniteSet(1..n) /\ Cardinality(1..n) = n
  BY FS_Interval
<1>2. IsFiniteSet(SUBSET (1..n)) /\ Cardinality(SUBSET (1..n)) = 2^n
  BY <1>1, FS_SUBSET
<1>3. SUBSET (1..n) # {}
  OBVIOUS
<1>4. Cardinality(SUBSET (1..n)) # 0
  BY <1>2, <1>3, FS_EmptySet
<1>5. Cardinality(SUBSET (1..n)) \in Nat
  BY <1>2, FS_CardinalityType
<1> QED BY <1>2, <1>4, <1>5

\* A subset of 1..n+1 is one of 1..n, or one of those with n+1 added.
LEMMA PowerNext ==
  ASSUME NEW n \in Nat
  PROVE  2^(n + 1) = 2 * 2^n
<1> DEFINE A == SUBSET (1..n)
           f == [s \in A |-> s \cup {n + 1}]
           B == {s \cup {n + 1} : s \in A}
<1>1. /\ IsFiniteSet(A) /\ Cardinality(A) = 2^n /\ 2^n \in Nat
      /\ Cardinality(SUBSET (1..(n + 1))) = 2^(n + 1) /\ Cardinality({}) = 0
  <2>1. n + 1 \in Nat
    OBVIOUS
  <2>2. /\ IsFiniteSet(A) /\ Cardinality(A) = 2^n /\ 2^n \in Nat
    BY PowerCounts
  <2>3. Cardinality(SUBSET (1..(n + 1))) = 2^(n + 1)
    BY <2>1, PowerCounts
  <2> QED BY <2>2, <2>3, FS_EmptySet
<1>2. \A s \in A : n + 1 \notin s
  OBVIOUS
<1>3. SUBSET (1..(n + 1)) = A \cup B
  <2>1. ASSUME NEW s \in SUBSET (1..(n + 1)) PROVE s \in A \cup B
    <3>1. s \ {n + 1} \in A
      OBVIOUS
    <3>2. CASE n + 1 \in s
      <4>1. s = (s \ {n + 1}) \cup {n + 1}
        BY <3>2
      <4> QED BY <3>1, <4>1
    <3>3. CASE n + 1 \notin s
      <4>1. s = s \ {n + 1}
        BY <3>3
      <4> QED BY <3>1, <4>1
    <3> QED BY <3>2, <3>3
  <2>2. ASSUME NEW s \in A PROVE s \in SUBSET (1..(n + 1)) /\ s \cup {n + 1} \in SUBSET (1..(n + 1))
    OBVIOUS
  <2>3. \A s \in B : s \in SUBSET (1..(n + 1))
    BY <2>2
  <2> HIDE DEF A, B
  <2> QED BY <2>1, <2>2, <2>3
<1>4. A \cap B = {}
  BY <1>2
<1>5. f \in Bijection(A, B)
  <2>1. f \in [A -> B]
    OBVIOUS
  <2>2. \A s, t \in A : f[s] = f[t] => s = t
    BY <1>2
  <2>3. \A y \in B : \E s \in A : f[s] = y
    OBVIOUS
  <2> HIDE DEF f, A, B
  <2> QED BY <2>1, <2>2, <2>3 DEF Bijection, Injection, Surjection, IsInjective
<1> HIDE DEF A, B, f
<1>6. IsFiniteSet(B) /\ Cardinality(B) = Cardinality(A)
  BY <1>1, <1>5, FS_Bijection DEF ExistsBijection
<1>7. Cardinality(A \cup B) = Cardinality(A) + Cardinality(B) - Cardinality({})
  BY <1>1, <1>4, <1>6, FS_Union
<1>8. Cardinality(A \cup B) = 2^(n + 1) /\ Cardinality(A) = 2^n /\ Cardinality(B) = 2^n
  BY <1>1, <1>3, <1>6 DEF A
<1>9. 2^(n + 1) = 2^n + 2^n - 0
  BY <1>1, <1>7, <1>8
<1>10. \A x \in Nat : x + x - 0 = 2 * x
  OBVIOUS
<1> QED BY <1>1, <1>9, <1>10

\* 2^(a + d) is a product.
LEMMA PowerSum ==
  ASSUME NEW a \in Nat
  PROVE  \A d \in Nat : 2^(a + d) = 2^a * 2^d
<1> DEFINE T == {d \in Nat : 2^(a + d) # 2^a * 2^d}
<1>1. SUFFICES ASSUME T # {} PROVE FALSE
  OBVIOUS
<1>2. PICK d \in T : \A y \in T : d <= y
  BY <1>1, LeastNumber
<1>3. 2^a \in Nat
  BY PowerCounts
<1>4. d # 0
  <2>1. 2^(a + 0) = 2^a /\ 2^0 = 1
    OBVIOUS
  <2>2. 2^(a + 0) = 2^a * 2^0
    BY <1>3, <2>1
  <2> QED BY <1>2, <2>2
<1>5. d - 1 \in Nat /\ d - 1 \notin T
  BY <1>2, <1>4
<1>6. 2^(a + (d - 1)) = 2^a * 2^(d - 1) /\ 2^(d - 1) \in Nat
  BY <1>5, PowerCounts
<1>7. 2^((a + (d - 1)) + 1) = 2 * 2^(a + (d - 1)) /\ 2^((d - 1) + 1) = 2 * 2^(d - 1)
  BY <1>5, PowerNext
<1>8. (a + (d - 1)) + 1 = a + d /\ (d - 1) + 1 = d
  OBVIOUS
<1>9. \A x, y \in Nat : 2 * (x * y) = x * (2 * y)
  OBVIOUS
<1> QED BY <1>3, <1>6, <1>7, <1>8, <1>9

\* A larger exponent gives no smaller power.
LEMMA PowerMonotone ==
  ASSUME NEW a \in Nat, NEW b \in Nat, a <= b
  PROVE  2^a <= 2^b
<1>1. b - a \in Nat /\ a + (b - a) = b
  OBVIOUS
<1>2. 2^b = 2^a * 2^(b - a)
  BY <1>1, PowerSum
<1>3. 2^a \in Nat /\ 2^(b - a) \in Nat \ {0}
  BY <1>1, PowerCounts
<1>4. \A x \in Nat : \A y \in Nat \ {0} : x <= x * y
  OBVIOUS
<1> QED BY <1>2, <1>3, <1>4

\* Division by P, with remainder r.
LEMMA Quotient ==
  ASSUME NEW P \in Nat \ {0}, NEW q \in Nat, NEW r \in 0..(P - 1)
  PROVE  (P * q + r) \div P = q
OBVIOUS

\* Division by 2P is division by P, then by 2.
LEMMA HalfQuotient ==
  ASSUME NEW x \in Nat, NEW P \in Nat \ {0}
  PROVE  x \div P \in Nat /\ x \div (2 * P) = (x \div P) \div 2
OBVIOUS

\* Numbers are equal when their halves and last bits are.
LEMMA Halves ==
  ASSUME NEW x \in Nat, NEW y \in Nat
  PROVE  x = y <=> (x \div 2) = (y \div 2) /\ (x % 2) = (y % 2)
OBVIOUS

\* Division by something larger.
LEMMA NoQuotient ==
  ASSUME NEW P \in Nat \ {0}, NEW x \in 0..(P - 1)
  PROVE  x \div P = 0
OBVIOUS

\* Two addresses share m leading bits when they are on the same network of m bits.
LEMMA PrefixIsQuotient ==
  ASSUME NEW a \in Addresses, NEW b \in Addresses
  PROVE  \A m \in 0..Width :
           (\A j \in 0..(m - 1) : get_bit(a, j) = get_bit(b, j))
             <=> a \div 2^(Width - m) = b \div 2^(Width - m)
<1> DEFINE Same(m) == \A j \in 0..(m - 1) : get_bit(a, j) = get_bit(b, j)
           Equal(m) == a \div 2^(Width - m) = b \div 2^(Width - m)
           T == {m \in 0..Width : ~(Same(m) <=> Equal(m))}
<1>1. SUFFICES ASSUME T # {} PROVE FALSE
  OBVIOUS
<1>2. Width \in Nat /\ a \in Nat /\ b \in Nat /\ 2^Width \in Nat \ {0}
      /\ a \in 0..(2^Width - 1) /\ b \in 0..(2^Width - 1)
  <2>1. Width \in Nat
    BY SubnetAssumption
  <2>2. 2^Width \in Nat \ {0}
    BY <2>1, PowerCounts
  <2> QED BY <2>1, <2>2 DEF Addresses
<1>3. PICK m \in T : \A y \in T : m <= y
  <2>1. T \in SUBSET Nat
    BY <1>2
  <2> HIDE DEF T
  <2> QED BY <1>1, <2>1, LeastNumber
<1>4. m # 0
  <2>1. Same(0)
    OBVIOUS
  <2>2. Width - 0 = Width
    BY <1>2
  <2>3. a \div 2^Width = 0 /\ b \div 2^Width = 0
    BY <1>2, NoQuotient
  <2>4. Equal(0)
    BY <2>2, <2>3
  <2> HIDE DEF Same, Equal
  <2> QED BY <1>3, <2>1, <2>4
<1> DEFINE k == m - 1
           P == 2^(Width - m)
<1>5. k \in 0..Width /\ k \notin T /\ m \in 1..Width
  <2>1. k \in 0..Width /\ k < m /\ m \in 1..Width
    BY <1>2, <1>3, <1>4
  <2> HIDE DEF k
  <2> QED BY <1>3, <2>1
<1>6. Same(k) <=> Equal(k)
  <2> HIDE DEF Same, Equal, k
  <2> QED BY <1>5
<1>7. Width - m \in Nat /\ P \in Nat \ {0} /\ Width - k = (Width - m) + 1
  <2>1. Width - m \in Nat /\ Width - k = (Width - m) + 1
    BY <1>2, <1>5
  <2> QED BY <2>1, PowerCounts
<1>8. 2^(Width - k) = 2 * P
  BY <1>7, PowerNext
<1>9. Same(m) <=> Same(k) /\ get_bit(a, k) = get_bit(b, k)
  BY <1>5
<1>10. Width - 1 - k = Width - m
  BY <1>2, <1>5
<1>11. get_bit(a, k) = (a \div P) % 2 /\ get_bit(b, k) = (b \div P) % 2
  BY <1>10 DEF get_bit
<1> HIDE DEF P, k
<1>12. /\ a \div P \in Nat /\ a \div (2 * P) = (a \div P) \div 2
       /\ b \div P \in Nat /\ b \div (2 * P) = (b \div P) \div 2
  BY <1>2, <1>7, HalfQuotient
<1>13. a \div P = b \div P
         <=> (a \div P) \div 2 = (b \div P) \div 2 /\ (a \div P) % 2 = (b \div P) % 2
  BY <1>12, Halves
<1>14. Equal(m) <=> Equal(k) /\ get_bit(a, k) = get_bit(b, k)
  <2>1. Equal(k) <=> (a \div P) \div 2 = (b \div P) \div 2
    BY <1>8, <1>12
  <2>2. Equal(m) <=> a \div P = b \div P
    BY DEF P
  <2> HIDE DEF Equal
  <2> QED BY <1>11, <1>13, <2>1, <2>2
<1> HIDE DEF Same, Equal
<1> QED BY <1>3, <1>6, <1>9, <1>14

\* getLongest is the number of bits before the first that differs.
LEMMA LongestIs ==
  ASSUME NEW a \in Addresses, NEW b \in Addresses
  PROVE  LET g == getLongest(a, b)
         IN  /\ g \in 0..Width
             /\ \A j \in 0..(g - 1) : get_bit(a, j) = get_bit(b, j)
             /\ g < Width => get_bit(a, g) # get_bit(b, g)
<1> DEFINE T == {i \in 0..(Width - 1) : get_bit(a, i) # get_bit(b, i)}
           Is(i) == /\ \A j \in 0..(i - 1) : get_bit(a, j) = get_bit(b, j)
                    /\ i < Width => get_bit(a, i) # get_bit(b, i)
<1>1. Width \in Nat
  BY SubnetAssumption
<1>2. \E i \in 0..Width : Is(i)
  <2>1. CASE T = {}
    <3>1. \A j \in 0..(Width - 1) : get_bit(a, j) = get_bit(b, j)
      BY <2>1
    <3> QED BY <1>1, <3>1
  <2>2. CASE T # {}
    <3>1. T \in SUBSET Nat
      BY <1>1
    <3>2. PICK i \in T : \A y \in T : i <= y
      <4> HIDE DEF T
      <4> QED BY <2>2, <3>1, LeastNumber
    <3>3. i \in 0..(Width - 1) /\ get_bit(a, i) # get_bit(b, i)
      OBVIOUS
    <3>4. ASSUME NEW j \in 0..(i - 1) PROVE get_bit(a, j) = get_bit(b, j)
      <4>1. j \in 0..(Width - 1) /\ ~(i <= j)
        BY <1>1, <3>3
      <4> QED BY <3>2, <4>1
    <3> QED BY <1>1, <3>3, <3>4
  <2> QED BY <2>1, <2>2
<1>3. getLongest(a, b) = CHOOSE i \in 0..Width : Is(i)
  BY DEF getLongest
<1> DEFINE g == getLongest(a, b)
<1>4. g \in 0..Width /\ Is(g)
  <2> HIDE DEF Is
  <2> QED BY <1>2, <1>3
<1> QED BY <1>4

\* Addresses share m bits or more when they are on the same network of m bits.
LEMMA LongestPrefix ==
  ASSUME NEW a \in Addresses, NEW b \in Addresses, NEW m \in 0..Width
  PROVE  /\ getLongest(a, b) \in 0..Width
         /\ getLongest(a, b) >= m <=> a \div 2^(Width - m) = b \div 2^(Width - m)
<1> DEFINE g == getLongest(a, b)
<1>1. /\ Width \in Nat /\ g \in 0..Width
      /\ \A j \in 0..(g - 1) : get_bit(a, j) = get_bit(b, j)
      /\ g < Width => get_bit(a, g) # get_bit(b, g)
  BY LongestIs, SubnetAssumption
<1> HIDE DEF g
<1>2. CASE g >= m
  <2>1. \A j \in 0..(m - 1) : j \in 0..(g - 1)
    BY <1>1, <1>2
  <2>2. \A j \in 0..(m - 1) : get_bit(a, j) = get_bit(b, j)
    BY <1>1, <2>1
  <2> QED BY <1>1, <1>2, <2>2, PrefixIsQuotient DEF g
<1>3. CASE ~(g >= m)
  <2>1. g \in 0..(m - 1) /\ g < Width
    BY <1>1, <1>3
  <2>2. ~(\A j \in 0..(m - 1) : get_bit(a, j) = get_bit(b, j))
    BY <1>1, <2>1
  <2> QED BY <1>1, <1>3, <2>2, PrefixIsQuotient DEF g
<1> QED BY <1>2, <1>3

\* Only equal addresses share all bits.
LEMMA LongestAll ==
  ASSUME NEW a \in Addresses, NEW b \in Addresses
  PROVE  getLongest(a, b) = Width <=> a = b
<1>1. Width \in Nat /\ Width - Width = 0 /\ Width \in 0..Width
  BY SubnetAssumption
<1>2. a \in Nat /\ b \in Nat
  <2>1. 2^Width \in Nat
    BY <1>1, PowerCounts
  <2> QED BY <2>1 DEF Addresses
<1>3. 2^0 = 1 /\ a \div 1 = a /\ b \div 1 = b
  BY <1>2
<1>4. getLongest(a, b) \in 0..Width
  BY <1>1, LongestPrefix
<1>5. getLongest(a, b) >= Width <=> a \div 2^(Width - Width) = b \div 2^(Width - Width)
  BY <1>1, LongestPrefix
<1> QED BY <1>1, <1>3, <1>4, <1>5

\* The bits of a mask: ones, then k zeros.
LEMMA MaskBit ==
  ASSUME NEW k \in 0..Width, NEW j \in 0..(Width - 1)
  PROVE  get_bit(2^Width - 2^k, j) = 1 <=> j < Width - k
<1> DEFINE p == Width - 1 - j
           P == 2^p
           M == 2^Width - 2^k
<1>1. Width \in Nat /\ k \in Nat /\ p \in Nat /\ p < Width
  BY SubnetAssumption
<1>2. P \in Nat \ {0} /\ 2^Width \in Nat /\ 2^k \in Nat \ {0}
  BY <1>1, PowerCounts
<1>3. get_bit(M, j) = (M \div P) % 2
  BY DEF get_bit
<1> HIDE DEF P, M
<1>4. CASE p >= k
  <2> DEFINE Q == 2^(Width - p - 1)
             K == 2^k
  <2>1. Width - p - 1 \in Nat /\ (Width - p - 1) + 1 = Width - p
    BY <1>1
  <2>2. Q \in Nat \ {0} /\ 2^(Width - p) = 2 * Q
    BY <2>1, PowerCounts, PowerNext
  <2>3. 2^Width = P * (2 * Q)
    <3>1. Width - p \in Nat /\ p + (Width - p) = Width
      BY <1>1
    <3> QED BY <1>1, <2>2, <3>1, PowerSum DEF P
  <2>4. K \in 1..P
    BY <1>1, <1>2, <1>4, PowerMonotone DEF P
  <2>5. M = P * (2 * Q) - K
    BY <2>3 DEF M
  <2> HIDE DEF Q, K
  <2>6. M = P * (2 * Q - 1) + (P - K) /\ 2 * Q - 1 \in Nat /\ P - K \in 0..(P - 1)
    <3>1. \A x \in Nat : \A y \in Nat : x * (2 * y) = x * (2 * y - 1) + x
      OBVIOUS
    <3>2. P * (2 * Q - 1) \in Int /\ P * (2 * Q) \in Int
      BY <1>2, <2>2
    <3> QED BY <1>2, <2>2, <2>4, <2>5, <3>1, <3>2
  <2>7. M \div P = 2 * Q - 1
    BY <1>2, <2>6, Quotient
  <2>8. \A x \in Nat \ {0} : (2 * x - 1) % 2 = 1
    OBVIOUS
  <2>9. j < Width - k
    BY <1>1, <1>4
  <2> QED BY <1>3, <2>2, <2>7, <2>8, <2>9 DEF M
<1>5. CASE p < k
  <2> DEFINE R == 2^(k - p - 1)
             S == 2^(Width - p - 1)
  <2>1. k - p - 1 \in Nat /\ Width - p - 1 \in Nat /\ k - p - 1 <= Width - p - 1 /\ p + 1 \in Nat
        /\ (p + 1) + (k - p - 1) = k /\ (p + 1) + (Width - p - 1) = Width
    BY <1>1, <1>5
  <2>2. R \in Nat /\ S \in Nat /\ R <= S
    BY <2>1, PowerCounts, PowerMonotone
  <2>3. 2^(p + 1) = 2 * P
    BY <1>1, PowerNext DEF P
  <2>4. 2^k = (2 * P) * R /\ 2^Width = (2 * P) * S
    BY <2>1, <2>3, PowerSum
  <2> HIDE DEF R, S
  <2>5. M = P * (2 * (S - R)) + 0
    <3>1. \A x, y, z \in Nat : (2 * x) * y - (2 * x) * z = x * (2 * (y - z)) + 0
      OBVIOUS
    <3> QED BY <1>2, <2>2, <2>4, <3>1 DEF M
  <2>6. 2 * (S - R) \in Nat /\ 0 \in 0..(P - 1) /\ (2 * (S - R)) % 2 = 0
    BY <1>2, <2>2
  <2>7. M \div P = 2 * (S - R)
    BY <1>2, <2>5, <2>6, Quotient
  <2>8. ~(j < Width - k)
    BY <1>1, <1>5
  <2> QED BY <1>3, <2>6, <2>7, <2>8 DEF M
<1> QED BY <1>1, <1>4, <1>5

\* getNetworkMaskNum counts the ones of a mask.
LEMMA MaskNumber ==
  ASSUME NEW k \in 0..Width
  PROVE  getNetworkMaskNum(2^Width - 2^k) = Width - k
<1>1. Width \in Nat
  BY SubnetAssumption
<1>2. {j \in 0..(Width - 1) : get_bit(2^Width - 2^k, j) = 1} = 0..(Width - k - 1)
  <2>1. \A j \in 0..(Width - 1) : get_bit(2^Width - 2^k, j) = 1 <=> j < Width - k
    BY MaskBit
  <2>2. \A j : j \in 0..(Width - k - 1) <=> j \in 0..(Width - 1) /\ j < Width - k
    BY <1>1
  <2> QED BY <2>1, <2>2
<1>3. Cardinality(0..(Width - k - 1)) = Width - k
  BY <1>1, FS_Interval
<1> QED BY <1>2, <1>3 DEF getNetworkMaskNum

\* The test of the loop: an interface matches when the address is on its subnet.
LEMMA MatchIsNear ==
  ASSUME NEW itf \in Interfaces, NEW addr \in Addresses
  PROVE  /\ getLongest(itf.address, addr) \in 0..Width
         /\ getLongest(itf.address, addr) >= getNetworkMaskNum(itf.networkMask)
              <=> InSubnet(itf, addr)
<1>1. PICK k \in 0..Width : itf.networkMask = 2^Width - 2^k
  BY DEF Interfaces, Masks
<1>2. Width \in Nat /\ Width - k \in 0..Width /\ Width - (Width - k) = k /\ k \in Nat
  BY SubnetAssumption
<1>3. getNetworkMaskNum(itf.networkMask) = Width - k
  BY <1>1, MaskNumber
<1>4. itf.address \in Addresses
  BY DEF Interfaces
<1>5. /\ getLongest(itf.address, addr) \in 0..Width
      /\ getLongest(itf.address, addr) >= Width - k
           <=> itf.address \div 2^k = addr \div 2^k
  BY <1>2, <1>4, LongestPrefix
<1>6. 2^Width - itf.networkMask = 2^k
  <2>1. 2^Width \in Nat /\ 2^k \in Nat
    BY <1>2, PowerCounts
  <2> QED BY <1>1, <2>1
<1>7. InSubnet(itf, addr) <=> itf.address \div 2^k = addr \div 2^k
  BY <1>6 DEF InSubnet
<1> QED BY <1>3, <1>5, <1>7

\* The loop computes what its turns say.
LEMMA LoopSteps ==
  ASSUME NEW a, Len(a) \in Nat, NEW addr
  PROVE  LET best == MatchLoop(a, addr)
         IN  /\ best[0] = NoMatch
             /\ \A w \in 1..Len(a) : best[w] = Match(best[w - 1], a[w], addr)
<1> DEFINE Turn(g, w) == IF w = 0 THEN NoMatch ELSE Match(g[w - 1], a[w], addr)
           Loop(g, n) == g = [w \in 0..n |-> Turn(g, w)]
           T == {n \in Nat : ~(\E g : Loop(g, n))}
<1>1. T = {}
  <2>1. SUFFICES ASSUME T # {} PROVE FALSE
    OBVIOUS
  <2>2. PICK n \in T : \A y \in T : n <= y
    <3>1. T \in SUBSET Nat
      OBVIOUS
    <3> HIDE DEF T
    <3> QED BY <2>1, <3>1, LeastNumber
  <2>3. n # 0
    <3> DEFINE g == [w \in 0..0 |-> NoMatch]
    <3>1. Loop(g, 0)
      OBVIOUS
    <3> HIDE DEF g, Loop
    <3> QED BY <2>2, <3>1
  <2>4. n - 1 \in Nat /\ n - 1 \notin T
    <3>1. n \in Nat
      OBVIOUS
    <3> HIDE DEF T
    <3> QED BY <2>2, <2>3, <3>1
  <2>5. PICK h : Loop(h, n - 1)
    <3> HIDE DEF Loop
    <3> QED BY <2>4
  <2> DEFINE g == [w \in 0..n |-> IF w = n THEN Match(h[n - 1], a[n], addr) ELSE h[w]]
  <2>6. \A w \in 0..n : g[w] = Turn(g, w)
    <3>1. ASSUME NEW w \in 0..n, w # n PROVE g[w] = Turn(g, w)
      <4>1. w \in 0..(n - 1) /\ g[w] = h[w]
        BY <3>1
      <4>2. h[w] = Turn(h, w)
        BY <2>5, <4>1
      <4>3. w # 0 => w - 1 \in 0..n /\ w - 1 # n
        BY <4>1
      <4>4. w # 0 => g[w - 1] = h[w - 1]
        BY <4>3
      <4> HIDE DEF g
      <4> QED BY <4>1, <4>2, <4>4
    <3>2. g[n] = Turn(g, n)
      <4>1. n - 1 \in 0..n /\ n - 1 # n /\ n \in 0..n
        BY <2>3
      <4>2. g[n] = Match(h[n - 1], a[n], addr) /\ g[n - 1] = h[n - 1]
        BY <4>1
      <4> HIDE DEF g
      <4> QED BY <2>3, <4>2
    <3> HIDE DEF g, Turn
    <3> QED BY <3>1, <3>2
  <2>7. g = [w \in 0..n |-> g[w]]
    OBVIOUS
  <2>8. Loop(g, n)
    <3> HIDE DEF g, Turn
    <3> QED BY <2>6, <2>7
  <2> HIDE DEF g, Loop
  <2> QED BY <2>2, <2>8
<1> DEFINE best == MatchLoop(a, addr)
<1>2. best = CHOOSE g : Loop(g, Len(a))
  BY DEF MatchLoop
<1>3. Loop(best, Len(a))
  <2>1. \E g : Loop(g, Len(a))
    <3> HIDE DEF Loop
    <3> QED BY <1>1
  <2> HIDE DEF Loop, best
  <2> QED BY <1>2, <2>1
<1> HIDE DEF best
<1>4. \A w \in 0..Len(a) : best[w] = Turn(best, w)
  BY <1>3
<1>5. best[0] = NoMatch /\ \A w \in 1..Len(a) : best[w] = Match(best[w - 1], a[w], addr)
  BY <1>4
<1> QED BY <1>5 DEF best

\* What b says of the first w interfaces: none is on a subnet of addr, or the one
\* chosen shares the most bits with addr.
Found(b, a, addr, w) ==
  \/ b = NoMatch /\ \A v \in 1..w : ~InSubnet(a[v], addr)
  \/ /\ \E v \in 1..w : /\ InSubnet(a[v], addr) /\ b.address = a[v].address
                         /\ b.longest = getLongest(a[v].address, addr)
     /\ \A v \in 1..w : InSubnet(a[v], addr) => getLongest(a[v].address, addr) <= b.longest

\* After w turns the loop has found the best of the first w interfaces.
LEMMA LoopFinds ==
  ASSUME NEW a \in Seq(Interfaces), NEW addr \in Addresses
  PROVE  \A w \in 0..Len(a) : Found(MatchLoop(a, addr)[w], a, addr, w)
<1> DEFINE best == MatchLoop(a, addr)
           T == {w \in 0..Len(a) : ~Found(best[w], a, addr, w)}
<1>1. SUFFICES ASSUME T # {} PROVE FALSE
  OBVIOUS
<1>2. /\ Len(a) \in Nat /\ Width \in Nat /\ best[0] = NoMatch
      /\ \A w \in 1..Len(a) : a[w] \in Interfaces /\ best[w] = Match(best[w - 1], a[w], addr)
  BY LenProperties, ElementOfSeq, LoopSteps, SubnetAssumption
<1> HIDE DEF best
<1>3. PICK w \in T : \A y \in T : w <= y
  <2>1. T \in SUBSET Nat
    BY <1>2
  <2> HIDE DEF T
  <2> QED BY <1>1, <2>1, LeastNumber
<1>4. w # 0
  <2>1. Found(best[0], a, addr, 0)
    BY <1>2 DEF Found
  <2> QED BY <1>3, <2>1
<1> DEFINE b == best[w - 1]
           long(v) == getLongest(a[v].address, addr)
<1>5. w \in 1..Len(a) /\ w - 1 \in 0..Len(a) /\ w - 1 \notin T
  BY <1>2, <1>3, <1>4
<1>6. Found(b, a, addr, w - 1)
  BY <1>5
<1>7. \A v \in 1..w : /\ long(v) \in 0..Width
                      /\ long(v) >= getNetworkMaskNum(a[v].networkMask) <=> InSubnet(a[v], addr)
  BY <1>2, <1>5, MatchIsNear
<1>8. best[w] = IF InSubnet(a[w], addr) /\ long(w) > b.longest
                THEN [longest |-> long(w), address |-> a[w].address] ELSE b
  BY <1>2, <1>5, <1>7 DEF Match
<1> HIDE DEF b, long
<1>9. Found(best[w], a, addr, w)
  <2>1. CASE b = NoMatch /\ \A v \in 1..(w - 1) : ~InSubnet(a[v], addr)
    <3>1. b.longest = -1 /\ w \in 1..w /\ \A v \in 1..w : v \in 1..(w - 1) \/ v = w
      BY <1>5, <2>1 DEF NoMatch
    <3> QED BY <1>5, <1>7, <1>8, <2>1, <3>1 DEF Found, long
  <2>2. CASE /\ \E v \in 1..(w - 1) : /\ InSubnet(a[v], addr) /\ b.address = a[v].address
                                      /\ b.longest = long(v)
             /\ \A v \in 1..(w - 1) : InSubnet(a[v], addr) => long(v) <= b.longest
    <3>1. w \in 1..w /\ \A v \in 1..w : v \in 1..(w - 1) \/ v = w
      BY <1>5
    <3>2. PICK u \in 1..w : /\ InSubnet(a[u], addr) /\ b.address = a[u].address
                            /\ b.longest = long(u)
      BY <1>5, <2>2
    <3>3. b.longest \in 0..Width
      BY <1>7, <3>2
    <3>4. CASE InSubnet(a[w], addr) /\ long(w) > b.longest
      <4>1. best[w].longest = long(w) /\ best[w].address = a[w].address
        BY <1>8, <3>4
      <4>2. ASSUME NEW v \in 1..w, InSubnet(a[v], addr) PROVE long(v) <= long(w)
        BY <1>2, <1>7, <2>2, <3>1, <3>3, <3>4, <4>2
      <4> QED BY <3>1, <3>4, <4>1, <4>2 DEF Found, long
    <3>5. CASE ~(InSubnet(a[w], addr) /\ long(w) > b.longest)
      <4>1. best[w] = b
        BY <1>8, <3>5
      <4>2. ASSUME NEW v \in 1..w, InSubnet(a[v], addr) PROVE long(v) <= b.longest
        BY <1>2, <1>7, <2>2, <3>1, <3>3, <3>5, <4>2
      <4> QED BY <3>2, <4>1, <4>2 DEF Found, long
    <3> QED BY <3>4, <3>5
  <2> QED BY <1>6, <2>1, <2>2 DEF Found, long
<1> QED BY <1>3, <1>9

\* With interfaces of one mask only, any two have the same.
LEMMA OneMask ==
  ASSUME NEW a \in Seq(Interfaces),
         Cardinality({i.networkMask : i \in {a[w] : w \in 1..Len(a)}}) = 1,
         NEW v \in 1..Len(a), NEW w \in 1..Len(a)
  PROVE  a[v].networkMask = a[w].networkMask
<1> DEFINE S == {i.networkMask : i \in {a[x] : x \in 1..Len(a)}}
           f == [x \in 1..Len(a) |-> a[x].networkMask]
<1>1. Len(a) \in Nat /\ IsFiniteSet(1..Len(a))
  BY LenProperties, FS_Interval
<1>2. f \in Surjection(1..Len(a), S)
  <2>1. f \in [1..Len(a) -> S] /\ \A y \in S : \E x \in 1..Len(a) : f[x] = y
    OBVIOUS
  <2> HIDE DEF f, S
  <2> QED BY <2>1 DEF Surjection
<1>3. a[v].networkMask \in S /\ a[w].networkMask \in S
  OBVIOUS
<1> HIDE DEF f
<1>4. IsFiniteSet(S)
  <2> HIDE DEF S
  <2> QED BY <1>1, <1>2, FS_Surjection
<1>5. \E y : S = {y}
  <2>1. Cardinality(S) = 1
    OBVIOUS
  <2> HIDE DEF S
  <2> QED BY <1>4, <2>1, FS_Singleton
<1> HIDE DEF S
<1> QED BY <1>3, <1>5

\* What the server decides of a client, with one interface.
LEMMA ServerDecides ==
  ASSUME NEW itf \in Interfaces, NEW from \in Addresses
  PROVE  ServerDontRoute(<<itf>>, itf.address, from)
           <=> itf.address # Loopback /\ InSubnet(itf, from)
<1> DEFINE a == <<itf>>
           g == getLongest(itf.address, from)
<1>1. Len(a) = 1 /\ a[1] = itf
  OBVIOUS
<1>2. ServerDontRoute(a, itf.address, from)
        <=> itf.address # Loopback /\ Match(NoMatch, itf, from) # NoMatch
  <2> HIDE DEF a
  <2> QED BY <1>1 DEF ServerDontRoute
<1>3. g \in 0..Width /\ (g >= getNetworkMaskNum(itf.networkMask) <=> InSubnet(itf, from)) /\ Width \in Nat
  BY MatchIsNear, SubnetAssumption
<1> HIDE DEF a
<1>4. Match(NoMatch, itf, from) # NoMatch <=> InSubnet(itf, from)
  <2>1. g > NoMatch.longest /\ NoMatch.longest = -1
    BY <1>3 DEF NoMatch
  <2> DEFINE new == [longest |-> g, address |-> itf.address]
  <2>2. new.longest = g /\ g # -1
    BY <1>3
  <2>3. Match(NoMatch, itf, from) = IF InSubnet(itf, from) THEN new ELSE NoMatch
    BY <1>3, <2>1 DEF Match
  <2>4. new # NoMatch
    BY <2>1, <2>2
  <2> HIDE DEF new
  <2> QED BY <2>3, <2>4
<1> QED BY <1>2, <1>4 DEF a

\* The choice of a client, on a host with any number of interfaces and for addresses
\* of any width, is right: the loop over the bits finds the subnet.
LEMMA ClientChoiceRight ==
  ASSUME NEW a \in Seq(Interfaces), NEW addr \in Addresses
  PROVE  Right(a, addr, ClientChoice(a, addr))
<1> DEFINE own == {a[w] : w \in 1..Len(a)}
           near == {itf \in own : InSubnet(itf, addr)}
           same == addr = Loopback \/ \E itf \in own : itf.address = addr
           best == MatchLoop(a, addr)[Len(a)]
           ch == ClientChoice(a, addr)
           Agree(x) == \A itf \in own :
             itf.address = x.client /\ Cardinality({i.networkMask : i \in own}) = 1 =>
               ServerDontRoute(<<[address |-> x.server, networkMask |-> itf.networkMask]>>,
                               x.server, x.client) = x.dontroute
           Good(x) == /\ x.dontroute <=> near # {} /\ ~same
                      /\ same <=> x.server = Loopback
                      /\ x.dontroute => \E itf \in near : itf.address = x.client
                      /\ Agree(x)
<1>0. SUFFICES Good(ch)
  BY DEF Right
<1> HIDE DEF Agree
<1>1. /\ Len(a) \in Nat /\ Width \in Nat \ {0} /\ \A w \in 1..Len(a) : a[w] \in Interfaces
      /\ Found(best, a, addr, Len(a))
  BY LenProperties, ElementOfSeq, LoopFinds, SubnetAssumption
<1>2. \A itf \in Interfaces : itf.address \in Addresses
  BY DEF Interfaces
<1>3. \A w \in 1..Len(a) :
        /\ getLongest(a[w].address, addr) \in 0..Width
        /\ getLongest(a[w].address, addr) = Width <=> a[w].address = addr
        /\ a[w].address = addr => InSubnet(a[w], addr)
  BY <1>1, <1>2, MatchIsNear, LongestAll DEF InSubnet
<1> HIDE DEF best
<1>4. near = {} => best = NoMatch
  <2>1. ASSUME NEW v \in 1..Len(a), InSubnet(a[v], addr) PROVE near # {}
    BY <2>1
  <2> QED BY <1>1, <2>1 DEF Found
<1>5. near # {} => \E itf \in near : /\ itf.address = best.address
                                     /\ best.longest = getLongest(itf.address, addr)
                                     /\ best.longest \in 0..Width
  <2>1. SUFFICES ASSUME near # {} PROVE \E itf \in near : /\ itf.address = best.address
                                     /\ best.longest = getLongest(itf.address, addr)
                                     /\ best.longest \in 0..Width
    OBVIOUS
  <2>2. PICK u \in 1..Len(a) : InSubnet(a[u], addr)
    BY <2>1
  <2>3. PICK v \in 1..Len(a) : /\ InSubnet(a[v], addr) /\ best.address = a[v].address
                               /\ best.longest = getLongest(a[v].address, addr)
    BY <1>1, <2>2 DEF Found
  <2>4. a[v] \in near
    BY <2>3
  <2> HIDE DEF near
  <2> QED BY <1>3, <2>3, <2>4
<1>6. best.longest = Width <=> \E itf \in own : itf.address = addr
  <2>1. ASSUME best.longest = Width PROVE \E itf \in own : itf.address = addr
    <3>1. best # NoMatch
      BY <1>1, <2>1 DEF NoMatch
    <3>2. PICK v \in 1..Len(a) : best.longest = getLongest(a[v].address, addr)
      BY <1>1, <3>1 DEF Found
    <3> QED BY <1>3, <2>1, <3>2
  <2>2. ASSUME NEW v \in 1..Len(a), a[v].address = addr PROVE best.longest = Width
    <3>1. InSubnet(a[v], addr) /\ getLongest(a[v].address, addr) = Width
      BY <1>3, <2>2
    <3>2. Width <= best.longest
      BY <1>1, <3>1 DEF Found
    <3>3. PICK u \in 1..Len(a) : best.longest = getLongest(a[u].address, addr)
      BY <1>1, <3>1 DEF Found
    <3> QED BY <1>1, <1>3, <3>2, <3>3
  <2> QED BY <2>1, <2>2
<1>7. best.longest = -1 <=> near = {}
  <2>1. NoMatch.longest = -1
    BY DEF NoMatch
  <2> HIDE DEF near
  <2> QED BY <1>1, <1>4, <1>5, <2>1
<1> HIDE DEF own, near
<1>8. CASE same
  <2>1. ch = [client |-> Loopback, server |-> Loopback, dontroute |-> FALSE]
    BY <1>6, <1>8 DEF ClientChoice, best
  <2>2. ch.server = Loopback /\ ch.dontroute = FALSE
    BY <2>1
  <2> HIDE DEF ch
  <2>3. \A i, x : ServerDontRoute(i, Loopback, x) = FALSE
    BY DEF ServerDontRoute
  <2>4. Agree(ch)
    BY <2>2, <2>3 DEF Agree
  <2> QED BY <1>8, <2>2, <2>4
<1>9. CASE ~same /\ near # {}
  <2>1. ch = [client |-> best.address, server |-> addr, dontroute |-> TRUE]
    BY <1>6, <1>7, <1>9 DEF ClientChoice, best
  <2>2. PICK v \in 1..Len(a) : InSubnet(a[v], addr) /\ best.address = a[v].address
    BY <1>5, <1>9 DEF near, own
  <2>3. a[v] \in near /\ a[v] \in own
    BY <2>2 DEF near, own
  <2>4. ASSUME NEW itf \in own, Cardinality({i.networkMask : i \in own}) = 1
        PROVE  ServerDontRoute(<<[address |-> addr, networkMask |-> itf.networkMask]>>, addr, a[v].address)
    <3> DEFINE s == [address |-> addr, networkMask |-> itf.networkMask]
    <3>1. itf.networkMask = a[v].networkMask
      BY <2>4, OneMask DEF own
    <3>2. s \in Interfaces /\ s.address = addr /\ s.networkMask = a[v].networkMask
      BY <1>1, <3>1 DEF Interfaces
    <3>3. a[v].address \in Addresses
      BY <1>1, <1>2
    <3> HIDE DEF s
    <3>4. InSubnet(s, a[v].address)
      BY <2>2, <3>2 DEF InSubnet
    <3>5. addr # Loopback
      BY <1>9
    <3>6. ServerDontRoute(<<s>>, addr, a[v].address)
      BY <3>2, <3>3, <3>4, <3>5, ServerDecides
    <3> QED BY <3>6 DEF s
  <2>5. \A itf \in own : Cardinality({i.networkMask : i \in own}) = 1 =>
          ServerDontRoute(<<[address |-> ch.server, networkMask |-> itf.networkMask]>>,
                          ch.server, ch.client)
    BY <2>1, <2>2, <2>4
  <2>6. /\ ch.dontroute = TRUE /\ ch.server = addr /\ ch.client = a[v].address /\ addr # Loopback
        /\ ~same
    BY <1>9, <2>1, <2>2
  <2> HIDE DEF ch
  <2>7. \A x, y, z : ServerDontRoute(x, y, z) \in BOOLEAN
    BY DEF ServerDontRoute
  <2>8. Agree(ch)
    BY <2>5, <2>6, <2>7 DEF Agree
  <2> QED BY <1>9, <2>2, <2>3, <2>6, <2>8
<1>10. CASE ~same /\ near = {}
  <2>1. ch.server = addr /\ ch.dontroute = FALSE
    BY <1>6, <1>7, <1>10 DEF ClientChoice, best
  <2> HIDE DEF ch
  <2>2. ASSUME NEW itf \in own, itf.address = ch.client
        PROVE  ~ServerDontRoute(<<[address |-> addr, networkMask |-> itf.networkMask]>>, addr, ch.client)
    <3> DEFINE s == [address |-> addr, networkMask |-> itf.networkMask]
    <3>1. itf \in Interfaces
      BY <1>1 DEF own
    <3>2. s \in Interfaces /\ s.address = addr /\ s.networkMask = itf.networkMask
      BY <3>1 DEF Interfaces
    <3>3. ch.client \in Addresses
      BY <1>2, <2>2, <3>1
    <3> HIDE DEF s
    <3>4. ~InSubnet(itf, addr)
      BY <1>10 DEF near
    <3>5. ~InSubnet(s, ch.client)
      BY <2>2, <3>2, <3>4 DEF InSubnet
    <3>6. ~ServerDontRoute(<<s>>, addr, ch.client)
      BY <3>2, <3>3, <3>5, ServerDecides
    <3> QED BY <3>6 DEF s
  <2>3. \A itf \in own : itf.address = ch.client =>
          ServerDontRoute(<<[address |-> ch.server, networkMask |-> itf.networkMask]>>,
                          ch.server, ch.client) = ch.dontroute
    <3>1. ASSUME NEW x, NEW y, NEW z PROVE ServerDontRoute(x, y, z) \in BOOLEAN
      BY DEF ServerDontRoute
    <3> QED BY <2>1, <2>2, <3>1
  <2>4. Agree(ch)
    BY <2>3 DEF Agree
  <2> QED BY <1>10, <2>1, <2>4
<1> QED BY <1>8, <1>9, <1>10

\* A choice is that of the client's own interfaces, for as long as they are there.
Choosing ==
  /\ interfaceArray \in [Clients -> Seq(Interfaces)]
  /\ servAddr \in [Clients -> Addresses]
  /\ choice = [c \in Clients |-> choice[c]]
  /\ \A c \in Clients :
       Chosen(c) => choice[c] = ClientChoice(interfaceArray[c], servAddr[c])

\* A host's interfaces are a sequence.
LEMMA HostsAreSequences == Hosts \subseteq Seq(Interfaces)
<1>1. ASSUME NEW n \in 0..MaxInterfaces, NEW a \in [1..n -> Interfaces]
      PROVE  a \in Seq(Interfaces)
  <2>1. n \in Nat
    BY SubnetAssumption
  <2> QED BY <2>1, SeqDef
<1> QED BY <1>1 DEF Hosts

\* Each step keeps it.
LEMMA NextChoosing == Choosing /\ [SetupNext]_<<vars, setupVars>> => Choosing'
<1> SUFFICES ASSUME Choosing, [SetupNext]_<<vars, setupVars>> PROVE Choosing'
  OBVIOUS
<1>1. CASE UNCHANGED setupVars
  BY <1>1 DEF setupVars, Choosing, Chosen
<1>2. ASSUME NEW c \in Clients, Choose(c) PROVE Choosing'
  <2> DEFINE ch == ClientChoice(interfaceArray[c], servAddr[c])
  <2>1. choice' = [choice EXCEPT ![c] = ch] /\ UNCHANGED <<interfaceArray, servAddr>>
    BY <1>2 DEF Choose
  <2> HIDE DEF ch
  <2>2. \A x \in Clients : choice'[x] = IF x = c THEN ch ELSE choice[x]
    BY <2>1 DEF Choosing
  <2> QED BY <2>1, <2>2 DEF Choosing, Chosen, ch
<1>3. ASSUME NEW c \in Clients, BindAndConnect(c) PROVE Choosing'
  <2>1. /\ choice' = [choice EXCEPT ![c] = Connected]
        /\ interfaceArray' = [interfaceArray EXCEPT ![c] = <<>>]
        /\ servAddr' = [servAddr EXCEPT ![c] = Loopback]
    BY <1>3 DEF BindAndConnect
  <2>2. Loopback \in Addresses /\ <<>> \in Seq(Interfaces)
    BY SubnetAssumption DEF Addresses
  <2>3. \A x \in Clients : x # c => /\ choice'[x] = choice[x] /\ servAddr'[x] = servAddr[x]
                                   /\ interfaceArray'[x] = interfaceArray[x]
    BY <2>1 DEF Choosing
  <2>4. choice'[c] = Connected
    BY <2>1 DEF Choosing
  <2> QED BY <2>1, <2>2, <2>3, <2>4 DEF Choosing, Chosen
<1>4. ASSUME NEW c \in Clients, BindFails(c) PROVE UNCHANGED setupVars
  BY <1>4 DEF BindFails
<1> QED BY <1>1, <1>2, <1>3, <1>4 DEF SetupNext, Prepare

\* ChoiceRight, for addresses of any width (32 bits in the code), any number of
\* interfaces and any number of clients: the comparison bit by bit and the count of
\* a mask's ones decide of a server what the subnets do.
THEOREM ChoiceIsRight == SetupSpec => []ChoiceRight
<1>1. SetupInit => Choosing
  BY HostsAreSequences DEF SetupInit, Choosing, Chosen, NotYet
<1>2. Choosing => ChoiceRight
  BY ClientChoiceRight DEF Choosing, ChoiceRight
<1> QED BY <1>1, <1>2, NextChoosing, PTL DEF SetupSpec
=============================================================================
