----------------------------- MODULE Handshake -----------------------------
(***************************************************************************)
(* How a transfer is set up: the parent server (udpserv.c, mydg_echo up to *)
(* the fork) and the clients (udpcli.c, from the filename datagram to the  *)
(* call of dg_cli1).  The client sends the filename to the listening       *)
(* socket and gets the number of a new port; it connects to that port,     *)
(* sends an ACK there, and the server echoes it and forks a child.         *)
(*                                                                         *)
(* Both sides time out with alarm(): the handler writes a byte to a pipe   *)
(* that select watches together with the socket.  select may return for    *)
(* the socket and the alarm go off before alarm(0), so "the socket was     *)
(* ready" and "the alarm is off" are two control points.                   *)
(***************************************************************************)
EXTENDS Naturals, Sequences, FiniteSets

CONSTANTS Clients,
          Name,       \* client.in: the filename each client asks for
          MaxInFlight \* bound: datagrams of a client in flight per direction,
                      \* more are lost

ASSUME HandshakeAssumption ==
  /\ IsFiniteSet(Clients)
  /\ Name \in [Clients -> Seq(STRING)]
  /\ MaxInFlight \in Nat

\* The listening port; the connection sockets are numbered from 1.
Listening == 0
NoClient == "none"

VARIABLES
  \* The parent server.
  ppc,       \* "idle" in main's select, "name", "ack", "acked"
  port,      \* the connection socket of the latest call of mydg_echo
  filename,  \* the receive buffer
  pcliaddr,
  sArmed, sPipe,        \* the alarm is on; bytes in the pipe
  children,  \* the forked children: port, client served, file opened
  \* The clients.
  cpc,       \* "name", "port", "gotport", "echo", "gotecho", "transfer",
             \* "aborted"
  conn,      \* the port the socket is connected to
  newPort,   \* the port number read into recvline
  cArmed, cPipe,
  inbox,     \* datagrams queued in the socket
  \* Datagrams in flight.
  toServer, toClient

serverVars == <<ppc, port, filename, pcliaddr, sArmed, sPipe, children>>
clientVars == <<cpc, conn, newPort, cArmed, cPipe, inbox>>
vars == <<serverVars, clientVars, toServer, toClient>>

\* What a client sends: the filename, the ACK, a request of dg_cli1.
ToServer(c, p, body) == [client |-> c, port |-> p, body |-> body]
\* What the server sends, from socket p: a port number, or an echo (0).
ToClient(c, p, n) == [client |-> c, port |-> p, number |-> n]

\* A datagram put on the wire, or lost there when the wire is full.
Sent(net, m) ==
  IF Cardinality({n \in net : n.client = m.client}) < MaxInFlight
    THEN net \cup {m} ELSE net

Init ==
  /\ ppc = "idle" /\ port = 0 /\ filename = <<>> /\ pcliaddr = NoClient
  /\ sArmed = FALSE /\ sPipe = 0 /\ children = {}
  /\ cpc = [c \in Clients |-> "name"]
  /\ conn = [c \in Clients |-> Listening]
  /\ newPort = [c \in Clients |-> 0]
  /\ cArmed = [c \in Clients |-> FALSE] /\ cPipe = [c \in Clients |-> 0]
  /\ inbox = [c \in Clients |-> {}]
  /\ toServer = {} /\ toClient = {}

-----------------------------------------------------------------------------
(* The parent server. *)

\* The client sends strlen(filename) bytes and the server adds no terminator:
\* the bytes a longer name left in the buffer stay behind a shorter one.
Received(buffer, name) ==
  name \o SubSeq(buffer, Len(name) + 1, Len(buffer))

\* The connection socket is opened once per call of mydg_echo.
ConnectionPort == IF ppc = "idle" THEN port + 1 ELSE port

\* Recvfrom on the listening socket, the port number in return, and the alarm
\* of the select that follows.  From main's select it is a new call, with a
\* new connection socket and an uninitialized buffer: clean, or what the
\* previous call left on the stack.
ServerReceiveName(m) ==
  /\ ppc \in {"idle", "name"} /\ m.port = Listening
  /\ port' = ConnectionPort
  /\ \E old \in {filename} \cup (IF ppc = "idle" THEN {<<>>} ELSE {}) :
       filename' = Received(old, Name[m.client])
  /\ pcliaddr' = m.client
  /\ toServer' = toServer \ {m}
  /\ toClient' = Sent(toClient, ToClient(m.client, Listening, port'))
  /\ sArmed' = TRUE
  /\ ppc' = "ack"
  /\ UNCHANGED <<sPipe, children, clientVars>>

\* data_alarm.  select returns EINTR and is called again, with a new alarm
\* that the timeout branch turns off at once.
ServerAlarm ==
  /\ sArmed
  /\ sArmed' = FALSE
  /\ sPipe' = sPipe + 1
  /\ UNCHANGED <<ppc, port, filename, pcliaddr, children, clientVars, toServer,
                 toClient>>

\* Mutant: the handshake is abandoned.
MutTimeoutAbandon ==
  /\ ppc = "ack" /\ sPipe > 0
  /\ sPipe' = sPipe - 1
  /\ sArmed' = FALSE
  /\ ppc' = "idle"
  /\ UNCHANGED <<port, filename, pcliaddr, children, clientVars, toServer,
                 toClient>>

\* The pipe is looked at first.
ServerTimeout ==
  /\ ppc = "ack" /\ sPipe > 0
  /\ sPipe' = sPipe - 1
  /\ sArmed' = FALSE
  /\ ppc' = "name"
  /\ UNCHANGED <<port, filename, pcliaddr, children, clientVars, toServer,
                 toClient>>

\* Mutant: the listening socket is read for the ACK as well.
MutAckAnywhere(m) ==
  /\ ppc = "ack" /\ sPipe = 0 /\ m.port \in {port, Listening}
  /\ pcliaddr' = m.client
  /\ toServer' = toServer \ {m}
  /\ toClient' = Sent(toClient, ToClient(m.client, port, 0))
  /\ ppc' = "acked"
  /\ UNCHANGED <<port, filename, sArmed, sPipe, children, clientVars>>

\* Anything that arrives on the connection socket counts as the ACK, and its
\* sender is the client from now on.
ServerReceiveAck(m) ==
  /\ ppc = "ack" /\ sPipe = 0 /\ m.port = port
  /\ pcliaddr' = m.client
  /\ toServer' = toServer \ {m}
  /\ toClient' = Sent(toClient, ToClient(m.client, port, 0))
  /\ ppc' = "acked"
  /\ UNCHANGED <<port, filename, sArmed, sPipe, children, clientVars>>

\* alarm(0), then the fork; the parent goes back to main's select.  What is
\* sent to the port from now on is read by the child (module Transfer).
ServerFork ==
  /\ ppc = "acked"
  /\ sArmed' = FALSE
  /\ children' = children \cup
       {[port |-> port, client |-> pcliaddr, file |-> filename]}
  /\ toServer' = {m \in toServer : m.port # port}
  /\ ppc' = "idle"
  /\ UNCHANGED <<port, filename, pcliaddr, sPipe, clientVars, toClient>>

-----------------------------------------------------------------------------
(* A client. *)

\* Mutant: no timer backs up the filename.
MutNoAlarm(c) ==
  /\ cpc[c] = "name"
  /\ toServer' \in {toServer, Sent(toServer, ToServer(c, Listening, "name"))}
  /\ cpc' = [cpc EXCEPT ![c] = "port"]
  /\ UNCHANGED <<conn, newPort, cArmed, cPipe, inbox, serverVars, toClient>>

\* Write, unless the simulated loss drops it, and alarm(TIMER).
SendName(c) ==
  /\ cpc[c] = "name"
  /\ toServer' \in {toServer, Sent(toServer, ToServer(c, Listening, "name"))}
  /\ cArmed' = [cArmed EXCEPT ![c] = TRUE]
  /\ cpc' = [cpc EXCEPT ![c] = "port"]
  /\ UNCHANGED <<conn, newPort, cPipe, inbox, serverVars, toClient>>

ClientAlarm(c) ==
  /\ cArmed[c]
  /\ cArmed' = [cArmed EXCEPT ![c] = FALSE]
  /\ cPipe' = [cPipe EXCEPT ![c] = @ + 1]
  /\ UNCHANGED <<cpc, conn, newPort, inbox, serverVars, toServer, toClient>>

\* No reply: alarm(0) and send the filename again.
PortTimeout(c) ==
  /\ cpc[c] = "port" /\ cPipe[c] > 0
  /\ cPipe' = [cPipe EXCEPT ![c] = @ - 1]
  /\ cArmed' = [cArmed EXCEPT ![c] = FALSE]
  /\ cpc' = [cpc EXCEPT ![c] = "name"]
  /\ UNCHANGED <<conn, newPort, inbox, serverVars, toServer, toClient>>

\* A connected socket takes datagrams from its peer only; one that is closed,
\* or read by dg_cli1, is no longer looked at here.
InHandshake(c) == cpc[c] \notin {"transfer", "aborted"}

Deliver(c, m) ==
  /\ m.client = c
  /\ toClient' = toClient \ {m}
  /\ inbox' = IF m.port = conn[c] /\ InHandshake(c)
                THEN [inbox EXCEPT ![c] = @ \cup {m}]
                ELSE inbox
  /\ UNCHANGED <<cpc, conn, newPort, cArmed, cPipe, serverVars, toServer>>

\* The port number is read.
ReceivePort(c, m) ==
  /\ cpc[c] = "port" /\ cPipe[c] = 0
  /\ inbox' = [inbox EXCEPT ![c] = @ \ {m}]
  /\ newPort' = [newPort EXCEPT ![c] = m.number]
  /\ cpc' = [cpc EXCEPT ![c] = "gotport"]
  /\ UNCHANGED <<conn, cArmed, cPipe, serverVars, toServer, toClient>>

\* alarm(0), connect to the port, the ACK or its simulated loss, and the alarm
\* of the second select.
SendAck(c) ==
  /\ cpc[c] = "gotport"
  /\ conn' = [conn EXCEPT ![c] = newPort[c]]
  /\ toServer' \in {toServer, Sent(toServer, ToServer(c, newPort[c], "ack"))}
  /\ cArmed' = [cArmed EXCEPT ![c] = TRUE]
  /\ cpc' = [cpc EXCEPT ![c] = "echo"]
  /\ UNCHANGED <<newPort, cPipe, inbox, serverVars, toClient>>

\* No echo: the socket is closed and the loop starts again, so that the Write
\* or the select on the closed descriptor fails and err_sys ends the client.
EchoTimeout(c) ==
  /\ cpc[c] = "echo" /\ cPipe[c] > 0
  /\ cPipe' = [cPipe EXCEPT ![c] = @ - 1]
  /\ cArmed' = [cArmed EXCEPT ![c] = FALSE]
  /\ inbox' = [inbox EXCEPT ![c] = {}]
  /\ cpc' = [cpc EXCEPT ![c] = "aborted"]
  /\ UNCHANGED <<conn, newPort, serverVars, toServer, toClient>>

\* Whatever is read is taken for the echo.
ReceiveEcho(c, m) ==
  /\ cpc[c] = "echo" /\ cPipe[c] = 0
  /\ inbox' = [inbox EXCEPT ![c] = @ \ {m}]
  /\ cpc' = [cpc EXCEPT ![c] = "gotecho"]
  /\ UNCHANGED <<conn, newPort, cArmed, cPipe, serverVars, toServer, toClient>>

\* alarm(0); the transfer begins.
StartTransfer(c) ==
  /\ cpc[c] = "gotecho"
  /\ cArmed' = [cArmed EXCEPT ![c] = FALSE]
  /\ inbox' = [inbox EXCEPT ![c] = {}]
  /\ cpc' = [cpc EXCEPT ![c] = "transfer"]
  /\ UNCHANGED <<conn, newPort, cPipe, serverVars, toServer, toClient>>

\* A request of dg_cli1, while the port is still the parent's.
SendRequest(c) ==
  /\ cpc[c] = "transfer"
  /\ \A x \in children : x.port # conn[c]
  /\ toServer' = Sent(toServer, ToServer(c, conn[c], "request"))
  /\ UNCHANGED <<clientVars, serverVars, toClient>>

-----------------------------------------------------------------------------
\* The network loses a datagram.
Lose ==
  \/ \E m \in toServer : toServer' = toServer \ {m} /\ UNCHANGED toClient
  \/ \E m \in toClient : toClient' = toClient \ {m} /\ UNCHANGED toServer

Network == Lose /\ UNCHANGED <<serverVars, clientVars>>

Server ==
  \/ ServerAlarm \/ ServerTimeout \/ ServerFork
  \/ \E m \in toServer : ServerReceiveName(m) \/ ServerReceiveAck(m)

Client(c) ==
  \/ SendName(c) \/ ClientAlarm(c) \/ PortTimeout(c) \/ SendAck(c)
  \/ EchoTimeout(c) \/ StartTransfer(c) \/ SendRequest(c)
  \/ \E m \in toClient : Deliver(c, m)
  \/ \E m \in inbox[c] : ReceivePort(c, m) \/ ReceiveEcho(c, m)

Next == Server \/ Network \/ \E c \in Clients : Client(c)

Spec == Init /\ [][Next]_vars

\* Processes are scheduled and alarms go off (weak fairness); of the names a
\* client keeps sending one gets through, and so does an answer (strong).
ServerLocal == ServerAlarm \/ ServerTimeout \/ ServerFork
ClientLocal(c) ==
  \/ SendName(c) \/ ClientAlarm(c) \/ PortTimeout(c) \/ SendAck(c)
  \/ EchoTimeout(c) \/ StartTransfer(c)

Fairness ==
  /\ WF_vars(ServerLocal)
  /\ \A c \in Clients :
       /\ WF_vars(ClientLocal(c))
       /\ SF_vars(SendName(c) /\ toServer' # toServer)
       /\ SF_vars(\E m \in toServer : m.client = c /\ ServerReceiveName(m))
       /\ SF_vars(\E m \in toClient : m.port = conn[c] /\ Deliver(c, m))
       /\ SF_vars(\E m \in inbox[c] : ReceivePort(c, m) \/ ReceiveEcho(c, m))

FairSpec == Spec /\ Fairness

-----------------------------------------------------------------------------
(* Properties. *)

Ports == 0..(Cardinality(Clients) + 1)

\* Types.  That Ports suffices says that the parent, which never closes a
\* connection socket, opens at most one more than it has clients, however
\* often the filename is sent again.
TypeOK ==
  /\ ppc \in {"idle", "name", "ack", "acked"}
  /\ port \in Ports
  /\ pcliaddr \in Clients \cup {NoClient}
  /\ sArmed \in BOOLEAN /\ sPipe \in Nat
  /\ \A x \in children : x.port \in Ports /\ x.client \in Clients
  /\ cpc \in [Clients -> {"name", "port", "gotport", "echo", "gotecho",
                         "transfer", "aborted"}]
  /\ conn \in [Clients -> Ports] /\ newPort \in [Clients -> Ports]
  /\ cArmed \in [Clients -> BOOLEAN] /\ cPipe \in [Clients -> Nat]
  /\ \A m \in toServer : m.client \in Clients /\ m.port \in Ports
  /\ \A m \in toClient : m.client \in Clients /\ m.port \in Ports
  /\ \A c \in Clients : \A m \in inbox[c] : m.client = c

\* A client is served at most once and by the child behind the port it is
\* connected to, although its filename may reach the server many times and
\* mydg_echo takes any datagram for the ACK.
OneChildPerClient ==
  /\ \A x, y \in children : x.client = y.client \/ x.port = y.port => x = y
  /\ \A x \in children : conn[x.client] = x.port

\* The port a client was given is never handed to nobody: it is the socket
\* the parent waits on, or a child has it.
PortIsServed ==
  \A c \in Clients : conn[c] # Listening =>
    \/ conn[c] = port /\ ppc # "idle"
    \/ \E x \in children : x.port = conn[c]

\* Liveness: every client ends its handshake, served or not.
HandshakeEnds == <>(\A c \in Clients : ~InHandshake(c))
=============================================================================
