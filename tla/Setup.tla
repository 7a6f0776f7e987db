------------------------------- MODULE Setup -------------------------------
(***************************************************************************)
(* A client from its start to the transfer (udpcli.c, main): it chooses an *)
(* address (Subnet), binds and connects its socket, and begins the         *)
(* handshake (Handshake) with the server, which runs all the time.         *)
(***************************************************************************)
EXTENDS Handshake, Subnet

VARIABLES interfaceArray,  \* of each client: the interfaces of its host
          servAddr,        \* of each client: the address in its client.in
          choice           \* of each client: what it has chosen

setupVars == <<interfaceArray, servAddr, choice>>

\* Before and after the choice.
NotYet == [done |-> FALSE]
Connected == [done |-> TRUE]

SetupInit ==
  /\ Init
  /\ interfaceArray \in [Clients -> Hosts]
  /\ servAddr \in [Clients -> Addresses]
  /\ choice = [c \in Clients |-> NotYet]

Choose(c) ==
  /\ choice[c] = NotYet
  /\ choice' = [choice EXCEPT ![c] = ClientChoice(interfaceArray[c], servAddr[c])]
  /\ UNCHANGED <<interfaceArray, servAddr, vars>>

Chosen(c) == choice[c] \notin {NotYet, Connected}

\* Inet_pton, bind and connect; the interfaces are freed and the two addresses
\* not read again.
BindAndConnect(c) ==
  /\ Chosen(c)
  /\ choice' = [choice EXCEPT ![c] = Connected]
  /\ interfaceArray' = [interfaceArray EXCEPT ![c] = <<>>]
  /\ servAddr' = [servAddr EXCEPT ![c] = Loopback]
  /\ UNCHANGED vars

\* An address nobody has written is refused, unless it happens to be one of the
\* host: the client exits.
BindFails(c) ==
  /\ Chosen(c) /\ choice[c].client = Uninitialized
  /\ cpc' = [cpc EXCEPT ![c] = "aborted"]
  /\ UNCHANGED <<setupVars, serverVars, conn, newPort, cArmed, cPipe, inbox,
                 toServer, toClient>>

Prepare(c) ==
  cpc[c] # "aborted" /\ (Choose(c) \/ BindAndConnect(c) \/ BindFails(c))

SetupNext ==
  \/ \E c \in Clients : Prepare(c)
  \/ \E c \in Clients : choice[c] = Connected /\ Client(c) /\ UNCHANGED setupVars
  \/ (Server \/ Network) /\ UNCHANGED setupVars

SetupSpec == SetupInit /\ [][SetupNext]_<<vars, setupVars>>

\* A client is scheduled in its preparations too.
FairSetup ==
  /\ SetupSpec /\ Fairness
  /\ \A c \in Clients : WF_<<vars, setupVars>>(Prepare(c))

-----------------------------------------------------------------------------
(* Properties. *)

\* What is right of choice ch of a client with these interfaces: it skips routing
\* exactly for a server that is on a subnet of its own and not on its own host, and
\* then from an interface on that subnet; a server whose interface has the same
\* mask comes to the same decision about the address the client binds to.
Right(interfaces, addr, ch) ==
  LET own == {interfaces[w] : w \in 1..Len(interfaces)}
      near == {itf \in own : InSubnet(itf, addr)}
      same == addr = Loopback \/ \E itf \in own : itf.address = addr
  IN /\ ch.dontroute <=> near # {} /\ ~same
     /\ same <=> ch.server = Loopback
     /\ ch.dontroute => \E itf \in near : itf.address = ch.client
     /\ \A itf \in own :
          itf.address = ch.client /\ Cardinality({i.networkMask : i \in own}) = 1 =>
            ServerDontRoute(<<[address |-> ch.server, networkMask |-> itf.networkMask]>>,
                            ch.server, ch.client) = ch.dontroute

\* A client's choice is right, from the moment it is made until the interfaces are
\* freed, whatever the other clients and the server do meanwhile (udpcli.c main
\* against the bit by bit comparison of getLongest and get_bit).
ChoiceRight ==
  \A c \in Clients : Chosen(c) => Right(interfaceArray[c], servAddr[c], choice[c])
=============================================================================
