-------------------------------- MODULE Odr --------------------------------
(***************************************************************************)
(* The ODR service (odr_chechung.c): one routing daemon per node, with its *)
(* routing table, send buffer and port map, the frames between neighbours, *)
(* and the time clients and servers that use it (client_chechung.c,        *)
(* server_chechung.c, function.c).                                         *)
(*                                                                         *)
(* A node stands for its IP address, its vm number and the hardware        *)
(* address and interface by which a neighbour reaches it.  One pass of the *)
(* daemon's loop is one action; a client's msg_send and the pass that      *)
(* takes the message are one action too, since nothing else reads what the *)
(* client wrote.                                                           *)
(***************************************************************************)
EXTENDS Integers, FiniteSets, SequencesExt

CONSTANTS Nodes,
          Edges,        \* sets of two nodes: the links
          Clients,      \* the client processes
          Home,         \* the node of each client
          Targets,      \* the nodes a user asks for
          Flags,        \* what a user answers to "forced discovery?"
          Servers,      \* nodes that run the time server
          Stoppable,    \* nodes whose daemon a user may end
          AllEven,      \* nodes whose hardware address has no odd byte
          StaleTime,    \* the argument of the program, in seconds
          MAP_SIZE,
          MaxHops,      \* bound: hop counts are equal from here on
          MaxAsked,     \* bound: messages of the clients
          MaxTicks,     \* bound: seconds that pass
          MaxStops      \* bound: no daemon is stopped once so many have ended

NoMac == "none"    \* six zero bytes; also interface number 0
Blank == [type |-> -1]   \* a slot of the send buffer that holds only zeros
Crash == "crash"   \* the process ends

ASSUME OdrAssumption ==
  /\ IsFiniteSet(Nodes) /\ \A e \in Edges : e \subseteq Nodes /\ Cardinality(e) = 2
  /\ Home \in [Clients -> Nodes] /\ Targets \subseteq Nodes
  /\ Flags \subseteq {0, 1} /\ Servers \subseteq Nodes
  /\ Stoppable \subseteq Nodes /\ AllEven \subseteq Nodes
  /\ StaleTime \in Nat \ {0} /\ MAP_SIZE \in Nat
  /\ MaxHops \in Nat \ {0} /\ MaxAsked \in Nat
  /\ MaxTicks \in Nat /\ MaxStops \in Nat
  /\ NoMac \notin Nodes /\ Crash \notin Nodes \cup Clients

Neighbours(n) == {m \in Nodes : {n, m} \in Edges}

VARIABLES odr,     \* the state of each daemon
          net,     \* net[m][n]: the frames on their way from m to n
          client,  \* of each client: where it waits, for whom, its socket
          now,     \* time(), in seconds
          ended,   \* not in the code: the nodes whose daemon has ended
          asked,   \* not in the code: what the clients have asked for
          undef    \* not in the code: a blank slot was used as a packet

vars == <<odr, net, client, now, ended, asked, undef>>

-----------------------------------------------------------------------------
(* Packets and table entries. *)

RREQ(src, dst, hops, sent, forced, id) ==
  [type |-> 0, src |-> src, dst |-> dst, hops |-> hops,
   sent |-> sent, forced |-> forced, id |-> id]
RREP(src, dst, hops, forced, id) ==
  [type |-> 1, src |-> src, dst |-> dst, hops |-> hops,
   forced |-> forced, id |-> id]

\* port is the client's: source port of a request, destination port of a response
App(msg, src, dst, port, hops) ==
  [type |-> 2, src |-> src, dst |-> dst, hops |-> hops,
   msg |-> msg, port |-> port]

RoutingEntry ==
  [next_hop |-> NoMac, out_interface |-> NoMac, hops |-> 0, timestamp |-> 0,
   bid |-> [n \in Nodes |-> 0]]

Booted ==
  [up |-> TRUE, table |-> [d \in Nodes |-> RoutingEntry], buffer |-> <<>>,
   broadcast_id |-> 0, sourcePort |-> 1, MapArray |-> <<>>]

Exited == [Booted EXCEPT !.up = FALSE]

\* Time is counted so that the zero time stamps of a new table are old.
Start == StaleTime + 1

Init ==
  /\ odr = [n \in Nodes |-> Booted]
  /\ net = [m \in Nodes |-> [n \in Nodes |-> <<>>]]
  /\ client = [c \in Clients |->
                 [phase |-> "idle", target |-> Home[c], socket |-> <<>>]]
  /\ now = Start /\ ended = {}
  /\ asked = {} /\ undef = FALSE

\* `*mac++ & 0xff != 0' looks at the lowest bit of each byte.
checkAddressNotEmpty(mac) == mac # NoMac /\ mac \notin AllEven

\* A route whose time stamp is exactly StaleTime old is neither.
Fresh(e) == e.timestamp + StaleTime > now
Stale(e) == e.timestamp + StaleTime < now

Usable(e) == checkAddressNotEmpty(e.next_hop) /\ Fresh(e)
Unusable(e) == ~checkAddressNotEmpty(e.next_hop) \/ Stale(e)

Hop(hops) == IF hops < MaxHops THEN hops + 1 ELSE hops

\* Entry e after a packet that made `hops' hops came from m.
Through(e, m, hops) ==
  [e EXCEPT !.next_hop = m, !.out_interface = m,
            !.hops = hops, !.timestamp = now]

-----------------------------------------------------------------------------
(* What a pass of the loop sends: a sequence of packets for each node. *)

Silent == [x \in Nodes |-> <<>>]

\* A frame for the hardware address 0 reaches nobody.
sendMessage(mac, p) ==
  [x \in Nodes |-> IF x = mac THEN <<p>> ELSE <<>>]

\* Mutant: eth0, the network that joins all nodes, is not left out.
MutBroadcastEth0(n, p) ==
  [x \in Nodes |-> IF x # n THEN <<p>> ELSE <<>>]

\* Over every interface but lo and eth0.
broadcast(n, p) ==
  [x \in Nodes |-> IF x \in Neighbours(n) THEN <<p>> ELSE <<>>]

Then(f, g) == [x \in Nodes |-> f[x] \o g[x]]

\* Mutant: the last slot is given up instead of the one that was sent.
MutDropLast(buffer, i) == SubSeq(buffer, 1, Len(buffer) - 1)

\* Entries from the removed one on are overwritten with the slot behind the
\* last, which is zero.
removeFromBuffer(buffer, i) ==
  [k \in 1..(Len(buffer) - 1) |-> IF k < i THEN buffer[k] ELSE Blank]

\* One iteration of the loop, at index i.  A blank slot has no destination
\* address: getNodeByIP then asks for whatever the stack holds, which is
\* stack[i], a node or the end of the process.
Iteration(table, stack, r, i) ==
  LET p == IF i <= Len(r.buffer) THEN r.buffer[i] ELSE Blank
      dest == IF p = Blank THEN stack[i] ELSE p.dst
      s == [r EXCEPT !.undef = @ \/ p = Blank]
  IN  IF r.crashed \/ dest = Crash THEN [s EXCEPT !.crashed = TRUE]
      ELSE IF Usable(table[dest])
        THEN [s EXCEPT !.buffer = removeFromBuffer(r.buffer, i),
                       !.out = Then(@, sendMessage(table[dest].next_hop, p))]
        ELSE s

\* The loop makes as many iterations as there were packets.
sendMessageFromBuffer(table, buffer, stack) ==
  LET After[i \in 0..Len(buffer)] ==
        IF i = 0 THEN [buffer |-> buffer, out |-> Silent, crashed |-> FALSE,
                       undef |-> FALSE]
                 ELSE Iteration(table, stack, After[i - 1], i)
  IN  After[Len(buffer)]

Stacks(buffer) == [1..Len(buffer) -> Nodes \cup {Crash}]

-----------------------------------------------------------------------------
(* The client's port. *)

addMap(MapArray, portNum, sun_path) ==
  IF Len(MapArray) < MAP_SIZE
    THEN Append(MapArray, [portNum |-> portNum, sun_path |-> sun_path])
    ELSE MapArray

\* Mutant: the client that came last.
MutSearchLast(MapArray, port) ==
  IF MapArray = <<>> THEN Crash ELSE Last(MapArray).sun_path

\* searchMap returns NULL for an unknown port, and strcpy follows it.
searchMap(MapArray, port) ==
  LET Found == {k \in 1..Len(MapArray) : MapArray[k].portNum = port}
  IN  IF Found = {} THEN Crash ELSE MapArray[Min(Found)].sun_path

-----------------------------------------------------------------------------
\* A pass of daemon n ends: its new state is s (the frame it took is already
\* gone from queues), it sent out, and with `crashed' the process has ended.
Finish(n, queues, s, out, crashed) ==
  /\ odr' = [odr EXCEPT ![n] = IF crashed THEN Exited ELSE s]
  /\ net' = [x \in Nodes |-> [y \in Nodes |->
               IF y = n /\ crashed THEN <<>>
               ELSE IF x = n /\ odr[y].up THEN queues[x][y] \o out[y]
               ELSE queues[x][y]]]
  /\ ended' = IF crashed THEN ended \cup {n} ELSE ended

Taken(m, n) == [net EXCEPT ![m][n] = Tail(@)]

\* The message of client c for node d goes through the daemon of its node.
Message(c, d, flag) ==
  LET n == Home[c]
      s == odr[n]
      id == s.broadcast_id + 1
      table == IF flag = 1 THEN [s.table EXCEPT ![d].next_hop = NoMac]
                           ELSE s.table
      buffer == Append(s.buffer, App("request", n, d, s.sourcePort, 0))
      request == RREQ(n, d, 0, FALSE, flag = 1, id)
      seek == IF Unusable(table[d]) THEN broadcast(n, request) ELSE Silent
  IN  \E stack \in Stacks(buffer) :
        LET r == sendMessageFromBuffer(table, buffer, stack)
        IN  /\ Finish(n, net,
                 [s EXCEPT !.table = table, !.buffer = r.buffer,
                           !.broadcast_id = id, !.sourcePort = @ + 1,
                           !.MapArray = addMap(@, s.sourcePort, c)],
                 Then(seek, r.out), r.crashed)
            /\ undef' = (undef \/ r.undef)
            /\ asked' = asked \cup {[client |-> c, dst |-> d, flag |-> flag,
                                     port |-> s.sourcePort]}

\* msg_send ends the client if there is no daemon.
Send(c, d, flag, phase) ==
  /\ Cardinality(asked) < MaxAsked
  /\ IF odr[Home[c]].up
       THEN /\ Message(c, d, flag)
            /\ client' = [client EXCEPT ![c].phase = phase, ![c].target = d]
       ELSE /\ client' = [client EXCEPT ![c].phase = "exited"]
            /\ UNCHANGED <<odr, net, ended, asked, undef>>
  /\ UNCHANGED now

Ask(c) ==
  /\ client[c].phase = "idle"
  /\ \E d \in Targets, flag \in Flags : Send(c, d, flag, "first")

\* The first alarm: ask again, and force a discovery.
Retry(c) ==
  /\ client[c].phase = "first" /\ client[c].socket = <<>>
  /\ Send(c, client[c].target, 1, "second")

\* The second alarm.
GiveUp(c) ==
  /\ client[c].phase = "second" /\ client[c].socket = <<>>
  /\ client' = [client EXCEPT ![c].phase = "idle"]
  /\ UNCHANGED <<odr, net, now, ended, asked, undef>>

\* Any datagram on the socket is taken for the answer.
ReadAnswer(c) ==
  /\ client[c].phase \in {"first", "second"} /\ client[c].socket # <<>>
  /\ client' = [client EXCEPT ![c].phase = "idle", ![c].socket = Tail(@)]
  /\ UNCHANGED <<odr, net, now, ended, asked, undef>>

-----------------------------------------------------------------------------
\* The routing table of n after the RREQ p from m, but for the id remembered
\* with the destination.
ReverseRoute(n, m, p) ==
  LET table == odr[n].table
      e == table[p.src]
      newer == p.id > e.bid[p.src]
      update == \/ ~(Hop(p.hops) > e.hops \/ Fresh(e))
                \/ newer /\ p.forced
                \/ ~checkAddressNotEmpty(e.next_hop)
      marked == IF newer THEN [e EXCEPT !.bid[p.src] = p.id] ELSE e
  IN  [table EXCEPT ![p.src] =
         IF update THEN Through(marked, m, Hop(p.hops)) ELSE marked]

\* Mutant: the flood takes the place of the answer.
MutFloodOrAnswer(n, p, table) ==
  LET e == odr[n].table[p.src]
  IN  IF ~checkAddressNotEmpty(e.next_hop) \/ e.hops > Hop(p.hops)
        THEN broadcast(n, [p EXCEPT !.hops = Hop(@), !.sent = TRUE])
        ELSE sendMessage(table[p.src].next_hop,
                         RREP(p.dst, p.src, 0, p.forced, p.id))

\* Answer the RREQ p; flood it, marked as answered, if its source is new or
\* nearer than before.
Answer(n, p, table) ==
  LET e == odr[n].table[p.src]
      further == [p EXCEPT !.hops = Hop(@), !.sent = TRUE]
      reply == RREP(p.dst, p.src, 0, p.forced, p.id)
  IN  Then(sendMessage(table[p.src].next_hop, reply),
           IF ~checkAddressNotEmpty(e.next_hop) \/ e.hops > Hop(p.hops)
             THEN broadcast(n, further) ELSE Silent)

\* Mutant: the same RREQ counts as new each time it comes.
MutSeenIsNew(table, p) == p.id >= table[p.dst].bid[p.src]

\* The id of RREQ p is above the one remembered for its two ends.
Unseen(table, p) == p.id > table[p.dst].bid[p.src]

\* Daemon n handles the RREQ p of neighbour m.
HandleRREQ(n, m, p) ==
  LET reverse == ReverseRoute(n, m, p)
      new == Unseen(reverse, p)
      table == [reverse EXCEPT ![p.dst].bid[p.src] = p.id]
      known == n # p.dst /\ Usable(table[p.dst])
      unknown == n # p.dst /\ Unusable(table[p.dst])
      flood == broadcast(n, [p EXCEPT !.hops = Hop(@)])
      Ends(t, out) == Finish(n, Taken(m, n), [odr[n] EXCEPT !.table = t], out, FALSE)
  IN  IF p.src = n THEN Ends(odr[n].table, Silent)
      ELSE IF ~new THEN Ends(reverse, Silent)
      ELSE IF unknown \/ (known /\ p.forced) THEN Ends(table, flood)
      ELSE IF known
        THEN Ends([table EXCEPT ![p.dst].timestamp = now],
                  IF p.sent THEN Silent ELSE Answer(n, p, table))
      ELSE IF n = p.dst /\ ~p.sent THEN Ends(table, Answer(n, p, table))
      ELSE Ends(table, Silent)

ReceiveRREQ(n, m) ==
  /\ net[m][n] # <<>> /\ Head(net[m][n]).type = 0
  /\ HandleRREQ(n, m, Head(net[m][n]))
  /\ UNCHANGED <<client, now, asked, undef>>

\* A blank packet is of type 0 with id 0, neither forced nor answered; both
\* addresses are again what the stack holds.
ReceiveBlank(n, m) ==
  /\ net[m][n] # <<>> /\ Head(net[m][n]) = Blank
  /\ \/ Finish(n, Taken(m, n), odr[n], Silent, TRUE)
     \/ \E src, dst \in Nodes :
          HandleRREQ(n, m, RREQ(src, dst, 0, FALSE, FALSE, 0))
  /\ UNCHANGED <<client, now, asked, undef>>

-----------------------------------------------------------------------------
\* Mutant: only the node that asked learns the route.
MutForwardAtEnd(n, m, p) ==
  LET table == odr[n].table
  IN  IF p.dst = n
        THEN [table EXCEPT ![p.src] = Through(@, m, Hop(p.hops))] ELSE table

\* The routing table of n after the RREP p from m.  The id is the one of the
\* node that asked, whoever the route is for.
ForwardRoute(n, m, p) ==
  LET table == odr[n].table
      e == table[p.src]
      update == \/ p.forced
                \/ Hop(p.hops) < e.hops
                \/ Stale(e)
                \/ ~checkAddressNotEmpty(e.next_hop)
  IN  IF update
        THEN [table EXCEPT ![p.src] =
                [Through(e, m, Hop(p.hops)) EXCEPT !.bid[p.src] = p.id]]
        ELSE table

\* Mutant: towards the node the RREP comes from.
MutRelayBack(table, p) == table[p.src]

\* The entry by which RREP p is passed on.
Relay(table, p) == table[p.dst]

\* An RREP brings the route to its source; it is for this node, or is passed
\* on.  Without any entry for its destination sendto fails on interface 0.
ReceiveRREP(n, m) ==
  LET p == Head(net[m][n])
      s == odr[n]
      table == ForwardRoute(n, m, p)
      onward == Relay(table, p)
  IN  /\ net[m][n] # <<>> /\ p.type = 1
      /\ \/ /\ p.dst = n
            /\ \E stack \in Stacks(s.buffer) :
                 LET r == sendMessageFromBuffer(table, s.buffer, stack)
                 IN  /\ Finish(n, Taken(m, n),
                          [s EXCEPT !.table = table, !.buffer = r.buffer],
                          r.out, r.crashed)
                     /\ undef' = (undef \/ r.undef)
         \/ /\ p.dst # n
            /\ Finish(n, Taken(m, n), [s EXCEPT !.table = table],
                      sendMessage(onward.next_hop, [p EXCEPT !.hops = Hop(@)]),
                      onward.out_interface = NoMac)
            /\ UNCHANGED undef
      /\ UNCHANGED <<client, now, asked>>

\* What the server of node n makes of request p.
Serve(n, p) == App("response", n, p.src, p.port, 0)

\* msg_send2: packet p to the socket of client c.
Deliver(c, p) == [client EXCEPT ![c].socket = Append(@, p)]

\* An application message: answered with the server's time, given to the
\* client, or passed on, always by way of the send buffer.  If packets are left
\* there, a forced RREQ goes out for the destination of the message that came.
ReceiveApp(n, m) ==
  LET p == Head(net[m][n])
      s == odr[n]
      table == [s.table EXCEPT ![p.src] = Through(@, m, Hop(p.hops))]
      served == p.dst = n /\ p.msg = "request"
      delivered == p.dst = n /\ p.msg = "response"
      to == searchMap(s.MapArray, p.port)
      buffer == s.buffer \o
        (IF served THEN <<Serve(n, p)>>
         ELSE IF delivered THEN <<>>
         ELSE <<[p EXCEPT !.hops = Hop(@)]>>)
      ends == (served /\ n \notin Servers) \/ (delivered /\ to = Crash)
      request == RREQ(n, p.dst, 0, FALSE, TRUE, s.broadcast_id + 1)
  IN  /\ net[m][n] # <<>> /\ p.type = 2
      /\ \/ /\ ends
            /\ Finish(n, Taken(m, n), s, Silent, TRUE)
            /\ UNCHANGED undef
         \/ /\ ~ends
            /\ \E stack \in Stacks(buffer) :
                 LET r == sendMessageFromBuffer(table, buffer, stack)
                     left == Len(r.buffer) > 0
                 IN  /\ Finish(n, Taken(m, n),
                          [s EXCEPT !.table = table, !.buffer = r.buffer,
                                    !.broadcast_id = IF left THEN @ + 1 ELSE @],
                          IF left /\ ~r.crashed
                            THEN Then(r.out, broadcast(n, request)) ELSE r.out,
                          r.crashed)
                     /\ undef' = (undef \/ r.undef)
      /\ client' = IF delivered /\ ~ends THEN Deliver(to, p) ELSE client
      /\ UNCHANGED <<now, asked>>

-----------------------------------------------------------------------------
\* Seconds pass (bound: once) in which the daemons have nothing to do.
Tick ==
  /\ now = Start
  /\ now' \in (now + 1)..(now + MaxTicks)
  /\ UNCHANGED <<odr, net, client, ended, asked, undef>>

\* A user ends the daemon of n.
Stop(n) ==
  /\ odr[n].up /\ n \in Stoppable /\ Cardinality(ended) < MaxStops
  /\ Finish(n, net, odr[n], Silent, TRUE)
  /\ UNCHANGED <<client, now, asked, undef>>

\* A user starts the daemon of n again.
Boot(n) ==
  /\ ~odr[n].up
  /\ odr' = [odr EXCEPT ![n] = Booted]
  /\ UNCHANGED <<net, client, now, ended, asked, undef>>

Receive(n) == \E m \in Nodes :
  ReceiveRREQ(n, m) \/ ReceiveBlank(n, m) \/ ReceiveRREP(n, m) \/ ReceiveApp(n, m)

Next ==
  \/ \E c \in Clients : Ask(c) \/ Retry(c) \/ GiveUp(c) \/ ReadAnswer(c)
  \/ \E n \in Nodes : Receive(n) \/ Stop(n) \/ Boot(n)
  \/ Tick

Spec == Init /\ [][Next]_vars

\* As long as frames are under way some daemon takes one; users and the clock
\* are free.
FairSpec == Spec /\ WF_vars(\E n \in Nodes : Receive(n))
-----------------------------------------------------------------------------
(* Properties. *)

Macs == Nodes \cup {NoMac}
Messages ==
  [type : {2}, src : Nodes, dst : Nodes, hops : 0..MaxHops,
   msg : {"request", "response"}, port : Nat \ {0}]
Packets ==
  [type : {0}, src : Nodes, dst : Nodes, hops : 0..MaxHops,
   sent : BOOLEAN, forced : BOOLEAN, id : Nat]
  \cup [type : {1}, src : Nodes, dst : Nodes, hops : 0..MaxHops,
        forced : BOOLEAN, id : Nat]
  \cup Messages
Daemons ==
  [up : BOOLEAN,
   table : [Nodes -> [next_hop : Macs, out_interface : Macs, hops : 0..MaxHops,
                      timestamp : Nat, bid : [Nodes -> Nat]]],
   buffer : Seq(Messages \cup {Blank}),
   broadcast_id : Nat, sourcePort : Nat \ {0},
   MapArray : Seq([portNum : Nat \ {0}, sun_path : Clients])]

\* Types: daemons hold routes, messages and clients; only daemons that run get
\* frames.
TypeOK ==
  /\ odr \in [Nodes -> Daemons]
  /\ net \in [Nodes -> [Nodes -> Seq(Packets \cup {Blank})]]
  /\ client \in [Clients -> [phase : {"idle", "first", "second", "exited"},
                             target : Nodes, socket : Seq(Messages)]]
  /\ now \in Nat /\ ended \subseteq Nodes /\ undef \in BOOLEAN
  /\ asked \subseteq [client : Clients, dst : Nodes, flag : {0, 1}, port : Nat]
  /\ \A m, n \in Nodes : net[m][n] # <<>> => odr[n].up /\ m \in Neighbours(n)

\* Whether p is the request a, or the response to it.
Of(p, a) ==
  /\ p.type = 2 /\ p.port = a.port
  /\ IF p.msg = "request" THEN p.src = Home[a.client] /\ p.dst = a.dst
                          ELSE p.dst = Home[a.client] /\ p.src = a.dst

\* The positions of packet sequence q that hold a.
In(q, a) == {i \in 1..Len(q) : Of(q[i], a)}

\* Where packets lie: a send buffer, a link, the socket of a client.
Boxes == {<<"buffer", n, n>> : n \in Nodes} \cup {<<"socket", c, c>> : c \in Clients}
           \cup {<<"link", m, n>> : m, n \in Nodes}

At(b) ==
  CASE b[1] = "buffer" -> odr[b[2]].buffer
    [] b[1] = "socket" -> client[b[2]].socket
    [] OTHER -> net[b[2]][b[3]]

Places(a) == UNION {{<<b, i>> : i \in In(At(b), a)} : b \in Boxes}

\* A message is in one place at most, however it is buffered, forwarded, answered
\* and delivered: sendMessageFromBuffer sends and removes in one pass, and a
\* forwarded packet is copied into the buffer.  A client whose daemon has ended
\* is excepted, because a new daemon gives out the same ports again.
OneCopy ==
  \A a \in asked : Home[a.client] \notin ended =>
    \A x, y \in Places(a) : x = y

\* What lies in a client's socket is the answer to a message of that client:
\* the port map gives a response to the client that asked.  The client's own
\* daemon is excepted once it has ended, because a new one gives out the same
\* ports again; what becomes of the other daemons does not matter.
AnswerToAsker ==
  \A c \in Clients : Home[c] \notin ended =>
    \A i \in 1..Len(client[c].socket) :
      \E a \in asked : a.client = c /\ Of(client[c].socket[i], a)

\* Nothing has taken a route away: no daemon has ended, no blank packet was used
\* and no client forced a discovery.
RoutesKept == ended = {} /\ ~undef /\ \A a \in asked : a.flag = 0

\* The next hop of a route is its destination or has a route itself, so that an
\* RREP and a message can be passed on all the way.
RoutesLead ==
  RoutesKept =>
    \A n, d \in Nodes :
      LET m == odr[n].table[d].next_hop
      IN  m \in {NoMac, d} \/ odr[m].table[d].next_hop # NoMac

\* No set of nodes passes the messages for some node round among its members.
\* The code does not see to that: an RREP of an intermediate node counts its
\* hops from 0 (line 786), so that a node may take for better a route that leads
\* back to itself.
NoCircle ==
  \A d \in Nodes, S \in SUBSET Nodes : S # {} /\ d \notin S =>
    \E n \in S : odr[n].table[d].next_hop \notin S

\* As long as no route is taken away or leads in a circle the network falls
\* silent: no RREQ is flooded without end (line 760 stops it), no packet is
\* passed on for ever.
Settles ==
  <>[](RoutesKept /\ NoCircle) => <>[](\A m, n \in Nodes : net[m][n] = <<>>)

\* A daemon floods an RREQ of another node only if its id is above every one it
\* has flooded for the same two ends, and remembers it (line 760): as long as
\* the daemon runs a flood passes it at most once, however many copies arrive
\* and in whatever order.
FloodsOnce ==
  [][\A n \in Nodes : odr[n].up /\ odr'[n].up =>
       /\ \A d, s \in Nodes : d # s =>
            odr'[n].table[d].bid[s] >= odr[n].table[d].bid[s]
       /\ \A y \in Nodes : \A i \in (Len(net[n][y]) + 1)..Len(net'[n][y]) :
            LET p == net'[n][y][i]
            IN  p.type = 0 /\ p.src # n =>
                  /\ p.id > odr[n].table[p.dst].bid[p.src]
                  /\ p.id = odr'[n].table[p.dst].bid[p.src]]_vars

\* No route is lost, ages or leads in a circle.
Calm == RoutesKept /\ NoCircle /\ now = Start

\* In a calm network no client waits for ever for an answer of another node.
CalmAnswered ==
  <>[]Calm => []<>(\A c \in Clients :
    client[c].phase = "first" => client[c].socket # <<>> \/ client[c].target = Home[c])
=============================================================================
