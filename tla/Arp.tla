-------------------------------- MODULE Arp --------------------------------
(***************************************************************************)
(* The ARP daemons of the tour application (multicast/code/                *)
(* arp_chechung.c, the main loop): one per node, each with its table, the  *)
(* connections of the local tour process (areq in tour_chechung.c), and    *)
(* the frames between them.                                                *)
(*                                                                         *)
(* A node has one IP and one hardware address, so a node names both.  Two  *)
(* tests of the code look at the bytes of a hardware address: strcmp stops *)
(* at a zero byte and, where there is none, goes on to the bytes that      *)
(* follow the address, and checkAddressNotEmpty sees the lowest bit of     *)
(* each byte only.                                                         *)
(***************************************************************************)
EXTENDS Naturals, Sequences, FiniteSets

CONSTANTS Nodes,
          LeadZero,   \* nodes whose hardware address begins with a zero byte
          Terminated, \* nodes whose hardware address has a zero byte somewhere
          Odd,        \* nodes whose hardware address has an odd byte
          Asks,       \* pairs <<n, ip>>: the tour process of n may ask for ip
          MaxLost,    \* bound: frames the network loses
          MaxConns,   \* bound: a daemon's descriptors for unanswered requests
          MaxStarts   \* bound: of each node, times its daemon is started

NoMac == "none"
Macs == Nodes \cup {NoMac}

ASSUME ArpAssumption ==
  /\ IsFiniteSet(Nodes) /\ NoMac \notin Nodes
  /\ LeadZero \subseteq Terminated /\ Terminated \subseteq Nodes
  /\ Odd \subseteq Nodes /\ Asks \subseteq Nodes \X Nodes
  /\ MaxLost \in Nat /\ MaxConns \in Nat /\ MaxStarts \in [Nodes -> Nat \ {0}]

VARIABLES arpTable,  \* of each node: a sequence of entries ip, mac, fd
          conns,     \* of each node: descriptor -> connection, or Free
          areq,      \* of each node: the descriptor its tour process waits on
          frames,    \* frames in flight
          up,        \* of each node: the daemon runs
          \* not in the code:
          starts,    \* how often the daemon of each node was started
          lost       \* the number of frames lost

vars == <<arpTable, conns, areq, frames, up, starts, lost>>

\* areq outside a call, and on a connection nobody will answer.
Idle == 0
Unheard == MaxConns + 1

\* A connection: the IP asked for, the answer, and whether the asker hung up.
Conn(ip, mac) == [ip |-> ip, mac |-> mac, hup |-> FALSE]
Free == Conn(NoMac, NoMac)

\* fd 0 is the code's -1: nobody waits.
Entry(ip, mac, fd) == [ip |-> ip, mac |-> mac, fd |-> fd]

\* A frame of sender s (its IP and hardware address) for target t.  A broadcast
\* reaches the other nodes too, where it changes nothing: the update of an entry
\* for its sender goes to a local copy.  The life of the daemon that asked is not
\* in the code: it tells apart frames with the same bytes.
Frame(op, s, t, life) == [op |-> op, sender |-> s, target |-> t, life |-> life]

\* The reply of node n to request m.
Reply(n, m) == Frame("reply", n, m.sender, m.life)

Init ==
  /\ arpTable = [n \in Nodes |-> <<>>]
  /\ conns = [n \in Nodes |-> [fd \in 1..MaxConns |-> Free]]
  /\ areq = [n \in Nodes |-> Idle]
  /\ frames = {} /\ lost = 0
  /\ up = [n \in Nodes |-> TRUE]
  /\ starts = [n \in Nodes |-> 1]

-----------------------------------------------------------------------------
(* Lookups. *)

\* The first index with property P, or 0.
FirstIndex(table, P(_)) ==
  IF \E i \in 1..Len(table) : P(table[i])
    THEN CHOOSE i \in 1..Len(table) :
           P(table[i]) /\ \A j \in 1..(i - 1) : ~P(table[j])
    ELSE 0

\* Mutant: strcmp's result taken for "equal".
MutIndexOfOther(table, ip) ==
  LET Matches(e) == e.ip # ip IN FirstIndex(table, Matches)

\* Mutant: an entry without an address is not found.
MutIndexOfComplete(table, ip) ==
  LET Matches(e) == e.ip = ip /\ e.mac # NoMac IN FirstIndex(table, Matches)

indexOfIP(table, ip) ==
  LET Matches(e) == e.ip = ip IN FirstIndex(table, Matches)

\* strcmp of the address in an entry and the one in a message: no address is six
\* zero bytes.  An address without a zero byte goes on with the hardware type
\* in the entry and with the sender's IP in the message, and differs from
\* itself.
EmptyString(mac) == mac = NoMac \/ mac \in LeadZero
SameMac(a, b) ==
  \/ a = b /\ a \in Terminated
  \/ EmptyString(a) /\ EmptyString(b)

checkEntryExist(table, s) ==
  LET Matches(e) == e.ip = s /\ SameMac(e.mac, s)
  IN  FirstIndex(table, Matches)

checkAddressNotEmpty(mac) == mac \in Odd

-----------------------------------------------------------------------------
(* The tour process of a node, in areq. *)

\* Accept gives the lowest descriptor that is free.
NewDescriptor(n) ==
  CHOOSE fd \in 1..MaxConns :
    conns[n][fd] = Free /\ \A g \in 1..(fd - 1) : conns[n][g] # Free

\* The tour process of node n asks for the hardware address of ip.  An unknown
\* ip gets an incomplete entry and a broadcast, a complete one is answered; for
\* an incomplete one nothing is done and the connection is forgotten.
TourRequest(n, ip) ==
  LET i == indexOfIP(arpTable[n], ip)
      fd == NewDescriptor(n)
      room == \E g \in 1..MaxConns : conns[n][g] = Free
  IN /\ up[n] /\ areq[n] = Idle /\ ip # n
     /\ UNCHANGED <<up, starts, lost>>
     /\ \/ /\ i = 0 /\ room
           /\ arpTable' = [arpTable EXCEPT ![n] = Append(@, Entry(ip, NoMac, fd))]
           /\ conns' = [conns EXCEPT ![n][fd] = Conn(ip, NoMac)]
           /\ frames' = frames \cup {Frame("request", n, ip, starts[n])}
           /\ areq' = [areq EXCEPT ![n] = fd]
        \/ /\ i # 0 /\ ~checkAddressNotEmpty(arpTable[n][i].mac)
           /\ areq' = [areq EXCEPT ![n] = Unheard]
           /\ UNCHANGED <<arpTable, conns, frames>>
        \/ /\ i # 0 /\ checkAddressNotEmpty(arpTable[n][i].mac) /\ room
           /\ conns' = [conns EXCEPT ![n][fd] = Conn(ip, arpTable[n][i].mac)]
           /\ areq' = [areq EXCEPT ![n] = fd]
           /\ UNCHANGED <<arpTable, frames>>

Answered(n) ==
  areq[n] \in 1..MaxConns /\ conns[n][areq[n]].mac # NoMac

\* areq reads the answer; the daemon closed its end when it wrote it.
AreqReturn(n) ==
  /\ Answered(n)
  /\ conns' = [conns EXCEPT ![n][areq[n]] = Free]
  /\ areq' = [areq EXCEPT ![n] = Idle]
  /\ UNCHANGED <<arpTable, frames, up, starts, lost>>

\* Readable_timeo gives up after five seconds, or read finds the daemon gone.
\* The connection is not closed, so it stays open in the daemon.
AreqTimeout(n) ==
  /\ areq[n] # Idle /\ ~Answered(n)
  /\ areq' = [areq EXCEPT ![n] = Idle]
  /\ UNCHANGED <<arpTable, conns, frames, up, starts, lost>>

\* The tour process ends, and with it its ends of all connections.
TourExit(n) ==
  /\ conns' = [conns EXCEPT ![n] =
       [fd \in 1..MaxConns |->
          IF @[fd] = Free \/ @[fd].mac # NoMac THEN Free
          ELSE [@[fd] EXCEPT !.hup = TRUE]]]
  /\ areq' = [areq EXCEPT ![n] = Idle]
  /\ UNCHANGED <<arpTable, frames, up, starts, lost>>

-----------------------------------------------------------------------------
(* The daemon and the network. *)

\* Mutant: only a new sender gets a reply.
MutReplyToNew(n, m) ==
  /\ up[n] /\ m.target = n /\ m.op = "request"
  /\ IF checkEntryExist(arpTable[n], m.sender) = 0
       THEN /\ frames' = (frames \ {m}) \cup {Reply(n, m)}
            /\ arpTable' = [arpTable EXCEPT
                    ![n] = Append(@, Entry(m.sender, m.sender, 0))]
       ELSE frames' = frames \ {m} /\ UNCHANGED arpTable
  /\ UNCHANGED <<conns, areq, up, starts, lost>>

\* A request reaches its target, which adds an entry if it has none that matches
\* the sender's two addresses, and replies in any case.
ReceiveRequest(n, m) ==
  /\ up[n] /\ m.target = n /\ m.op = "request"
  /\ frames' = (frames \ {m}) \cup {Reply(n, m)}
  /\ arpTable' = IF checkEntryExist(arpTable[n], m.sender) = 0
       THEN [arpTable EXCEPT ![n] = Append(@, Entry(m.sender, m.sender, 0))]
       ELSE arpTable
  /\ UNCHANGED <<conns, areq, up, starts, lost>>

\* A daemon that writes to a connection whose other end is closed is ended by
\* SIGPIPE.
DaemonEnds(n) ==
  /\ up' = [up EXCEPT ![n] = FALSE]
  /\ arpTable' = [arpTable EXCEPT ![n] = <<>>]
  /\ conns' = [conns EXCEPT ![n] = [fd \in 1..MaxConns |-> Free]]
  /\ areq' = [areq EXCEPT ![n] = IF @ = Idle THEN Idle ELSE Unheard]

\* The answer on descriptor fd, which is then closed: the tour process reads it
\* if it still waits there.
Answer(n, fd, mac) ==
  conns' = [conns EXCEPT ![n][fd] = IF areq[n] = fd THEN [@ EXCEPT !.mac = mac]
                                    ELSE Free]

\* Mutant: the descriptor stays in the entry after the answer.
MutKeepDescriptor(n, m) ==
  LET i == indexOfIP(arpTable[n], m.sender)
      fd == IF i = 0 THEN 0 ELSE arpTable[n][i].fd
  IN /\ up[n] /\ m.target = n /\ m.op = "reply"
     /\ frames' = frames \ {m} /\ UNCHANGED <<starts, lost>>
     /\ IF fd # 0 /\ conns[n][fd].hup THEN DaemonEnds(n)
        ELSE /\ arpTable' = IF i = 0 THEN arpTable
                  ELSE [arpTable EXCEPT ![n][i].mac = m.sender]
             /\ IF fd = 0 THEN UNCHANGED conns ELSE Answer(n, fd, m.sender)
             /\ UNCHANGED <<areq, up>>

\* A reply completes the first entry with the sender's IP and is passed on to
\* the connection that waits there.
ReceiveReply(n, m) ==
  LET i == indexOfIP(arpTable[n], m.sender)
      fd == IF i = 0 THEN 0 ELSE arpTable[n][i].fd
  IN /\ up[n] /\ m.target = n /\ m.op = "reply"
     /\ frames' = frames \ {m} /\ UNCHANGED <<starts, lost>>
     /\ IF fd # 0 /\ conns[n][fd].hup THEN DaemonEnds(n)
        ELSE /\ arpTable' = IF i = 0 THEN arpTable
                  ELSE [arpTable EXCEPT ![n][i] = Entry(m.sender, m.sender, 0)]
             /\ IF fd = 0 THEN UNCHANGED conns ELSE Answer(n, fd, m.sender)
             /\ UNCHANGED <<areq, up>>

\* The network loses a frame, or no daemon is there to read it.
Lose(m) ==
  /\ frames' = frames \ {m}
  /\ IF up[m.target] THEN lost < MaxLost /\ lost' = lost + 1 ELSE UNCHANGED lost
  /\ UNCHANGED <<arpTable, conns, areq, up, starts>>

\* A daemon that has ended is started again, with an empty table.
DaemonStart(n) ==
  /\ ~up[n] /\ starts[n] < MaxStarts[n]
  /\ up' = [up EXCEPT ![n] = TRUE]
  /\ starts' = [starts EXCEPT ![n] = @ + 1]
  /\ UNCHANGED <<arpTable, conns, areq, frames, lost>>

Receive == \E n \in Nodes, m \in frames : ReceiveRequest(n, m) \/ ReceiveReply(n, m)

Next ==
  \/ \E a \in Asks : TourRequest(a[1], a[2])
  \/ \E n \in Nodes : AreqReturn(n) \/ AreqTimeout(n) \/ TourExit(n)
  \/ Receive
  \/ \E m \in frames : Lose(m)
  \/ \E n \in Nodes : DaemonStart(n)

Spec == Init /\ [][Next]_vars

\* The daemons are scheduled: a frame that is not lost is received.
FairSpec ==
  Spec /\ WF_vars(Receive)

-----------------------------------------------------------------------------
(* Properties. *)

TypeOK ==
  /\ arpTable \in [Nodes -> Seq([ip : Nodes, mac : Macs, fd : 0..MaxConns])]
  /\ conns \in [Nodes -> [1..MaxConns -> [ip : Macs, mac : Macs, hup : BOOLEAN]]]
  /\ areq \in [Nodes -> Idle..Unheard]
  /\ frames \subseteq [op : {"request", "reply"}, sender : Nodes, target : Nodes,
                   life : Nat \ {0}]
  /\ up \in [Nodes -> BOOLEAN] /\ starts \in [Nodes -> Nat \ {0}]
  /\ lost \in 0..MaxLost

\* An answer to the tour process, and every completed entry, is the hardware
\* address of the IP asked for, whatever order frames arrive in and however
\* often a descriptor is used again.
AnswersRight ==
  \A n \in Nodes :
    /\ \A fd \in 1..MaxConns : conns[n][fd].mac \in {NoMac, conns[n][fd].ip}
    /\ \A i \in 1..Len(arpTable[n]) :
         arpTable[n][i].mac \in {NoMac, arpTable[n][i].ip}

Stored(n, fd) == {i \in 1..Len(arpTable[n]) : arpTable[n][i].fd = fd}

\* The descriptors stored in a table are those of the node's connections that
\* wait for an answer, each in one entry, the one for its IP: a descriptor
\* that is closed and used again never gets the answer to an earlier request.
DescriptorsLive ==
  \A n \in Nodes, fd \in 1..MaxConns :
    IF conns[n][fd] # Free /\ conns[n][fd].mac = NoMac
      THEN \E i \in Stored(n, fd) :
             Stored(n, fd) = {i} /\ arpTable[n][i].ip = conns[n][fd].ip
      ELSE Stored(n, fd) = {}

\* The table's numEntries++ is unchecked.  A daemon asks for an IP once in its
\* life, so a table has one entry for an IP that is its own node's asking, and
\* one more for each time the daemon of that IP was started: the 20 slots are
\* enough for the ten nodes of the testbed as long as no daemon is started again.
\* If the address has a zero byte two entries are the most in any case, because
\* then checkEntryExist finds it.
TableFits ==
  \A n, ip \in Nodes :
    LET entries == {i \in 1..Len(arpTable[n]) : arpTable[n][i].ip = ip}
    IN  /\ Cardinality(entries) <= 1 + starts[ip]
        /\ ip \in Terminated => Cardinality(entries) <= 2

\* Liveness: unless the network loses a frame or a daemon ends, a time comes when
\* no connection waits, also when both ends ask at once and the reply finds two
\* entries.
StoredIsAnswered ==
  []<>(\/ \A n \in Nodes, fd \in 1..MaxConns : Stored(n, fd) = {}
       \/ lost > 0
       \/ \E m \in Nodes : ~up[m] \/ starts[m] > 1)
=============================================================================
