-------------------------------- MODULE Tour --------------------------------
(***************************************************************************)
(* The tour application (multicast/code/tour_chechung.c): a routing packet *)
(* walks a list of nodes, each node it visits joins a multicast group and  *)
(* pings its predecessor, and the last node ends the tour by multicast.    *)
(* Before every ping a process asks the ARP daemon of its node: the        *)
(* daemons of module Arp take part with their own steps.                   *)
(***************************************************************************)
EXTENDS Naturals, Sequences, FiniteSets, SequencesExt

CONSTANTS Nodes, LeadZero, Terminated, Odd, Asks,         \* see Arp
          MaxLost, MaxConns, MaxStarts,                   \* see Arp
          Source,     \* the node where the tour is started
          Tours,      \* the tours it may be asked for: the nodes in order
          Goal,       \* replies to count before the end (5 in the code)
          MaxDrop     \* bound: multicast datagrams lost

None == "none"

\* Any node may ask for any other.  The code means to refuse a node twice in a
\* row.
ASSUME TourAssumption ==
  /\ Asks = Nodes \X Nodes /\ None \notin Nodes /\ Source \in Nodes /\ IsFiniteSet(Nodes)
  /\ \A t \in Tours :
       /\ t \in Seq(Nodes) /\ Len(t) > 1 /\ t[1] = Source
       /\ \A i \in 2..Len(t) : t[i] # t[i - 1]
  /\ Goal \in Nat \ {0} /\ MaxDrop \in Nat

Kinds == {"T", "N"}   \* the letter the receiver looks at
NoMail == [m \in Kinds |-> 0]

VARIABLES arpTable, conns, areq, frames, up, starts, lost,  \* see Arp
          proc,    \* the tour process of each node
          tour,    \* the list in the routing packet, <<>> before the start
          rt,      \* index in tour the routing packet is on its way to, or 0
          echo,    \* ping replies on their way: <<asker, node asked>>
          mq,      \* of each node: multicast datagrams not yet read, how many
                   \* that end the tour and how many that identify a member
          \* not in the code:
          ended,   \* the end of the tour was multicast
          said,    \* the nodes that identified themselves
          drops    \* multicast datagrams lost

arpVars == <<arpTable, conns, areq, frames, up, starts, lost>>
tourVars == <<proc, tour, rt, echo, mq, ended, said, drops>>
vars == <<arpVars, tourVars>>

Arp == INSTANCE Arp

Init ==
  /\ Arp!Init
  /\ proc = [n \in Nodes |->
       [run |-> "up", ifVisit |-> FALSE, ping_switch_ |-> FALSE,
        if_last_node |-> FALSE, if_ping |-> {},
        ping_counter_array |-> [k \in Nodes |-> 0],
        previous_vmNum_static |-> None,
        todo |-> {},       \* nodes this pass has still to ping
        target |-> None,   \* the node of the call of send_v4
        alarm |-> FALSE]]
  /\ tour = <<>> /\ rt = 0 /\ echo = {} /\ mq = [n \in Nodes |-> NoMail]
  /\ ended = FALSE /\ said = {} /\ drops = 0

\* The kinds of datagram node n has still to read.
Unread(n) == {m \in Kinds : mq[n][m] > 0}

\* The process is at its select.
AtSelect(n) == proc[n].run = "up" /\ proc[n].todo = {} /\ proc[n].target = None

-----------------------------------------------------------------------------
(* The walk. *)

\* The function returns an array of its own frame: what the caller reads there
\* may still be the list, or the process crashes.
hostNameToNumberArray(t) == {t, <<>>}

\* The packet goes from the i-th node of the list to the next.
sendRTpacket(i) == rt' = i + 1

\* The source joins the group and sends the packet off.
Start(t) ==
  /\ AtSelect(Source) /\ ~proc[Source].ifVisit
  /\ tour' \in hostNameToNumberArray(t)
  /\ \/ /\ tour' = t
        /\ proc' = [proc EXCEPT ![Source].ifVisit = TRUE]
        /\ sendRTpacket(1)
     \/ /\ tour' = <<>>
        /\ proc' = [proc EXCEPT ![Source].ifVisit = TRUE,
                                ![Source].run = "crashed"]
        /\ UNCHANGED rt
  /\ UNCHANGED <<arpVars, echo, mq, ended, said, drops>>

\* Mutant: the switch for pings is not turned on.
MutSwitchOff(i) ==
  LET n == tour[i]
      new == tour[i - 1] \notin proc[n].if_ping
  IN /\ AtSelect(n)
     /\ proc' = [proc EXCEPT
          ![n].if_ping = @ \cup {tour[i - 1]},
          ![n].previous_vmNum_static = IF new THEN tour[i - 1] ELSE @,
          ![n].ifVisit = TRUE,
          ![n].if_last_node = @ \/ i = Len(tour)]
     /\ IF i = Len(tour) THEN rt' = 0 ELSE sendRTpacket(i)
     /\ UNCHANGED <<arpVars, tour, echo, mq, ended, said, drops>>

\* The packet arrives: ping the node before, unless this node does so already,
\* join the group at the first visit, and send the packet on.
ReceiveRT(i) ==
  LET n == tour[i]
      before == tour[i - 1]
      new == before \notin proc[n].if_ping
  IN /\ AtSelect(n)
     /\ proc' = [proc EXCEPT
          ![n].ping_switch_ = new \/ @,
          ![n].if_ping = @ \cup {before},
          ![n].previous_vmNum_static = IF new THEN before ELSE @,
          ![n].ifVisit = TRUE,
          ![n].if_last_node = @ \/ i = Len(tour)]
     /\ IF i = Len(tour) THEN rt' = 0 ELSE sendRTpacket(i)
     /\ UNCHANGED <<arpVars, tour, echo, mq, ended, said, drops>>

-----------------------------------------------------------------------------
(* Pings. *)

\* A datagram to all members of the group, the sender included.
Multicast(q, m) ==
  [n \in Nodes |-> IF proc[n].ifVisit /\ proc[n].run = "up" THEN [q[n] EXCEPT ![m] = @ + 1]
                   ELSE q[n]]

\* Mutant: any node with enough replies ends the tour.
MutEndsTour(n) ==
  proc[n].ping_counter_array[proc[n].previous_vmNum_static] >= Goal

\* The last node has its replies.
EndsTour(n) ==
  /\ proc[n].ping_counter_array[proc[n].previous_vmNum_static] >= Goal
  /\ proc[n].if_last_node

\* select times out after a second, in which whatever was sent to this node has
\* arrived.
SelectTimesOut(n) ==
  /\ AtSelect(n)
  /\ rt # 0 => tour[rt] # n
  /\ Unread(n) = {}
  /\ \A e \in echo : e[1] # n

\* End the tour, or begin a pass over the nodes to ping.
Timeout(n) ==
  /\ SelectTimesOut(n) /\ proc[n].ping_switch_
  /\ IF EndsTour(n)
       THEN /\ mq' = Multicast(mq, "T")
            /\ ended' = TRUE
            /\ proc' = [proc EXCEPT ![n].ping_switch_ = FALSE]
       ELSE /\ proc' = [proc EXCEPT ![n].todo = proc[n].if_ping]
            /\ UNCHANGED <<mq, ended>>
  /\ UNCHANGED <<arpVars, tour, rt, echo, said, drops>>

\* areq asks the daemon for the next node of the pass.
AskNext(n, k) ==
  /\ proc[n].run = "up" /\ proc[n].target = None /\ k \in proc[n].todo
  /\ Arp!TourRequest(n, k)
  /\ proc' = [proc EXCEPT ![n].todo = @ \ {k}, ![n].target = k]
  /\ UNCHANGED <<tour, rt, echo, mq, ended, said, drops>>

\* The frame is sent; its reply comes if the hardware address is that of the
\* target, and nothing is lost.
Ping(n, reached) ==
  /\ proc' = [proc EXCEPT ![n].target = None]
  /\ echo' = IF reached THEN echo \cup {<<n, proc[n].target>>} ELSE echo
  /\ UNCHANGED <<tour, rt, mq, ended, said, drops>>

\* areq returns the daemon's answer.
SendPing(n, reached) ==
  /\ proc[n].run = "up" /\ proc[n].target # None
  /\ Arp!AreqReturn(n)
  /\ reached => conns[n][areq[n]].mac = proc[n].target
  /\ Ping(n, reached)

\* areq times out and copies a buffer it has not written: the frame goes
\* astray, unless the address of an earlier call is still there.
PingGarbage(n, reached) ==
  /\ proc[n].run = "up" /\ proc[n].target # None
  /\ Arp!AreqTimeout(n)
  /\ Ping(n, reached)

\* A reply arrives (counted up to Goal).
ReadPing(n, k) ==
  /\ AtSelect(n) /\ <<n, k>> \in echo
  /\ echo' = echo \ {<<n, k>>}
  /\ proc' = [proc EXCEPT ![n].ping_counter_array[k] =
                IF @ < Goal THEN @ + 1 ELSE @]
  /\ UNCHANGED <<arpVars, tour, rt, mq, ended, said, drops>>

-----------------------------------------------------------------------------
(* The end. *)

\* Mutant: pinging goes on until the end of the process.
MutKeepPinging(n, m) ==
  /\ AtSelect(n)
  /\ IF m = "T"
       THEN /\ mq' = Multicast([mq EXCEPT ![n][m] = @ - 1], "N")
            /\ said' = said \cup {n}
            /\ UNCHANGED proc
       ELSE /\ mq' = [mq EXCEPT ![n][m] = @ - 1]
            /\ proc' = [proc EXCEPT ![n].alarm = TRUE]
            /\ UNCHANGED said
  /\ UNCHANGED <<arpVars, tour, rt, echo, ended, drops>>

\* A multicast datagram: stop pinging; at the end of the tour identify oneself,
\* and at another's identification set the alarm that ends the process.
RecvMulticast(n, m) ==
  /\ AtSelect(n)
  /\ IF m = "T"
       THEN /\ mq' = Multicast([mq EXCEPT ![n][m] = @ - 1], "N")
            /\ said' = said \cup {n}
            /\ proc' = [proc EXCEPT ![n].ping_switch_ = FALSE]
       ELSE /\ mq' = [mq EXCEPT ![n][m] = @ - 1]
            /\ proc' = [proc EXCEPT ![n].ping_switch_ = FALSE,
                                    ![n].alarm = TRUE]
            /\ UNCHANGED said
  /\ UNCHANGED <<arpVars, tour, rt, echo, ended, drops>>

\* recvfrom_alarm, five seconds after the last identification: long enough for
\* what was multicast before to have been read.
Exit(n) ==
  /\ proc[n].run = "up" /\ proc[n].alarm /\ Unread(n) = {}
  /\ Arp!TourExit(n)
  /\ proc' = [proc EXCEPT ![n].run = "exited", ![n].todo = {}, ![n].target = None]
  /\ echo' = {e \in echo : e[1] # n}
  /\ UNCHANGED <<tour, rt, mq, ended, said, drops>>

\* The network loses a multicast datagram for one member.
LoseMulticast(n, m) ==
  /\ drops < MaxDrop
  /\ drops' = drops + 1
  /\ mq' = [mq EXCEPT ![n][m] = @ - 1]
  /\ UNCHANGED <<arpVars, proc, tour, rt, echo, ended, said>>

-----------------------------------------------------------------------------
\* The daemons; none is started again during the tour.
Daemons == (Arp!Receive \/ \E m \in frames : Arp!Lose(m)) /\ UNCHANGED tourVars

\* One step of the process of node n.
Step(n) ==
  \/ rt # 0 /\ tour[rt] = n /\ ReceiveRT(rt)
  \/ Timeout(n)
  \/ \E k \in Nodes : AskNext(n, k) \/ ReadPing(n, k)
  \/ \E reached \in BOOLEAN : SendPing(n, reached) \/ PingGarbage(n, reached)
  \/ \E m \in Unread(n) : RecvMulticast(n, m)
  \/ Exit(n)

Next ==
  \/ \E t \in Tours : Start(t)
  \/ \E n \in Nodes : Step(n)
  \/ \E n \in Nodes : \E m \in Unread(n) : LoseMulticast(n, m)
  \/ Daemons

Spec == Init /\ [][Next]_vars

\* Processes and daemons are scheduled, and of the pings that are sent again and
\* again not all are lost.
FairSpec ==
  /\ Spec
  /\ WF_vars(Arp!Receive /\ UNCHANGED tourVars)
  /\ WF_vars(\E t \in Tours : Start(t))
  /\ \A n \in Nodes :
       /\ WF_vars(Step(n))
       /\ SF_vars(/\ proc[n].target = proc[n].previous_vmNum_static
                  /\ SendPing(n, TRUE))

-----------------------------------------------------------------------------
(* Properties. *)

TypeOK ==
  /\ proc \in [Nodes -> [run : {"up", "exited", "crashed"}, ifVisit : BOOLEAN,
                ping_switch_ : BOOLEAN, if_last_node : BOOLEAN,
                if_ping : SUBSET Nodes, ping_counter_array : [Nodes -> 0..Goal],
                previous_vmNum_static : Nodes \cup {None},
                todo : SUBSET Nodes, target : Nodes \cup {None},
                alarm : BOOLEAN]]
  /\ tour \in {<<>>} \cup Tours /\ rt \in {0} \cup 2..Len(tour)
  /\ echo \subseteq Nodes \X Nodes
  /\ mq \in [Nodes -> [Kinds -> 0..Cardinality(Nodes)]]
  /\ ended \in BOOLEAN /\ said \subseteq Nodes /\ drops \in 0..MaxDrop

\* The end of the tour is multicast only when every node of the tour is a
\* member of the group: nobody can miss it by joining late.
GroupComplete ==
  ended => \A n \in ToSet(tour) : proc[n].ifVisit

\* A process that exits was told that the tour has ended, and has identified
\* itself unless a multicast datagram was lost.
Identifies ==
  \A n \in Nodes : proc[n].run = "exited" =>
    ended /\ (n \in said \/ drops > 0)

\* A process that was told of the end, by the last node or by a member, pings no
\* more: no pass is under way when it is told, and none begins, because no routing
\* packet is left that could turn ping_switch_ on again.
QuietAfterEnd ==
  \A n \in Nodes : n \in said \/ proc[n].alarm =>
    ~proc[n].ping_switch_ /\ proc[n].todo = {} /\ proc[n].target = None

\* Liveness: the tour ends at every node of it, with one multicast datagram lost,
\* with pings lost and with requests that time out, unless the source crashed or
\* an ARP frame was lost, after which a node stays unknown for ever.
TourEnds ==
  <>(\/ tour # <<>> /\ \A n \in ToSet(tour) : proc[n].run = "exited"
     \/ lost > 0
     \/ proc[Source].run = "crashed")
=============================================================================
