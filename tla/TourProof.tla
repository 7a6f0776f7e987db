----------------------------- MODULE TourProof -----------------------------
(***************************************************************************)
(* The tour of module Tour, for every set of nodes, every list of nodes    *)
(* the source may be given, and any number of multicast datagrams lost.    *)
(***************************************************************************)
EXTENDS Tour, FiniteSetTheorems, SequenceTheorems, TLAPS

-----------------------------------------------------------------------------
(* The inductive invariant. *)

Procs ==
  [run : {"up", "exited", "crashed"}, ifVisit : BOOLEAN,
   ping_switch_ : BOOLEAN, if_last_node : BOOLEAN,
   if_ping : SUBSET Nodes, ping_counter_array : [Nodes -> 0..Goal],
   previous_vmNum_static : Nodes \cup {None},
   todo : SUBSET Nodes, target : Nodes \cup {None}, alarm : BOOLEAN]

Typed ==
  /\ proc \in [Nodes -> Procs]
  /\ tour \in {<<>>} \cup Tours /\ rt \in {0} \cup 2..Len(tour)
  /\ mq \in [Nodes -> [Kinds -> Nat]]
  /\ said \subseteq Nodes /\ drops \in 0..MaxDrop

\* The nodes before the packet, and all of them once it is there, are members
\* of the group; only then is a node the last, and only then does the tour end.
Walk ==
  /\ tour # <<>> => proc[Source].ifVisit
  /\ \A j \in 1..Len(tour) : rt = 0 \/ j < rt => proc[tour[j]].ifVisit
  /\ \A n \in Nodes : proc[n].if_last_node => tour # <<>> /\ rt = 0
  /\ ended => tour # <<>> /\ rt = 0

\* What a node has been told, and what it has still to read.
Told(n) == mq[n]["T"] > 0 \/ mq[n]["N"] > 0 \/ proc[n].alarm

End(n) ==
  /\ Told(n) \/ n \in said \/ proc[n].run = "exited" => ended
  /\ Told(n) => proc[n].ifVisit
  /\ ended /\ proc[n].ifVisit /\ proc[n].run = "up" =>
       n \in said \/ mq[n]["T"] > 0 \/ drops > 0
  /\ proc[n].run = "exited" => n \in said \/ drops > 0
  /\ n \in said \/ proc[n].alarm =>
       ~proc[n].ping_switch_ /\ proc[n].todo = {} /\ proc[n].target = None

TourInv == Typed /\ Walk /\ \A n \in Nodes : End(n)

-----------------------------------------------------------------------------
(* The list, and the records of the processes. *)

\* The list of nodes in the routing packet, and the place of the packet in it.
LEMMA TourList ==
  ASSUME Typed
  PROVE  /\ tour = <<>> <=> Len(tour) = 0
         /\ Len(tour) \in Nat /\ rt \in Nat /\ (rt # 0 => rt \in 2..Len(tour))
         /\ \A j \in 1..Len(tour) : tour[j] \in Nodes
         /\ tour # <<>> => Len(tour) > 1
<1>1. tour \in Seq(Nodes) /\ (tour # <<>> => Len(tour) > 1)
  <2>1. CASE tour = <<>>
    BY <2>1, EmptySeq
  <2>2. CASE tour \in Tours
    BY <2>2, TourAssumption
  <2> QED BY <2>1, <2>2 DEF Typed
<1>2. Len(tour) \in Nat /\ (tour = <<>> <=> Len(tour) = 0)
  BY <1>1, EmptySeq, LenProperties
<1> QED BY <1>1, <1>2, ElementOfSeq DEF Typed

\* A step of the process of one node.
LEMMA OneProc ==
  ASSUME NEW n \in Nodes, NEW q \in Procs, proc \in [Nodes -> Procs],
         proc' = [proc EXCEPT ![n] = q]
  PROVE  /\ proc' \in [Nodes -> Procs] /\ proc'[n] = q
         /\ \A p \in Nodes : p # n => proc'[p] = proc[p]
OBVIOUS

\* What a step leaves alone of a process, it leaves alone of End.
LEMMA SameEnd ==
  ASSUME NEW n, End(n), proc'[n] = proc[n], mq'[n] = mq[n],
         n \in said' <=> n \in said, ended' = ended, drops' = drops
  PROVE  End(n)'
BY DEF End, Told

\* The invariant holds at the start.
LEMMA InitTourInv == Init => TourInv
<1> SUFFICES ASSUME Init PROVE TourInv
  OBVIOUS
<1>1. Len(<<>>) = 0 /\ Goal \in Nat \ {0} /\ MaxDrop \in Nat
  BY TourAssumption
<1>2. Typed
  BY <1>1 DEF Init, Typed, Procs, NoMail, Kinds
<1>3. Walk
  BY <1>1 DEF Init, Walk
<1>4. \A n \in Nodes : End(n)
  BY DEF Init, End, Told, NoMail, Kinds
<1> QED BY <1>2, <1>3, <1>4 DEF TourInv

\* The tour is started at its source.
LEMMA StartStep ==
  ASSUME TourInv, NEW t \in Tours, Start(t)
  PROVE  TourInv'
<1>1. /\ Typed /\ Walk /\ \A n \in Nodes : End(n)
      /\ proc \in [Nodes -> Procs] /\ Source \in Nodes /\ proc[Source] \in Procs
  BY TourAssumption DEF TourInv, Typed
<1>2. ~proc[Source].ifVisit /\ proc[Source].run = "up"
  BY DEF Start, AtSelect
<1>3. tour = <<>> /\ rt = 0 /\ ~ended /\ \A n \in Nodes : ~proc[n].if_last_node
  BY <1>1, <1>2, TourList DEF Walk
<1>4. /\ t \in Seq(Nodes) /\ Len(t) \in Nat /\ Len(t) > 1 /\ t[1] = Source /\ t # <<>>
  BY TourAssumption, LenProperties
<1>5. UNCHANGED <<mq, ended, said, drops>>
  BY DEF Start
<1>6. PICK r \in {"up", "crashed"} :
        /\ proc' = [proc EXCEPT ![Source] = [proc[Source] EXCEPT !.ifVisit = TRUE, !.run = r]]
        /\ IF r = "up" THEN tour' = t /\ rt' = 2 ELSE tour' = <<>> /\ rt' = 0
  <2>1. CASE /\ tour' = t
             /\ proc' = [proc EXCEPT ![Source].ifVisit = TRUE]
             /\ sendRTpacket(1)
    <3>1. [proc[Source] EXCEPT !.ifVisit = TRUE]
            = [proc[Source] EXCEPT !.ifVisit = TRUE, !.run = "up"]
      BY <1>1, <1>2 DEF Procs
    <3>2. proc' = [proc EXCEPT ![Source] = [proc[Source] EXCEPT !.ifVisit = TRUE]]
      BY <2>1
    <3>3. proc' = [proc EXCEPT ![Source] =
                     [proc[Source] EXCEPT !.ifVisit = TRUE, !.run = "up"]]
      BY <3>1, <3>2
    <3>4. rt' = 2
      BY <2>1 DEF sendRTpacket
    <3> QED BY <2>1, <3>3, <3>4
  <2>2. CASE /\ tour' = <<>>
             /\ proc' = [proc EXCEPT ![Source].ifVisit = TRUE,
                                     ![Source].run = "crashed"]
             /\ UNCHANGED rt
    BY <1>1, <1>3, <2>2 DEF Procs
  <2> QED BY <2>1, <2>2 DEF Start
<1> DEFINE q == [proc[Source] EXCEPT !.ifVisit = TRUE, !.run = r]
<1>7. /\ q \in Procs /\ q.ifVisit /\ q.run = r
      /\ q.ping_switch_ = proc[Source].ping_switch_ /\ q.todo = proc[Source].todo
      /\ q.target = proc[Source].target /\ q.alarm = proc[Source].alarm
      /\ q.if_last_node = proc[Source].if_last_node
  BY <1>1 DEF Procs
<1> HIDE DEF q
<1>8. /\ proc' \in [Nodes -> Procs] /\ proc'[Source] = q
      /\ \A p \in Nodes : p # Source => proc'[p] = proc[p]
  BY <1>1, <1>6, <1>7, OneProc DEF q
<1>9. Typed'
  BY <1>1, <1>4, <1>5, <1>6, <1>8 DEF Typed
<1>10. Walk'
  <2>1. Len(<<>>) = 0
    OBVIOUS
  <2>2. tour' # <<>> => proc'[Source].ifVisit
    BY <1>7, <1>8
  <2>3. \A j \in 1..Len(tour') : rt' = 0 \/ j < rt' => proc'[tour'[j]].ifVisit
    BY <1>4, <1>6, <1>7, <1>8, <2>1
  <2>4. \A n \in Nodes : ~proc'[n].if_last_node
    BY <1>1, <1>3, <1>7, <1>8
  <2> QED BY <1>3, <1>5, <2>2, <2>3, <2>4 DEF Walk
<1>11. ASSUME NEW n \in Nodes PROVE End(n)'
  <2>1. CASE n = Source
    BY <1>1, <1>2, <1>3, <1>5, <1>7, <1>8, <2>1 DEF End, Told
  <2>2. CASE n # Source
    BY <1>1, <1>5, <1>8, <2>2, SameEnd
  <2> QED BY <2>1, <2>2
<1> QED BY <1>9, <1>10, <1>11 DEF TourInv

\* The routing packet comes to the next node of the list.
LEMMA ReceiveRTStep ==
  ASSUME TourInv, rt # 0, ReceiveRT(rt)
  PROVE  TourInv'
<1> DEFINE n == tour[rt]
           before == tour[rt - 1]
           new == before \notin proc[n].if_ping
           q == [proc[n] EXCEPT
                   !.ping_switch_ = new \/ proc[n].ping_switch_,
                   !.if_ping = proc[n].if_ping \cup {before},
                   !.previous_vmNum_static =
                      IF new THEN before ELSE proc[n].previous_vmNum_static,
                   !.ifVisit = TRUE,
                   !.if_last_node = proc[n].if_last_node \/ rt = Len(tour)]
<1>1. /\ Typed /\ Walk /\ \A m \in Nodes : End(m)
      /\ proc \in [Nodes -> Procs]
      /\ rt \in 2..Len(tour) /\ Len(tour) \in Nat /\ rt \in Nat /\ tour # <<>>
      /\ \A j \in 1..Len(tour) : tour[j] \in Nodes
  BY TourList DEF TourInv, Typed
<1>2. n \in Nodes /\ before \in Nodes /\ proc[n] \in Procs
  BY <1>1
<1>3. ~ended /\ \A m \in Nodes : ~proc[m].if_last_node
  BY <1>1 DEF Walk
<1>4. UNCHANGED <<tour, mq, ended, said, drops>>
  BY DEF ReceiveRT
<1>5. proc' = [proc EXCEPT ![n] = q]
  BY <1>1, <1>2 DEF ReceiveRT, Procs
<1>6. rt' = IF rt = Len(tour) THEN 0 ELSE rt + 1
  BY DEF ReceiveRT, sendRTpacket
<1>7. /\ q \in Procs /\ q.ifVisit /\ q.run = proc[n].run /\ q.alarm = proc[n].alarm
      /\ q.if_last_node => rt = Len(tour)
  BY <1>2, <1>3 DEF Procs
<1> HIDE DEF q, new, before
<1>8. /\ proc' \in [Nodes -> Procs] /\ proc'[n] = q
      /\ \A p \in Nodes : p # n => proc'[p] = proc[p]
  BY <1>1, <1>2, <1>5, <1>7, OneProc
<1>9. Typed'
  BY <1>1, <1>4, <1>6, <1>8 DEF Typed
<1>10. Walk'
  <2>1. \A p \in Nodes : proc[p].ifVisit => proc'[p].ifVisit
    BY <1>7, <1>8
  <2>2. proc'[Source].ifVisit
    BY <1>1, <2>1, TourAssumption DEF Walk
  <2>3. ASSUME NEW j \in 1..Len(tour'), rt' = 0 \/ j < rt'
        PROVE  proc'[tour'[j]].ifVisit
    <3>1. CASE j = rt
      BY <1>4, <1>7, <1>8, <3>1
    <3>2. CASE j # rt
      <4>1. j \in 1..Len(tour) /\ j < rt
        BY <1>1, <1>4, <1>6, <2>3, <3>2
      <4>2. proc[tour[j]].ifVisit /\ tour[j] \in Nodes
        BY <1>1, <4>1 DEF Walk
      <4> QED BY <1>4, <2>1, <4>2
    <3> QED BY <3>1, <3>2
  <2>4. \A m \in Nodes : proc'[m].if_last_node => rt' = 0
    BY <1>3, <1>6, <1>7, <1>8
  <2> QED BY <1>1, <1>3, <1>4, <2>2, <2>3, <2>4 DEF Walk
<1>11. ASSUME NEW m \in Nodes PROVE End(m)'
  <2>1. CASE m = n
    BY <1>1, <1>2, <1>3, <1>4, <1>7, <1>8, <2>1 DEF End, Told
  <2>2. CASE m # n
    BY <1>1, <1>4, <1>8, <2>2, SameEnd
  <2> QED BY <2>1, <2>2
<1> QED BY <1>9, <1>10, <1>11 DEF TourInv

\* Steps that change a process in what the walk and the end do not look at, or
\* in what it still has to ping, which is nothing once it has been told.
LEMMA PassStep ==
  ASSUME TourInv, NEW n \in Nodes, NEW q \in Procs, proc' = [proc EXCEPT ![n] = q],
         UNCHANGED <<tour, rt, mq, ended, said, drops>>,
         q.ifVisit = proc[n].ifVisit, q.if_last_node = proc[n].if_last_node,
         q.run = proc[n].run, q.alarm = proc[n].alarm,
         q.ping_switch_ = proc[n].ping_switch_,
         n \in said \/ proc[n].alarm => q.todo = {} /\ q.target = None
  PROVE  TourInv'
<1>1. Typed /\ Walk /\ (\A m \in Nodes : End(m)) /\ proc \in [Nodes -> Procs]
  BY DEF TourInv, Typed
<1>2. /\ proc' \in [Nodes -> Procs] /\ proc'[n] = q
      /\ \A p \in Nodes : p # n => proc'[p] = proc[p]
  BY <1>1, OneProc
<1>3. Typed'
  BY <1>1, <1>2 DEF Typed
<1>4. Walk'
  <2>1. \A p \in Nodes : /\ proc'[p].ifVisit = proc[p].ifVisit
                         /\ proc'[p].if_last_node = proc[p].if_last_node
    BY <1>2
  <2>2. \A j \in 1..Len(tour) : tour[j] \in Nodes
    BY <1>1, TourList
  <2> QED BY <1>1, <2>1, <2>2, TourAssumption DEF Walk
<1>5. ASSUME NEW m \in Nodes PROVE End(m)'
  <2>1. CASE m = n
    BY <1>1, <1>2, <2>1 DEF End, Told
  <2>2. CASE m # n
    BY <1>1, <1>2, <2>2, SameEnd
  <2> QED BY <2>1, <2>2
<1> QED BY <1>3, <1>4, <1>5 DEF TourInv

-----------------------------------------------------------------------------
(* Multicast. *)

Mail == [Nodes -> [Kinds -> Nat]]
Member(p) == proc[p].ifVisit /\ proc[p].run = "up"

\* A multicast adds one message to every member's mail and to no one else's.
LEMMA MulticastMail ==
  ASSUME NEW Q \in Mail, NEW k \in Kinds
  PROVE  /\ Multicast(Q, k) \in Mail
         /\ \A p \in Nodes : ~Member(p) => Multicast(Q, k)[p] = Q[p]
         /\ \A p \in Nodes : Member(p) => Multicast(Q, k)[p][k] > 0
         /\ \A p \in Nodes : \A l \in Kinds \ {k} : Multicast(Q, k)[p][l] = Q[p][l]
<1>1. ASSUME NEW p \in Nodes
      PROVE  /\ Multicast(Q, k)[p] \in [Kinds -> Nat]
             /\ ~Member(p) => Multicast(Q, k)[p] = Q[p]
             /\ Member(p) => Multicast(Q, k)[p][k] > 0
             /\ \A l \in Kinds \ {k} : Multicast(Q, k)[p][l] = Q[p][l]
  <2>1. Q[p] \in [Kinds -> Nat]
    BY DEF Mail
  <2>2. CASE Member(p)
    <3>1. Multicast(Q, k)[p] = [Q[p] EXCEPT ![k] = @ + 1]
      BY <2>2 DEF Multicast, Member
    <3> QED BY <2>1, <2>2, <3>1
  <2>3. CASE ~Member(p)
    <3>1. Multicast(Q, k)[p] = Q[p]
      BY <2>3 DEF Multicast, Member
    <3> QED BY <2>1, <2>3, <3>1
  <2> QED BY <2>2, <2>3
<1>2. Multicast(Q, k) \in Mail
  BY <1>1 DEF Multicast, Mail
<1> QED BY <1>1, <1>2

\* One datagram less for node n.
LEMMA OneRead ==
  ASSUME Typed, NEW n \in Nodes, NEW k \in Unread(n)
  PROVE  LET Q == [mq EXCEPT ![n][k] = @ - 1]
         IN  /\ Q \in Mail /\ k \in Kinds /\ mq[n][k] > 0
             /\ \A p \in Nodes : p # n => Q[p] = mq[p]
             /\ \A l \in Kinds : Q[n][l] > 0 => mq[n][l] > 0
             /\ \A l \in Kinds \ {k} : Q[n][l] = mq[n][l]
<1>1. mq \in Mail /\ k \in Kinds /\ mq[n][k] > 0 /\ mq[n][k] \in Nat
  BY DEF Typed, Mail, Unread
<1> QED BY <1>1 DEF Mail

\* The end of the tour is multicast.
LEMMA TimeoutEndStep ==
  ASSUME TourInv, NEW n \in Nodes, Timeout(n), EndsTour(n)
  PROVE  TourInv'
<1> DEFINE q == [proc[n] EXCEPT !.ping_switch_ = FALSE]
<1>1. /\ Typed /\ Walk /\ (\A m \in Nodes : End(m)) /\ proc \in [Nodes -> Procs]
      /\ proc[n] \in Procs /\ mq \in Mail
  BY DEF TourInv, Typed, Mail
<1>2. /\ mq' = Multicast(mq, "T") /\ ended' = TRUE
      /\ proc' = [proc EXCEPT ![n] = q]
      /\ UNCHANGED <<tour, rt, said, drops>>
  BY <1>1 DEF Timeout, Procs
<1>3. tour # <<>> /\ rt = 0
  BY <1>1 DEF EndsTour, Walk
<1>4. /\ q \in Procs /\ q.ifVisit = proc[n].ifVisit /\ q.run = proc[n].run
      /\ q.if_last_node = proc[n].if_last_node /\ q.alarm = proc[n].alarm
      /\ ~q.ping_switch_ /\ q.todo = proc[n].todo /\ q.target = proc[n].target
  BY <1>1 DEF Procs
<1> HIDE DEF q
<1>5. /\ proc' \in [Nodes -> Procs] /\ proc'[n] = q
      /\ \A p \in Nodes : p # n => proc'[p] = proc[p]
  BY <1>1, <1>2, <1>4, OneProc
<1>6. "T" \in Kinds /\ "N" \in Kinds \ {"T"}
  BY DEF Kinds
<1>7. /\ mq' \in Mail
      /\ \A p \in Nodes : ~Member(p) => mq'[p] = mq[p]
      /\ \A p \in Nodes : Member(p) => mq'[p]["T"] > 0
      /\ \A p \in Nodes : mq'[p]["N"] = mq[p]["N"]
  BY <1>1, <1>2, <1>6, MulticastMail
<1>8. Typed'
  BY <1>1, <1>2, <1>5, <1>7 DEF Typed, Mail
<1>9. \A p \in Nodes :
        /\ proc'[p].ifVisit = proc[p].ifVisit /\ proc'[p].run = proc[p].run
        /\ proc'[p].if_last_node = proc[p].if_last_node
        /\ proc'[p].alarm = proc[p].alarm
        /\ proc'[p].todo = proc[p].todo /\ proc'[p].target = proc[p].target
        /\ ~proc[p].ping_switch_ => ~proc'[p].ping_switch_
  BY <1>4, <1>5
<1>10. Walk'
  <2>1. \A j \in 1..Len(tour) : tour[j] \in Nodes
    BY <1>1, TourList
  <2> QED BY <1>1, <1>2, <1>3, <1>9, <2>1, TourAssumption DEF Walk
<1>11. ASSUME NEW m \in Nodes PROVE End(m)'
  <2>1. End(m)
    BY <1>1
  <2>2. CASE Member(m)
    BY <1>2, <1>7, <1>9, <2>1, <2>2 DEF End, Told, Member
  <2>3. CASE ~Member(m)
    BY <1>2, <1>7, <1>9, <2>1, <2>3 DEF End, Told, Member
  <2> QED BY <2>2, <2>3
<1> QED BY <1>8, <1>10, <1>11 DEF TourInv

\* A process is told that the tour has ended, by the last node (k = "T") or by
\* another.
LEMMA RecvMulticastStep ==
  ASSUME TourInv, NEW n \in Nodes, NEW k \in Unread(n), RecvMulticast(n, k)
  PROVE  TourInv'
<1> DEFINE Q == [mq EXCEPT ![n][k] = @ - 1]
           q == IF k = "T" THEN [proc[n] EXCEPT !.ping_switch_ = FALSE]
                ELSE [proc[n] EXCEPT !.ping_switch_ = FALSE, !.alarm = TRUE]
<1>1. /\ Typed /\ Walk /\ (\A m \in Nodes : End(m)) /\ proc \in [Nodes -> Procs]
      /\ proc[n] \in Procs
  BY DEF TourInv, Typed
<1>2. /\ UNCHANGED <<tour, rt, ended, drops>>
      /\ proc' = [proc EXCEPT ![n] = q]
      /\ k = "T" => mq' = Multicast(Q, "N") /\ said' = said \cup {n}
      /\ k # "T" => mq' = Q /\ said' = said
      /\ proc[n].run = "up" /\ proc[n].todo = {} /\ proc[n].target = None
  <2>1. CASE k = "T"
    BY <1>1, <2>1 DEF RecvMulticast, AtSelect, Procs
  <2>2. CASE k # "T"
    BY <1>1, <2>2 DEF RecvMulticast, AtSelect, Procs
  <2> QED BY <2>1, <2>2
<1>3. /\ Q \in Mail /\ k \in Kinds /\ mq[n][k] > 0
      /\ \A p \in Nodes : p # n => Q[p] = mq[p]
      /\ \A l \in Kinds : Q[n][l] > 0 => mq[n][l] > 0
      /\ \A l \in Kinds \ {k} : Q[n][l] = mq[n][l]
  BY <1>1, OneRead
<1> HIDE DEF Q
<1>4. /\ q \in Procs /\ q.ifVisit = proc[n].ifVisit /\ q.run = proc[n].run
      /\ q.if_last_node = proc[n].if_last_node /\ (q.alarm => proc[n].alarm \/ k # "T")
      /\ ~q.ping_switch_ /\ q.todo = {} /\ q.target = None
  <2>1. CASE k = "T"
    <3>1. q = [proc[n] EXCEPT !.ping_switch_ = FALSE]
      BY <2>1
    <3> QED BY <1>1, <1>2, <3>1 DEF Procs
  <2>2. CASE k # "T"
    <3>1. q = [proc[n] EXCEPT !.ping_switch_ = FALSE, !.alarm = TRUE]
      BY <2>2
    <3> QED BY <1>1, <1>2, <2>2, <3>1 DEF Procs
  <2> QED BY <2>1, <2>2
<1> HIDE DEF q
<1>5. /\ proc' \in [Nodes -> Procs] /\ proc'[n] = q
      /\ \A p \in Nodes : p # n => proc'[p] = proc[p]
  BY <1>1, <1>2, <1>4, OneProc
<1>6. ended /\ proc[n].ifVisit
  BY <1>1, <1>3 DEF End, Told, Kinds
<1>7. "N" \in Kinds /\ "T" \in Kinds \ {"N"}
  BY DEF Kinds
<1>8. k = "T" =>
        /\ mq' \in Mail
        /\ \A p \in Nodes : ~Member(p) => mq'[p] = Q[p]
        /\ \A p \in Nodes : mq'[p]["T"] = Q[p]["T"]
  BY <1>2, <1>3, <1>7, MulticastMail
<1>9. Typed'
  BY <1>1, <1>2, <1>3, <1>5, <1>8 DEF Typed, Mail
<1>10. Walk'
  <2>1. \A j \in 1..Len(tour) : tour[j] \in Nodes
    BY <1>1, TourList
  <2>2. \A p \in Nodes : /\ proc'[p].ifVisit = proc[p].ifVisit
                         /\ proc'[p].if_last_node = proc[p].if_last_node
    BY <1>4, <1>5
  <2> QED BY <1>1, <1>2, <2>1, <2>2, TourAssumption DEF Walk
<1>11. ASSUME NEW m \in Nodes PROVE End(m)'
  <2>1. End(m)
    BY <1>1
  <2>2. m # n => (m \in said' <=> m \in said)
    BY <1>2
  <2>3. CASE m = n /\ k = "T"
    BY <1>2, <1>4, <1>5, <1>6, <2>1, <2>3 DEF End, Told
  <2>4. CASE m = n /\ k # "T"
    <3>1. mq'[n]["T"] = mq[n]["T"] /\ (m \in said' <=> m \in said)
      BY <1>2, <1>3, <1>7, <2>4 DEF Kinds
    <3> QED BY <1>2, <1>4, <1>5, <1>6, <2>1, <2>4, <3>1 DEF End, Told
  <2>5. CASE m # n /\ k # "T"
    <3>1. mq'[m] = mq[m]
      BY <1>2, <1>3, <2>5
    <3> QED BY <1>1, <1>2, <1>5, <2>2, <2>5, <3>1, SameEnd
  <2>6. CASE m # n /\ k = "T" /\ ~Member(m)
    <3>1. mq'[m] = mq[m]
      BY <1>3, <1>8, <2>6
    <3> QED BY <1>1, <1>2, <1>5, <2>2, <2>6, <3>1, SameEnd
  <2>7. CASE m # n /\ k = "T" /\ Member(m)
    <3>1. mq'[m]["T"] = mq[m]["T"] /\ proc'[m] = proc[m]
      BY <1>3, <1>5, <1>8, <2>7
    <3> QED BY <1>2, <1>6, <2>1, <2>2, <2>7, <3>1 DEF End, Told, Member
  <2> QED BY <2>3, <2>4, <2>5, <2>6, <2>7
<1> QED BY <1>9, <1>10, <1>11 DEF TourInv

\* The network loses a datagram, and from then on owes nothing.
LEMMA LoseMulticastStep ==
  ASSUME TourInv, NEW n \in Nodes, NEW k \in Unread(n), LoseMulticast(n, k)
  PROVE  TourInv'
<1> DEFINE Q == [mq EXCEPT ![n][k] = @ - 1]
<1>1. Typed /\ Walk /\ \A m \in Nodes : End(m)
  BY DEF TourInv
<1>2. /\ UNCHANGED <<proc, tour, rt, ended, said>> /\ mq' = Q
      /\ drops \in Nat /\ drops' = drops + 1 /\ drops' \in 0..MaxDrop
  BY <1>1, TourAssumption DEF LoseMulticast, Typed
<1>3. /\ Q \in Mail
      /\ \A p \in Nodes : p # n => Q[p] = mq[p]
      /\ \A l \in Kinds : Q[n][l] > 0 => mq[n][l] > 0
  BY <1>1, OneRead
<1> HIDE DEF Q
<1>4. Typed'
  BY <1>1, <1>2, <1>3 DEF Typed, Mail
<1>5. Walk'
  BY <1>1, <1>2 DEF Walk
<1>6. ASSUME NEW m \in Nodes PROVE End(m)'
  <2>1. End(m) /\ (mq'[m]["T"] > 0 => mq[m]["T"] > 0) /\ (mq'[m]["N"] > 0 => mq[m]["N"] > 0)
    BY <1>1, <1>2, <1>3 DEF Kinds
  <2> QED BY <1>2, <2>1 DEF End, Told
<1> QED BY <1>4, <1>5, <1>6 DEF TourInv

\* A process exits.
LEMMA ExitStep ==
  ASSUME TourInv, NEW n \in Nodes, Exit(n)
  PROVE  TourInv'
<1> DEFINE q == [proc[n] EXCEPT !.run = "exited", !.todo = {}, !.target = None]
<1>1. /\ Typed /\ Walk /\ (\A m \in Nodes : End(m)) /\ proc \in [Nodes -> Procs]
      /\ proc[n] \in Procs
  BY DEF TourInv, Typed
<1>2. /\ UNCHANGED <<tour, rt, mq, ended, said, drops>>
      /\ proc' = [proc EXCEPT ![n] = q]
      /\ proc[n].alarm /\ proc[n].run = "up" /\ ~(mq[n]["T"] > 0)
  BY <1>1 DEF Exit, Procs, Unread, Kinds
<1>3. /\ q \in Procs /\ q.ifVisit = proc[n].ifVisit /\ q.run = "exited"
      /\ q.if_last_node = proc[n].if_last_node /\ q.alarm = proc[n].alarm
      /\ q.ping_switch_ = proc[n].ping_switch_ /\ q.todo = {} /\ q.target = None
  BY <1>1 DEF Procs
<1> HIDE DEF q
<1>4. /\ proc' \in [Nodes -> Procs] /\ proc'[n] = q
      /\ \A p \in Nodes : p # n => proc'[p] = proc[p]
  BY <1>1, <1>2, <1>3, OneProc
<1>5. Typed'
  BY <1>1, <1>2, <1>4 DEF Typed
<1>6. Walk'
  <2>1. \A j \in 1..Len(tour) : tour[j] \in Nodes
    BY <1>1, TourList
  <2>2. \A p \in Nodes : /\ proc'[p].ifVisit = proc[p].ifVisit
                         /\ proc'[p].if_last_node = proc[p].if_last_node
    BY <1>3, <1>4
  <2> QED BY <1>1, <1>2, <2>1, <2>2, TourAssumption DEF Walk
<1>7. ASSUME NEW m \in Nodes PROVE End(m)'
  <2>1. CASE m = n
    BY <1>1, <1>2, <1>3, <1>4, <2>1 DEF End, Told
  <2>2. CASE m # n
    BY <1>1, <1>2, <1>4, <2>2, SameEnd
  <2> QED BY <2>1, <2>2
<1> QED BY <1>5, <1>6, <1>7 DEF TourInv

-----------------------------------------------------------------------------
(* Pings. *)

\* Pings, and timeouts that do not end the tour, leave the group as it is.
LEMMA PingSteps ==
  ASSUME TourInv, NEW n \in Nodes,
         \/ Timeout(n) /\ ~EndsTour(n)
         \/ \E k \in Nodes : AskNext(n, k) \/ ReadPing(n, k)
         \/ \E reached \in BOOLEAN : SendPing(n, reached) \/ PingGarbage(n, reached)
  PROVE  TourInv'
<1>1. proc \in [Nodes -> Procs] /\ proc[n] \in Procs /\ Goal \in Nat
  BY TourAssumption DEF TourInv, Typed
<1>2. ASSUME n \in said \/ proc[n].alarm
      PROVE  ~proc[n].ping_switch_ /\ proc[n].todo = {} /\ proc[n].target = None
  BY <1>2 DEF TourInv, End
<1>3. CASE Timeout(n) /\ ~EndsTour(n)
  <2> DEFINE q == [proc[n] EXCEPT !.todo = proc[n].if_ping]
  <2>1. /\ proc' = [proc EXCEPT ![n] = q] /\ proc[n].ping_switch_
        /\ UNCHANGED <<tour, rt, mq, ended, said, drops>>
    BY <1>1, <1>3 DEF Timeout, Procs
  <2>2. /\ q \in Procs /\ q.ifVisit = proc[n].ifVisit /\ q.run = proc[n].run
        /\ q.if_last_node = proc[n].if_last_node /\ q.alarm = proc[n].alarm
        /\ q.ping_switch_ = proc[n].ping_switch_
    BY <1>1 DEF Procs
  <2> HIDE DEF q
  <2> QED BY <1>2, <2>1, <2>2, PassStep
<1>4. ASSUME NEW k \in Nodes, AskNext(n, k) PROVE TourInv'
  <2> DEFINE q == [proc[n] EXCEPT !.todo = proc[n].todo \ {k}, !.target = k]
  <2>1. /\ proc' = [proc EXCEPT ![n] = q] /\ k \in proc[n].todo
        /\ UNCHANGED <<tour, rt, mq, ended, said, drops>>
    BY <1>1, <1>4 DEF AskNext, Procs
  <2>2. /\ q \in Procs /\ q.ifVisit = proc[n].ifVisit /\ q.run = proc[n].run
        /\ q.if_last_node = proc[n].if_last_node /\ q.alarm = proc[n].alarm
        /\ q.ping_switch_ = proc[n].ping_switch_
    BY <1>1 DEF Procs
  <2> HIDE DEF q
  <2> QED BY <1>2, <2>1, <2>2, PassStep
<1>5. ASSUME NEW k \in Nodes, ReadPing(n, k) PROVE TourInv'
  <2> DEFINE a == proc[n].ping_counter_array
             b == [a EXCEPT ![k] = IF @ < Goal THEN @ + 1 ELSE @]
             q == [proc[n] EXCEPT !.ping_counter_array = b]
  <2>1. /\ proc' = [proc EXCEPT ![n] = q]
        /\ UNCHANGED <<tour, rt, mq, ended, said, drops>>
    BY <1>1, <1>5 DEF ReadPing, Procs
  <2>2. a \in [Nodes -> 0..Goal]
    BY <1>1 DEF Procs
  <2>3. b \in [Nodes -> 0..Goal]
    BY <1>1, <2>2
  <2> HIDE DEF a, b
  <2>4. /\ q \in Procs /\ q.ifVisit = proc[n].ifVisit /\ q.run = proc[n].run
        /\ q.if_last_node = proc[n].if_last_node /\ q.alarm = proc[n].alarm
        /\ q.ping_switch_ = proc[n].ping_switch_
        /\ q.todo = proc[n].todo /\ q.target = proc[n].target
    BY <1>1, <2>3 DEF Procs
  <2> HIDE DEF q
  <2> QED BY <1>2, <2>1, <2>4, PassStep
<1>6. ASSUME NEW reached \in BOOLEAN, SendPing(n, reached) \/ PingGarbage(n, reached)
      PROVE  TourInv'
  <2> DEFINE q == [proc[n] EXCEPT !.target = None]
  <2>1. /\ proc' = [proc EXCEPT ![n] = q] /\ proc[n].target # None
        /\ UNCHANGED <<tour, rt, mq, ended, said, drops>>
    BY <1>1, <1>6 DEF SendPing, PingGarbage, Ping, Procs
  <2>2. /\ q \in Procs /\ q.ifVisit = proc[n].ifVisit /\ q.run = proc[n].run
        /\ q.if_last_node = proc[n].if_last_node /\ q.alarm = proc[n].alarm
        /\ q.ping_switch_ = proc[n].ping_switch_
    BY <1>1 DEF Procs
  <2> HIDE DEF q
  <2> QED BY <1>2, <2>1, <2>2, PassStep
<1> QED BY <1>3, <1>4, <1>5, <1>6

-----------------------------------------------------------------------------
(* The tour. *)

\* Each step keeps the invariant.
LEMMA NextTourInv == TourInv /\ [Next]_vars => TourInv'
<1> SUFFICES ASSUME TourInv, [Next]_vars PROVE TourInv'
  OBVIOUS
<1>1. CASE UNCHANGED tourVars
  BY <1>1 DEF tourVars, TourInv, Typed, Walk, End, Told
<1>2. ASSUME NEW n \in Nodes, Step(n) PROVE TourInv'
  BY <1>2, ReceiveRTStep, TimeoutEndStep, PingSteps, RecvMulticastStep, ExitStep
  DEF Step
<1> QED BY <1>1, <1>2, StartStep, LoseMulticastStep DEF Next, vars, Daemons

-----------------------------------------------------------------------------
(* How many datagrams. *)

\* Only the last node of the list ends the tour, and once; a process reads of the
\* end once, and is sent one identification for each process that has.
Counts ==
  /\ \A n \in Nodes : proc[n].if_last_node =>
       n = tour[Len(tour)] /\ (ended => ~proc[n].ping_switch_)
  /\ \A n \in Nodes : /\ mq[n]["T"] <= 1 /\ (n \in said => mq[n]["T"] = 0)
                      /\ mq[n]["N"] <= Cardinality(said)
  /\ echo \subseteq Nodes \X Nodes /\ ended \in BOOLEAN

\* Who has identified themselves can be counted.
LEMMA FewSaid ==
  ASSUME Typed
  PROVE  /\ IsFiniteSet(said) /\ Cardinality(said) \in Nat
         /\ Cardinality(Nodes) \in Nat /\ Cardinality(said) <= Cardinality(Nodes)
BY TourAssumption, FS_Subset, FS_CardinalityType DEF Typed

\* A multicast adds one datagram at most.
LEMMA MulticastCount ==
  ASSUME NEW Q \in Mail, NEW k \in Kinds, NEW p \in Nodes
  PROVE  Multicast(Q, k)[p][k] <= Q[p][k] + 1
<1>1. Q[p] \in [Kinds -> Nat]
  BY DEF Mail
<1>2. CASE Member(p)
  <2>1. Multicast(Q, k)[p] = [Q[p] EXCEPT ![k] = @ + 1]
    BY <1>2 DEF Multicast, Member
  <2> QED BY <1>1, <2>1
<1>3. CASE ~Member(p)
  <2>1. Multicast(Q, k)[p] = Q[p]
    BY <1>3 DEF Multicast, Member
  <2> QED BY <1>1, <2>1
<1> QED BY <1>2, <1>3

\* Steps that multicast nothing and read nothing.
LEMMA SameCounts ==
  ASSUME Counts, UNCHANGED <<tour, mq, ended, said>>, echo' \subseteq Nodes \X Nodes,
         \A p \in Nodes : /\ proc'[p].if_last_node => proc[p].if_last_node
                          /\ proc'[p].ping_switch_ => proc[p].ping_switch_
  PROVE  Counts'
BY DEF Counts

\* The tour is ended at most once.
LEMMA EndCounts ==
  ASSUME TourInv, Counts, NEW n \in Nodes, Timeout(n), EndsTour(n)
  PROVE  Counts'
<1> DEFINE q == [proc[n] EXCEPT !.ping_switch_ = FALSE]
<1>1. /\ Typed /\ Walk /\ (\A m \in Nodes : End(m)) /\ proc \in [Nodes -> Procs]
      /\ proc[n] \in Procs /\ mq \in Mail
  BY DEF TourInv, Typed, Mail
<1>2. /\ mq' = Multicast(mq, "T") /\ ended' = TRUE /\ proc[n].ping_switch_
      /\ proc' = [proc EXCEPT ![n] = q]
      /\ UNCHANGED <<tour, echo, said>>
  BY <1>1 DEF Timeout, Procs
<1>3. /\ q \in Procs /\ ~q.ping_switch_ /\ q.if_last_node = proc[n].if_last_node
  BY <1>1 DEF Procs
<1> HIDE DEF q
<1>4. /\ proc'[n] = q /\ \A p \in Nodes : p # n => proc'[p] = proc[p]
  BY <1>1, <1>2, <1>3, OneProc
<1>5. proc[n].if_last_node /\ n = tour[Len(tour)] /\ ~ended
  BY <1>2 DEF EndsTour, Counts
<1>6. "T" \in Kinds /\ "N" \in Kinds \ {"T"}
  BY DEF Kinds
<1>7. \A m \in Nodes : /\ mq'[m]["T"] <= mq[m]["T"] + 1 /\ mq'[m]["N"] = mq[m]["N"]
                       /\ mq'[m]["T"] \in Nat
  <2>1. Multicast(mq, "T") \in Mail
    BY <1>1, <1>6, MulticastMail
  <2>2. ASSUME NEW m \in Nodes
        PROVE  /\ mq'[m]["T"] <= mq[m]["T"] + 1 /\ mq'[m]["N"] = mq[m]["N"]
               /\ mq'[m]["T"] \in Nat
    <3>1. Multicast(mq, "T")[m]["T"] <= mq[m]["T"] + 1
      BY <1>1, <1>6, MulticastCount
    <3>2. Multicast(mq, "T")[m]["N"] = mq[m]["N"]
      BY <1>1, <1>6, MulticastMail
    <3>3. Multicast(mq, "T")[m]["T"] \in Nat
      BY <1>6, <2>1 DEF Mail
    <3> QED BY <1>2, <3>1, <3>2, <3>3
  <2> QED BY <2>2
<1>8. \A m \in Nodes : mq[m]["T"] = 0 /\ m \notin said
  BY <1>1, <1>5, <1>6 DEF End, Told, Mail
<1>9. \A m \in Nodes : proc'[m].if_last_node =>
        m = tour'[Len(tour')] /\ (ended' => ~proc'[m].ping_switch_)
  BY <1>2, <1>3, <1>4, <1>5 DEF Counts
<1>10. \A m \in Nodes : /\ mq'[m]["T"] <= 1 /\ (m \in said' => mq'[m]["T"] = 0)
                        /\ mq'[m]["N"] <= Cardinality(said')
  BY <1>2, <1>7, <1>8 DEF Counts
<1> QED BY <1>2, <1>9, <1>10 DEF Counts

\* A process that is told of the end identifies itself once.
LEMMA RecvCounts ==
  ASSUME TourInv, Counts, NEW n \in Nodes, NEW k \in Unread(n), RecvMulticast(n, k)
  PROVE  Counts'
<1> DEFINE Q == [mq EXCEPT ![n][k] = @ - 1]
<1>1. Typed /\ proc \in [Nodes -> Procs] /\ proc[n] \in Procs /\ mq \in Mail
  BY DEF TourInv, Typed, Mail
<1>2. /\ UNCHANGED <<tour, echo, ended>>
      /\ k = "T" => mq' = Multicast(Q, "N") /\ said' = said \cup {n}
      /\ k # "T" => mq' = Q /\ said' = said
  BY DEF RecvMulticast
<1>3. /\ Q \in Mail /\ k \in Kinds /\ mq[n][k] > 0
      /\ \A p \in Nodes : p # n => Q[p] = mq[p]
      /\ \A l \in Kinds \ {k} : Q[n][l] = mq[n][l]
  BY <1>1, OneRead
<1>4. Q[n][k] = mq[n][k] - 1
  BY <1>1, <1>3 DEF Mail
<1> HIDE DEF Q
<1>5. \A p \in Nodes : /\ proc'[p].if_last_node => proc[p].if_last_node
                       /\ proc'[p].ping_switch_ => proc[p].ping_switch_
  BY <1>1 DEF RecvMulticast, Procs
<1>6. "T" \in Kinds /\ "N" \in Kinds /\ "T" \in Kinds \ {"N"} /\ Kinds = {"T", "N"}
  BY DEF Kinds
<1>7. IsFiniteSet(said) /\ Cardinality(said) \in Nat
  BY <1>1, FewSaid
<1>8. \A p \in Nodes : \A l \in Kinds : mq[p][l] \in Nat /\ Q[p][l] \in Nat /\ Q[p][l] <= mq[p][l]
  BY <1>1, <1>3, <1>4 DEF Mail
<1>9. CASE k = "T"
  <2>1. n \notin said /\ mq[n]["T"] = 1 /\ Q[n]["T"] = 0
    BY <1>3, <1>4, <1>6, <1>8, <1>9 DEF Counts
  <2>2. Cardinality(said') = Cardinality(said) + 1
    BY <1>2, <1>7, <1>9, <2>1, FS_AddElement
  <2>3. mq' = Multicast(Q, "N")
    BY <1>2, <1>9
  <2>4. \A p \in Nodes : mq'[p]["T"] = Q[p]["T"] /\ mq'[p]["N"] <= Q[p]["N"] + 1 /\ mq'[p]["N"] \in Nat
    BY <1>3, <1>6, <2>3, MulticastMail, MulticastCount DEF Mail
  <2>5. ASSUME NEW p \in Nodes
        PROVE  /\ mq'[p]["T"] <= 1 /\ (p \in said' => mq'[p]["T"] = 0)
               /\ mq'[p]["N"] <= Cardinality(said')
    <3>1. mq[p]["T"] <= 1 /\ mq[p]["N"] <= Cardinality(said) /\ (p \in said => mq[p]["T"] = 0)
      BY DEF Counts
    <3>2. Q[p]["T"] <= mq[p]["T"] /\ Q[p]["N"] <= mq[p]["N"] /\ Q[p]["T"] \in Nat
          /\ Q[p]["N"] \in Nat /\ mq[p]["T"] \in Nat /\ mq[p]["N"] \in Nat
      BY <1>6, <1>8
    <3>3. p \in said' => p \in said \/ p = n
      BY <1>2, <1>9
    <3> QED BY <1>7, <2>1, <2>2, <2>4, <3>1, <3>2, <3>3
  <2> QED BY <1>2, <1>5, <2>5 DEF Counts
<1>10. CASE k # "T"
  <2>1. mq' = Q /\ said' = said
    BY <1>2, <1>10
  <2>2. ASSUME NEW p \in Nodes
        PROVE  /\ mq'[p]["T"] <= 1 /\ (p \in said' => mq'[p]["T"] = 0)
               /\ mq'[p]["N"] <= Cardinality(said')
    <3>1. mq[p]["T"] <= 1 /\ mq[p]["N"] <= Cardinality(said) /\ (p \in said => mq[p]["T"] = 0)
      BY DEF Counts
    <3>2. Q[p]["T"] <= mq[p]["T"] /\ Q[p]["N"] <= mq[p]["N"] /\ Q[p]["T"] \in Nat
          /\ Q[p]["N"] \in Nat /\ mq[p]["T"] \in Nat /\ mq[p]["N"] \in Nat
      BY <1>6, <1>8
    <3> QED BY <1>7, <2>1, <3>1, <3>2
  <2> QED BY <1>2, <1>5, <2>1, <2>2 DEF Counts
<1> QED BY <1>9, <1>10

\* A datagram that is lost is not counted any more.
LEMMA LoseCounts ==
  ASSUME TourInv, Counts, NEW n \in Nodes, NEW k \in Unread(n), LoseMulticast(n, k)
  PROVE  Counts'
<1> DEFINE Q == [mq EXCEPT ![n][k] = @ - 1]
<1>1. Typed /\ mq \in Mail /\ Cardinality(said) \in Nat /\ "T" \in Kinds /\ "N" \in Kinds
  BY FewSaid DEF TourInv, Typed, Mail, Kinds
<1>2. mq' = Q /\ UNCHANGED <<proc, tour, echo, ended, said>>
  BY DEF LoseMulticast
<1>3. /\ Q \in Mail /\ k \in Kinds /\ mq[n][k] > 0
      /\ \A p \in Nodes : p # n => Q[p] = mq[p]
      /\ \A l \in Kinds \ {k} : Q[n][l] = mq[n][l]
  BY <1>1, OneRead
<1>4. Q[n][k] = mq[n][k] - 1
  BY <1>1, <1>3 DEF Mail
<1> HIDE DEF Q
<1>5. \A p \in Nodes : \A l \in Kinds : mq[p][l] \in Nat /\ mq'[p][l] \in Nat /\ mq'[p][l] <= mq[p][l]
  BY <1>1, <1>2, <1>3, <1>4 DEF Mail
<1>6. ASSUME NEW p \in Nodes
      PROVE  /\ mq'[p]["T"] <= 1 /\ (p \in said => mq'[p]["T"] = 0)
             /\ mq'[p]["N"] <= Cardinality(said)
  <2>1. mq[p]["T"] <= 1 /\ mq[p]["N"] <= Cardinality(said) /\ (p \in said => mq[p]["T"] = 0)
    BY DEF Counts
  <2> QED BY <1>1, <1>5, <2>1
<1> QED BY <1>2, <1>6 DEF Counts

\* The routing packet makes its last receiver the last node, before the end.
LEMMA ReceiveRTCounts ==
  ASSUME TourInv, Counts, rt # 0, ReceiveRT(rt)
  PROVE  Counts'
<1> DEFINE n == tour[rt]
<1>1. /\ Typed /\ Walk /\ proc \in [Nodes -> Procs] /\ n \in Nodes /\ proc[n] \in Procs
  BY TourList DEF TourInv, Typed
<1>2. ~ended /\ \A m \in Nodes : ~proc[m].if_last_node
  BY <1>1 DEF Walk
<1>3. UNCHANGED <<tour, echo, mq, ended, said>>
  BY DEF ReceiveRT
<1>4. \A m \in Nodes : proc'[m].if_last_node => m = n /\ rt = Len(tour)
  BY <1>1, <1>2 DEF ReceiveRT, Procs
<1> QED BY <1>2, <1>3, <1>4 DEF Counts

\* Each step keeps the counts.
LEMMA NextCounts == TourInv /\ Counts /\ [Next]_vars => Counts'
<1> SUFFICES ASSUME TourInv, Counts, [Next]_vars PROVE Counts'
  OBVIOUS
<1>1. proc \in [Nodes -> Procs] /\ Typed /\ echo \subseteq Nodes \X Nodes
  BY DEF TourInv, Typed, Counts
<1>2. CASE UNCHANGED tourVars
  BY <1>1, <1>2, SameCounts DEF tourVars
<1>3. ASSUME NEW t \in Tours, Start(t) PROVE Counts'
  <2>1. tour = <<>> /\ \A m \in Nodes : ~proc[m].if_last_node
    BY <1>1, <1>3, TourList DEF Start, TourInv, Walk
  <2>2. UNCHANGED <<echo, mq, ended, said>>
    BY <1>3 DEF Start
  <2>3. \A m \in Nodes : ~proc'[m].if_last_node
    <3>1. Source \in Nodes /\ proc[Source] \in Procs
      BY <1>1, TourAssumption
    <3>2. CASE proc' = [proc EXCEPT ![Source].ifVisit = TRUE]
      BY <1>1, <2>1, <3>1, <3>2 DEF Procs
    <3>3. CASE proc' = [proc EXCEPT ![Source].ifVisit = TRUE, ![Source].run = "crashed"]
      <4> DEFINE q == [proc[Source] EXCEPT !.ifVisit = TRUE, !.run = "crashed"]
      <4>1. proc' = [proc EXCEPT ![Source] = q]
        BY <1>1, <3>1, <3>3 DEF Procs
      <4>2. q.if_last_node = proc[Source].if_last_node
        BY <3>1 DEF Procs
      <4> HIDE DEF q
      <4> QED BY <1>1, <2>1, <3>1, <4>1, <4>2
    <3> QED BY <1>3, <3>2, <3>3 DEF Start
  <2> QED BY <2>2, <2>3 DEF Counts
<1>4. ASSUME NEW n \in Nodes, Timeout(n), ~EndsTour(n) PROVE Counts'
  <2>1. UNCHANGED <<tour, mq, ended, said, echo>>
    BY <1>4 DEF Timeout
  <2>2. \A p \in Nodes : /\ proc'[p].if_last_node => proc[p].if_last_node
                         /\ proc'[p].ping_switch_ => proc[p].ping_switch_
    BY <1>1, <1>4 DEF Timeout, Procs
  <2> QED BY <1>1, <2>1, <2>2, SameCounts
<1>5. ASSUME NEW n \in Nodes, NEW k \in Nodes, AskNext(n, k) PROVE Counts'
  <2>1. UNCHANGED <<tour, mq, ended, said, echo>>
    BY <1>5 DEF AskNext
  <2>2. \A p \in Nodes : /\ proc'[p].if_last_node => proc[p].if_last_node
                         /\ proc'[p].ping_switch_ => proc[p].ping_switch_
    BY <1>1, <1>5 DEF AskNext, Procs
  <2> QED BY <1>1, <2>1, <2>2, SameCounts
<1>6. ASSUME NEW n \in Nodes, NEW k \in Nodes, ReadPing(n, k) PROVE Counts'
  <2>1. UNCHANGED <<tour, mq, ended, said>> /\ echo' \subseteq Nodes \X Nodes
    BY <1>1, <1>6 DEF ReadPing
  <2>2. \A p \in Nodes : /\ proc'[p].if_last_node => proc[p].if_last_node
                         /\ proc'[p].ping_switch_ => proc[p].ping_switch_
    BY <1>1, <1>6 DEF ReadPing, Procs
  <2> QED BY <2>1, <2>2, SameCounts
<1>7. ASSUME NEW n \in Nodes, NEW reached \in BOOLEAN,
             SendPing(n, reached) \/ PingGarbage(n, reached)
      PROVE  Counts'
  <2>1. Ping(n, reached) /\ proc[n].target \in Nodes
    BY <1>1, <1>7 DEF SendPing, PingGarbage, Procs
  <2>2. UNCHANGED <<tour, mq, ended, said>> /\ echo' \subseteq Nodes \X Nodes
    BY <1>1, <2>1 DEF Ping
  <2>3. \A p \in Nodes : /\ proc'[p].if_last_node => proc[p].if_last_node
                         /\ proc'[p].ping_switch_ => proc[p].ping_switch_
    BY <1>1, <2>1 DEF Ping, Procs
  <2> QED BY <2>2, <2>3, SameCounts
<1>8. ASSUME NEW n \in Nodes, Exit(n) PROVE Counts'
  <2>1. UNCHANGED <<tour, mq, ended, said>> /\ echo' \subseteq Nodes \X Nodes
    BY <1>1, <1>8 DEF Exit
  <2>2. \A p \in Nodes : /\ proc'[p].if_last_node => proc[p].if_last_node
                         /\ proc'[p].ping_switch_ => proc[p].ping_switch_
    BY <1>1, <1>8 DEF Exit, Procs
  <2> QED BY <2>1, <2>2, SameCounts
<1>9. ASSUME NEW n \in Nodes, Step(n) PROVE Counts'
  BY <1>4, <1>5, <1>6, <1>7, <1>8, <1>9, ReceiveRTCounts, EndCounts, RecvCounts DEF Step
<1> QED BY <1>2, <1>3, <1>9, LoseCounts DEF Next, vars, Daemons

\* The walk and the end keep TourInv.
THEOREM TourInvariant == Spec => []TourInv
<1> QED BY InitTourInv, NextTourInv, PTL DEF Spec

\* The types of the processes, the packets and the mail (TypeOK), with the bound on
\* what a process has still to read: a tour ends once, and each process that is told
\* identifies itself once.
THEOREM TypeCorrect == Spec => []TypeOK
<1>1. Init => Counts
  <2> SUFFICES ASSUME Init PROVE Counts
    OBVIOUS
  <2>1. Cardinality(said) = 0 /\ said = {} /\ echo = {} /\ ended = FALSE
    BY FS_EmptySet DEF Init
  <2>2. \A n \in Nodes : mq[n]["T"] = 0 /\ mq[n]["N"] = 0
    BY DEF Init, NoMail, Kinds
  <2>3. \A n \in Nodes : ~proc[n].if_last_node
    BY DEF Init
  <2>4. \A n \in Nodes : /\ mq[n]["T"] <= 1 /\ (n \in said => mq[n]["T"] = 0)
                         /\ mq[n]["N"] <= Cardinality(said)
    BY <2>1, <2>2
  <2>5. echo \subseteq Nodes \X Nodes /\ ended \in BOOLEAN
    BY <2>1
  <2> QED BY <2>3, <2>4, <2>5 DEF Counts
<1>2. TourInv /\ Counts => TypeOK
  <2> SUFFICES ASSUME TourInv, Counts PROVE TypeOK
    OBVIOUS
  <2>1. Typed /\ Cardinality(said) \in Nat /\ Cardinality(Nodes) \in Nat
        /\ Cardinality(said) <= Cardinality(Nodes)
    BY FewSaid DEF TourInv
  <2>2. Cardinality(Nodes) > 0
    BY TourAssumption, <2>1, FS_EmptySet
  <2>3. mq \in [Nodes -> [Kinds -> 0..Cardinality(Nodes)]]
    <3>1. ASSUME NEW n \in Nodes, NEW k \in Kinds PROVE mq[n][k] \in 0..Cardinality(Nodes)
      <4>1. mq[n][k] \in Nat /\ mq[n]["T"] <= 1 /\ mq[n]["N"] <= Cardinality(said)
        BY <2>1 DEF Typed, Counts
      <4> QED BY <2>1, <2>2, <4>1 DEF Kinds
    <3> QED BY <2>1, <3>1 DEF Typed
  <2> QED BY <2>1, <2>3 DEF TypeOK, Typed, Procs, Counts
<1>3. Spec => [](TourInv /\ Counts)
  BY <1>1, InitTourInv, NextTourInv, NextCounts, PTL DEF Spec
<1> QED BY <1>2, <1>3, PTL

\* Nobody joins after the end was multicast (GroupComplete): only the last node of
\* the list sends it, the packet has passed all others before it comes there, and
\* each joins before it sends the packet on.
THEOREM GroupIsComplete == Spec => []GroupComplete
<1>1. TourInv => GroupComplete
  <2> SUFFICES ASSUME TourInv, ended, NEW n \in ToSet(tour) PROVE proc[n].ifVisit
    BY DEF GroupComplete
  <2>1. PICK j \in DOMAIN tour : tour[j] = n
    BY DEF ToSet
  <2>2. tour \in Seq(Nodes)
    BY TourAssumption, EmptySeq DEF TourInv, Typed
  <2>3. j \in 1..Len(tour)
    BY <2>1, <2>2, LenProperties
  <2> QED BY <2>1, <2>3 DEF TourInv, Walk
<1> QED BY <1>1, TourInvariant, PTL

\* A process exits after the end of the tour, and not before it has identified
\* itself, unless a datagram was lost (Identifies).
THEOREM ExitsIdentified == Spec => []Identifies
<1>1. TourInv => Identifies
  BY DEF TourInv, End, Identifies
<1> QED BY <1>1, TourInvariant, PTL

\* A process that was told of the end pings no more (QuietAfterEnd).
THEOREM StaysQuiet == Spec => []QuietAfterEnd
<1>1. TourInv => QuietAfterEnd
  BY DEF TourInv, End, QuietAfterEnd
<1> QED BY <1>1, TourInvariant, PTL

\* The tour uses the ARP daemons as they are: hiding the tour, each of its steps is
\* one of module Arp or none, so what is proved of the daemons holds on a tour.
THEOREM ImplementsArp == Spec => Arp!Spec
<1>1. Init => Arp!Init
  BY DEF Init
<1>2. [Next]_vars => [Arp!Next]_(Arp!vars)
  <2> SUFFICES ASSUME [Next]_vars PROVE [Arp!Next]_(Arp!vars)
    OBVIOUS
  <2>1. CASE UNCHANGED arpVars
    BY <2>1 DEF arpVars, Arp!vars
  <2>2. ASSUME NEW n \in Nodes, NEW k \in Nodes, Arp!TourRequest(n, k) PROVE Arp!Next
    <3>1. <<n, k>> \in Asks /\ <<n, k>>[1] = n /\ <<n, k>>[2] = k
      BY TourAssumption
    <3> QED BY <2>2, <3>1 DEF Arp!Next
  <2>3. ASSUME NEW n \in Nodes, Arp!AreqReturn(n) \/ Arp!AreqTimeout(n) \/ Arp!TourExit(n)
        PROVE  Arp!Next
    BY <2>3, TourAssumption DEF Arp!Next
  <2>4. CASE Daemons
    BY <2>4 DEF Daemons, Arp!Next
  <2>5. ASSUME NEW t, Start(t) PROVE UNCHANGED arpVars
    BY <2>5 DEF Start
  <2>6. ASSUME NEW n \in Nodes, NEW m, LoseMulticast(n, m) PROVE UNCHANGED arpVars
    BY <2>6 DEF LoseMulticast
  <2>7. ASSUME NEW n \in Nodes, Step(n) PROVE Arp!Next \/ UNCHANGED arpVars
    BY <2>2, <2>3, <2>7 DEF Step, ReceiveRT, Timeout, AskNext, ReadPing, SendPing,
       PingGarbage, RecvMulticast, Exit
  <2> QED BY <2>1, <2>4, <2>5, <2>6, <2>7 DEF Next, vars
<1> QED BY <1>1, <1>2, PTL DEF Spec, Arp!Spec
=============================================================================
