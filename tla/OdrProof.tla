------------------------------ MODULE OdrProof ------------------------------
(***************************************************************************)
(* The ODR service of module Odr, for any network, clients and hops: what  *)
(* is in the tables, send buffers, port maps and on the wire, the routes   *)
(* that lead on, the answers that find the client that asked, the floods   *)
(* that pass a daemon once and the messages that are in one place.         *)
(***************************************************************************)
EXTENDS Odr, FiniteSetTheorems, SequenceTheorems, WellFoundedInduction, TLAPS

-----------------------------------------------------------------------------
(* The inductive invariant. *)

Hops == 0..MaxHops

\* Routes of n go by its neighbours.
EntriesOf(n) ==
  [next_hop : Neighbours(n) \cup {NoMac}, out_interface : Neighbours(n) \cup {NoMac},
   hops : Hops, timestamp : Nat, bid : [Nodes -> Nat]]
TablesOf(n) == [Nodes -> EntriesOf(n)]
PortEntries(n) == [portNum : Nat \ {0}, sun_path : {c \in Clients : Home[c] = n}]
DaemonsOf(n) ==
  [up : BOOLEAN, table : TablesOf(n), buffer : Seq(Messages \cup {Blank}),
   broadcast_id : Nat, sourcePort : Nat \ {0}, MapArray : Seq(PortEntries(n))]
RREQs ==
  [type : {0}, src : Nodes, dst : Nodes, hops : Hops,
   sent : BOOLEAN, forced : BOOLEAN, id : Nat]
RREPs ==
  [type : {1}, src : Nodes, dst : Nodes, hops : Hops, forced : BOOLEAN, id : Nat]
Questions == [client : Clients, dst : Nodes, flag : {0, 1}, port : Nat]
ClientStates ==
  [phase : {"idle", "first", "second", "exited"}, target : Nodes, socket : Seq(Messages)]

\* With table T node n has a route to d, or is d.
Knows(n, T, d) == n = d \/ T[d].next_hop # NoMac

\* p is a question of A or the answer to one.
IsOf(p, A) == \E a \in A : Of(p, a)

\* The node whose daemon gave out the port of message p.
AskedAt(p) == IF p.msg = "request" THEN p.src ELSE p.dst

\* The packets that n, with table T, may send and keep: while routes are kept it
\* knows where they came from, and a message is a question of A or the answer to
\* one, unless the daemon where it was asked is in E, those that have ended.
Good(n, T, kept, E, A) ==
  {p \in Packets : /\ kept => Knows(n, T, p.src)
                   /\ p.type = 2 /\ AskedAt(p) \notin E => IsOf(p, A)}
Held(n, T, kept, E, A) == (Good(n, T, kept, E, A) \cap Messages) \cup {Blank}
Sent(n, T, kept, E, A) == Good(n, T, kept, E, A) \cup (IF kept THEN {} ELSE {Blank})

Typed ==
  /\ odr \in [Nodes -> Daemons] /\ \A n \in Nodes : odr[n] \in DaemonsOf(n)
  /\ net \in [Nodes -> [Nodes -> Seq(Packets \cup {Blank})]]
  /\ \A m, n \in Nodes : net[m][n] # <<>> => odr[n].up /\ m \in Neighbours(n)
  /\ now \in Nat /\ ended \subseteq Nodes /\ undef \in BOOLEAN

Traffic ==
  \A n \in Nodes :
    /\ odr[n].buffer \in Seq(Held(n, odr[n].table, RoutesKept, ended, asked))
    /\ \A m \in Nodes : net[n][m] \in Seq(Sent(n, odr[n].table, RoutesKept, ended, asked))

Lead ==
  RoutesKept =>
    \A n, d \in Nodes :
      LET m == odr[n].table[d].next_hop
      IN  m = NoMac \/ Knows(m, odr[m].table, d)

\* The daemon of n gives out ports once, and they stand in its map with the client
\* that has them.
PortsAt(n) ==
  /\ odr[n].up
  /\ \A a \in asked : Home[a.client] = n => a.port < odr[n].sourcePort
  /\ \A a, b \in asked :
       Home[a.client] = n /\ Home[b.client] = n /\ a.port = b.port => a = b
  /\ \A k \in 1..Len(odr[n].MapArray) :
       \E a \in asked : /\ a.client = odr[n].MapArray[k].sun_path
                        /\ a.port = odr[n].MapArray[k].portNum
                        /\ Home[a.client] = n
Ports == \A n \in Nodes \ ended : PortsAt(n)

\* What lies in the socket of c is the answer to a question of c.
AnswersOf(c) ==
  \A i \in 1..Len(client[c].socket) :
    \E a \in asked : a.client = c /\ Of(client[c].socket[i], a)
Callers ==
  /\ client \in [Clients -> ClientStates] /\ asked \subseteq Questions
  /\ \A c \in Clients : Home[c] \notin ended => AnswersOf(c)

OdrInv == Typed /\ Traffic /\ Lead /\ Ports /\ Callers

-----------------------------------------------------------------------------
(* Packets and what a pass sends. *)

\* The kinds of packets, and the blank slot, which is none.
LEMMA PacketKinds ==
  /\ RREQs \subseteq Packets /\ RREPs \subseteq Packets /\ Messages \subseteq Packets
  /\ Blank \notin Packets
  /\ \A p \in Packets : /\ p.type = 0 => p \in RREQs
                        /\ p.type = 1 => p \in RREPs
                        /\ p.type = 2 => p \in Messages
                        /\ p.src \in Nodes
<1>1. Packets = RREQs \cup RREPs \cup Messages
  BY DEF Packets, RREQs, RREPs, Hops
<1>2. /\ \A p \in RREQs : p.type = 0 /\ p.src \in Nodes
      /\ \A p \in RREPs : p.type = 1 /\ p.src \in Nodes
      /\ \A p \in Messages : p.type = 2 /\ p.src \in Nodes
  BY DEF RREQs, RREPs, Messages
<1>3. Blank.type = -1
  BY DEF Blank
<1> QED BY <1>1, <1>2, <1>3

\* Hop counts stay within the bound.
LEMMA HopInRange ==
  ASSUME NEW h \in Hops
  PROVE  Hop(h) \in Hops
BY OdrAssumption DEF Hop, Hops

\* A packet that has made another hop.
LEMMA HopsOn ==
  /\ \A p \in RREQs :
       /\ [p EXCEPT !.hops = Hop(@)] \in RREQs
       /\ [p EXCEPT !.hops = Hop(@)].src = p.src
       /\ [p EXCEPT !.hops = Hop(@), !.sent = TRUE] \in RREQs
       /\ [p EXCEPT !.hops = Hop(@), !.sent = TRUE].src = p.src
  /\ \A p \in RREPs :
       /\ [p EXCEPT !.hops = Hop(@)] \in RREPs
       /\ [p EXCEPT !.hops = Hop(@)].src = p.src
  /\ \A p \in Messages :
       /\ [p EXCEPT !.hops = Hop(@)] \in Messages
       /\ [p EXCEPT !.hops = Hop(@)].src = p.src
       /\ AskedAt([p EXCEPT !.hops = Hop(@)]) = AskedAt(p)
       /\ \A A : IsOf(p, A) => IsOf([p EXCEPT !.hops = Hop(@)], A)
<1>1. \A p \in RREQs : /\ [p EXCEPT !.hops = Hop(@)] \in RREQs
                       /\ [p EXCEPT !.hops = Hop(@)].src = p.src
                       /\ [p EXCEPT !.hops = Hop(@), !.sent = TRUE] \in RREQs
                       /\ [p EXCEPT !.hops = Hop(@), !.sent = TRUE].src = p.src
  BY HopInRange DEF RREQs
<1>2. \A p \in RREPs : /\ [p EXCEPT !.hops = Hop(@)] \in RREPs
                       /\ [p EXCEPT !.hops = Hop(@)].src = p.src
  BY HopInRange DEF RREPs
<1>3. ASSUME NEW p \in Messages
      PROVE  /\ [p EXCEPT !.hops = Hop(@)] \in Messages
             /\ [p EXCEPT !.hops = Hop(@)].src = p.src
             /\ AskedAt([p EXCEPT !.hops = Hop(@)]) = AskedAt(p)
             /\ \A A : IsOf(p, A) => IsOf([p EXCEPT !.hops = Hop(@)], A)
  <2> DEFINE q == [p EXCEPT !.hops = Hop(@)]
  <2>1. q \in Messages
    BY HopInRange DEF Messages, Hops
  <2>2. /\ q.src = p.src /\ q.dst = p.dst /\ q.port = p.port /\ q.msg = p.msg
        /\ q.type = p.type
    BY DEF Messages
  <2> HIDE DEF q
  <2>3. \A A : IsOf(p, A) => IsOf(q, A)
    BY <2>2 DEF IsOf, Of
  <2>4. AskedAt(q) = AskedAt(p)
    BY <2>2 DEF AskedAt
  <2> QED BY <2>1, <2>2, <2>3, <2>4 DEF q
<1> QED BY <1>1, <1>2, <1>3

\* What n may send: packets of G, to its neighbours.
Out(n, G) ==
  {f \in [Nodes -> Seq(G)] : \A x \in Nodes : f[x] # <<>> => x \in Neighbours(n)}

\* Sending to one neighbour, to all, to nobody, and one after the other.
LEMMA Outputs ==
  ASSUME NEW n \in Nodes, NEW G
  PROVE  /\ Silent \in Out(n, G)
         /\ \A p \in G : broadcast(n, p) \in Out(n, G)
         /\ \A p \in G : \A mac \in Neighbours(n) \cup {NoMac} :
              sendMessage(mac, p) \in Out(n, G)
         /\ \A f, g \in Out(n, G) : Then(f, g) \in Out(n, G)
<1>1. \A x : <<>> \in Seq(G) /\ (x \in G => <<x>> \in Seq(G))
  OBVIOUS
<1>2. Silent \in Out(n, G)
  BY <1>1 DEF Silent, Out
<1>3. \A p \in G : broadcast(n, p) \in Out(n, G)
  BY <1>1 DEF broadcast, Out
<1>4. \A p \in G : \A mac \in Neighbours(n) \cup {NoMac} :
        sendMessage(mac, p) \in Out(n, G)
  BY <1>1, OdrAssumption DEF sendMessage, Out
<1>5. ASSUME NEW f \in Out(n, G), NEW g \in Out(n, G) PROVE Then(f, g) \in Out(n, G)
  <2>1. ASSUME NEW x \in Nodes
        PROVE  /\ f[x] \o g[x] \in Seq(G)
               /\ f[x] \o g[x] # <<>> => x \in Neighbours(n)
    <3>1. f[x] \in Seq(G) /\ g[x] \in Seq(G)
      BY DEF Out
    <3>2. f[x] = <<>> /\ g[x] = <<>> => f[x] \o g[x] = <<>>
      BY <3>1, ConcatEmptySeq
    <3> QED BY <3>1, <3>2, ConcatProperties DEF Out
  <2> QED BY <2>1 DEF Then, Out
<1> QED BY <1>2, <1>3, <1>4, <1>5

\* More packets may be sent.
LEMMA OutMonotonic ==
  ASSUME NEW n \in Nodes, NEW G, NEW H, G \subseteq H, NEW f \in Out(n, G)
  PROVE  f \in Out(n, H)
<1>1. f \in [Nodes -> Seq(G)]
  BY DEF Out
<1>2. \A x \in Nodes : f[x] \in Seq(H)
  BY <1>1, SeqMonotonic
<1> QED BY <1>1, <1>2 DEF Out

-----------------------------------------------------------------------------
(* sendMessageFromBuffer. *)

\* What holds of the loop's variables: it keeps and sends packets of Q, and a
\* blank one only with undef.
Loops == [buffer : Seq(Messages \cup {Blank}), out : [Nodes -> Seq(Messages \cup {Blank})],
          crashed : BOOLEAN, undef : BOOLEAN]
Swept(n, Q, r) ==
  /\ r \in Loops
  /\ r.buffer \in Seq(Q \cup {Blank})
  /\ r.out \in Out(n, Q \cup (IF r.undef THEN {Blank} ELSE {}))

\* removeFromBuffer only loses packets.
LEMMA RemoveType ==
  ASSUME NEW Q, NEW b \in Seq(Q \cup {Blank}), NEW i
  PROVE  removeFromBuffer(b, i) \in Seq(Q \cup {Blank})
<1>1. Len(b) \in Nat /\ \A k \in 1..Len(b) : b[k] \in Q \cup {Blank}
  BY LenProperties, ElementOfSeq
<1>2. CASE Len(b) = 0
  <2>1. 1..(Len(b) - 1) = 1..0
    BY <1>2
  <2> QED BY <1>1, <2>1 DEF removeFromBuffer
<1>3. CASE Len(b) # 0
  <2>1. Len(b) - 1 \in Nat /\ \A k \in 1..(Len(b) - 1) : b[k] \in Q \cup {Blank}
    BY <1>1, <1>3
  <2> QED BY <2>1 DEF removeFromBuffer
<1> QED BY <1>2, <1>3

\* One iteration of the loop.
LEMMA IterationKeeps ==
  ASSUME NEW n \in Nodes, NEW table \in TablesOf(n), NEW Q \in SUBSET Messages,
         NEW stack, NEW i \in Nat, stack[i] \in Nodes \cup {Crash},
         i # 0, NEW r, Swept(n, Q, r)
  PROVE  Swept(n, Q, Iteration(table, stack, r, i))
<1> DEFINE p == IF i <= Len(r.buffer) THEN r.buffer[i] ELSE Blank
           dest == IF p = Blank THEN stack[i] ELSE p.dst
           u == r.undef \/ p = Blank
           s == [r EXCEPT !.undef = @ \/ p = Blank]
           c == [s EXCEPT !.crashed = TRUE]
           b == removeFromBuffer(r.buffer, i)
           o == Then(s.out, sendMessage(table[dest].next_hop, p))
           t == [s EXCEPT !.buffer = b, !.out = o]
           G == Q \cup (IF u THEN {Blank} ELSE {})
<1>1. /\ r \in Loops /\ r.buffer \in Seq(Q \cup {Blank}) /\ r.undef \in BOOLEAN
      /\ r.out \in Out(n, Q \cup (IF r.undef THEN {Blank} ELSE {}))
  BY DEF Swept, Loops
<1>2. Len(r.buffer) \in Nat /\ p \in Q \cup {Blank}
  BY <1>1, LenProperties, ElementOfSeq
<1>3. u \in BOOLEAN /\ p \in G /\ G \subseteq Messages \cup {Blank}
  BY <1>1, <1>2
<1>4. p # Blank => p.dst \in Nodes
  BY <1>2 DEF Messages
<1> HIDE DEF p
<1>5. r.out \in Out(n, G)
  <2>1. Q \cup (IF r.undef THEN {Blank} ELSE {}) \subseteq G
    BY <1>1
  <2> QED BY <1>1, <2>1, OutMonotonic
<1> HIDE DEF u
<1>6. /\ s \in Loops /\ s.undef = u /\ s.buffer = r.buffer /\ s.out = r.out
      /\ s.crashed = r.crashed
  BY <1>1, <1>3 DEF Loops, u
<1> HIDE DEF s
<1>7. /\ c \in Loops /\ c.undef = u /\ c.buffer = r.buffer /\ c.out = r.out
  BY <1>6 DEF Loops
<1>8. Swept(n, Q, s) /\ Swept(n, Q, c)
  <2> HIDE DEF c
  <2> QED BY <1>1, <1>5, <1>6, <1>7 DEF Swept
<1>9. ASSUME dest # Crash, Usable(table[dest])
      PROVE  Swept(n, Q, t)
  <2>1. dest \in Nodes
    BY <1>4, <1>9
  <2>2. table[dest].next_hop \in Neighbours(n) \cup {NoMac}
    BY <2>1 DEF TablesOf, EntriesOf
  <2> HIDE DEF dest, G
  <2>3. o \in Out(n, G)
    BY <1>3, <1>5, <1>6, <2>2, Outputs
  <2>4. b \in Seq(Q \cup {Blank}) /\ b \in Seq(Messages \cup {Blank})
    <3>1. b \in Seq(Q \cup {Blank})
      BY <1>1, RemoveType
    <3>2. Q \cup {Blank} \subseteq Messages \cup {Blank}
      OBVIOUS
    <3> QED BY <3>1, <3>2, SeqMonotonic
  <2>5. o \in [Nodes -> Seq(Messages \cup {Blank})]
    BY <1>3, <2>3, OutMonotonic DEF Out
  <2> HIDE DEF o, b
  <2>6. t \in Loops /\ t.undef = u /\ t.buffer = b /\ t.out = o
    BY <1>6, <2>4, <2>5 DEF Loops
  <2> HIDE DEF t
  <2> QED BY <2>3, <2>4, <2>6 DEF Swept, G
<1>10. Iteration(table, stack, r, i) =
         IF r.crashed \/ dest = Crash THEN c ELSE IF Usable(table[dest]) THEN t ELSE s
  BY DEF Iteration, p, s
<1> HIDE DEF c, t, dest
<1> QED BY <1>8, <1>9, <1>10

\* A non-empty set of naturals has a least element.
LEMMA LeastNat ==
  ASSUME NEW T \in SUBSET Nat, T # {}
  PROVE  \E x \in T : \A y \in T : x <= y
<1>1. PICK x \in T : \A y \in T : ~ (<<y, x>> \in OpToRel(<, Nat))
  BY WFMin, NatLessThanWellFounded
<1>2. ASSUME NEW y \in T PROVE x <= y
  <2>1. x \in Nat /\ y \in Nat
    OBVIOUS
  <2>2. <<y, x>> \in OpToRel(<, Nat) <=> y < x
    BY <2>1 DEF OpToRel
  <2>3. ~(y < x)
    BY <1>1, <2>2
  <2> QED BY <2>1, <2>3
<1> QED BY <1>2

\* The loop's variables before and after each of N iterations.
IsSweep(f, N, table, stack, start) ==
  f = [i \in 0..N |-> IF i = 0 THEN start ELSE Iteration(table, stack, f[i - 1], i)]

\* They exist, whatever the iterations do.
LEMMA SweepExists ==
  ASSUME NEW N \in Nat, NEW table, NEW stack, NEW start
  PROVE  \E f : IsSweep(f, N, table, stack, start)
<1> DEFINE Bad == {k \in Nat : ~ \E f : IsSweep(f, k, table, stack, start)}
<1>1. SUFFICES ASSUME Bad # {} PROVE FALSE
  OBVIOUS
<1>2. PICK k \in Bad : \A l \in Bad : k <= l
  BY <1>1, LeastNat
<1>3. k \in Nat /\ ~ \E f : IsSweep(f, k, table, stack, start)
  BY <1>2
<1>4. CASE k = 0
  <2> DEFINE f == [i \in 0..0 |-> start]
  <2>1. \A i \in 0..0 : i = 0
    OBVIOUS
  <2>2. f = [i \in 0..0 |-> IF i = 0 THEN start ELSE Iteration(table, stack, f[i - 1], i)]
    BY <2>1
  <2> QED BY <1>3, <1>4, <2>2 DEF IsSweep
<1>5. CASE k # 0
  <2>1. k - 1 \in Nat /\ ~(k <= k - 1)
    BY <1>3, <1>5
  <2>2. PICK f : IsSweep(f, k - 1, table, stack, start)
    BY <1>2, <2>1
  <2> DEFINE g == [i \in 0..k |-> IF i = k THEN Iteration(table, stack, f[k - 1], k) ELSE f[i]]
  <2>3. \A i \in 0..(k - 1) :
          f[i] = IF i = 0 THEN start ELSE Iteration(table, stack, f[i - 1], i)
    BY <2>1, <2>2 DEF IsSweep
  <2>4. ASSUME NEW i \in 0..k
        PROVE  g[i] = IF i = 0 THEN start ELSE Iteration(table, stack, g[i - 1], i)
    <3>1. CASE i = 0
      <4>1. g[i] = f[i] /\ i \in 0..(k - 1)
        BY <1>3, <1>5, <2>1, <3>1
      <4> QED BY <2>3, <3>1, <4>1
    <3>2. CASE i # 0
      <4>1. i - 1 \in 0..k /\ i - 1 # k
        BY <1>3, <3>2
      <4>2. g[i - 1] = f[i - 1]
        BY <4>1
      <4>3. CASE i = k
        <5>1. g[i] = Iteration(table, stack, f[i - 1], i)
          BY <4>3
        <5> HIDE DEF g
        <5> QED BY <3>2, <4>2, <5>1
      <4>4. CASE i # k
        <5>1. g[i] = f[i] /\ i \in 0..(k - 1)
          BY <1>3, <4>4
        <5> HIDE DEF g
        <5> QED BY <2>3, <3>2, <4>2, <5>1
      <4> QED BY <4>3, <4>4
    <3> QED BY <3>1, <3>2
  <2>5. g = [i \in 0..k |-> g[i]]
    OBVIOUS
  <2> HIDE DEF g
  <2>6. IsSweep(g, k, table, stack, start)
    BY <2>4, <2>5 DEF IsSweep
  <2> QED BY <1>3, <2>6
<1> QED BY <1>4, <1>5

\* sendMessageFromBuffer keeps and sends packets of the buffer, and blank ones
\* only with undef.
LEMMA Sweep ==
  ASSUME NEW n \in Nodes, NEW table \in TablesOf(n), NEW Q \in SUBSET Messages,
         NEW buffer \in Seq(Q \cup {Blank}), NEW stack \in Stacks(buffer)
  PROVE  Swept(n, Q, sendMessageFromBuffer(table, buffer, stack))
<1> DEFINE N == Len(buffer)
           start == [buffer |-> buffer, out |-> Silent, crashed |-> FALSE, undef |-> FALSE]
           f == CHOOSE f : IsSweep(f, N, table, stack, start)
<1>1. N \in Nat
  BY LenProperties
<1>2. sendMessageFromBuffer(table, buffer, stack) = f[N]
  BY DEF sendMessageFromBuffer, IsSweep
<1>3. IsSweep(f, N, table, stack, start)
  <2> HIDE DEF N, start
  <2> QED BY <1>1, SweepExists
<1>4. Swept(n, Q, start)
  <2>1. buffer \in Seq(Messages \cup {Blank})
    <3>1. Q \cup {Blank} \subseteq Messages \cup {Blank}
      OBVIOUS
    <3> QED BY <3>1, SeqMonotonic
  <2>2. Silent \in Out(n, Q) /\ Silent \in Out(n, Messages \cup {Blank})
    BY Outputs
  <2>3. Silent \in [Nodes -> Seq(Messages \cup {Blank})]
    BY <2>2 DEF Out
  <2>4. start \in Loops /\ start.undef = FALSE /\ start.buffer = buffer /\ start.out = Silent
    BY <2>1, <2>3 DEF Loops
  <2>5. Q \cup (IF FALSE THEN {Blank} ELSE {}) = Q
    OBVIOUS
  <2> HIDE DEF start
  <2> QED BY <2>2, <2>4, <2>5 DEF Swept
<1> HIDE DEF f, start
<1>5. \A i \in 0..N : f[i] = IF i = 0 THEN start ELSE Iteration(table, stack, f[i - 1], i)
  BY <1>1, <1>3 DEF IsSweep
<1> DEFINE Bad == {i \in 0..N : ~ Swept(n, Q, f[i])}
<1>6. SUFFICES Bad = {}
  BY <1>1, <1>2
<1>7. SUFFICES ASSUME Bad # {} PROVE FALSE
  OBVIOUS
<1>8. PICK i \in Bad : \A j \in Bad : i <= j
  <2>1. Bad \in SUBSET Nat
    BY <1>1
  <2> HIDE DEF Bad
  <2> QED BY <1>7, <2>1, LeastNat
<1>9. i \in 0..N /\ ~ Swept(n, Q, f[i])
  BY <1>8
<1>10. i # 0
  BY <1>4, <1>5, <1>9
<1>11. i - 1 \in 0..N /\ i \in 1..N /\ ~(i <= i - 1) /\ i \in Nat
  BY <1>1, <1>9, <1>10
<1>12. Swept(n, Q, f[i - 1])
  BY <1>8, <1>11
<1>13. stack[i] \in Nodes \cup {Crash}
  BY <1>11 DEF Stacks
<1>14. f[i] = Iteration(table, stack, f[i - 1], i)
  BY <1>5, <1>9, <1>10
<1> HIDE DEF Bad, N
<1> QED BY <1>9, <1>10, <1>11, <1>12, <1>13, <1>14, IterationKeeps

-----------------------------------------------------------------------------
(* The end of a pass. *)

\* What may be sent and kept stays so while routes and questions are only added.
LEMMA GoodGrows ==
  ASSUME NEW n, NEW T, NEW U, NEW kept, NEW kept2, NEW E, NEW E2,
         NEW A, NEW B, kept2 => kept, E \subseteq E2, A \subseteq B,
         kept2 => \A d \in Nodes : Knows(n, T, d) => Knows(n, U, d)
  PROVE  /\ Good(n, T, kept, E, A) \subseteq Good(n, U, kept2, E2, B)
         /\ Held(n, T, kept, E, A) \subseteq Held(n, U, kept2, E2, B)
         /\ Sent(n, T, kept, E, A) \subseteq Sent(n, U, kept2, E2, B)
<1>1. ASSUME NEW p \in Good(n, T, kept, E, A)
      PROVE  p \in Good(n, U, kept2, E2, B)
  <2>1. p \in Packets /\ p.src \in Nodes
    BY PacketKinds DEF Good
  <2>2. kept2 => Knows(n, U, p.src)
    BY <2>1 DEF Good
  <2>3. p.type = 2 /\ AskedAt(p) \notin E2 => IsOf(p, B)
    BY DEF Good, IsOf
  <2> QED BY <2>1, <2>2, <2>3 DEF Good
<1> QED BY <1>1 DEF Held, Sent

\* The same, from a state to the next one.
LEMMA Grow ==
  ASSUME NEW n, NEW T, NEW U, RoutesKept' => RoutesKept, ended \subseteq ended',
         asked \subseteq asked',
         RoutesKept' => \A d \in Nodes : Knows(n, T, d) => Knows(n, U, d)
  PROVE  /\ Good(n, T, RoutesKept, ended, asked) \subseteq Good(n, U, RoutesKept', ended', asked')
         /\ Held(n, T, RoutesKept, ended, asked) \subseteq Held(n, U, RoutesKept', ended', asked')
         /\ Sent(n, T, RoutesKept, ended, asked) \subseteq Sent(n, U, RoutesKept', ended', asked')
<1> DEFINE kept == RoutesKept
           kept2 == RoutesKept'
           E == ended
           E2 == ended'
           A == asked
           B == asked'
<1>1. /\ kept2 => kept
      /\ kept2 => \A d \in Nodes : Knows(n, T, d) => Knows(n, U, d)
      /\ E \subseteq E2
      /\ A \subseteq B
  OBVIOUS
<1> HIDE DEF kept, kept2, E, E2, A, B
<1>2. Good(n, T, kept, E, A) \subseteq Good(n, U, kept2, E2, B)
  BY <1>1, GoodGrows
<1>3. Held(n, T, kept, E, A) \subseteq Held(n, U, kept2, E2, B)
  BY <1>1, GoodGrows
<1>4. Sent(n, T, kept, E, A) \subseteq Sent(n, U, kept2, E2, B)
  BY <1>1, GoodGrows
<1> QED BY <1>2, <1>3, <1>4 DEF kept, kept2, E, E2, A, B

\* The queues once the frame of m for n is taken.
LEMMA TakenAt ==
  ASSUME Typed, NEW n \in Nodes, NEW m \in Nodes
  PROVE  \A x, y \in Nodes :
           Taken(m, n)[x][y] = IF x = m /\ y = n THEN Tail(net[m][n]) ELSE net[x][y]
<1> SUFFICES ASSUME NEW x \in Nodes, NEW y \in Nodes
             PROVE  Taken(m, n)[x][y] = IF x = m /\ y = n THEN Tail(net[m][n]) ELSE net[x][y]
  OBVIOUS
<1> DEFINE row == [net[m] EXCEPT ![n] = Tail(net[m][n])]
<1>1. net \in [Nodes -> [Nodes -> Seq(Packets \cup {Blank})]]
  BY DEF Typed
<1>2. Taken(m, n) = [net EXCEPT ![m] = row]
  BY DEF Taken
<1>3. row[y] = IF y = n THEN Tail(net[m][n]) ELSE net[m][y]
  BY <1>1
<1> HIDE DEF row
<1>4. Taken(m, n)[x] = IF x = m THEN row ELSE net[x]
  BY <1>1, <1>2
<1> QED BY <1>3, <1>4

\* The frames that wait, with or without the one that was taken.
LEMMA Queues ==
  ASSUME Typed, Traffic, NEW n \in Nodes, NEW m \in Nodes, NEW queues,
         queues = net \/ (queues = Taken(m, n) /\ net[m][n] # <<>>)
  PROVE  \A x, y \in Nodes :
           /\ queues[x][y] \in Seq(Packets \cup {Blank})
           /\ queues[x][y] \in Seq(Sent(x, odr[x].table, RoutesKept, ended, asked))
           /\ queues[x][y] # <<>> => net[x][y] # <<>>
<1> SUFFICES ASSUME NEW x \in Nodes, NEW y \in Nodes
             PROVE  /\ queues[x][y] \in Seq(Packets \cup {Blank})
                    /\ queues[x][y] \in Seq(Sent(x, odr[x].table, RoutesKept, ended, asked))
                    /\ queues[x][y] # <<>> => net[x][y] # <<>>
  OBVIOUS
<1>1. net[x][y] \in Seq(Packets \cup {Blank})
  BY DEF Typed
<1>2. net[x][y] \in Seq(Sent(x, odr[x].table, RoutesKept, ended, asked))
  BY DEF Traffic
<1>3. CASE queues[x][y] = net[x][y]
  BY <1>1, <1>2, <1>3
<1>4. CASE queues[x][y] = Tail(net[x][y]) /\ net[x][y] # <<>>
  BY <1>1, <1>2, <1>4, HeadTailProperties
<1>5. queues[x][y] = net[x][y] \/ (queues[x][y] = Tail(net[x][y]) /\ net[x][y] # <<>>)
  <2>1. CASE queues = net
    BY <2>1
  <2>2. CASE queues = Taken(m, n) /\ net[m][n] # <<>>
    BY <2>2, TakenAt
  <2> QED BY <2>1, <2>2
<1> QED BY <1>3, <1>4, <1>5

\* A pass of daemon n ends, and the daemon goes on.
LEMMA FinishRuns ==
  ASSUME Typed, Traffic, Lead, NEW n \in Nodes, NEW m \in Nodes, odr[n].up,
         NEW queues, queues = net \/ (queues = Taken(m, n) /\ net[m][n] # <<>>),
         NEW s \in DaemonsOf(n), s.up, NEW out,
         Finish(n, queues, s, out, FALSE),
         asked \subseteq asked', undef => undef', undef' \in BOOLEAN, now' \in Nat,
         out \in Out(n, Sent(n, s.table, RoutesKept', ended', asked')),
         s.buffer \in Seq(Held(n, s.table, RoutesKept', ended', asked')),
         RoutesKept' => \A d \in Nodes : Knows(n, odr[n].table, d) => Knows(n, s.table, d),
         RoutesKept' => \A d \in Nodes :
           LET h == s.table[d].next_hop
           IN  h = NoMac \/ h = odr[n].table[d].next_hop \/ Knows(h, odr[h].table, d)
  PROVE  Typed' /\ Traffic' /\ Lead'
<1> DEFINE GoodSent(x) == Sent(x, odr'[x].table, RoutesKept', ended', asked')
<1>1. /\ odr' = [odr EXCEPT ![n] = s] /\ ended' = ended
      /\ net' = [x \in Nodes |-> [y \in Nodes |->
                  IF x = n /\ odr[y].up THEN queues[x][y] \o out[y] ELSE queues[x][y]]]
  BY DEF Finish
<1>2. /\ odr \in [Nodes -> Daemons] /\ (\A x \in Nodes : odr[x] \in DaemonsOf(x))
      /\ ended \subseteq Nodes
  BY DEF Typed
<1>3. \A x \in Nodes : odr'[x] = IF x = n THEN s ELSE odr[x]
  BY <1>1, <1>2
<1>4. (RoutesKept' => RoutesKept) /\ ended \subseteq ended'
  BY <1>1 DEF RoutesKept
<1>5. RoutesKept' => \A x, d \in Nodes : Knows(x, odr[x].table, d) => Knows(x, odr'[x].table, d)
  BY <1>3
<1>6. ASSUME NEW x \in Nodes
      PROVE  /\ Sent(x, odr[x].table, RoutesKept, ended, asked) \subseteq GoodSent(x)
             /\ Held(x, odr[x].table, RoutesKept, ended, asked)
                  \subseteq Held(x, odr'[x].table, RoutesKept', ended', asked')
  <2>1. RoutesKept' => \A d \in Nodes : Knows(x, odr[x].table, d) => Knows(x, odr'[x].table, d)
    BY <1>5
  <2> QED BY <1>4, <2>1, Grow
<1>7. \A x, y \in Nodes :
        /\ queues[x][y] \in Seq(Sent(x, odr[x].table, RoutesKept, ended, asked))
        /\ queues[x][y] # <<>> => odr[y].up /\ x \in Neighbours(y)
  BY Queues DEF Typed
<1>8. ASSUME NEW x \in Nodes, NEW y \in Nodes PROVE queues[x][y] \in Seq(GoodSent(x))
  <2> HIDE DEF GoodSent
  <2>1. Sent(x, odr[x].table, RoutesKept, ended, asked) \subseteq GoodSent(x)
    BY <1>6
  <2> QED BY <1>7, <2>1, SeqMonotonic
<1>9. out \in Out(n, GoodSent(n))
  BY <1>3
<1>10. \A x \in Nodes : GoodSent(x) \subseteq Packets \cup {Blank}
  BY DEF Sent, Good
<1> HIDE DEF GoodSent
<1>11. ASSUME NEW x \in Nodes, NEW y \in Nodes
       PROVE  /\ net'[x][y] \in Seq(GoodSent(x))
              /\ net'[x][y] # <<>> => odr'[y].up /\ x \in Neighbours(y)
  <2>1. CASE x = n /\ odr[y].up
    <3>1. net'[x][y] = queues[x][y] \o out[y]
      BY <1>1, <2>1
    <3>2. queues[x][y] \in Seq(GoodSent(x)) /\ out[y] \in Seq(GoodSent(x))
      BY <1>8, <1>9, <2>1 DEF Out
    <3>3. net'[x][y] \in Seq(GoodSent(x))
      BY <3>1, <3>2, ConcatProperties
    <3>4. odr'[y].up
      BY <1>3, <2>1
    <3>5. out[y] # <<>> => x \in Neighbours(y)
      <4>1. out[y] # <<>> => y \in Neighbours(n)
        BY <1>9 DEF Out
      <4>2. {n, y} = {y, n}
        OBVIOUS
      <4> QED BY <2>1, <4>1, <4>2 DEF Neighbours
    <3>6. queues[x][y] = <<>> /\ out[y] = <<>> => net'[x][y] = <<>>
      BY <3>1, <3>2, ConcatEmptySeq
    <3> QED BY <1>7, <3>3, <3>4, <3>5, <3>6
  <2>2. CASE ~(x = n /\ odr[y].up)
    <3>1. net'[x][y] = queues[x][y]
      BY <1>1, <2>2
    <3>2. odr[y].up => odr'[y].up
      BY <1>3
    <3> QED BY <1>7, <1>8, <3>1, <3>2
  <2> QED BY <2>1, <2>2
<1>12. Typed'
  <2>1. DaemonsOf(n) \subseteq Daemons
    <3>1. Neighbours(n) \cup {NoMac} \subseteq Macs
      BY DEF Neighbours, Macs
    <3>2. TablesOf(n) \subseteq [Nodes -> [next_hop : Macs, out_interface : Macs, hops : 0..MaxHops,
                      timestamp : Nat, bid : [Nodes -> Nat]]]
      BY <3>1 DEF TablesOf, EntriesOf, Hops
    <3>3. PortEntries(n) \subseteq [portNum : Nat \ {0}, sun_path : Clients]
      BY DEF PortEntries
    <3>4. Seq(PortEntries(n)) \subseteq Seq([portNum : Nat \ {0}, sun_path : Clients])
      BY <3>3, SeqMonotonic
    <3> QED BY <3>2, <3>4 DEF Daemons, DaemonsOf
  <2>2. odr' \in [Nodes -> Daemons] /\ \A x \in Nodes : odr'[x] \in DaemonsOf(x)
    BY <1>1, <1>2, <1>3, <2>1
  <2>3. \A x, y \in Nodes : net'[x][y] \in Seq(Packets \cup {Blank})
    BY <1>10, <1>11, SeqMonotonic
  <2>4. net' \in [Nodes -> [Nodes -> Seq(Packets \cup {Blank})]]
    BY <1>1, <2>3
  <2> QED BY <1>1, <1>2, <1>11, <2>2, <2>4 DEF Typed
<1>13. Traffic'
  <2>1. ASSUME NEW x \in Nodes
        PROVE  odr'[x].buffer \in Seq(Held(x, odr'[x].table, RoutesKept', ended', asked'))
    <3>1. CASE x = n
      BY <1>3, <3>1
    <3>2. CASE x # n
      <4>1. odr[x].buffer \in Seq(Held(x, odr[x].table, RoutesKept, ended, asked))
        BY DEF Traffic
      <4>2. odr'[x] = odr[x]
        BY <1>3, <3>2
      <4>3. Held(x, odr[x].table, RoutesKept, ended, asked)
              \subseteq Held(x, odr'[x].table, RoutesKept', ended', asked')
        BY <1>6
      <4>4. odr[x].buffer \in Seq(Held(x, odr'[x].table, RoutesKept', ended', asked'))
        BY <4>1, <4>3, SeqMonotonic
      <4> QED BY <4>2, <4>4
    <3> QED BY <3>1, <3>2
  <2> QED BY <1>11, <2>1 DEF Traffic, GoodSent
<1>14. Lead'
  <2>1. SUFFICES ASSUME RoutesKept', NEW x \in Nodes, NEW d \in Nodes
                 PROVE  LET h == odr'[x].table[d].next_hop
                        IN  h = NoMac \/ Knows(h, odr'[h].table, d)
    BY DEF Lead
  <2> DEFINE h == odr'[x].table[d].next_hop
  <2>2. SUFFICES ASSUME h # NoMac PROVE Knows(h, odr'[h].table, d)
    OBVIOUS
  <2>3. h \in Nodes
    <3>1. odr'[x] \in DaemonsOf(x)
      BY <1>12 DEF Typed
    <3> QED BY <2>2, <3>1 DEF DaemonsOf, TablesOf, EntriesOf, Neighbours
  <2>4. Knows(h, odr[h].table, d)
    <3>1. RoutesKept /\ \A y \in Nodes : LET g == odr[y].table[d].next_hop
                                      IN  g = NoMac \/ Knows(g, odr[g].table, d)
      BY <1>4, <2>1 DEF Lead
    <3>2. CASE x = n
      BY <1>3, <2>1, <2>2, <3>1, <3>2
    <3>3. CASE x # n
      BY <1>3, <2>2, <3>1, <3>3
    <3> QED BY <3>2, <3>3
  <2> QED BY <1>5, <2>1, <2>3, <2>4
<1> QED BY <1>12, <1>13, <1>14

\* A new daemon, and one that has ended.
LEMMA BootedType ==
  ASSUME NEW n \in Nodes
  PROVE  /\ Booted \in DaemonsOf(n) /\ Exited \in DaemonsOf(n)
         /\ Booted \in Daemons /\ Exited \in Daemons
         /\ Booted.up = TRUE /\ Booted.buffer = <<>> /\ Exited.buffer = <<>>
<1> DEFINE T == [d \in Nodes |-> RoutingEntry]
<1>1. RoutingEntry \in EntriesOf(n)
  BY OdrAssumption DEF RoutingEntry, EntriesOf, Hops
<1>2. T \in TablesOf(n)
  BY <1>1 DEF TablesOf
<1>3. T \in [Nodes -> [next_hop : Macs, out_interface : Macs, hops : 0..MaxHops,
                       timestamp : Nat, bid : [Nodes -> Nat]]]
  BY OdrAssumption DEF RoutingEntry, Macs
<1> HIDE DEF T
<1>4. Booted = [up |-> TRUE, table |-> T, buffer |-> <<>>,
                broadcast_id |-> 0, sourcePort |-> 1, MapArray |-> <<>>]
  BY DEF Booted, T
<1>5. <<>> \in Seq(Messages \cup {Blank}) /\ <<>> \in Seq(PortEntries(n))
  OBVIOUS
<1>6. Booted \in DaemonsOf(n) /\ Booted \in Daemons
  BY <1>2, <1>3, <1>4, <1>5 DEF DaemonsOf, Daemons
<1>7. Exited \in DaemonsOf(n) /\ Exited.buffer = Booted.buffer
  BY <1>6 DEF Exited, DaemonsOf
<1>8. Exited \in Daemons
  BY <1>6 DEF Exited, Daemons
<1> QED BY <1>4, <1>6, <1>7, <1>8

\* Once routes are not kept, tables do not matter.
LEMMA AnyTable ==
  ASSUME NEW n, NEW T, NEW U, ~RoutesKept'
  PROVE  Sent(n, T, RoutesKept', ended', asked') \subseteq Sent(n, U, RoutesKept', ended', asked')
<1> DEFINE kept == RoutesKept'
           E == ended'
           A == asked'
<1>1. kept => \A d \in Nodes : Knows(n, T, d) => Knows(n, U, d)
  OBVIOUS
<1> HIDE DEF kept, E, A
<1>2. Sent(n, T, kept, E, A) \subseteq Sent(n, U, kept, E, A)
  BY <1>1, GoodGrows
<1> QED BY <1>2 DEF kept, E, A

\* A pass of daemon n ends, and the process too.
LEMMA FinishCrash ==
  ASSUME Typed, Traffic, NEW n \in Nodes, NEW m \in Nodes,
         NEW queues, queues = net \/ (queues = Taken(m, n) /\ net[m][n] # <<>>),
         NEW s, NEW U, NEW out \in Out(n, Sent(n, U, RoutesKept', ended', asked')),
         Finish(n, queues, s, out, TRUE), undef' \in BOOLEAN, now' \in Nat,
         asked \subseteq asked'
  PROVE  /\ Typed' /\ Traffic' /\ Lead'
         /\ n \in ended' /\ ended \subseteq ended'
         /\ \A x \in Nodes \ ended' : odr'[x] = odr[x]
<1> DEFINE GoodSent(x) == Sent(x, odr'[x].table, RoutesKept', ended', asked')
<1>1. /\ odr' = [odr EXCEPT ![n] = Exited] /\ ended' = ended \cup {n}
      /\ net' = [x \in Nodes |-> [y \in Nodes |->
                  IF y = n THEN <<>>
                  ELSE IF x = n /\ odr[y].up THEN queues[x][y] \o out[y]
                  ELSE queues[x][y]]]
  BY DEF Finish
<1>2. /\ odr \in [Nodes -> Daemons] /\ (\A x \in Nodes : odr[x] \in DaemonsOf(x))
      /\ ended \subseteq Nodes
  BY DEF Typed
<1>3. \A x \in Nodes : odr'[x] = IF x = n THEN Exited ELSE odr[x]
  BY <1>1, <1>2
<1>4. ended' \subseteq Nodes /\ n \in ended' /\ ended \subseteq ended'
  BY <1>1, <1>2
<1>5. ~RoutesKept'
  BY <1>4 DEF RoutesKept
<1>6. ASSUME NEW x \in Nodes
      PROVE  /\ Sent(x, odr[x].table, RoutesKept, ended, asked) \subseteq GoodSent(x)
             /\ Held(x, odr[x].table, RoutesKept, ended, asked)
                  \subseteq Held(x, odr'[x].table, RoutesKept', ended', asked')
  BY <1>4, <1>5, Grow
<1>7. /\ out \in Out(n, GoodSent(n))
      /\ \A x \in Nodes : GoodSent(x) \subseteq Packets \cup {Blank}
  <2>1. Sent(n, U, RoutesKept', ended', asked') \subseteq GoodSent(n)
    BY <1>5, AnyTable
  <2>2. \A x \in Nodes : GoodSent(x) \subseteq Packets \cup {Blank}
    BY DEF Sent, Good
  <2> HIDE DEF GoodSent
  <2> QED BY <2>1, <2>2, OutMonotonic
<1> HIDE DEF GoodSent
<1>8. ASSUME NEW x \in Nodes, NEW y \in Nodes
      PROVE  /\ queues[x][y] \in Seq(GoodSent(x))
             /\ queues[x][y] # <<>> => odr[y].up /\ x \in Neighbours(y)
  <2>1. /\ queues[x][y] \in Seq(Sent(x, odr[x].table, RoutesKept, ended, asked))
        /\ queues[x][y] # <<>> => odr[y].up /\ x \in Neighbours(y)
    BY Queues DEF Typed
  <2>2. Sent(x, odr[x].table, RoutesKept, ended, asked) \subseteq GoodSent(x)
    BY <1>6
  <2> QED BY <2>1, <2>2, SeqMonotonic
<1>9. ASSUME NEW x \in Nodes, NEW y \in Nodes
      PROVE  /\ net'[x][y] \in Seq(GoodSent(x))
             /\ net'[x][y] # <<>> => odr'[y].up /\ x \in Neighbours(y)
  <2>1. CASE y = n
    BY <1>1, <2>1
  <2>2. CASE y # n /\ x = n /\ odr[y].up
    <3>1. net'[x][y] = queues[x][y] \o out[y]
      BY <1>1, <2>2
    <3>2. out[y] \in Seq(GoodSent(x)) /\ (out[y] # <<>> => y \in Neighbours(n))
      BY <1>7, <2>2 DEF Out
    <3>3. net'[x][y] \in Seq(GoodSent(x))
      BY <1>8, <3>1, <3>2, ConcatProperties
    <3>4. odr'[y].up
      BY <1>3, <2>2
    <3>5. out[y] # <<>> => x \in Neighbours(y)
      <4>1. {n, y} = {y, n}
        OBVIOUS
      <4> QED BY <2>2, <3>2, <4>1 DEF Neighbours
    <3>6. queues[x][y] \in Seq(GoodSent(x))
      BY <1>8
    <3>7. queues[x][y] = <<>> /\ out[y] = <<>> => net'[x][y] = <<>>
      BY <3>1, <3>2, <3>6, ConcatEmptySeq
    <3> QED BY <1>8, <3>3, <3>4, <3>5, <3>7
  <2>3. CASE y # n /\ ~(x = n /\ odr[y].up)
    <3>1. net'[x][y] = queues[x][y]
      BY <1>1, <2>3
    <3>2. odr'[y] = odr[y]
      BY <1>3, <2>3
    <3> QED BY <1>8, <3>1, <3>2
  <2> QED BY <2>1, <2>2, <2>3
<1>10. Typed'
  <2>1. odr' \in [Nodes -> Daemons] /\ \A x \in Nodes : odr'[x] \in DaemonsOf(x)
    BY <1>1, <1>2, <1>3, BootedType
  <2>2. \A x, y \in Nodes : net'[x][y] \in Seq(Packets \cup {Blank})
    BY <1>7, <1>9, SeqMonotonic
  <2>3. net' \in [Nodes -> [Nodes -> Seq(Packets \cup {Blank})]]
    BY <1>1, <2>2
  <2> QED BY <1>4, <1>9, <2>1, <2>3 DEF Typed
<1>11. Traffic'
  <2>1. ASSUME NEW x \in Nodes
        PROVE  odr'[x].buffer \in Seq(Held(x, odr'[x].table, RoutesKept', ended', asked'))
    <3>1. CASE x = n
      <4>1. odr'[x].buffer = <<>>
        BY <1>3, <3>1, BootedType
      <4> QED BY <4>1
    <3>2. CASE x # n
      <4>1. odr[x].buffer \in Seq(Held(x, odr[x].table, RoutesKept, ended, asked))
        BY DEF Traffic
      <4>2. odr'[x] = odr[x]
        BY <1>3, <3>2
      <4>3. Held(x, odr[x].table, RoutesKept, ended, asked)
              \subseteq Held(x, odr'[x].table, RoutesKept', ended', asked')
        BY <1>6
      <4>4. odr[x].buffer \in Seq(Held(x, odr'[x].table, RoutesKept', ended', asked'))
        BY <4>1, <4>3, SeqMonotonic
      <4> QED BY <4>2, <4>4
    <3> QED BY <3>1, <3>2
  <2> QED BY <1>9, <2>1 DEF Traffic, GoodSent
<1>12. Lead'
  BY <1>5 DEF Lead
<1> QED BY <1>3, <1>4, <1>10, <1>11, <1>12

-----------------------------------------------------------------------------
(* Changes of a routing table. *)

\* Table U of n differs from T in next hops at most for d, which is now m.
Learns(n, T, U, d, m) ==
  /\ U \in TablesOf(n)
  /\ \A x \in Nodes : U[x].next_hop = T[x].next_hop \/ (x = d /\ U[x].next_hop = m)

\* Table V of n is U but for the entry for x, which is e.
Replaces(n, U, V, x, e) ==
  V \in TablesOf(n) /\ \A y \in Nodes : V[y] = IF y = x THEN e ELSE U[y]

\* Another entry with the same next hop, or for d with m.
LEMMA EntryChange ==
  ASSUME NEW n \in Nodes, NEW m, NEW d \in Nodes, NEW T, NEW U, NEW V, NEW x \in Nodes,
         NEW e, Learns(n, T, U, d, m), Replaces(n, U, V, x, e),
         e.next_hop = U[x].next_hop \/ (x = d /\ e.next_hop = m)
  PROVE  Learns(n, T, V, d, m) /\ V[x] = e
<1>1. V \in TablesOf(n) /\ \A y \in Nodes : V[y] = IF y = x THEN e ELSE U[y]
  BY DEF Replaces
<1>2. ASSUME NEW y \in Nodes
      PROVE  V[y].next_hop = T[y].next_hop \/ (y = d /\ V[y].next_hop = m)
  <2>1. U[y].next_hop = T[y].next_hop \/ (y = d /\ U[y].next_hop = m)
    BY DEF Learns
  <2>2. CASE y = x
    BY <1>1, <2>1, <2>2
  <2>3. CASE y # x
    BY <1>1, <2>1, <2>3
  <2> QED BY <2>2, <2>3
<1> QED BY <1>1, <1>2 DEF Learns

\* The entry of a packet that came from m.
LEMMA ThroughEntry ==
  ASSUME NEW n \in Nodes, NEW m \in Neighbours(n), NEW e \in EntriesOf(n),
         NEW h \in Hops, now \in Nat
  PROVE  Through(e, m, h) \in EntriesOf(n) /\ Through(e, m, h).next_hop = m
BY DEF Through, EntriesOf

\* An entry that remembers the id of a request.
LEMMA MarkedEntry ==
  ASSUME NEW n \in Nodes, NEW e \in EntriesOf(n), NEW src \in Nodes, NEW id \in Nat
  PROVE  /\ [e EXCEPT !.bid[src] = id] \in EntriesOf(n)
         /\ [e EXCEPT !.bid[src] = id].next_hop = e.next_hop
<1> DEFINE b == [e.bid EXCEPT ![src] = id]
<1>1. e.bid \in [Nodes -> Nat]
  BY DEF EntriesOf
<1>2. b \in [Nodes -> Nat]
  BY <1>1
<1> HIDE DEF b
<1>3. [e EXCEPT !.bid = b] \in EntriesOf(n) /\ [e EXCEPT !.bid = b].next_hop = e.next_hop
  BY <1>2 DEF EntriesOf
<1> QED BY <1>3 DEF b

\* What n learns from a neighbour that knows d leads on, and no route is lost.
LEMMA LearnsLeads ==
  ASSUME Typed, NEW n \in Nodes, NEW m \in Neighbours(n), NEW d \in Nodes, NEW U,
         Learns(n, odr[n].table, U, d, m), Knows(m, odr[m].table, d)
  PROVE  /\ \A x \in Nodes : Knows(n, odr[n].table, x) => Knows(n, U, x)
         /\ \A x \in Nodes :
              LET h == U[x].next_hop
              IN  h = NoMac \/ h = odr[n].table[x].next_hop \/ Knows(h, odr[h].table, x)
<1>1. m # NoMac
  BY OdrAssumption DEF Neighbours
<1>2. ASSUME NEW x \in Nodes PROVE Knows(n, odr[n].table, x) => Knows(n, U, x)
  BY <1>1 DEF Knows, Learns
<1>3. ASSUME NEW x \in Nodes
      PROVE  LET h == U[x].next_hop
             IN  h = NoMac \/ h = odr[n].table[x].next_hop \/ Knows(h, odr[h].table, x)
  BY DEF Learns
<1> QED BY <1>2, <1>3

\* The table after an RREQ, ReverseRoute: a route back to the node that asks.
LEMMA ReverseLearns ==
  ASSUME Typed, NEW n \in Nodes, NEW m \in Neighbours(n), NEW p \in RREQs
  PROVE  /\ Learns(n, odr[n].table, ReverseRoute(n, m, p), p.src, m)
         /\ ReverseRoute(n, m, p)[p.src].next_hop # NoMac
<1> DEFINE T == odr[n].table
           e == T[p.src]
           h == Hop(p.hops)
           newer == p.id > e.bid[p.src]
           update == \/ ~(h > e.hops \/ Fresh(e))
                     \/ newer /\ p.forced
                     \/ ~checkAddressNotEmpty(e.next_hop)
           marked == IF newer THEN [e EXCEPT !.bid[p.src] = p.id] ELSE e
           f == IF update THEN Through(marked, m, h) ELSE marked
<1>1. /\ p.src \in Nodes /\ p.hops \in Hops /\ p.id \in Nat /\ now \in Nat
      /\ T \in TablesOf(n) /\ T \in [Nodes -> EntriesOf(n)]
  BY DEF Typed, RREQs, DaemonsOf, TablesOf
<1>2. e \in EntriesOf(n) /\ h \in Hops
  BY <1>1, HopInRange
<1>3. ReverseRoute(n, m, p) = [T EXCEPT ![p.src] = f]
  BY DEF ReverseRoute
<1> HIDE DEF T, e, h
<1>4. marked \in EntriesOf(n) /\ marked.next_hop = e.next_hop
  <2>1. /\ [e EXCEPT !.bid[p.src] = p.id] \in EntriesOf(n)
        /\ [e EXCEPT !.bid[p.src] = p.id].next_hop = e.next_hop
    BY <1>1, <1>2, MarkedEntry
  <2> QED BY <1>2, <2>1
<1> HIDE DEF marked
<1>5. Through(marked, m, h) \in EntriesOf(n) /\ Through(marked, m, h).next_hop = m
  BY <1>1, <1>2, <1>4, ThroughEntry
<1>6. f \in EntriesOf(n) /\ (f.next_hop = e.next_hop \/ f.next_hop = m)
  BY <1>4, <1>5
<1>7. m # NoMac
  BY OdrAssumption DEF Neighbours
<1>8. f.next_hop # NoMac
  BY <1>4, <1>5, <1>7 DEF checkAddressNotEmpty
<1> HIDE DEF f
<1>9. Learns(n, T, T, p.src, m)
  BY <1>1 DEF Learns
<1> DEFINE V == [T EXCEPT ![p.src] = f]
<1>10. Replaces(n, T, V, p.src, f)
  BY <1>1, <1>6 DEF Replaces, TablesOf
<1>11. V = ReverseRoute(n, m, p)
  BY <1>3
<1> HIDE DEF V
<1>12. Learns(n, T, V, p.src, m) /\ V[p.src] = f
  BY <1>1, <1>6, <1>9, <1>10, EntryChange DEF e
<1> QED BY <1>8, <1>11, <1>12 DEF T

\* The table after an RREP, ForwardRoute: a route to the node that was sought.
LEMMA ForwardLearns ==
  ASSUME Typed, NEW n \in Nodes, NEW m \in Neighbours(n), NEW p \in RREPs
  PROVE  /\ Learns(n, odr[n].table, ForwardRoute(n, m, p), p.src, m)
         /\ ForwardRoute(n, m, p)[p.src].next_hop # NoMac
<1> DEFINE T == odr[n].table
           e == T[p.src]
           h == Hop(p.hops)
           f == [Through(e, m, h) EXCEPT !.bid[p.src] = p.id]
           update == \/ p.forced \/ h < e.hops \/ Stale(e)
                     \/ ~checkAddressNotEmpty(e.next_hop)
<1>1. /\ p.src \in Nodes /\ p.hops \in Hops /\ p.id \in Nat /\ now \in Nat
      /\ T \in TablesOf(n) /\ T \in [Nodes -> EntriesOf(n)]
  BY DEF Typed, RREPs, DaemonsOf, TablesOf
<1>2. e \in EntriesOf(n) /\ h \in Hops
  BY <1>1, HopInRange
<1>3. ForwardRoute(n, m, p) = IF update THEN [T EXCEPT ![p.src] = f] ELSE T
  BY DEF ForwardRoute
<1>4. m # NoMac
  BY OdrAssumption DEF Neighbours
<1>5. ~update => e.next_hop # NoMac
  BY DEF checkAddressNotEmpty
<1> HIDE DEF T, e, h, update
<1>6. Through(e, m, h) \in EntriesOf(n) /\ Through(e, m, h).next_hop = m
  BY <1>1, <1>2, ThroughEntry
<1>7. f \in EntriesOf(n) /\ f.next_hop = m
  BY <1>1, <1>6, MarkedEntry
<1> HIDE DEF f
<1>8. Learns(n, T, T, p.src, m)
  BY <1>1 DEF Learns
<1> DEFINE V == [T EXCEPT ![p.src] = f]
<1>9. Replaces(n, T, V, p.src, f)
  BY <1>1, <1>7 DEF Replaces, TablesOf
<1>10. ForwardRoute(n, m, p) = IF update THEN V ELSE T
  BY <1>3
<1> HIDE DEF V
<1>11. Learns(n, T, V, p.src, m) /\ V[p.src] = f
  BY <1>1, <1>7, <1>8, <1>9, EntryChange
<1> QED BY <1>4, <1>5, <1>7, <1>8, <1>10, <1>11 DEF T, e

\* No client asks and no port is given out.
LEMMA PortsStay ==
  ASSUME Ports, asked' = asked, ended \subseteq ended',
         \A x \in Nodes \ ended' : /\ odr[x].up => odr'[x].up
                                   /\ odr'[x].sourcePort = odr[x].sourcePort
                                   /\ odr'[x].MapArray = odr[x].MapArray
  PROVE  Ports'
<1> SUFFICES ASSUME NEW n \in Nodes \ ended' PROVE PortsAt(n)'
  BY DEF Ports
<1>1. PortsAt(n)
  BY DEF Ports
<1>2. /\ odr[n].up => odr'[n].up
      /\ odr'[n].sourcePort = odr[n].sourcePort /\ odr'[n].MapArray = odr[n].MapArray
  OBVIOUS
<1> QED BY <1>1, <1>2 DEF PortsAt

\* No socket gets anything new.
LEMMA CallersStay ==
  ASSUME Callers, client' \in [Clients -> ClientStates], asked \subseteq asked',
         asked' \subseteq Questions, ended \subseteq ended',
         \A c \in Clients : \A i \in 1..Len(client'[c].socket) :
           \E j \in 1..Len(client[c].socket) : client'[c].socket[i] = client[c].socket[j]
  PROVE  Callers'
<1>1. ASSUME NEW c \in Clients, Home[c] \notin ended', NEW i \in 1..Len(client'[c].socket)
      PROVE  \E a \in asked' : a.client = c /\ Of(client'[c].socket[i], a)
  <2>1. PICK j \in 1..Len(client[c].socket) : client'[c].socket[i] = client[c].socket[j]
    OBVIOUS
  <2>2. AnswersOf(c)
    BY <1>1 DEF Callers
  <2>3. PICK a \in asked : a.client = c /\ Of(client[c].socket[j], a)
    BY <2>2 DEF AnswersOf
  <2> QED BY <2>1, <2>3
<1>2. \A c \in Clients : Home[c] \notin ended' => AnswersOf(c)'
  BY <1>1 DEF AnswersOf
<1> QED BY <1>2 DEF Callers

-----------------------------------------------------------------------------
(* The daemon's passes. *)

\* The daemon ends.
LEMMA CrashPass ==
  ASSUME OdrInv, NEW n \in Nodes, NEW m \in Nodes, NEW queues,
         queues = net \/ (queues = Taken(m, n) /\ net[m][n] # <<>>),
         NEW s, NEW U, NEW out \in Out(n, Sent(n, U, RoutesKept, ended, asked)),
         Finish(n, queues, s, out, TRUE), UNCHANGED <<client, now, asked, undef>>
  PROVE  OdrInv'
<1>1. /\ Typed /\ Traffic /\ Ports /\ Callers /\ undef' \in BOOLEAN /\ now' \in Nat
      /\ asked \subseteq asked' /\ ended' = ended \cup {n}
  BY DEF OdrInv, Typed, Finish
<1>2. ~RoutesKept' /\ ended \subseteq ended'
  BY <1>1 DEF RoutesKept
<1>3. Sent(n, U, RoutesKept, ended, asked) \subseteq Sent(n, U, RoutesKept', ended', asked')
  BY <1>1, <1>2, Grow
<1>4. out \in Out(n, Sent(n, U, RoutesKept', ended', asked'))
  BY <1>3, OutMonotonic
<1>5. /\ Typed' /\ Traffic' /\ Lead'
      /\ \A x \in Nodes \ ended' : odr'[x] = odr[x]
  BY <1>1, <1>4, FinishCrash
<1>6. Ports'
  BY <1>1, <1>2, <1>5, PortsStay
<1>7. Callers'
  BY <1>1, <1>2, CallersStay DEF Callers
<1> QED BY <1>5, <1>6, <1>7 DEF OdrInv

\* What a frame from m to n is, and who sends it.
LEMMA Frame ==
  ASSUME Typed, Traffic, NEW n \in Nodes, NEW m \in Nodes, net[m][n] # <<>>
  PROVE  /\ odr[n].up /\ m \in Neighbours(n)
         /\ Head(net[m][n]) \in Packets \cup {Blank}
         /\ Head(net[m][n]) # Blank =>
              Head(net[m][n]) \in Good(m, odr[m].table, RoutesKept, ended, asked)
         /\ Head(net[m][n]) = Blank => ~RoutesKept
<1>1. /\ net[m][n] \in Seq(Packets \cup {Blank})
      /\ net[m][n] \in Seq(Sent(m, odr[m].table, RoutesKept, ended, asked))
  BY DEF Typed, Traffic
<1>2. /\ Head(net[m][n]) \in Packets \cup {Blank}
      /\ Head(net[m][n]) \in Sent(m, odr[m].table, RoutesKept, ended, asked)
  BY <1>1, HeadTailProperties
<1> DEFINE p == Head(net[m][n])
           G == Good(m, odr[m].table, RoutesKept, ended, asked)
<1>3. p \in G \/ (p = Blank /\ ~RoutesKept)
  BY <1>2 DEF Sent
<1>4. Blank \notin G
  BY PacketKinds DEF Good
<1> HIDE DEF p, G
<1>5. (p # Blank => p \in G) /\ (p = Blank => ~RoutesKept)
  BY <1>3, <1>4
<1> QED BY <1>2, <1>5 DEF Typed, p, G

\* Daemon n learns, from a neighbour that knows d, of a route to d, sends what it
\* may send, and changes nothing else.
LEMMA LearningPass ==
  ASSUME OdrInv, NEW n \in Nodes, NEW m \in Nodes, net[m][n] # <<>>, NEW d \in Nodes,
         RoutesKept => Knows(m, odr[m].table, d), NEW U,
         Learns(n, odr[n].table, U, d, m),
         NEW out \in Out(n, Sent(n, U, RoutesKept, ended, asked)),
         Finish(n, Taken(m, n), [odr[n] EXCEPT !.table = U], out, FALSE),
         UNCHANGED <<client, now, asked, undef>>
  PROVE  OdrInv'
<1> DEFINE s == [odr[n] EXCEPT !.table = U]
<1>1. /\ Typed /\ Traffic /\ Lead /\ Ports /\ Callers
      /\ odr[n].up /\ m \in Neighbours(n) /\ odr[n] \in DaemonsOf(n)
      /\ undef \in BOOLEAN /\ now \in Nat
  BY Frame DEF OdrInv, Typed
<1>2. /\ s \in DaemonsOf(n) /\ s.table = U /\ s.up = odr[n].up /\ s.buffer = odr[n].buffer
      /\ s.sourcePort = odr[n].sourcePort /\ s.MapArray = odr[n].MapArray
  BY <1>1 DEF DaemonsOf, Learns
<1> HIDE DEF s
<1>3. odr' = [odr EXCEPT ![n] = s] /\ ended' = ended
  BY DEF Finish, s
<1>4. (RoutesKept' => RoutesKept) /\ ended \subseteq ended'
  BY <1>3 DEF RoutesKept
<1>5. ASSUME RoutesKept
      PROVE  /\ \A x \in Nodes : Knows(n, odr[n].table, x) => Knows(n, U, x)
             /\ \A x \in Nodes :
                  LET h == U[x].next_hop
                  IN  h = NoMac \/ h = odr[n].table[x].next_hop \/ Knows(h, odr[h].table, x)
  BY <1>1, <1>5, LearnsLeads
<1>6. Sent(n, U, RoutesKept, ended, asked) \subseteq Sent(n, U, RoutesKept', ended', asked')
  BY <1>4, Grow
<1>7. out \in Out(n, Sent(n, s.table, RoutesKept', ended', asked'))
  BY <1>2, <1>6, OutMonotonic
<1>8. s.buffer \in Seq(Held(n, s.table, RoutesKept', ended', asked'))
  <2>1. odr[n].buffer \in Seq(Held(n, odr[n].table, RoutesKept, ended, asked))
    BY <1>1 DEF Traffic
  <2>2. RoutesKept' => \A x \in Nodes : Knows(n, odr[n].table, x) => Knows(n, U, x)
    BY <1>4, <1>5
  <2>3. Held(n, odr[n].table, RoutesKept, ended, asked)
          \subseteq Held(n, U, RoutesKept', ended', asked')
    BY <1>4, <2>2, Grow
  <2> QED BY <1>2, <2>1, <2>3, SeqMonotonic
<1>9. /\ RoutesKept' => \A x \in Nodes : Knows(n, odr[n].table, x) => Knows(n, s.table, x)
      /\ RoutesKept' => \A x \in Nodes :
           LET h == s.table[x].next_hop
           IN  h = NoMac \/ h = odr[n].table[x].next_hop \/ Knows(h, odr[h].table, x)
  BY <1>2, <1>4, <1>5
<1>10. Finish(n, Taken(m, n), s, out, FALSE)
  BY DEF s
<1>11. Typed' /\ Traffic' /\ Lead'
  BY <1>1, <1>2, <1>7, <1>8, <1>9, <1>10, FinishRuns
<1>12. Ports'
  <2>1. \A x \in Nodes \ ended' : /\ odr[x].up => odr'[x].up
                         /\ odr'[x].sourcePort = odr[x].sourcePort
                         /\ odr'[x].MapArray = odr[x].MapArray
    BY <1>1, <1>2, <1>3 DEF Typed
  <2> QED BY <1>1, <1>4, <2>1, PortsStay
<1>13. Callers'
  BY <1>1, <1>4, CallersStay DEF Callers
<1> QED BY <1>11, <1>12, <1>13 DEF OdrInv

\* Requests and replies whose source n knows may be sent.
LEMMA MaySend ==
  ASSUME NEW n, NEW U, NEW p \in RREQs \cup RREPs, RoutesKept => Knows(n, U, p.src)
  PROVE  p \in Sent(n, U, RoutesKept, ended, asked)
<1>1. p \in Packets /\ p.type # 2
  BY PacketKinds DEF RREQs, RREPs
<1>2. p \in Good(n, U, RoutesKept, ended, asked)
  BY <1>1 DEF Good
<1> QED BY <1>2 DEF Sent

\* What Answer sends: the reply, and the request marked as answered.
LEMMA AnswerSends ==
  ASSUME NEW n \in Nodes, NEW p \in RREQs, NEW table \in TablesOf(n), NEW U,
         RoutesKept => Knows(n, U, p.src), RoutesKept => Knows(n, U, p.dst)
  PROVE  Answer(n, p, table) \in Out(n, Sent(n, U, RoutesKept, ended, asked))
<1> DEFINE G == Sent(n, U, RoutesKept, ended, asked)
           further == [p EXCEPT !.hops = Hop(@), !.sent = TRUE]
           reply == RREP(p.dst, p.src, 0, p.forced, p.id)
           mac == table[p.src].next_hop
           e == odr[n].table[p.src]
<1>1. /\ p.src \in Nodes /\ p.dst \in Nodes /\ p.forced \in BOOLEAN /\ p.id \in Nat
  BY DEF RREQs
<1>2. mac \in Neighbours(n) \cup {NoMac}
  BY <1>1 DEF TablesOf, EntriesOf
<1>3. reply \in RREPs /\ reply.src = p.dst
  BY <1>1, OdrAssumption DEF RREP, RREPs, Hops
<1>4. further \in RREQs /\ further.src = p.src
  BY HopsOn
<1>5. Answer(n, p, table) =
        Then(sendMessage(mac, reply),
             IF ~checkAddressNotEmpty(e.next_hop) \/ e.hops > Hop(p.hops)
               THEN broadcast(n, further) ELSE Silent)
  BY DEF Answer
<1> HIDE DEF further, reply, mac
<1>6. reply \in G /\ further \in G
  BY <1>3, <1>4, MaySend
<1> HIDE DEF G
<1>7. /\ sendMessage(mac, reply) \in Out(n, G)
      /\ broadcast(n, further) \in Out(n, G) /\ Silent \in Out(n, G)
  BY <1>2, <1>6, Outputs
<1>8. Answer(n, p, table) \in Out(n, G)
  BY <1>5, <1>7, Outputs
<1> QED BY <1>8 DEF G

\* A request is handled, be it a packet or what a blank one is taken for.
LEMMA HandleStep ==
  ASSUME OdrInv, NEW n \in Nodes, NEW m \in Nodes, net[m][n] # <<>>, NEW p \in RREQs,
         RoutesKept => Knows(m, odr[m].table, p.src),
         HandleRREQ(n, m, p), UNCHANGED <<client, now, asked, undef>>
  PROVE  OdrInv'
<1> DEFINE T == odr[n].table
           reverse == ReverseRoute(n, m, p)
           new == p.id > reverse[p.dst].bid[p.src]
           table == [reverse EXCEPT ![p.dst].bid[p.src] = p.id]
           used == [table EXCEPT ![p.dst].timestamp = now]
           known == n # p.dst /\ Usable(table[p.dst])
           unknown == n # p.dst /\ Unusable(table[p.dst])
           flood == broadcast(n, [p EXCEPT !.hops = Hop(@)])
           Ends(t, out) == Finish(n, Taken(m, n), [odr[n] EXCEPT !.table = t], out, FALSE)
           May(U) == Out(n, Sent(n, U, RoutesKept, ended, asked))
<1>1. /\ Typed /\ Traffic /\ odr[n] \in DaemonsOf(n) /\ now \in Nat /\ T \in TablesOf(n)
      /\ p.src \in Nodes /\ p.dst \in Nodes /\ p.id \in Nat
  BY DEF OdrInv, Typed, DaemonsOf, RREQs
<1>2. m \in Neighbours(n)
  BY <1>1, Frame
<1>3. \/ Ends(T, Silent) \/ Ends(reverse, Silent) \/ Ends(table, Silent)
      \/ Ends(table, flood)
      \/ known /\ Ends(used, IF p.sent THEN Silent ELSE Answer(n, p, table))
      \/ n = p.dst /\ Ends(table, Answer(n, p, table))
  BY DEF HandleRREQ
<1>4. Learns(n, T, T, p.src, m)
  BY <1>1 DEF Learns
<1>5. Learns(n, T, reverse, p.src, m) /\ reverse[p.src].next_hop # NoMac
  BY <1>1, <1>2, ReverseLearns
<1>6. /\ Learns(n, T, table, p.src, m) /\ table[p.src].next_hop # NoMac
      /\ Learns(n, T, used, p.src, m) /\ used[p.src].next_hop # NoMac
      /\ known => used[p.dst].next_hop # NoMac
  <2> DEFINE e == reverse[p.dst]
             f == [e EXCEPT !.bid[p.src] = p.id]
             g == [f EXCEPT !.timestamp = now]
  <2> HIDE DEF T, reverse
  <2>1. e \in EntriesOf(n) /\ reverse \in [Nodes -> EntriesOf(n)]
    BY <1>1, <1>5 DEF Learns, TablesOf
  <2>2. f \in EntriesOf(n) /\ f.next_hop = e.next_hop
    BY <1>1, <2>1, MarkedEntry
  <2>3. table = [reverse EXCEPT ![p.dst] = f]
    OBVIOUS
  <2> HIDE DEF f, table
  <2>4. Learns(n, T, table, p.src, m) /\ table[p.dst] = f
    <3>1. p.src \in Nodes /\ p.dst \in Nodes /\ f.next_hop = reverse[p.dst].next_hop
      BY <1>1, <2>2
    <3>2. Replaces(n, reverse, table, p.dst, f)
      BY <2>1, <2>2, <2>3, <3>1 DEF Replaces, TablesOf
    <3> QED BY <1>5, <3>1, <3>2, EntryChange
  <2>5. table[p.src].next_hop # NoMac
    BY <1>1, <1>5, <2>1, <2>2, <2>3
  <2>6. g \in EntriesOf(n) /\ g.next_hop = f.next_hop
    BY <1>1, <2>2 DEF EntriesOf
  <2>7. used = [table EXCEPT ![p.dst] = g]
    BY <2>4
  <2> HIDE DEF g, used
  <2>8. Learns(n, T, used, p.src, m) /\ used[p.dst] = g
    <3>1. p.src \in Nodes /\ p.dst \in Nodes /\ g.next_hop = table[p.dst].next_hop
      BY <1>1, <2>4, <2>6
    <3>2. Replaces(n, table, used, p.dst, g)
      BY <2>4, <2>6, <2>7, <3>1 DEF Learns, Replaces, TablesOf
    <3> QED BY <2>4, <3>1, <3>2, EntryChange
  <2>9. table \in [Nodes -> EntriesOf(n)]
    BY <2>4 DEF Learns, TablesOf
  <2>10. used[p.src].next_hop # NoMac
    BY <1>1, <2>4, <2>5, <2>6, <2>7, <2>9
  <2>11. known => used[p.dst].next_hop # NoMac
    BY <2>4, <2>6, <2>8 DEF Usable, checkAddressNotEmpty
  <2> QED BY <2>4, <2>5, <2>8, <2>10, <2>11
<1>7. \A U : Silent \in May(U)
  BY Outputs
<1>8. flood \in May(table)
  <2>1. [p EXCEPT !.hops = Hop(@)] \in RREQs /\ [p EXCEPT !.hops = Hop(@)].src = p.src
    BY HopsOn
  <2>2. [p EXCEPT !.hops = Hop(@)] \in Sent(n, table, RoutesKept, ended, asked)
    <3> HIDE DEF table
    <3> QED BY <1>6, <2>1, MaySend DEF Knows
  <2> HIDE DEF table
  <2> QED BY <2>2, Outputs
<1>9. ASSUME NEW U, U[p.src].next_hop # NoMac, n = p.dst \/ U[p.dst].next_hop # NoMac
      PROVE  Answer(n, p, table) \in May(U)
  <2>1. table \in TablesOf(n)
    BY <1>6 DEF Learns
  <2> HIDE DEF table
  <2>2. Knows(n, U, p.src) /\ Knows(n, U, p.dst)
    BY <1>9 DEF Knows
  <2> QED BY <2>1, <2>2, AnswerSends
<1> HIDE DEF T, reverse, table, used, flood, known, May
<1>10. PICK U, out : Learns(n, T, U, p.src, m) /\ out \in May(U) /\ Ends(U, out)
  <2>1. CASE Ends(T, Silent)
    <3> HIDE DEF Ends
    <3> QED BY <1>4, <1>7, <2>1
  <2>2. CASE Ends(reverse, Silent)
    <3> HIDE DEF Ends
    <3> QED BY <1>5, <1>7, <2>2
  <2>3. CASE Ends(table, Silent)
    <3> HIDE DEF Ends
    <3> QED BY <1>6, <1>7, <2>3
  <2>4. CASE Ends(table, flood)
    <3> HIDE DEF Ends
    <3> QED BY <1>6, <1>8, <2>4
  <2>5. CASE known /\ Ends(used, IF p.sent THEN Silent ELSE Answer(n, p, table))
    <3> DEFINE out == IF p.sent THEN Silent ELSE Answer(n, p, table)
    <3>1. out \in May(used)
      BY <1>6, <1>7, <1>9, <2>5
    <3>2. Ends(used, out)
      BY <2>5
    <3> HIDE DEF Ends, out
    <3> QED BY <1>6, <3>1, <3>2
  <2>6. CASE n = p.dst /\ Ends(table, Answer(n, p, table))
    <3>1. Answer(n, p, table) \in May(table)
      BY <1>6, <1>9, <2>6
    <3> HIDE DEF Ends
    <3> QED BY <1>6, <2>6, <3>1
  <2> QED BY <1>3, <2>1, <2>2, <2>3, <2>4, <2>5, <2>6
<1>11. out \in Out(n, Sent(n, U, RoutesKept, ended, asked))
  BY <1>10 DEF May
<1>12. Learns(n, odr[n].table, U, p.src, m)
  BY <1>10 DEF T
<1> QED BY <1>1, <1>10, <1>11, <1>12, LearningPass

\* A request arrives.
LEMMA RREQStep ==
  ASSUME OdrInv, NEW n \in Nodes, NEW m \in Nodes, ReceiveRREQ(n, m)
  PROVE  OdrInv'
<1> DEFINE p == Head(net[m][n])
<1>1. /\ net[m][n] # <<>> /\ p.type = 0 /\ HandleRREQ(n, m, p)
      /\ UNCHANGED <<client, now, asked, undef>> /\ Typed /\ Traffic
  BY DEF ReceiveRREQ, OdrInv
<1>2. p # Blank
  BY <1>1 DEF Blank
<1>3. p \in Good(m, odr[m].table, RoutesKept, ended, asked)
  BY <1>1, <1>2, Frame
<1> HIDE DEF p
<1>4. p \in RREQs /\ (RoutesKept => Knows(m, odr[m].table, p.src))
  BY <1>1, <1>3, PacketKinds DEF Good
<1> QED BY <1>1, <1>4, HandleStep

\* A blank packet arrives; routes are not kept any more, and it may be taken for
\* any request, or end the process.
LEMMA BlankStep ==
  ASSUME OdrInv, NEW n \in Nodes, NEW m \in Nodes, ReceiveBlank(n, m)
  PROVE  OdrInv'
<1>1. /\ net[m][n] # <<>> /\ Head(net[m][n]) = Blank
      /\ UNCHANGED <<client, now, asked, undef>> /\ Typed /\ Traffic
      /\ undef \in BOOLEAN /\ now \in Nat
  BY DEF ReceiveBlank, OdrInv, Typed
<1>2. ~RoutesKept
  BY <1>1, Frame
<1>3. CASE Finish(n, Taken(m, n), odr[n], Silent, TRUE)
  <2>1. Silent \in Out(n, Sent(n, odr[n].table, RoutesKept, ended, asked))
    BY Outputs
  <2> QED BY <1>1, <1>3, <2>1, CrashPass
<1>4. ASSUME NEW src \in Nodes, NEW dst \in Nodes,
             HandleRREQ(n, m, RREQ(src, dst, 0, FALSE, FALSE, 0))
      PROVE  OdrInv'
  <2> DEFINE p == RREQ(src, dst, 0, FALSE, FALSE, 0)
  <2>1. p \in RREQs
    BY OdrAssumption DEF RREQ, RREQs, Hops
  <2>2. HandleRREQ(n, m, p)
    BY <1>4
  <2> HIDE DEF p
  <2> QED BY <1>1, <1>2, <2>1, <2>2, HandleStep
<1> QED BY <1>3, <1>4 DEF ReceiveBlank

\* What sendMessageFromBuffer gives, whatever the packets are.
LEMMA SweepType ==
  ASSUME NEW n \in Nodes, NEW table \in TablesOf(n), NEW buffer \in Seq(Messages \cup {Blank}),
         NEW stack \in Stacks(buffer), NEW r, r = sendMessageFromBuffer(table, buffer, stack)
  PROVE  /\ r.buffer \in Seq(Messages \cup {Blank})
         /\ r.crashed \in BOOLEAN /\ r.undef \in BOOLEAN
<1>1. Messages \in SUBSET Messages
  OBVIOUS
<1>2. Swept(n, Messages, r)
  BY <1>1, Sweep
<1> QED BY <1>2 DEF Swept, Loops

\* What may be kept and sent if none of the loop's packets is blank.
LEMMA SweepOut ==
  ASSUME NEW n \in Nodes, NEW table \in TablesOf(n), NEW kept, NEW E, NEW A,
         NEW buffer \in Seq(Held(n, table, kept, E, A)),
         NEW stack \in Stacks(buffer), NEW r, r = sendMessageFromBuffer(table, buffer, stack),
         NEW kept2, NEW E2, kept2 => kept, kept2 => ~r.undef, E \subseteq E2
  PROVE  /\ r.buffer \in Seq(Held(n, table, kept2, E2, A))
         /\ r.out \in Out(n, Sent(n, table, kept2, E2, A))
<1> DEFINE Q == Good(n, table, kept, E, A) \cap Messages
           R == Q \cup (IF r.undef THEN {Blank} ELSE {})
<1>1. Q \in SUBSET Messages /\ buffer \in Seq(Q \cup {Blank})
  BY DEF Held
<1>2. Swept(n, Q, r)
  <2> HIDE DEF Q
  <2> QED BY <1>1, Sweep
<1>3. r.buffer \in Seq(Q \cup {Blank}) /\ r.out \in Out(n, R)
  BY <1>2 DEF Swept
<1>4. /\ Good(n, table, kept, E, A) \subseteq Good(n, table, kept2, E2, A)
      /\ Held(n, table, kept, E, A) \subseteq Held(n, table, kept2, E2, A)
  BY GoodGrows
<1>5. R \subseteq Sent(n, table, kept2, E2, A)
  BY <1>4 DEF Sent
<1>6. Q \cup {Blank} \subseteq Held(n, table, kept2, E2, A)
  BY <1>4 DEF Held
<1> HIDE DEF Q, R
<1> QED BY <1>3, <1>5, <1>6, OutMonotonic, SeqMonotonic

\* Routes are kept before the pass, and by the questions of A.
KeptWith(A) == ended = {} /\ ~undef /\ \A a \in A : a.flag = 0

\* Daemon n takes a frame of m or a message, comes to a table and a send buffer,
\* works the buffer off with result r, and may send more before or after that.
Sweeps(n, m, queues, table, buffer, stack, r, s, more, out) ==
  /\ odr[n].up /\ (queues = net \/ (queues = Taken(m, n) /\ net[m][n] # <<>>))
  /\ table \in TablesOf(n)
  /\ buffer \in Seq(Held(n, table, KeptWith(asked'), ended, asked'))
  /\ stack \in Stacks(buffer) /\ r = sendMessageFromBuffer(table, buffer, stack)
  /\ s \in DaemonsOf(n) /\ s.up /\ s.table = table /\ s.buffer = r.buffer
  /\ more \in Out(n, Good(n, table, KeptWith(asked'), ended, asked'))
  /\ out = r.out \/ out = Then(more, r.out) \/ out = Then(r.out, more)
  /\ Finish(n, queues, s, out, r.crashed) /\ r.crashed \in BOOLEAN /\ r.undef \in BOOLEAN
  /\ asked \subseteq asked' /\ undef' = (undef \/ r.undef) /\ now' \in Nat
  /\ KeptWith(asked') =>
       /\ \A d \in Nodes : Knows(n, odr[n].table, d) => Knows(n, table, d)
       /\ \A d \in Nodes :
            LET h == table[d].next_hop
            IN  h = NoMac \/ h = odr[n].table[d].next_hop \/ Knows(h, odr[h].table, d)

\* Such a pass.
LEMMA SweepPass ==
  ASSUME Typed, Traffic, Lead, NEW n \in Nodes, NEW m \in Nodes,
         NEW queues, NEW table, NEW buffer, NEW stack, NEW r, NEW s, NEW more, NEW out,
         Sweeps(n, m, queues, table, buffer, stack, r, s, more, out)
  PROVE  /\ Typed' /\ Traffic' /\ Lead'
         /\ ended \subseteq ended'
         /\ \A x \in Nodes \ ended' : odr'[x] = IF x = n THEN s ELSE odr[x]
<1> USE DEF Sweeps
<1> DEFINE kept == KeptWith(asked')
           kept2 == RoutesKept'
           E == ended
           E2 == ended'
           A == asked'
<1>1. undef \in BOOLEAN /\ (ended' = ended \/ ended' = ended \cup {n})
  BY DEF Typed, Finish
<1>2. /\ kept2 => kept /\ ~r.undef
      /\ E \subseteq E2
  BY <1>1 DEF RoutesKept, KeptWith
<1>3. /\ buffer \in Seq(Held(n, table, kept, E, A))
      /\ more \in Out(n, Good(n, table, kept, E, A))
  OBVIOUS
<1>4. undef' \in BOOLEAN
  BY <1>1
<1> HIDE DEF kept, kept2, E, E2, A
<1>5. /\ r.buffer \in Seq(Held(n, table, kept2, E2, A))
      /\ r.out \in Out(n, Sent(n, table, kept2, E2, A))
  BY <1>2, <1>3, SweepOut
<1>6. more \in Out(n, Sent(n, table, kept2, E2, A))
  <2>1. Good(n, table, kept, E, A) \subseteq Good(n, table, kept2, E2, A)
    BY <1>2, GoodGrows
  <2>2. Good(n, table, kept, E, A) \subseteq Sent(n, table, kept2, E2, A)
    BY <2>1 DEF Sent
  <2> QED BY <1>3, <2>2, OutMonotonic
<1>7. out \in Out(n, Sent(n, table, kept2, E2, A))
  BY <1>5, <1>6, Outputs
<1>8. CASE r.crashed = FALSE
  <2>1. Finish(n, queues, s, out, FALSE)
    BY <1>8
  <2>2. /\ out \in Out(n, Sent(n, s.table, RoutesKept', ended', asked'))
        /\ s.buffer \in Seq(Held(n, s.table, RoutesKept', ended', asked'))
    BY <1>5, <1>7 DEF kept2, E2, A
  <2>3. /\ RoutesKept' => \A d \in Nodes : Knows(n, odr[n].table, d) => Knows(n, s.table, d)
        /\ RoutesKept' => \A d \in Nodes :
             LET h == s.table[d].next_hop
             IN  h = NoMac \/ h = odr[n].table[d].next_hop \/ Knows(h, odr[h].table, d)
    BY <1>2 DEF kept, kept2
  <2>4. undef => undef'
    OBVIOUS
  <2>5. Typed' /\ Traffic' /\ Lead'
    BY <1>4, <2>1, <2>2, <2>3, <2>4, FinishRuns
  <2>6. odr' = [odr EXCEPT ![n] = s] /\ ended' = ended /\ odr \in [Nodes -> Daemons]
    BY <2>1 DEF Finish, Typed
  <2>7. \A x \in Nodes : odr'[x] = IF x = n THEN s ELSE odr[x]
    BY <2>6
  <2> QED BY <2>5, <2>6, <2>7
<1>9. CASE r.crashed = TRUE
  <2>1. Finish(n, queues, s, out, TRUE)
    BY <1>9
  <2>2. out \in Out(n, Sent(n, table, RoutesKept', ended', asked'))
    BY <1>7 DEF kept2, E2, A
  <2>3. /\ Typed' /\ Traffic' /\ Lead'
        /\ n \in ended' /\ ended \subseteq ended'
        /\ \A x \in Nodes \ ended' : odr'[x] = odr[x]
    BY <1>4, <2>1, <2>2, FinishCrash
  <2> QED BY <2>3
<1> QED BY <1>8, <1>9

\* Before the pass, with the questions of the state after it: what n, with table T,
\* may send and keep may also be sent and kept with U.
LEMMA GrowWith ==
  ASSUME NEW n, NEW T, NEW U, asked \subseteq asked',
         KeptWith(asked') => \A d \in Nodes : Knows(n, T, d) => Knows(n, U, d)
  PROVE  /\ Good(n, T, RoutesKept, ended, asked)
              \subseteq Good(n, U, KeptWith(asked'), ended, asked')
         /\ Held(n, T, RoutesKept, ended, asked)
              \subseteq Held(n, U, KeptWith(asked'), ended, asked')
         /\ KeptWith(asked') => RoutesKept
<1> DEFINE kept == RoutesKept
           kept2 == KeptWith(asked')
           E == ended
           A == asked
           B == asked'
<1>1. /\ kept2 => kept
      /\ kept2 => \A d \in Nodes : Knows(n, T, d) => Knows(n, U, d)
      /\ A \subseteq B
  BY DEF KeptWith, RoutesKept
<1> HIDE DEF kept, kept2, E, A, B
<1>2. Good(n, T, kept, E, A) \subseteq Good(n, U, kept2, E, B)
  BY <1>1, GoodGrows
<1>3. Held(n, T, kept, E, A) \subseteq Held(n, U, kept2, E, B)
  BY <1>1, GoodGrows
<1> QED BY <1>1, <1>2, <1>3 DEF kept, kept2, E, A, B

\* A reply arrives: for a client of this node, or to be passed on.
LEMMA RREPStep ==
  ASSUME OdrInv, NEW n \in Nodes, NEW m \in Nodes, ReceiveRREP(n, m)
  PROVE  OdrInv'
<1> DEFINE p == Head(net[m][n])
           T == odr[n].table
           table == ForwardRoute(n, m, p)
           onward == Relay(table, p)
           further == [p EXCEPT !.hops = Hop(@)]
<1>1. /\ net[m][n] # <<>> /\ p.type = 1 /\ UNCHANGED <<client, now, asked>>
      /\ Typed /\ Traffic /\ Lead /\ Ports /\ Callers
      /\ odr[n] \in DaemonsOf(n) /\ now \in Nat
  BY DEF ReceiveRREP, OdrInv, Typed
<1>2. p # Blank
  BY <1>1 DEF Blank
<1>3. odr[n].up /\ m \in Neighbours(n) /\ p \in Good(m, odr[m].table, RoutesKept, ended, asked)
  BY <1>1, <1>2, Frame
<1>4. \/ /\ p.dst = n
         /\ \E stack \in Stacks(odr[n].buffer) :
              LET r == sendMessageFromBuffer(table, odr[n].buffer, stack)
              IN  /\ Finish(n, Taken(m, n),
                       [odr[n] EXCEPT !.table = table, !.buffer = r.buffer], r.out, r.crashed)
                  /\ undef' = (undef \/ r.undef)
      \/ /\ p.dst # n
         /\ Finish(n, Taken(m, n), [odr[n] EXCEPT !.table = table],
                   sendMessage(onward.next_hop, further), onward.out_interface = NoMac)
         /\ UNCHANGED undef
  BY DEF ReceiveRREP
<1> HIDE DEF p
<1>5. p \in RREPs /\ (RoutesKept => Knows(m, odr[m].table, p.src)) /\ p.src \in Nodes
      /\ p.dst \in Nodes
  BY <1>1, <1>3, PacketKinds DEF Good, RREPs
<1>6. Learns(n, T, table, p.src, m) /\ table[p.src].next_hop # NoMac
  BY <1>1, <1>3, <1>5, ForwardLearns
<1>7. table \in TablesOf(n)
  BY <1>6 DEF Learns
<1> HIDE DEF table
<1>8. ASSUME RoutesKept
      PROVE  /\ \A d \in Nodes : Knows(n, T, d) => Knows(n, table, d)
             /\ \A d \in Nodes :
                  LET h == table[d].next_hop
                  IN  h = NoMac \/ h = T[d].next_hop \/ Knows(h, odr[h].table, d)
  BY <1>1, <1>3, <1>5, <1>6, <1>8, LearnsLeads
<1>9. CASE p.dst = n
  <2>1. PICK stack \in Stacks(odr[n].buffer) :
          LET r == sendMessageFromBuffer(table, odr[n].buffer, stack)
          IN  /\ Finish(n, Taken(m, n),
                   [odr[n] EXCEPT !.table = table, !.buffer = r.buffer], r.out, r.crashed)
              /\ undef' = (undef \/ r.undef)
    BY <1>4, <1>9
  <2> DEFINE r == sendMessageFromBuffer(table, odr[n].buffer, stack)
             s == [odr[n] EXCEPT !.table = table, !.buffer = r.buffer]
  <2> HIDE DEF r
  <2>2. odr[n].buffer \in Seq(Messages \cup {Blank})
    BY <1>1 DEF DaemonsOf
  <2>3. /\ r.buffer \in Seq(Messages \cup {Blank})
        /\ r.crashed \in BOOLEAN /\ r.undef \in BOOLEAN
    BY <1>7, <2>2, SweepType DEF r
  <2>4. /\ s \in DaemonsOf(n) /\ s.up = odr[n].up /\ s.table = table /\ s.buffer = r.buffer
        /\ s.sourcePort = odr[n].sourcePort /\ s.MapArray = odr[n].MapArray
    BY <1>1, <1>7, <2>3 DEF DaemonsOf
  <2>5. Finish(n, Taken(m, n), s, r.out, r.crashed) /\ undef' = (undef \/ r.undef)
    BY <2>1 DEF r
  <2> HIDE DEF s
  <2>6. asked \subseteq asked' /\ (KeptWith(asked') => RoutesKept)
    BY <1>1 DEF KeptWith, RoutesKept
  <2>7. KeptWith(asked') =>
          /\ \A d \in Nodes : Knows(n, T, d) => Knows(n, table, d)
          /\ \A d \in Nodes :
               LET h == table[d].next_hop
               IN  h = NoMac \/ h = T[d].next_hop \/ Knows(h, odr[h].table, d)
    BY <1>8, <2>6
  <2>8. odr[n].buffer \in Seq(Held(n, table, KeptWith(asked'), ended, asked'))
    <3>1. odr[n].buffer \in Seq(Held(n, T, RoutesKept, ended, asked))
      BY <1>1 DEF Traffic
    <3>2. Held(n, T, RoutesKept, ended, asked)
            \subseteq Held(n, table, KeptWith(asked'), ended, asked')
      BY <2>6, <2>7, GrowWith
    <3> QED BY <3>1, <3>2, SeqMonotonic
  <2>9. Silent \in Out(n, Good(n, table, KeptWith(asked'), ended, asked'))
    BY Outputs
  <2>10. /\ Typed' /\ Traffic' /\ Lead' /\ ended \subseteq ended'
         /\ \A x \in Nodes \ ended' : odr'[x] = IF x = n THEN s ELSE odr[x]
    <3>1. r = sendMessageFromBuffer(table, odr[n].buffer, stack) /\ now' \in Nat
      BY <1>1 DEF r
    <3>2. Sweeps(n, m, Taken(m, n), table, odr[n].buffer, stack, r, s, Silent, r.out)
      BY <1>1, <1>3, <1>7, <2>3, <2>4, <2>5, <2>6, <2>7, <2>8, <2>9, <3>1 DEF Sweeps
    <3> QED BY <1>1, <3>2, SweepPass
  <2>11. Ports'
    <3>1. \A x \in Nodes \ ended' : /\ odr[x].up => odr'[x].up
                                    /\ odr'[x].sourcePort = odr[x].sourcePort
                                    /\ odr'[x].MapArray = odr[x].MapArray
      BY <2>4, <2>10
    <3> QED BY <1>1, <2>10, <3>1, PortsStay
  <2>12. Callers'
    BY <1>1, <2>6, <2>10, CallersStay DEF Callers
  <2> QED BY <2>10, <2>11, <2>12 DEF OdrInv
<1>10. CASE p.dst # n
  <2>1. /\ Finish(n, Taken(m, n), [odr[n] EXCEPT !.table = table],
                  sendMessage(onward.next_hop, further), onward.out_interface = NoMac)
        /\ UNCHANGED undef
    BY <1>4, <1>10
  <2>2. further \in RREPs /\ further.src = p.src
    BY <1>5, HopsOn
  <2>3. onward.next_hop \in Neighbours(n) \cup {NoMac}
    BY <1>5, <1>7 DEF Relay, TablesOf, EntriesOf
  <2> DEFINE out == sendMessage(onward.next_hop, further)
             ends == onward.out_interface = NoMac
  <2> HIDE DEF further, onward
  <2>4. further \in Sent(n, table, RoutesKept, ended, asked)
    BY <1>6, <2>2, MaySend DEF Knows
  <2>5. out \in Out(n, Sent(n, table, RoutesKept, ended, asked))
    BY <2>3, <2>4, Outputs
  <2> HIDE DEF out
  <2>6. CASE ends
    <3>1. Finish(n, Taken(m, n), [odr[n] EXCEPT !.table = table], out, TRUE)
      BY <2>1, <2>6 DEF Finish, out
    <3> QED BY <1>1, <2>1, <2>5, <3>1, CrashPass
  <2>7. CASE ~ends
    <3>1. Finish(n, Taken(m, n), [odr[n] EXCEPT !.table = table], out, FALSE)
      BY <2>1, <2>7 DEF Finish, out
    <3> QED BY <1>1, <1>5, <1>6, <2>1, <2>5, <3>1, LearningPass
  <2> QED BY <2>6, <2>7
<1> QED BY <1>9, <1>10

\* searchMap gives the client of an entry with the port.
LEMMA SearchFinds ==
  ASSUME NEW S, NEW M \in Seq(S), NEW port, searchMap(M, port) # Crash
  PROVE  \E k \in 1..Len(M) : M[k].portNum = port /\ searchMap(M, port) = M[k].sun_path
<1> DEFINE Found == {k \in 1..Len(M) : M[k].portNum = port}
<1>1. searchMap(M, port) = IF Found = {} THEN Crash ELSE M[Min(Found)].sun_path
  BY DEF searchMap
<1>2. Found # {}
  BY <1>1
<1>3. Found \in SUBSET Nat
  BY LenProperties
<1> HIDE DEF Found
<1>4. \E x \in Found : \A y \in Found : x <= y
  BY <1>2, <1>3, LeastNat
<1>5. Min(Found) \in Found
  BY <1>4 DEF Min
<1> QED BY <1>1, <1>2, <1>5 DEF Found

\* A response is given to the client that asked.
LEMMA Delivered ==
  ASSUME OdrInv, NEW n \in Nodes, NEW p \in Messages, p.dst = n, p.msg = "response",
         n \notin ended => IsOf(p, asked), NEW to, to = searchMap(odr[n].MapArray, p.port), to # Crash,
         client' = Deliver(to, p), asked' = asked,
         ended \subseteq ended'
  PROVE  Callers'
<1>1. /\ Callers /\ Ports /\ odr[n].MapArray \in Seq(PortEntries(n))
  BY DEF OdrInv, Typed, DaemonsOf
<1>2. client \in [Clients -> ClientStates] /\ asked \subseteq Questions
  BY <1>1 DEF Callers
<1>3. PICK k \in 1..Len(odr[n].MapArray) :
        odr[n].MapArray[k].portNum = p.port /\ to = odr[n].MapArray[k].sun_path
  BY <1>1, SearchFinds
<1>4. to \in Clients /\ Home[to] = n
  <2>1. odr[n].MapArray[k] \in PortEntries(n)
    BY <1>1, <1>3, ElementOfSeq
  <2> QED BY <1>3, <2>1 DEF PortEntries
<1> DEFINE socket == Append(client[to].socket, p)
           c == [client[to] EXCEPT !.socket = socket]
<1>5. client[to].socket \in Seq(Messages) /\ client[to] \in ClientStates
  BY <1>2, <1>4 DEF ClientStates
<1>6. /\ socket \in Seq(Messages) /\ Len(socket) = Len(client[to].socket) + 1
      /\ \A i \in 1..Len(client[to].socket) : socket[i] = client[to].socket[i]
      /\ socket[Len(client[to].socket) + 1] = p
      /\ Len(client[to].socket) \in Nat
  BY <1>5, AppendProperties, LenProperties
<1>7. client' = [client EXCEPT ![to] = c]
  BY DEF Deliver
<1> HIDE DEF socket
<1>8. c \in ClientStates /\ c.socket = socket
  BY <1>5, <1>6 DEF ClientStates
<1> HIDE DEF c
<1>9. client' \in [Clients -> ClientStates]
  BY <1>2, <1>7, <1>8
<1>10. ASSUME NEW x \in Clients, Home[x] \notin ended',
              NEW i \in 1..Len(client'[x].socket)
       PROVE  \E a \in asked' : a.client = x /\ Of(client'[x].socket[i], a)
  <2>1. AnswersOf(x)
    BY <1>1, <1>10 DEF Callers
  <2>2. CASE x # to
    <3>1. client'[x] = client[x]
      BY <1>2, <1>7, <2>2
    <3> QED BY <2>1, <3>1 DEF AnswersOf
  <2>3. CASE x = to /\ i \in 1..Len(client[to].socket)
    <3>1. client'[x].socket = socket
      BY <1>2, <1>4, <1>7, <1>8, <2>3
    <3>2. socket[i] = client[to].socket[i]
      BY <1>6, <2>3
    <3>3. \E a \in asked : a.client = to /\ Of(client[to].socket[i], a)
      BY <2>1, <2>3 DEF AnswersOf
    <3> QED BY <2>3, <3>1, <3>2, <3>3
  <2>4. CASE x = to /\ i \notin 1..Len(client[to].socket)
    <3>1. client'[x].socket = socket
      BY <1>2, <1>4, <1>7, <1>8, <2>4
    <3>2. i = Len(client[to].socket) + 1
      BY <1>6, <2>4, <3>1
    <3>3. client'[x].socket[i] = p
      BY <1>6, <3>1, <3>2
    <3>4. n \notin ended /\ PortsAt(n)
      BY <1>1, <1>4, <1>10, <2>4 DEF Ports
    <3>5. PICK a \in asked : Of(p, a)
      BY <3>4 DEF IsOf
    <3>6. PICK b \in asked : b.client = to /\ b.port = p.port /\ Home[b.client] = n
      BY <1>3, <3>4 DEF PortsAt
    <3>7. Home[a.client] = n /\ a.port = p.port
      BY <3>5 DEF Of
    <3>8. a = b
      BY <3>4, <3>6, <3>7 DEF PortsAt
    <3> QED BY <2>4, <3>3, <3>5, <3>6, <3>8
  <2> QED BY <2>2, <2>3, <2>4
<1>11. \A x \in Clients : Home[x] \notin ended' => AnswersOf(x)'
  BY <1>10 DEF AnswersOf
<1> QED BY <1>2, <1>9, <1>11 DEF Callers

\* Messages that n may keep.
LEMMA MayKeep ==
  ASSUME NEW n, NEW U, NEW kept, NEW E, NEW A, NEW q \in Messages,
         kept => Knows(n, U, q.src), AskedAt(q) \notin E => IsOf(q, A)
  PROVE  q \in Held(n, U, kept, E, A)
<1>1. q \in Packets
  BY PacketKinds
<1> QED BY <1>1 DEF Held, Good

\* The server's answer.
LEMMA Served ==
  ASSUME NEW n \in Nodes, NEW p \in Messages, p.dst = n, p.msg = "request"
  PROVE  /\ Serve(n, p) \in Messages /\ Serve(n, p).src = n
         /\ AskedAt(Serve(n, p)) = AskedAt(p)
         /\ \A A : IsOf(p, A) => IsOf(Serve(n, p), A)
<1> DEFINE q == Serve(n, p)
<1>1. p.src \in Nodes /\ p.port \in Nat \ {0}
  BY DEF Messages
<1>2. /\ q \in Messages /\ q.src = n /\ q.dst = p.src /\ q.port = p.port
      /\ q.msg = "response" /\ q.type = 2
  BY <1>1, OdrAssumption DEF Serve, App, Messages
<1> HIDE DEF q
<1>3. ASSUME NEW a, Of(p, a) PROVE Of(q, a)
  <2>1. p.port = a.port /\ p.src = Home[a.client] /\ p.dst = a.dst
    BY <1>3 DEF Of
  <2>2. q.msg # "request"
    BY <1>2
  <2> QED BY <1>2, <2>1, <2>2 DEF Of
<1>4. \A A : IsOf(p, A) => IsOf(q, A)
  BY <1>3 DEF IsOf
<1>5. AskedAt(q) = AskedAt(p)
  BY <1>2 DEF AskedAt
<1> QED BY <1>2, <1>4, <1>5 DEF q

\* An application message arrives: for the server, for a client, or to be passed
\* on.
LEMMA AppStep ==
  ASSUME OdrInv, NEW n \in Nodes, NEW m \in Nodes, ReceiveApp(n, m)
  PROVE  OdrInv'
<1> DEFINE p == Head(net[m][n])
           T == odr[n].table
           table == [odr[n].table EXCEPT ![p.src] = Through(@, m, Hop(p.hops))]
           served == p.dst = n /\ p.msg = "request"
           delivered == p.dst = n /\ p.msg = "response"
           to == searchMap(odr[n].MapArray, p.port)
           extra == IF served THEN <<Serve(n, p)>>
                    ELSE IF delivered THEN <<>>
                    ELSE <<[p EXCEPT !.hops = Hop(@)]>>
           buffer == odr[n].buffer \o extra
           ends == (served /\ n \notin Servers) \/ (delivered /\ to = Crash)
           request == RREQ(n, p.dst, 0, FALSE, TRUE, odr[n].broadcast_id + 1)
           call == broadcast(n, request)
           Rest(stack, r) ==
             /\ Finish(n, Taken(m, n),
                  [odr[n] EXCEPT !.table = table, !.buffer = r.buffer,
                                 !.broadcast_id = IF Len(r.buffer) > 0 THEN @ + 1 ELSE @],
                  IF Len(r.buffer) > 0 /\ ~r.crashed THEN Then(r.out, call) ELSE r.out,
                  r.crashed)
             /\ undef' = (undef \/ r.undef)
<1>1. /\ net[m][n] # <<>> /\ p.type = 2 /\ UNCHANGED <<now, asked>>
      /\ Typed /\ Traffic /\ Lead /\ Ports /\ Callers
      /\ odr[n] \in DaemonsOf(n) /\ T \in TablesOf(n) /\ now \in Nat /\ undef \in BOOLEAN
  BY DEF ReceiveApp, OdrInv, Typed, DaemonsOf
<1>2. p # Blank
  BY <1>1 DEF Blank
<1>3. odr[n].up /\ m \in Neighbours(n) /\ p \in Good(m, odr[m].table, RoutesKept, ended, asked)
  BY <1>1, <1>2, Frame
<1>4. client' = IF delivered /\ ~ends THEN Deliver(to, p) ELSE client
  BY DEF ReceiveApp
<1>5. \/ ends /\ Finish(n, Taken(m, n), odr[n], Silent, TRUE) /\ UNCHANGED undef
      \/ ~ends /\ \E stack \in Stacks(buffer) : Rest(stack, sendMessageFromBuffer(table, buffer, stack))
  BY DEF ReceiveApp
<1> HIDE DEF p
<1>6. /\ p \in Messages /\ p.src \in Nodes /\ p.dst \in Nodes /\ p.hops \in Hops
      /\ RoutesKept => Knows(m, odr[m].table, p.src)
      /\ AskedAt(p) \notin ended => IsOf(p, asked)
  BY <1>1, <1>3, PacketKinds DEF Good, Messages, Hops
<1>7. CASE ends
  <2>1. Silent \in Out(n, Sent(n, T, RoutesKept, ended, asked))
    BY Outputs
  <2> QED BY <1>1, <1>4, <1>5, <1>7, <2>1, CrashPass
<1>8. Learns(n, T, table, p.src, m) /\ table[p.src].next_hop # NoMac
  <2> DEFINE e == Through(T[p.src], m, Hop(p.hops))
  <2>1. T[p.src] \in EntriesOf(n) /\ T \in [Nodes -> EntriesOf(n)]
    BY <1>1, <1>6 DEF TablesOf
  <2>2. e \in EntriesOf(n) /\ e.next_hop = m
    BY <1>1, <1>3, <1>6, <2>1, HopInRange, ThroughEntry
  <2>3. table = [T EXCEPT ![p.src] = e]
    OBVIOUS
  <2> HIDE DEF e, table, T
  <2>4. Replaces(n, T, table, p.src, e)
    BY <1>6, <2>1, <2>2, <2>3 DEF Replaces, TablesOf
  <2>5. Learns(n, T, T, p.src, m)
    BY <1>1 DEF Learns
  <2>6. Learns(n, T, table, p.src, m) /\ table[p.src] = e
    BY <1>6, <2>2, <2>4, <2>5, EntryChange
  <2>7. m # NoMac
    BY <1>3, OdrAssumption DEF Neighbours
  <2> QED BY <2>2, <2>6, <2>7
<1>9. table \in TablesOf(n)
  BY <1>8 DEF Learns
<1> HIDE DEF table
<1>10. ASSUME RoutesKept
       PROVE  /\ \A d \in Nodes : Knows(n, T, d) => Knows(n, table, d)
              /\ \A d \in Nodes :
                   LET h == table[d].next_hop
                   IN  h = NoMac \/ h = T[d].next_hop \/ Knows(h, odr[h].table, d)
  BY <1>1, <1>3, <1>6, <1>8, <1>10, LearnsLeads
<1>11. asked \subseteq asked' /\ (KeptWith(asked') => RoutesKept)
  BY <1>1 DEF KeptWith, RoutesKept
<1>12. KeptWith(asked') =>
          /\ \A d \in Nodes : Knows(n, T, d) => Knows(n, table, d)
          /\ \A d \in Nodes :
               LET h == table[d].next_hop
               IN  h = NoMac \/ h = T[d].next_hop \/ Knows(h, odr[h].table, d)
  BY <1>10, <1>11
<1> DEFINE H == Held(n, table, KeptWith(asked'), ended, asked')
<1>13. extra \in Seq(H)
  <2>1. CASE served
    <3>1. /\ Serve(n, p) \in Messages /\ Serve(n, p).src = n
          /\ AskedAt(Serve(n, p)) \notin ended => IsOf(Serve(n, p), asked')
      BY <1>1, <1>6, <2>1, Served
    <3>2. Serve(n, p) \in H
      BY <3>1, MayKeep DEF Knows
    <3> HIDE DEF H
    <3>3. <<Serve(n, p)>> \in Seq(H)
      BY <3>2
    <3> QED BY <2>1, <3>3
  <2>2. CASE ~served /\ ~delivered
    <3> DEFINE q == [p EXCEPT !.hops = Hop(@)]
    <3>1. q \in Messages /\ q.src = p.src /\ (AskedAt(q) \notin ended => IsOf(q, asked'))
      BY <1>1, <1>6, HopsOn
    <3> HIDE DEF q
    <3>2. q \in H
      BY <1>8, <3>1, MayKeep DEF Knows
    <3> HIDE DEF H
    <3>3. <<q>> \in Seq(H)
      BY <3>2
    <3> QED BY <2>2, <3>3 DEF q
  <2>3. CASE ~served /\ delivered
    <3>1. extra = <<>>
      BY <2>3
    <3> HIDE DEF H, extra
    <3> QED BY <3>1
  <2> QED BY <2>1, <2>2, <2>3
<1> HIDE DEF extra
<1>14. buffer \in Seq(H)
  <2>1. odr[n].buffer \in Seq(Held(n, T, RoutesKept, ended, asked))
    BY <1>1 DEF Traffic
  <2>2. Held(n, T, RoutesKept, ended, asked) \subseteq H
    BY <1>11, <1>12, GrowWith
  <2> HIDE DEF H
  <2>3. odr[n].buffer \in Seq(H)
    BY <2>1, <2>2, SeqMonotonic
  <2> QED BY <1>13, <2>3, ConcatProperties
<1> HIDE DEF buffer
<1>15. buffer \in Seq(Messages \cup {Blank})
  <2>1. H \subseteq Messages \cup {Blank}
    BY DEF Held
  <2> HIDE DEF H
  <2> QED BY <1>14, <2>1, SeqMonotonic
<1>16. call \in Out(n, Good(n, table, KeptWith(asked'), ended, asked'))
  <2>1. odr[n].broadcast_id + 1 \in Nat
    BY <1>1 DEF DaemonsOf
  <2>2. request \in RREQs /\ request.src = n /\ request.type # 2
    BY <1>6, <2>1, OdrAssumption DEF RREQ, RREQs, Hops
  <2> HIDE DEF request
  <2>3. request \in Good(n, table, KeptWith(asked'), ended, asked')
    BY <2>2, PacketKinds DEF Good, Knows
  <2> QED BY <2>3, Outputs
<1> HIDE DEF call
<1>17. CASE ~ends
  <2>1. PICK stack \in Stacks(buffer) : Rest(stack, sendMessageFromBuffer(table, buffer, stack))
    <3> HIDE DEF Rest
    <3> QED BY <1>5, <1>17
  <2> DEFINE r == sendMessageFromBuffer(table, buffer, stack)
             b == IF Len(r.buffer) > 0 THEN odr[n].broadcast_id + 1 ELSE odr[n].broadcast_id
             s == [odr[n] EXCEPT !.table = table, !.buffer = r.buffer, !.broadcast_id = b]
             out == IF Len(r.buffer) > 0 /\ ~r.crashed THEN Then(r.out, call) ELSE r.out
  <2>2. Finish(n, Taken(m, n), s, out, r.crashed) /\ undef' = (undef \/ r.undef)
    BY <2>1
  <2>3. r = sendMessageFromBuffer(table, buffer, stack) /\ now' \in Nat
    BY <1>1
  <2> HIDE DEF r
  <2>4. /\ r.buffer \in Seq(Messages \cup {Blank})
        /\ r.crashed \in BOOLEAN /\ r.undef \in BOOLEAN
    BY <1>9, <1>15, <2>3, SweepType
  <2>5. b \in Nat
    BY <1>1 DEF DaemonsOf
  <2> HIDE DEF b
  <2>6. /\ s \in DaemonsOf(n) /\ s.up = odr[n].up /\ s.table = table /\ s.buffer = r.buffer
        /\ s.sourcePort = odr[n].sourcePort /\ s.MapArray = odr[n].MapArray
    BY <1>1, <1>9, <2>4, <2>5 DEF DaemonsOf
  <2>7. out = r.out \/ out = Then(r.out, call)
    OBVIOUS
  <2> HIDE DEF s, out, T
  <2>8. Sweeps(n, m, Taken(m, n), table, buffer, stack, r, s, call, out)
    BY <1>1, <1>3, <1>9, <1>11, <1>12, <1>14, <1>16, <2>2, <2>3, <2>4, <2>6, <2>7 DEF Sweeps, T
  <2>9. /\ Typed' /\ Traffic' /\ Lead' /\ ended \subseteq ended'
        /\ \A x \in Nodes \ ended' : odr'[x] = IF x = n THEN s ELSE odr[x]
    BY <1>1, <2>8, SweepPass
  <2>10. Ports'
    <3>1. \A x \in Nodes \ ended' : /\ odr[x].up => odr'[x].up
                                    /\ odr'[x].sourcePort = odr[x].sourcePort
                                    /\ odr'[x].MapArray = odr[x].MapArray
      BY <2>6, <2>9
    <3> QED BY <1>1, <2>9, <3>1, PortsStay
  <2>11. Callers'
    <3>1. CASE delivered
      <4>1. to # Crash /\ client' = Deliver(to, p)
        BY <1>4, <1>17, <3>1
      <4>2. n \notin ended => IsOf(p, asked)
        BY <1>6, <3>1 DEF AskedAt
      <4> HIDE DEF to
      <4> QED BY <1>1, <1>6, <2>9, <3>1, <4>1, <4>2, Delivered DEF to
    <3>2. CASE ~delivered
      BY <1>1, <1>4, <1>11, <2>9, <3>2, CallersStay DEF Callers
    <3> QED BY <3>1, <3>2
  <2> QED BY <2>9, <2>10, <2>11 DEF OdrInv
<1> QED BY <1>7, <1>17

-----------------------------------------------------------------------------
(* The clients' steps. *)

\* A port is given out: it is new, and stands in the map with its client.
LEMMA PortsGiven ==
  ASSUME Typed, Ports, asked \subseteq Questions, NEW c \in Clients, NEW a \in Questions,
         a.client = c, NEW s,
         a.port = odr[Home[c]].sourcePort, s.sourcePort = odr[Home[c]].sourcePort + 1,
         s.MapArray = addMap(odr[Home[c]].MapArray, a.port, c), s.up,
         asked' = asked \cup {a}, ended \subseteq ended',
         \A x \in Nodes \ ended' : odr'[x] = IF x = Home[c] THEN s ELSE odr[x]
  PROVE  Ports'
<1> SUFFICES ASSUME NEW n \in Nodes \ ended' PROVE PortsAt(n)'
  BY DEF Ports
<1> DEFINE M == odr[n].MapArray
<1>1. /\ PortsAt(n) /\ odr[n] \in DaemonsOf(n)
      /\ odr'[n] = IF n = Home[c] THEN s ELSE odr[n]
  BY DEF Ports, Typed
<1>2. /\ odr[n].sourcePort \in Nat \ {0} /\ M \in Seq(PortEntries(n))
  BY <1>1 DEF DaemonsOf
<1>3. \A q \in asked : q.port \in Nat /\ (Home[q.client] = n => q.port < odr[n].sourcePort)
  BY <1>1 DEF PortsAt, Questions
<1>4. CASE n # Home[c]
  <2>1. odr'[n] = odr[n] /\ Home[a.client] # n
    BY <1>1, <1>4
  <2> QED BY <1>1, <2>1 DEF PortsAt
<1>5. CASE n = Home[c]
  <2>1. /\ odr'[n] = s /\ a.port = odr[n].sourcePort /\ Home[a.client] = n
        /\ s.sourcePort = odr[n].sourcePort + 1 /\ s.MapArray = addMap(M, a.port, c)
    BY <1>1, <1>5
  <2>2. odr'[n].up
    BY <2>1
  <2>3. ASSUME NEW q \in asked', Home[q.client] = n PROVE q.port < odr'[n].sourcePort
    <3>1. q.port = odr[n].sourcePort \/ (q.port \in Nat /\ q.port < odr[n].sourcePort)
      BY <1>3, <2>1, <2>3
    <3> QED BY <1>2, <2>1, <3>1
  <2>4. ASSUME NEW q \in asked, Home[q.client] = n PROVE q.port # a.port
    <3>1. q.port \in Nat /\ q.port < odr[n].sourcePort
      BY <1>3, <2>4
    <3> QED BY <1>2, <2>1, <3>1
  <2>5. ASSUME NEW q \in asked', NEW b \in asked', Home[q.client] = n, Home[b.client] = n,
               q.port = b.port
        PROVE  q = b
    <3>1. CASE q \in asked /\ b \in asked
      BY <1>1, <2>5, <3>1 DEF PortsAt
    <3>2. CASE q = a \/ b = a
      BY <2>4, <2>5, <3>2
    <3> QED BY <3>1, <3>2
  <2>6. ASSUME NEW k \in 1..Len(odr'[n].MapArray)
        PROVE  \E q \in asked' : /\ q.client = odr'[n].MapArray[k].sun_path
                                 /\ q.port = odr'[n].MapArray[k].portNum
                                 /\ Home[q.client] = n
    <3>1. ASSUME NEW l \in 1..Len(M)
          PROVE  \E q \in asked' : /\ q.client = M[l].sun_path
                                   /\ q.port = M[l].portNum
                                   /\ Home[q.client] = n
      BY <1>1 DEF PortsAt
    <3>2. CASE s.MapArray = M
      BY <2>1, <3>1, <3>2
    <3>3. CASE s.MapArray # M
      <4> DEFINE e == [portNum |-> a.port, sun_path |-> c]
      <4>1. odr'[n].MapArray = Append(M, e)
        BY <2>1, <3>3 DEF addMap
      <4>2. e.portNum = a.port /\ e.sun_path = c /\ e \in PortEntries(n)
        BY <1>2, <1>5, <2>1 DEF PortEntries
      <4> HIDE DEF e, M
      <4>3. /\ Len(Append(M, e)) = Len(M) + 1 /\ Len(M) \in Nat
            /\ \A l \in 1..Len(M) : Append(M, e)[l] = M[l]
            /\ Append(M, e)[Len(M) + 1] = e
        BY <1>2, <4>2, AppendProperties, LenProperties
      <4>4. k \in 1..Len(M) \/ k = Len(M) + 1
        BY <4>1, <4>3
      <4>5. CASE k \in 1..Len(M)
        <5>1. odr'[n].MapArray[k] = M[k]
          BY <4>1, <4>3, <4>5
        <5> QED BY <3>1, <4>5, <5>1
      <4>6. CASE k = Len(M) + 1
        <5>1. odr'[n].MapArray[k] = e
          BY <4>1, <4>3, <4>6
        <5> QED BY <2>1, <4>2, <5>1
      <4> QED BY <4>4, <4>5, <4>6
    <3> QED BY <3>2, <3>3
  <2> QED BY <2>2, <2>3, <2>5, <2>6 DEF PortsAt
<1> QED BY <1>4, <1>5

\* A message of client c goes through the daemon of its node.
LEMMA MessageStep ==
  ASSUME OdrInv, NEW c \in Clients, NEW d \in Nodes, NEW flag \in {0, 1},
         odr[Home[c]].up, Message(c, d, flag), now' = now,
         client' \in [Clients -> ClientStates],
         \A x \in Clients : client'[x].socket = client[x].socket
  PROVE  OdrInv'
<1> DEFINE n == Home[c]
           T == odr[n].table
           port == odr[n].sourcePort
           id == odr[n].broadcast_id + 1
           table == IF flag = 1 THEN [odr[n].table EXCEPT ![d].next_hop = NoMac]
                                ELSE odr[n].table
           first == App("request", n, d, port, 0)
           buffer == Append(odr[n].buffer, first)
           request == RREQ(n, d, 0, FALSE, flag = 1, id)
           seek == IF Unusable(table[d]) THEN broadcast(n, request) ELSE Silent
           a == [client |-> c, dst |-> d, flag |-> flag, port |-> port]
           M == addMap(odr[n].MapArray, port, c)
<1>1. /\ Typed /\ Traffic /\ Lead /\ Ports /\ Callers /\ n \in Nodes /\ odr[n] \in DaemonsOf(n)
      /\ now' \in Nat /\ asked \subseteq Questions
  BY OdrAssumption DEF OdrInv, Typed, Callers
<1>2. /\ T \in TablesOf(n) /\ odr[n].buffer \in Seq(Messages \cup {Blank})
      /\ port \in Nat \ {0} /\ id \in Nat /\ odr[n].MapArray \in Seq(PortEntries(n))
  BY <1>1 DEF DaemonsOf
<1>3. PICK stack \in Stacks(buffer) :
        LET r == sendMessageFromBuffer(table, buffer, stack)
        IN  /\ Finish(n, net,
                 [odr[n] EXCEPT !.table = table, !.buffer = r.buffer,
                           !.broadcast_id = id, !.sourcePort = @ + 1,
                           !.MapArray = addMap(@, port, c)],
                 Then(seek, r.out), r.crashed)
            /\ undef' = (undef \/ r.undef)
            /\ asked' = asked \cup {a}
  BY DEF Message
<1>4. a \in Questions /\ a.client = c /\ a.port = port /\ a.dst = d /\ a.flag = flag
  BY <1>2 DEF Questions
<1> DEFINE r == sendMessageFromBuffer(table, buffer, stack)
           s == [odr[n] EXCEPT !.table = table, !.buffer = r.buffer, !.broadcast_id = id,
                               !.sourcePort = port + 1, !.MapArray = M]
<1>5. /\ Finish(n, net, s, Then(seek, r.out), r.crashed) /\ undef' = (undef \/ r.undef)
      /\ asked' = asked \cup {a}
  BY <1>3
<1>6. r = sendMessageFromBuffer(table, buffer, stack)
  OBVIOUS
<1> HIDE DEF r, a
<1>7. table \in TablesOf(n)
  <2> DEFINE e == [T[d] EXCEPT !.next_hop = NoMac]
  <2>1. T \in [Nodes -> EntriesOf(n)]
    BY <1>2 DEF TablesOf
  <2>2. e \in EntriesOf(n)
    BY <2>1 DEF EntriesOf
  <2> HIDE DEF e
  <2>3. [T EXCEPT ![d] = e] \in TablesOf(n)
    BY <2>1, <2>2 DEF TablesOf
  <2> QED BY <1>2, <2>3 DEF e
<1>8. KeptWith(asked') => table = T
  BY <1>4, <1>5 DEF KeptWith
<1>9. asked \subseteq asked'
  BY <1>5
<1> HIDE DEF table
<1>10. KeptWith(asked') =>
         /\ \A x \in Nodes : Knows(n, T, x) => Knows(n, table, x)
         /\ \A x \in Nodes :
              LET h == table[x].next_hop
              IN  h = NoMac \/ h = T[x].next_hop \/ Knows(h, odr[h].table, x)
  BY <1>8
<1> DEFINE H == Held(n, table, KeptWith(asked'), ended, asked')
<1>11. buffer \in Seq(H)
  <2>1. odr[n].buffer \in Seq(Held(n, T, RoutesKept, ended, asked))
    BY <1>1 DEF Traffic
  <2>2. Held(n, T, RoutesKept, ended, asked) \subseteq H
    BY <1>9, <1>10, GrowWith
  <2>3. /\ first \in Messages /\ first.src = n /\ first.dst = d /\ first.port = port
        /\ first.msg = "request" /\ first.type = 2
    BY <1>1, <1>2, OdrAssumption DEF App, Messages
  <2> HIDE DEF first
  <2>4. Of(first, a)
    BY <1>4, <2>3 DEF Of
  <2>5. IsOf(first, asked')
    BY <1>5, <2>4 DEF IsOf
  <2>6. first \in H
    BY <2>3, <2>5, MayKeep DEF Knows
  <2> HIDE DEF H
  <2>7. odr[n].buffer \in Seq(H)
    BY <2>1, <2>2, SeqMonotonic
  <2> QED BY <2>6, <2>7, AppendProperties
<1> HIDE DEF buffer
<1>12. buffer \in Seq(Messages \cup {Blank})
  <2>1. H \subseteq Messages \cup {Blank}
    BY DEF Held
  <2> HIDE DEF H
  <2> QED BY <1>11, <2>1, SeqMonotonic
<1>13. seek \in Out(n, Good(n, table, KeptWith(asked'), ended, asked'))
  <2>1. request \in RREQs /\ request.src = n /\ request.type # 2
    BY <1>1, <1>2, OdrAssumption DEF RREQ, RREQs, Hops
  <2> HIDE DEF request
  <2>2. request \in Good(n, table, KeptWith(asked'), ended, asked')
    BY <2>1, PacketKinds DEF Good, Knows
  <2> QED BY <1>1, <2>2, Outputs
<1> HIDE DEF seek
<1>14. /\ r.buffer \in Seq(Messages \cup {Blank})
       /\ r.crashed \in BOOLEAN /\ r.undef \in BOOLEAN
  BY <1>1, <1>6, <1>7, <1>12, SweepType
<1>15. M \in Seq(PortEntries(n))
  <2> DEFINE e == [portNum |-> port, sun_path |-> c]
  <2>1. e \in PortEntries(n)
    BY <1>2 DEF PortEntries
  <2> HIDE DEF e
  <2>2. Append(odr[n].MapArray, e) \in Seq(PortEntries(n))
    BY <1>2, <2>1, AppendProperties
  <2> QED BY <1>2, <2>2 DEF addMap, e
<1> HIDE DEF M
<1>16. /\ s \in DaemonsOf(n) /\ s.up = odr[n].up /\ s.table = table /\ s.buffer = r.buffer
       /\ s.sourcePort = port + 1 /\ s.MapArray = M
  <2> DEFINE old == odr[n]
             next == port + 1
  <2>1. old \in DaemonsOf(n) /\ next \in Nat \ {0} /\ id \in Nat
    BY <1>1, <1>2
  <2>2. s = [old EXCEPT !.table = table, !.buffer = r.buffer, !.broadcast_id = id,
                        !.sourcePort = next, !.MapArray = M]
    OBVIOUS
  <2> HIDE DEF old, next, id, s
  <2>3. /\ s \in DaemonsOf(n) /\ s.up = old.up /\ s.table = table /\ s.buffer = r.buffer
        /\ s.sourcePort = next /\ s.MapArray = M
    BY <1>7, <1>14, <1>15, <2>1, <2>2 DEF DaemonsOf
  <2> QED BY <2>3 DEF old, next
<1> DEFINE out == Then(seek, r.out)
<1>17. out = Then(seek, r.out)
  OBVIOUS
<1>18. Finish(n, net, s, out, r.crashed)
  BY <1>5
<1> HIDE DEF s, out, n, T
<1>19. Sweeps(n, n, net, table, buffer, stack, r, s, seek, out)
  BY <1>1, <1>5, <1>6, <1>7, <1>9, <1>10, <1>11, <1>13, <1>14, <1>16, <1>17, <1>18
  DEF Sweeps, T, n
<1>20. /\ Typed' /\ Traffic' /\ Lead'
       /\ ended \subseteq ended'
       /\ \A x \in Nodes \ ended' : odr'[x] = IF x = n THEN s ELSE odr[x]
  BY <1>1, <1>19, SweepPass
<1>21. Ports'
  <2>1. /\ a.port = odr[Home[c]].sourcePort /\ s.sourcePort = odr[Home[c]].sourcePort + 1
        /\ s.MapArray = addMap(odr[Home[c]].MapArray, a.port, c) /\ s.up
        /\ \A x \in Nodes \ ended' : odr'[x] = IF x = Home[c] THEN s ELSE odr[x]
    BY <1>4, <1>16, <1>20 DEF n, M
  <2> QED BY <1>1, <1>4, <1>5, <1>20, <2>1, PortsGiven
<1>22. Callers'
  <2>1. asked' \subseteq Questions
    BY <1>1, <1>4, <1>5
  <2> QED BY <1>1, <1>9, <1>20, <2>1, CallersStay
<1> QED BY <1>20, <1>21, <1>22 DEF OdrInv

\* Only clients change, and no socket gets anything new.
LEMMA ClientsOnly ==
  ASSUME OdrInv, UNCHANGED <<odr, net, ended, asked, undef, now>>,
         client' \in [Clients -> ClientStates],
         \A x \in Clients : \A i \in 1..Len(client'[x].socket) :
           \E j \in 1..Len(client[x].socket) : client'[x].socket[i] = client[x].socket[j]
  PROVE  OdrInv'
<1>1. Typed' /\ Traffic' /\ Lead' /\ Ports'
  <2>1. RoutesKept' <=> RoutesKept
    BY DEF RoutesKept
  <2>2. Typed' /\ Lead' /\ Ports'
    BY <2>1 DEF OdrInv, Typed, Lead, Ports, PortsAt
  <2>3. Traffic'
    BY DEF OdrInv, Traffic, RoutesKept
  <2> QED BY <2>2, <2>3
<1>2. Callers'
  BY CallersStay DEF OdrInv, Callers
<1> QED BY <1>1, <1>2 DEF OdrInv

\* A client that has asked, or found no daemon.
LEMMA SendStep ==
  ASSUME OdrInv, NEW c \in Clients, NEW d \in Nodes, NEW flag \in {0, 1},
         NEW phase \in {"first", "second"}, Send(c, d, flag, phase)
  PROVE  OdrInv'
<1>1. Callers /\ client \in [Clients -> ClientStates] /\ client[c] \in ClientStates
  BY DEF OdrInv, Callers
<1>2. CASE odr[Home[c]].up
  <2> DEFINE q == [client[c] EXCEPT !.phase = phase, !.target = d]
  <2>1. Message(c, d, flag) /\ now' = now /\ client' = [client EXCEPT ![c] = q]
    BY <1>2 DEF Send
  <2>2. q \in ClientStates /\ q.socket = client[c].socket
    BY <1>1 DEF ClientStates
  <2> HIDE DEF q
  <2>3. /\ client' \in [Clients -> ClientStates]
        /\ \A x \in Clients : client'[x].socket = client[x].socket
    BY <1>1, <2>1, <2>2
  <2> QED BY <1>2, <2>1, <2>3, MessageStep
<1>3. CASE ~odr[Home[c]].up
  <2> DEFINE q == [client[c] EXCEPT !.phase = "exited"]
  <2>1. UNCHANGED <<odr, net, ended, asked, undef, now>> /\ client' = [client EXCEPT ![c] = q]
    BY <1>3 DEF Send
  <2>2. q \in ClientStates /\ q.socket = client[c].socket
    BY <1>1 DEF ClientStates
  <2> HIDE DEF q
  <2>3. /\ client' \in [Clients -> ClientStates]
        /\ \A x \in Clients : client'[x].socket = client[x].socket
    BY <1>1, <2>1, <2>2
  <2>4. \A x \in Clients : \A i \in 1..Len(client'[x].socket) :
          \E j \in 1..Len(client[x].socket) : client'[x].socket[i] = client[x].socket[j]
    BY <2>3
  <2> QED BY <2>1, <2>3, <2>4, ClientsOnly
<1> QED BY <1>2, <1>3

\* A client takes an answer or gives up.
LEMMA IdleStep ==
  ASSUME OdrInv, NEW c \in Clients, GiveUp(c) \/ ReadAnswer(c)
  PROVE  OdrInv'
<1>1. /\ Callers /\ client \in [Clients -> ClientStates] /\ client[c] \in ClientStates
      /\ client[c].socket \in Seq(Messages)
  BY DEF OdrInv, Callers, ClientStates
<1>2. UNCHANGED <<odr, net, ended, asked, undef, now>>
  BY DEF GiveUp, ReadAnswer
<1>3. CASE GiveUp(c)
  <2> DEFINE q == [client[c] EXCEPT !.phase = "idle"]
  <2>1. client' = [client EXCEPT ![c] = q]
    BY <1>3 DEF GiveUp
  <2>2. q \in ClientStates /\ q.socket = client[c].socket
    BY <1>1 DEF ClientStates
  <2> HIDE DEF q
  <2>3. /\ client' \in [Clients -> ClientStates]
        /\ \A x \in Clients : client'[x].socket = client[x].socket
    BY <1>1, <2>1, <2>2
  <2>4. \A x \in Clients : \A i \in 1..Len(client'[x].socket) :
          \E j \in 1..Len(client[x].socket) : client'[x].socket[i] = client[x].socket[j]
    BY <2>3
  <2> QED BY <1>2, <2>3, <2>4, ClientsOnly
<1>4. CASE ReadAnswer(c)
  <2> DEFINE rest == Tail(client[c].socket)
             q == [client[c] EXCEPT !.phase = "idle", !.socket = rest]
  <2>1. client' = [client EXCEPT ![c] = q] /\ client[c].socket # <<>>
    BY <1>4 DEF ReadAnswer
  <2>2. rest \in Seq(Messages) /\ Len(rest) = Len(client[c].socket) - 1
        /\ (\A i \in 1..Len(rest) : rest[i] = client[c].socket[i + 1])
        /\ Len(client[c].socket) \in Nat
    BY <1>1, <2>1, HeadTailProperties, LenProperties
  <2> HIDE DEF rest
  <2>3. q \in ClientStates /\ q.socket = rest
    BY <1>1, <2>2 DEF ClientStates
  <2> HIDE DEF q
  <2>4. client' \in [Clients -> ClientStates]
    BY <1>1, <2>1, <2>3
  <2>5. ASSUME NEW x \in Clients, NEW i \in 1..Len(client'[x].socket)
        PROVE  \E j \in 1..Len(client[x].socket) : client'[x].socket[i] = client[x].socket[j]
    <3>1. CASE x # c
      <4>1. client'[x].socket = client[x].socket
        BY <1>1, <2>1, <3>1
      <4> QED BY <4>1
    <3>2. CASE x = c
      <4>1. client'[x].socket = rest
        BY <1>1, <2>1, <2>3, <3>2
      <4>2. i \in 1..Len(rest) /\ i + 1 \in 1..Len(client[c].socket)
        BY <2>2, <4>1
      <4> QED BY <2>2, <3>2, <4>1, <4>2
    <3> QED BY <3>1, <3>2
  <2> QED BY <1>2, <2>4, <2>5, ClientsOnly
<1> QED BY <1>3, <1>4

-----------------------------------------------------------------------------
(* Time, users, and the theorems. *)

\* A daemon that had ended is started again.
LEMMA BootStep ==
  ASSUME OdrInv, NEW n \in Nodes, Boot(n)
  PROVE  OdrInv'
<1>1. /\ Typed /\ Traffic /\ Ports /\ Callers /\ ~odr[n].up
      /\ odr' = [odr EXCEPT ![n] = Booted]
      /\ UNCHANGED <<net, client, now, ended, asked, undef>>
  BY DEF OdrInv, Boot
<1>2. n \in ended
  BY <1>1 DEF Ports, PortsAt
<1>3. ~RoutesKept'
  BY <1>1, <1>2 DEF RoutesKept
<1>4. \A x \in Nodes : odr'[x] = IF x = n THEN Booted ELSE odr[x]
  BY <1>1 DEF Typed
<1>5. Typed'
  <2>1. odr' \in [Nodes -> Daemons] /\ \A x \in Nodes : odr'[x] \in DaemonsOf(x)
    BY <1>1, <1>4, BootedType DEF Typed
  <2>2. \A x \in Nodes : odr[x].up => odr'[x].up
    BY <1>4, BootedType
  <2> QED BY <1>1, <2>1, <2>2 DEF Typed
<1>6. ASSUME NEW x \in Nodes
      PROVE  /\ odr'[x].buffer \in Seq(Held(x, odr'[x].table, RoutesKept', ended', asked'))
             /\ \A y \in Nodes : net'[x][y] \in Seq(Sent(x, odr'[x].table, RoutesKept', ended', asked'))
  <2>1. /\ odr[x].buffer \in Seq(Held(x, odr[x].table, RoutesKept, ended, asked))
        /\ \A y \in Nodes : net[x][y] \in Seq(Sent(x, odr[x].table, RoutesKept, ended, asked))
    BY <1>1 DEF Traffic
  <2>2. /\ Held(x, odr[x].table, RoutesKept, ended, asked)
             \subseteq Held(x, odr'[x].table, RoutesKept', ended', asked')
        /\ Sent(x, odr[x].table, RoutesKept, ended, asked)
             \subseteq Sent(x, odr'[x].table, RoutesKept', ended', asked')
    BY <1>1, <1>3, Grow
  <2>3. odr'[x].buffer = odr[x].buffer \/ odr'[x].buffer = <<>>
    BY <1>4, BootedType
  <2>4. odr[x].buffer \in Seq(Held(x, odr'[x].table, RoutesKept', ended', asked'))
    BY <2>1, <2>2, SeqMonotonic
  <2>5. ASSUME NEW y \in Nodes
        PROVE  net[x][y] \in Seq(Sent(x, odr'[x].table, RoutesKept', ended', asked'))
    BY <2>1, <2>2, SeqMonotonic
  <2>6. odr'[x].buffer \in Seq(Held(x, odr'[x].table, RoutesKept', ended', asked'))
    <3> DEFINE H == Held(x, odr'[x].table, RoutesKept', ended', asked')
    <3>1. odr[x].buffer \in Seq(H)
      BY <2>4
    <3> HIDE DEF H
    <3>2. odr'[x].buffer \in Seq(H)
      <4>1. <<>> \in Seq(H)
        OBVIOUS
      <4>2. CASE odr'[x].buffer = <<>>
        BY <4>1, <4>2, Zenon
      <4>3. CASE odr'[x].buffer = odr[x].buffer
        BY <3>1, <4>3, Zenon
      <4> QED BY <2>3, <4>2, <4>3
    <3> QED BY <3>2 DEF H
  <2> QED BY <1>1, <2>5, <2>6
<1>7. Traffic'
  BY <1>6 DEF Traffic
<1>8. Lead'
  BY <1>3 DEF Lead
<1>9. Ports'
  <2>1. \A x \in Nodes \ ended' : odr'[x] = odr[x]
    BY <1>1, <1>2, <1>4
  <2> QED BY <1>1, <2>1, PortsStay
<1>10. Callers'
  BY <1>1, CallersStay DEF Callers
<1> QED BY <1>5, <1>7, <1>8, <1>9, <1>10 DEF OdrInv

\* Seconds pass, or nothing happens.
LEMMA TimeStep ==
  ASSUME OdrInv, now' \in Nat, UNCHANGED <<odr, net, client, ended, asked, undef>>
  PROVE  OdrInv'
<1>1. RoutesKept' <=> RoutesKept
  BY DEF RoutesKept
<1>2. Typed' /\ Lead' /\ Ports' /\ Callers'
  BY <1>1 DEF OdrInv, Typed, Lead, Ports, PortsAt, Callers, AnswersOf
<1>3. Traffic'
  BY DEF OdrInv, Traffic, RoutesKept
<1> QED BY <1>2, <1>3 DEF OdrInv

\* The first state.
LEMMA InitOdr == Init => OdrInv
<1> SUFFICES ASSUME Init PROVE OdrInv
  OBVIOUS
<1>1. /\ odr = [n \in Nodes |-> Booted] /\ net = [m \in Nodes |-> [n \in Nodes |-> <<>>]]
      /\ client = [c \in Clients |-> [phase |-> "idle", target |-> Home[c], socket |-> <<>>]]
      /\ now = Start /\ ended = {} /\ asked = {} /\ undef = FALSE
  BY DEF Init
<1>2. \A n \in Nodes : odr[n] = Booted /\ \A m \in Nodes : net[n][m] = <<>>
  BY <1>1
<1>3. Typed
  <2>1. odr \in [Nodes -> Daemons] /\ \A n \in Nodes : odr[n] \in DaemonsOf(n)
    BY <1>1, BootedType
  <2>2. net \in [Nodes -> [Nodes -> Seq(Packets \cup {Blank})]]
    BY <1>1
  <2>3. now \in Nat
    BY <1>1, OdrAssumption DEF Start
  <2>4. ended \subseteq Nodes /\ undef \in BOOLEAN
    BY <1>1
  <2> QED BY <1>2, <2>1, <2>2, <2>3, <2>4 DEF Typed
<1>4. Traffic
  <2>1. \A S : <<>> \in Seq(S)
    OBVIOUS
  <2> QED BY <1>2, <2>1, BootedType DEF Traffic
<1>5. Lead
  <2>1. \A n, d \in Nodes : odr[n].table[d].next_hop = NoMac
    BY <1>2 DEF Booted, RoutingEntry
  <2> QED BY <2>1 DEF Lead
<1>6. Ports
  <2>1. \A n \in Nodes : odr[n].up /\ odr[n].MapArray = <<>>
    BY <1>2 DEF Booted
  <2> QED BY <1>1, <2>1 DEF Ports, PortsAt
<1>7. Callers
  <2>1. client \in [Clients -> ClientStates]
    BY <1>1, OdrAssumption DEF ClientStates
  <2>2. \A c \in Clients : client[c].socket = <<>>
    BY <1>1
  <2> QED BY <1>1, <2>1, <2>2 DEF Callers, AnswersOf
<1> QED BY <1>3, <1>4, <1>5, <1>6, <1>7 DEF OdrInv

\* Every step keeps the invariant.
LEMMA NextOdr == OdrInv /\ [Next]_vars => OdrInv'
<1> SUFFICES ASSUME OdrInv, [Next]_vars PROVE OdrInv'
  OBVIOUS
<1>1. ASSUME NEW c \in Clients, Ask(c) PROVE OdrInv'
  <2>1. PICK d \in Targets, flag \in Flags : Send(c, d, flag, "first")
    BY <1>1 DEF Ask
  <2>2. d \in Nodes /\ flag \in {0, 1}
    BY OdrAssumption
  <2> QED BY <2>1, <2>2, SendStep
<1>2. ASSUME NEW c \in Clients, Retry(c) PROVE OdrInv'
  <2>1. Send(c, client[c].target, 1, "second")
    BY <1>2 DEF Retry
  <2>2. client[c].target \in Nodes
    BY DEF OdrInv, Callers, ClientStates
  <2> QED BY <2>1, <2>2, SendStep
<1>3. ASSUME NEW c \in Clients, GiveUp(c) \/ ReadAnswer(c) PROVE OdrInv'
  BY <1>3, IdleStep
<1>4. ASSUME NEW n \in Nodes, Receive(n) PROVE OdrInv'
  BY <1>4, RREQStep, BlankStep, RREPStep, AppStep DEF Receive
<1>5. ASSUME NEW n \in Nodes, Stop(n) PROVE OdrInv'
  <2>1. Finish(n, net, odr[n], Silent, TRUE) /\ UNCHANGED <<client, now, asked, undef>>
    BY <1>5 DEF Stop
  <2>2. Silent \in Out(n, Sent(n, odr[n].table, RoutesKept, ended, asked))
    BY Outputs
  <2> QED BY <2>1, <2>2, CrashPass
<1>6. ASSUME NEW n \in Nodes, Boot(n) PROVE OdrInv'
  BY <1>6, BootStep
<1>7. CASE Tick
  <2>1. now \in Nat
    BY DEF OdrInv, Typed
  <2>2. now' \in Nat /\ UNCHANGED <<odr, net, client, ended, asked, undef>>
    BY <1>7, <2>1, OdrAssumption DEF Tick
  <2> QED BY <2>2, TimeStep
<1>8. CASE UNCHANGED vars
  <2>1. now' \in Nat /\ UNCHANGED <<odr, net, client, ended, asked, undef>>
    BY <1>8 DEF vars, OdrInv, Typed
  <2> QED BY <2>1, TimeStep
<1> QED BY <1>1, <1>2, <1>3, <1>4, <1>5, <1>6, <1>7, <1>8 DEF Next

-----------------------------------------------------------------------------
(* Floods. *)

\* In a pass of n from table T to U: if packet p is an RREQ of another node, then
\* its id is new with T, and remembered in U.
NewId(n, T, U, p) ==
  p.type = 0 /\ p.src # n =>
    p.id > T[p.dst].bid[p.src] /\ p.id = U[p.dst].bid[p.src]
Calls(n, T, U) == {p \in Packets \cup {Blank} : NewId(n, T, U, p)}

\* The ids of U are those of T or higher, but for those of a node's own requests.
Raised(T, U) == \A d, s \in Nodes : d # s => U[d].bid[s] >= T[d].bid[s]

FloodStep ==
  \A n \in Nodes : odr[n].up /\ odr'[n].up =>
    /\ Raised(odr[n].table, odr'[n].table)
    /\ \A y \in Nodes : \A i \in (Len(net[n][y]) + 1)..Len(net'[n][y]) :
         NewId(n, odr[n].table, odr'[n].table, net'[n][y][i])

\* Ids are numbers.
LEMMA Bids ==
  ASSUME Typed, NEW n \in Nodes
  PROVE  \A d, s \in Nodes : odr[n].table[d].bid[s] \in Nat
BY DEF Typed, DaemonsOf, TablesOf, EntriesOf

\* A pass of daemon n that raises its ids and sends what it may.
LEMMA FloodPass ==
  ASSUME Typed, NEW n \in Nodes, NEW m \in Nodes, NEW queues,
         queues = net \/ (queues = Taken(m, n) /\ net[m][n] # <<>>),
         NEW s, Raised(odr[n].table, s.table),
         NEW out \in Out(n, Calls(n, odr[n].table, s.table)), NEW crashed \in BOOLEAN,
         Finish(n, queues, s, out, crashed)
  PROVE  FloodStep
<1> DEFINE G == Calls(n, odr[n].table, s.table)
<1>1. \A x \in Nodes : odr'[x] = IF x = n THEN (IF crashed THEN Exited ELSE s) ELSE odr[x]
  BY DEF Finish, Typed
<1>2. ~Exited.up
  BY DEF Exited, Booted
<1>3. ASSUME NEW x \in Nodes, NEW y \in Nodes
      PROVE  /\ queues[x][y] \in Seq(Packets \cup {Blank})
             /\ Len(queues[x][y]) <= Len(net[x][y])
             /\ Len(net[x][y]) \in Nat /\ Len(queues[x][y]) \in Nat
  <2>1. net[x][y] \in Seq(Packets \cup {Blank}) /\ Len(net[x][y]) \in Nat
    BY LenProperties DEF Typed
  <2>2. queues[x][y] = net[x][y] \/ (queues[x][y] = Tail(net[x][y]) /\ net[x][y] # <<>>)
    <3>1. CASE queues = net
      BY <3>1
    <3>2. CASE queues = Taken(m, n) /\ net[m][n] # <<>>
      BY <3>2, TakenAt
    <3> QED BY <3>1, <3>2
  <2>3. CASE queues[x][y] = net[x][y]
    BY <2>1, <2>3
  <2>4. CASE queues[x][y] = Tail(net[x][y]) /\ net[x][y] # <<>>
    <3>1. Len(Tail(net[x][y])) = Len(net[x][y]) - 1 /\ Tail(net[x][y]) \in Seq(Packets \cup {Blank})
      BY <2>1, <2>4, HeadTailProperties
    <3>2. Len(Tail(net[x][y])) \in Nat
      BY <3>1, LenProperties
    <3> QED BY <2>1, <2>4, <3>1, <3>2
  <2> QED BY <2>2, <2>3, <2>4
<1>4. \A x, y \in Nodes : net'[x][y] = IF y = n /\ crashed THEN <<>>
                                       ELSE IF x = n /\ odr[y].up THEN queues[x][y] \o out[y]
                                       ELSE queues[x][y]
  BY DEF Finish
<1>5. ASSUME NEW x \in Nodes, odr[x].up, odr'[x].up, x # n
      PROVE  /\ Raised(odr[x].table, odr'[x].table)
             /\ \A y \in Nodes : (Len(net[x][y]) + 1)..Len(net'[x][y]) = {}
  <2>1. Raised(odr[x].table, odr'[x].table)
    BY <1>1, <1>5, Bids DEF Raised
  <2>2. ASSUME NEW y \in Nodes PROVE (Len(net[x][y]) + 1)..Len(net'[x][y]) = {}
    <3>1. net'[x][y] = <<>> \/ net'[x][y] = queues[x][y]
      BY <1>4, <1>5
    <3>2. Len(net'[x][y]) <= Len(net[x][y]) /\ Len(net'[x][y]) \in Nat
      BY <1>3, <3>1
    <3> QED BY <1>3, <3>2
  <2> QED BY <2>1, <2>2
<1>6. ASSUME odr[n].up, odr'[n].up
      PROVE  /\ odr'[n] = s
             /\ \A y \in Nodes : \A i \in (Len(net[n][y]) + 1)..Len(net'[n][y]) :
                  net'[n][y][i] \in G
  <2>1. odr'[n] = s /\ ~crashed
    BY <1>1, <1>2, <1>6
  <2>2. ASSUME NEW y \in Nodes, NEW i \in (Len(net[n][y]) + 1)..Len(net'[n][y])
        PROVE  net'[n][y][i] \in G
    <3> HIDE DEF G
    <3>1. out[y] \in Seq(G) /\ Len(out[y]) \in Nat
      BY LenProperties DEF Out, G
    <3>2. CASE net'[n][y] = queues[n][y] \o out[y]
      <4> DEFINE q == queues[n][y]
                 w == out[y]
                 old == Len(net[n][y])
      <4>1. /\ q \in Seq(Packets \cup {Blank}) /\ w \in Seq(Packets \cup {Blank})
            /\ Len(q) \in Nat /\ Len(w) \in Nat /\ old \in Nat /\ Len(q) <= old
        <5>1. G \subseteq Packets \cup {Blank}
          BY DEF G, Calls
        <5>2. w \in Seq(Packets \cup {Blank})
          BY <3>1, <5>1, SeqMonotonic
        <5> QED BY <1>3, <3>1, <5>2
      <4>2. net'[n][y] = q \o w /\ i \in (old + 1)..Len(net'[n][y])
        BY <2>2, <3>2
      <4> HIDE DEF q, w, old
      <4>3. /\ Len(q \o w) = Len(q) + Len(w)
            /\ \A j \in 1..Len(q) + Len(w) :
                 (q \o w)[j] = IF j <= Len(q) THEN q[j] ELSE w[j - Len(q)]
        BY <4>1, ConcatProperties
      <4>4. /\ i \in 1..Len(q) + Len(w) /\ ~(i <= Len(q)) /\ i - Len(q) \in 1..Len(w)
        BY <4>1, <4>2, <4>3
      <4>5. net'[n][y][i] = w[i - Len(q)]
        BY <4>2, <4>3, <4>4
      <4>6. w[i - Len(q)] \in G
        BY <3>1, <4>4, ElementOfSeq DEF w
      <4> QED BY <4>5, <4>6
    <3>3. CASE net'[n][y] = queues[n][y]
      <4>1. FALSE
        BY <1>3, <3>3
      <4> QED BY <4>1
    <3> QED BY <1>4, <2>1, <3>2, <3>3
  <2> QED BY <2>1, <2>2
<1>7. \A p \in G : NewId(n, odr[n].table, s.table, p)
  BY DEF Calls
<1> HIDE DEF G
<1> SUFFICES ASSUME NEW x \in Nodes, odr[x].up, odr'[x].up
             PROVE  /\ Raised(odr[x].table, odr'[x].table)
                    /\ \A y \in Nodes : \A i \in (Len(net[x][y]) + 1)..Len(net'[x][y]) :
                         NewId(x, odr[x].table, odr'[x].table, net'[x][y][i])
  BY DEF FloodStep
<1>8. CASE x # n
  BY <1>5, <1>8
<1>9. CASE x = n
  BY <1>6, <1>7, <1>9
<1> QED BY <1>8, <1>9

\* ReverseRoute lowers no id.
LEMMA ReverseRaises ==
  ASSUME Typed, NEW n \in Nodes, NEW m \in Nodes, NEW p \in RREQs
  PROVE  \A d, x \in Nodes : ReverseRoute(n, m, p)[d].bid[x] >= odr[n].table[d].bid[x]
<1> DEFINE T == odr[n].table
           e == T[p.src]
           newer == p.id > e.bid[p.src]
           update == \/ ~(Hop(p.hops) > e.hops \/ Fresh(e))
                     \/ newer /\ p.forced
                     \/ ~checkAddressNotEmpty(e.next_hop)
           marked == IF newer THEN [e EXCEPT !.bid[p.src] = p.id] ELSE e
           f == IF update THEN Through(marked, m, Hop(p.hops)) ELSE marked
<1>1. /\ p.src \in Nodes /\ p.id \in Nat /\ T \in [Nodes -> EntriesOf(n)]
      /\ e \in EntriesOf(n)
  <2>1. p.src \in Nodes /\ p.id \in Nat
    BY DEF RREQs
  <2>2. T \in [Nodes -> EntriesOf(n)]
    BY DEF Typed, DaemonsOf, TablesOf
  <2> QED BY <2>1, <2>2
<1>2. ReverseRoute(n, m, p) = [T EXCEPT ![p.src] = f]
  BY DEF ReverseRoute
<1>3. \A d, x \in Nodes : T[d].bid[x] \in Nat
  BY Bids
<1> HIDE DEF T, update
<1>4. f.bid = marked.bid
  <2>1. marked \in EntriesOf(n)
    BY <1>1, MarkedEntry
  <2> HIDE DEF marked
  <2> QED BY <2>1 DEF Through, EntriesOf
<1>5. ASSUME NEW x \in Nodes PROVE marked.bid[x] >= e.bid[x] /\ e.bid[x] \in Nat
  <2>1. e.bid \in [Nodes -> Nat] /\ e.bid[x] \in Nat
    BY <1>1 DEF EntriesOf
  <2>2. CASE newer
    <3> DEFINE b == [e.bid EXCEPT ![p.src] = p.id]
    <3>1. b[x] >= e.bid[x]
      BY <1>1, <2>1, <2>2
    <3>2. marked = [e EXCEPT !.bid = b]
      BY <2>2
    <3> HIDE DEF b, marked, e
    <3>3. marked.bid = b
      BY <1>1, <3>2 DEF EntriesOf
    <3> QED BY <2>1, <3>1, <3>3
  <2>3. CASE ~newer
    BY <2>1, <2>3
  <2> QED BY <2>2, <2>3
<1> HIDE DEF f, marked
<1>6. ASSUME NEW d \in Nodes, NEW x \in Nodes
      PROVE  ReverseRoute(n, m, p)[d].bid[x] >= T[d].bid[x]
  <2>1. CASE d = p.src
    BY <1>1, <1>2, <1>4, <1>5, <2>1
  <2>2. CASE d # p.src
    BY <1>1, <1>2, <1>3, <2>2
  <2> QED BY <2>1, <2>2
<1> QED BY <1>6 DEF T

\* From a table T to R, without lower ids, to U, with the id of p, which was not
\* in R, and to V, with the time.
Remembers(n, T, R, p, U, V) ==
  /\ R \in TablesOf(n) /\ p \in RREQs
  /\ \A d, x \in Nodes : T[d].bid[x] \in Nat /\ R[d].bid[x] >= T[d].bid[x]
  /\ Unseen(R, p)
  /\ U = [R EXCEPT ![p.dst].bid[p.src] = p.id]
  /\ V = [U EXCEPT ![p.dst].timestamp = now]

\* Then the id is new, and all that changes.
LEMMA RememberRaises ==
  ASSUME NEW n \in Nodes, NEW T, NEW R, NEW p, NEW U, NEW V, Remembers(n, T, R, p, U, V)
  PROVE  /\ Raised(T, U) /\ Raised(T, V)
         /\ p.id > T[p.dst].bid[p.src] /\ U[p.dst].bid[p.src] = p.id
         /\ V[p.dst].bid[p.src] = p.id
<1> DEFINE e == R[p.dst]
           b == [e.bid EXCEPT ![p.src] = p.id]
           f == [e EXCEPT !.bid = b]
           g == [f EXCEPT !.timestamp = now]
<1> USE DEF Remembers
<1>1. /\ p.src \in Nodes /\ p.dst \in Nodes /\ p.id \in Nat /\ R \in [Nodes -> EntriesOf(n)]
      /\ e \in EntriesOf(n) /\ e.bid \in [Nodes -> Nat]
  BY DEF RREQs, TablesOf, EntriesOf
<1>2. \A d, x \in Nodes : R[d].bid[x] \in Nat
  BY <1>1 DEF EntriesOf
<1>3. b[p.src] = p.id /\ \A x \in Nodes : b[x] = IF x = p.src THEN p.id ELSE e.bid[x]
  BY <1>1
<1>4. p.id > R[p.dst].bid[p.src]
  BY DEF Unseen
<1>5. U = [R EXCEPT ![p.dst] = f]
  OBVIOUS
<1> HIDE DEF b
<1>6. f.bid = b
  BY <1>1 DEF EntriesOf
<1>7. g.bid = f.bid
  BY <1>1 DEF EntriesOf
<1>8. V = [U EXCEPT ![p.dst] = g]
  BY <1>1, <1>5
<1> HIDE DEF f, g
<1>9. \A d \in Nodes : U[d] = IF d = p.dst THEN f ELSE R[d]
  BY <1>1, <1>5
<1>10. \A d \in Nodes : V[d] = IF d = p.dst THEN g ELSE U[d]
  BY <1>1, <1>5, <1>8
<1>11. \A d, x \in Nodes :
         U[d].bid[x] = IF d = p.dst /\ x = p.src THEN p.id ELSE R[d].bid[x]
  <2>1. ASSUME NEW d \in Nodes, NEW x \in Nodes
        PROVE  U[d].bid[x] = IF d = p.dst /\ x = p.src THEN p.id ELSE R[d].bid[x]
    <3>1. CASE d = p.dst
      BY <1>3, <1>6, <1>9, <3>1
    <3>2. CASE d # p.dst
      BY <1>9, <3>2
    <3> QED BY <3>1, <3>2
  <2> QED BY <2>1
<1>12. \A d, x \in Nodes : V[d].bid[x] = U[d].bid[x]
  BY <1>7, <1>9, <1>10
<1>13. \A d, x \in Nodes : U[d].bid[x] >= T[d].bid[x]
  BY <1>1, <1>2, <1>4, <1>11
<1>14. Raised(T, U) /\ Raised(T, V)
  BY <1>12, <1>13 DEF Raised
<1>15. p.id > T[p.dst].bid[p.src]
  BY <1>1, <1>2, <1>4
<1> QED BY <1>1, <1>11, <1>12, <1>14, <1>15

\* A request that is handled is flooded only if it is new.
LEMMA HandleFloods ==
  ASSUME OdrInv, NEW n \in Nodes, NEW m \in Nodes, net[m][n] # <<>>, NEW p \in RREQs,
         HandleRREQ(n, m, p)
  PROVE  FloodStep
<1> DEFINE T == odr[n].table
           reverse == ReverseRoute(n, m, p)
           table == [reverse EXCEPT ![p.dst].bid[p.src] = p.id]
           used == [table EXCEPT ![p.dst].timestamp = now]
           further == [p EXCEPT !.hops = Hop(@)]
           marked == [p EXCEPT !.hops = Hop(@), !.sent = TRUE]
           reply == RREP(p.dst, p.src, 0, p.forced, p.id)
           Ends(t, out) == Finish(n, Taken(m, n), [odr[n] EXCEPT !.table = t], out, FALSE)
           May(U) == Out(n, Calls(n, T, U))
<1>1. /\ Typed /\ Traffic /\ odr[n] \in DaemonsOf(n) /\ T \in TablesOf(n)
      /\ p.src \in Nodes /\ p.dst \in Nodes /\ p.id \in Nat /\ p.type = 0
  BY DEF OdrInv, Typed, DaemonsOf, RREQs
<1>2. m \in Neighbours(n)
  BY <1>1, Frame
<1>3. \/ Ends(T, Silent) \/ Ends(reverse, Silent)
      \/ /\ Unseen(reverse, p)
         /\ \/ Ends(table, Silent) \/ Ends(table, broadcast(n, further))
            \/ Ends(used, IF p.sent THEN Silent ELSE Answer(n, p, table))
            \/ Ends(table, Answer(n, p, table))
  BY DEF HandleRREQ
<1>4. reverse \in TablesOf(n)
  BY <1>1, <1>2, ReverseLearns DEF Learns
<1>5. \A d, x \in Nodes : T[d].bid[x] \in Nat /\ reverse[d].bid[x] >= T[d].bid[x]
  BY <1>1, Bids, ReverseRaises
<1>6. Raised(T, T) /\ Raised(T, reverse)
  BY <1>5 DEF Raised
<1>7. Unseen(reverse, p) =>
        /\ Raised(T, table) /\ Raised(T, used)
        /\ p.id > T[p.dst].bid[p.src] /\ table[p.dst].bid[p.src] = p.id
        /\ used[p.dst].bid[p.src] = p.id
  <2>1. /\ table = [reverse EXCEPT ![p.dst].bid[p.src] = p.id]
        /\ used = [table EXCEPT ![p.dst].timestamp = now]
    OBVIOUS
  <2> HIDE DEF T, reverse, table, used
  <2>2. ASSUME Unseen(reverse, p)
        PROVE  /\ Raised(T, table) /\ Raised(T, used)
               /\ p.id > T[p.dst].bid[p.src] /\ table[p.dst].bid[p.src] = p.id
               /\ used[p.dst].bid[p.src] = p.id
    <3>1. Remembers(n, T, reverse, p, table, used)
      BY <1>4, <1>5, <2>1, <2>2 DEF Remembers
    <3> QED BY <3>1, RememberRaises
  <2> QED BY <2>2
<1>8. /\ further \in Packets /\ further.dst = p.dst /\ further.src = p.src /\ further.id = p.id
      /\ marked \in Packets /\ marked.dst = p.dst /\ marked.src = p.src /\ marked.id = p.id
  <2>1. /\ further.dst = p.dst /\ further.src = p.src /\ further.id = p.id
        /\ marked.dst = p.dst /\ marked.src = p.src /\ marked.id = p.id
    BY DEF RREQs
  <2> QED BY <2>1, HopsOn, PacketKinds
<1>9. reply \in Packets /\ reply.type # 0
  <2>1. reply \in RREPs /\ reply.type # 0
    BY <1>1, OdrAssumption DEF RREP, RREPs, RREQs, Hops
  <2> QED BY <2>1, PacketKinds
<1>10. Answer(n, p, table) =
         Then(sendMessage(table[p.src].next_hop, reply),
              IF \/ ~checkAddressNotEmpty(odr[n].table[p.src].next_hop)
                 \/ odr[n].table[p.src].hops > Hop(p.hops)
                THEN broadcast(n, marked) ELSE Silent)
  BY DEF Answer
<1>11. Unseen(reverse, p) => table[p.src].next_hop \in Neighbours(n) \cup {NoMac}
  <2> DEFINE f == [reverse[p.dst] EXCEPT !.bid[p.src] = p.id]
  <2>1. reverse \in [Nodes -> EntriesOf(n)]
    BY <1>4 DEF TablesOf
  <2>2. f \in EntriesOf(n)
    BY <1>1, <2>1, MarkedEntry
  <2>3. table = [reverse EXCEPT ![p.dst] = f]
    OBVIOUS
  <2> HIDE DEF f, reverse, table
  <2>4. table[p.src] \in EntriesOf(n)
    BY <1>1, <2>1, <2>2, <2>3
  <2> QED BY <2>4 DEF EntriesOf
<1>12. ASSUME Unseen(reverse, p), NEW U, U[p.dst].bid[p.src] = p.id
       PROVE  /\ broadcast(n, further) \in May(U)
              /\ Answer(n, p, table) \in May(U)
  <2>1. /\ further \in Calls(n, T, U) /\ marked \in Calls(n, T, U)
        /\ reply \in Calls(n, T, U)
    <3> HIDE DEF T, further, marked, reply, reverse, table, used
    <3> QED BY <1>7, <1>8, <1>9, <1>12 DEF Calls, NewId
  <2> DEFINE G == Calls(n, T, U)
             mac == table[p.src].next_hop
  <2>2. mac \in Neighbours(n) \cup {NoMac} /\ further \in G /\ marked \in G /\ reply \in G
    BY <1>11, <1>12, <2>1
  <2>3. Answer(n, p, table) = Then(sendMessage(mac, reply), broadcast(n, marked))
        \/ Answer(n, p, table) = Then(sendMessage(mac, reply), Silent)
    BY <1>10
  <2> HIDE DEF G, mac, further, marked, reply, table
  <2>4. /\ sendMessage(mac, reply) \in Out(n, G) /\ broadcast(n, marked) \in Out(n, G)
        /\ broadcast(n, further) \in Out(n, G) /\ Silent \in Out(n, G)
    BY <2>2, Outputs
  <2>5. Answer(n, p, table) \in Out(n, G)
    BY <2>3, <2>4, Outputs
  <2> QED BY <2>4, <2>5 DEF G
<1>13. \A U : Silent \in May(U)
  BY Outputs
<1> HIDE DEF T, reverse, table, used, further
<1>14. PICK U, out : Raised(T, U) /\ out \in May(U) /\ Ends(U, out)
  <2> DEFINE answer == IF p.sent THEN Silent ELSE Answer(n, p, table)
  <2>1. Unseen(reverse, p) => answer \in May(used) /\ Answer(n, p, table) \in May(table)
                              /\ broadcast(n, further) \in May(table)
    BY <1>7, <1>12, <1>13
  <2>2. \/ Ends(T, Silent) \/ Ends(reverse, Silent)
        \/ /\ Unseen(reverse, p)
           /\ \/ Ends(table, Silent) \/ Ends(table, broadcast(n, further))
              \/ Ends(used, answer)
              \/ Ends(table, Answer(n, p, table))
    BY <1>3
  <2> HIDE DEF Ends, May, answer
  <2>3. CASE Ends(T, Silent) \/ Ends(reverse, Silent)
    BY <1>6, <1>13, <2>3
  <2>4. CASE Unseen(reverse, p)
    BY <1>7, <1>13, <2>1, <2>2, <2>3, <2>4
  <2> QED BY <2>2, <2>3, <2>4
<1> DEFINE s == [odr[n] EXCEPT !.table = U]
<1>15. s.table = U /\ Finish(n, Taken(m, n), s, out, FALSE)
  BY <1>1, <1>14 DEF DaemonsOf
<1> HIDE DEF s, Ends
<1> QED BY <1>1, <1>14, <1>15, FloodPass DEF T, May

\* ForwardRoute lowers no id but one of the source's own.
LEMMA ForwardRaises ==
  ASSUME Typed, NEW n \in Nodes, NEW m \in Neighbours(n), NEW p \in RREPs
  PROVE  Raised(odr[n].table, ForwardRoute(n, m, p))
<1> DEFINE T == odr[n].table
           e == T[p.src]
           g == Through(e, m, Hop(p.hops))
           b == [g.bid EXCEPT ![p.src] = p.id]
           f == [g EXCEPT !.bid = b]
<1>1. T \in [Nodes -> EntriesOf(n)]
  BY DEF Typed, DaemonsOf, TablesOf
<1>2. p.src \in Nodes /\ e \in EntriesOf(n)
  BY <1>1 DEF RREPs
<1>3. ForwardRoute(n, m, p) = [T EXCEPT ![p.src] = f] \/ ForwardRoute(n, m, p) = T
  BY DEF ForwardRoute
<1>4. \A d, x \in Nodes : T[d].bid[x] \in Nat
  BY Bids
<1> HIDE DEF T, e
<1>5. g \in EntriesOf(n) /\ g.bid = e.bid
  <2>1. now \in Nat /\ Hop(p.hops) \in Hops
    BY HopInRange DEF Typed, RREPs
  <2>2. g \in EntriesOf(n)
    BY <1>2, <2>1, ThroughEntry
  <2>3. g.bid = e.bid
    BY <1>2 DEF Through, EntriesOf
  <2> QED BY <2>2, <2>3
<1> HIDE DEF g
<1>6. \A x \in Nodes : x # p.src => b[x] = e.bid[x]
  BY <1>2, <1>5 DEF EntriesOf
<1> HIDE DEF b
<1>7. f.bid = b
  BY <1>5 DEF EntriesOf
<1> HIDE DEF f
<1>8. CASE ForwardRoute(n, m, p) = T
  BY <1>4, <1>8 DEF Raised, T
<1>9. CASE ForwardRoute(n, m, p) = [T EXCEPT ![p.src] = f]
  <2>1. ASSUME NEW d \in Nodes, NEW x \in Nodes, d # x
        PROVE  ForwardRoute(n, m, p)[d].bid[x] >= T[d].bid[x]
    <3>1. CASE d = p.src
      <4>1. ForwardRoute(n, m, p)[d] = f
        BY <1>1, <1>9, <3>1
      <4>2. f.bid[x] = e.bid[x]
        BY <1>6, <1>7, <2>1, <3>1
      <4> QED BY <1>4, <3>1, <4>1, <4>2 DEF e
    <3>2. CASE d # p.src
      <4>1. ForwardRoute(n, m, p)[d] = T[d]
        BY <1>1, <1>9, <3>2
      <4> QED BY <1>4, <4>1
    <3> QED BY <3>1, <3>2
  <2> QED BY <2>1 DEF Raised, T
<1> QED BY <1>3, <1>8, <1>9

\* A reply, a message, a blank slot and a request of n itself are no flood.
LEMMA NoFlood ==
  ASSUME NEW n \in Nodes, NEW T, NEW U
  PROVE  /\ Messages \cup {Blank} \cup RREPs \subseteq Calls(n, T, U)
         /\ \A p \in RREQs : p.src = n => p \in Calls(n, T, U)
<1>1. \A p \in Messages \cup {Blank} \cup RREPs : p.type # 0
  BY DEF Messages, Blank, RREPs
<1> QED BY <1>1, PacketKinds DEF Calls, NewId

\* What is sent from the buffer is no flood.
LEMMA SweepFloods ==
  ASSUME NEW n \in Nodes, NEW table \in TablesOf(n), NEW buffer \in Seq(Messages \cup {Blank}),
         NEW stack \in Stacks(buffer), NEW r, r = sendMessageFromBuffer(table, buffer, stack),
         NEW T, NEW U
  PROVE  r.out \in Out(n, Calls(n, T, U)) /\ r.crashed \in BOOLEAN
<1>1. Messages \in SUBSET Messages
  OBVIOUS
<1>2. Swept(n, Messages, r)
  BY <1>1, Sweep
<1>3. r.out \in Out(n, Messages \cup (IF r.undef THEN {Blank} ELSE {})) /\ r.crashed \in BOOLEAN
  BY <1>2 DEF Swept, Loops
<1>4. Messages \cup (IF r.undef THEN {Blank} ELSE {}) \subseteq Calls(n, T, U)
  BY NoFlood
<1> QED BY <1>3, <1>4, OutMonotonic

\* The network and the daemons that run stay the same.
LEMMA NoFrames ==
  ASSUME Typed, net' = net, \A x \in Nodes : odr[x].up => odr'[x] = odr[x]
  PROVE  FloodStep
<1> SUFFICES ASSUME NEW x \in Nodes, odr[x].up
             PROVE  /\ Raised(odr[x].table, odr'[x].table)
                    /\ \A y \in Nodes : (Len(net[x][y]) + 1)..Len(net'[x][y]) = {}
  BY DEF FloodStep
<1>1. \A y \in Nodes : Len(net[x][y]) \in Nat
  BY LenProperties DEF Typed
<1> QED BY <1>1, Bids DEF Raised

\* A reply is passed on, or lets the messages go that wait for it.
LEMMA RREPFloods ==
  ASSUME OdrInv, NEW n \in Nodes, NEW m \in Nodes, ReceiveRREP(n, m)
  PROVE  FloodStep
<1> DEFINE p == Head(net[m][n])
           T == odr[n].table
           table == ForwardRoute(n, m, p)
           onward == Relay(table, p)
           further == [p EXCEPT !.hops = Hop(@)]
<1>1. /\ net[m][n] # <<>> /\ p.type = 1 /\ Typed /\ Traffic /\ odr[n] \in DaemonsOf(n)
      /\ odr[n].buffer \in Seq(Messages \cup {Blank})
  BY DEF ReceiveRREP, OdrInv, Typed, DaemonsOf
<1>2. p # Blank
  BY <1>1 DEF Blank
<1>3. m \in Neighbours(n) /\ p \in Good(m, odr[m].table, RoutesKept, ended, asked)
  BY <1>1, <1>2, Frame
<1>4. \/ \E stack \in Stacks(odr[n].buffer) :
           LET r == sendMessageFromBuffer(table, odr[n].buffer, stack)
           IN  Finish(n, Taken(m, n),
                  [odr[n] EXCEPT !.table = table, !.buffer = r.buffer], r.out, r.crashed)
      \/ Finish(n, Taken(m, n), [odr[n] EXCEPT !.table = table],
                sendMessage(onward.next_hop, further), onward.out_interface = NoMac)
  BY DEF ReceiveRREP
<1> HIDE DEF p
<1>5. p \in RREPs /\ p.dst \in Nodes
  BY <1>1, <1>3, PacketKinds DEF Good, RREPs
<1>6. table \in TablesOf(n) /\ Raised(T, table)
  BY <1>1, <1>3, <1>5, ForwardLearns, ForwardRaises DEF Learns
<1> HIDE DEF table
<1>7. CASE \E stack \in Stacks(odr[n].buffer) :
             LET r == sendMessageFromBuffer(table, odr[n].buffer, stack)
             IN  Finish(n, Taken(m, n),
                    [odr[n] EXCEPT !.table = table, !.buffer = r.buffer], r.out, r.crashed)
  <2>1. PICK stack \in Stacks(odr[n].buffer) :
             LET r == sendMessageFromBuffer(table, odr[n].buffer, stack)
             IN  Finish(n, Taken(m, n),
                    [odr[n] EXCEPT !.table = table, !.buffer = r.buffer], r.out, r.crashed)
    BY <1>7
  <2> DEFINE r == sendMessageFromBuffer(table, odr[n].buffer, stack)
             s == [odr[n] EXCEPT !.table = table, !.buffer = r.buffer]
  <2>2. r.out \in Out(n, Calls(n, T, table)) /\ r.crashed \in BOOLEAN
    BY <1>1, <1>6, SweepFloods
  <2>3. Finish(n, Taken(m, n), s, r.out, r.crashed) /\ s.table = table
    BY <1>1, <2>1 DEF DaemonsOf
  <2> HIDE DEF r, s
  <2> QED BY <1>1, <1>6, <2>2, <2>3, FloodPass
<1>8. CASE Finish(n, Taken(m, n), [odr[n] EXCEPT !.table = table],
                  sendMessage(onward.next_hop, further), onward.out_interface = NoMac)
  <2> DEFINE s == [odr[n] EXCEPT !.table = table]
             out == sendMessage(onward.next_hop, further)
             crashed == onward.out_interface = NoMac
  <2>1. further \in Calls(n, T, table)
    BY <1>5, HopsOn, NoFlood
  <2>2. onward.next_hop \in Neighbours(n) \cup {NoMac}
    BY <1>5, <1>6 DEF Relay, TablesOf, EntriesOf
  <2>3. s.table = table
    BY <1>1 DEF DaemonsOf
  <2> HIDE DEF further, s, onward
  <2>4. out \in Out(n, Calls(n, T, table))
    BY <2>1, <2>2, Outputs
  <2>5. Finish(n, Taken(m, n), s, out, crashed) /\ crashed \in BOOLEAN
    BY <1>8 DEF s
  <2> HIDE DEF out, crashed
  <2> QED BY <1>1, <1>6, <2>3, <2>4, <2>5, FloodPass
<1> QED BY <1>4, <1>7, <1>8

\* A message is answered, delivered or passed on.
LEMMA AppFloods ==
  ASSUME OdrInv, NEW n \in Nodes, NEW m \in Nodes, ReceiveApp(n, m)
  PROVE  FloodStep
<1> DEFINE p == Head(net[m][n])
           T == odr[n].table
           table == [odr[n].table EXCEPT ![p.src] = Through(@, m, Hop(p.hops))]
           served == p.dst = n /\ p.msg = "request"
           delivered == p.dst = n /\ p.msg = "response"
           extra == IF served THEN <<Serve(n, p)>>
                    ELSE IF delivered THEN <<>>
                    ELSE <<[p EXCEPT !.hops = Hop(@)]>>
           buffer == odr[n].buffer \o extra
           request == RREQ(n, p.dst, 0, FALSE, TRUE, odr[n].broadcast_id + 1)
           call == broadcast(n, request)
           Rest(r) ==
             Finish(n, Taken(m, n),
                  [odr[n] EXCEPT !.table = table, !.buffer = r.buffer,
                                 !.broadcast_id = IF Len(r.buffer) > 0 THEN @ + 1 ELSE @],
                  IF Len(r.buffer) > 0 /\ ~r.crashed THEN Then(r.out, call) ELSE r.out,
                  r.crashed)
<1>1. /\ net[m][n] # <<>> /\ p.type = 2 /\ Typed /\ Traffic /\ odr[n] \in DaemonsOf(n)
      /\ T \in [Nodes -> EntriesOf(n)] /\ T \in TablesOf(n) /\ now \in Nat
      /\ odr[n].buffer \in Seq(Messages \cup {Blank})
  BY DEF ReceiveApp, OdrInv, Typed, DaemonsOf, TablesOf
<1>2. p # Blank
  BY <1>1 DEF Blank
<1>3. m \in Neighbours(n) /\ p \in Good(m, odr[m].table, RoutesKept, ended, asked)
  BY <1>1, <1>2, Frame
<1>4. \/ Finish(n, Taken(m, n), odr[n], Silent, TRUE)
      \/ \E stack \in Stacks(buffer) : Rest(sendMessageFromBuffer(table, buffer, stack))
  BY DEF ReceiveApp
<1> HIDE DEF p
<1>5. p \in Messages /\ p.src \in Nodes /\ p.dst \in Nodes /\ p.hops \in Hops
  BY <1>1, <1>3, PacketKinds DEF Good, Messages, Hops
<1>6. table \in TablesOf(n) /\ Raised(T, table) /\ Raised(T, T)
  <2> DEFINE f == Through(T[p.src], m, Hop(p.hops))
  <2>1. f \in EntriesOf(n) /\ f.bid = T[p.src].bid
    <3>1. T[p.src] \in EntriesOf(n)
      BY <1>1, <1>5
    <3> HIDE DEF T
    <3> QED BY <1>1, <1>3, <1>5, <3>1, HopInRange, ThroughEntry DEF Through, EntriesOf
  <2>2. table = [T EXCEPT ![p.src] = f]
    OBVIOUS
  <2>3. \A d, x \in Nodes : T[d].bid[x] \in Nat
    BY <1>1, Bids
  <2> HIDE DEF f, table, T
  <2>4. table \in TablesOf(n)
    BY <1>1, <2>1, <2>2 DEF TablesOf
  <2>5. \A d \in Nodes : table[d].bid = T[d].bid
    BY <1>1, <2>1, <2>2
  <2> QED BY <2>3, <2>4, <2>5 DEF Raised
<1> HIDE DEF table
<1>7. buffer \in Seq(Messages \cup {Blank})
  <2> DEFINE M == Messages \cup {Blank}
             q == [p EXCEPT !.hops = Hop(@)]
             a == Serve(n, p)
  <2>1. q \in M /\ (served => a \in M)
    BY <1>5, HopsOn, Served
  <2>2. extra = IF served THEN <<a>> ELSE IF delivered THEN <<>> ELSE <<q>>
    OBVIOUS
  <2>3. odr[n].buffer \in Seq(M)
    BY <1>1
  <2> HIDE DEF M, q, a, extra, served, delivered
  <2>4. extra \in Seq(M)
    <3>1. CASE served
      BY <2>1, <2>2, <3>1
    <3>2. CASE ~served
      BY <2>1, <2>2, <3>2
    <3> QED BY <3>1, <3>2
  <2>5. buffer \in Seq(M)
    BY <2>3, <2>4, ConcatProperties
  <2> QED BY <2>5 DEF M
<1> HIDE DEF buffer
<1>8. \A U : Silent \in Out(n, Calls(n, T, U)) /\ call \in Out(n, Calls(n, T, U))
  <2>1. odr[n].broadcast_id + 1 \in Nat
    BY <1>1 DEF DaemonsOf
  <2>2. request \in RREQs /\ request.src = n
    BY <1>5, <2>1, OdrAssumption DEF RREQ, RREQs, Hops
  <2> HIDE DEF request
  <2>3. \A U : request \in Calls(n, T, U)
    BY <2>2, NoFlood
  <2> QED BY <2>3, Outputs
<1> HIDE DEF call
<1>9. CASE Finish(n, Taken(m, n), odr[n], Silent, TRUE)
  BY <1>1, <1>6, <1>8, <1>9, FloodPass
<1>10. CASE \E stack \in Stacks(buffer) : Rest(sendMessageFromBuffer(table, buffer, stack))
  <2>1. PICK stack \in Stacks(buffer) : Rest(sendMessageFromBuffer(table, buffer, stack))
    <3> HIDE DEF Rest
    <3> QED BY <1>10
  <2> DEFINE r == sendMessageFromBuffer(table, buffer, stack)
             b == IF Len(r.buffer) > 0 THEN odr[n].broadcast_id + 1 ELSE odr[n].broadcast_id
             s == [odr[n] EXCEPT !.table = table, !.buffer = r.buffer, !.broadcast_id = b]
             out == IF Len(r.buffer) > 0 /\ ~r.crashed THEN Then(r.out, call) ELSE r.out
  <2>2. Finish(n, Taken(m, n), s, out, r.crashed)
    BY <2>1
  <2>3. r.out \in Out(n, Calls(n, T, table)) /\ r.crashed \in BOOLEAN
    BY <1>6, <1>7, SweepFloods
  <2>4. out = r.out \/ out = Then(r.out, call)
    OBVIOUS
  <2>5. s.table = table
    BY <1>1 DEF DaemonsOf
  <2> HIDE DEF r, s, out
  <2>6. out \in Out(n, Calls(n, T, table))
    BY <1>8, <2>3, <2>4, Outputs
  <2> QED BY <1>1, <1>6, <2>2, <2>3, <2>5, <2>6, FloodPass
<1> QED BY <1>4, <1>9, <1>10

\* A client's message sends a request of the node at most.
LEMMA MessageFloods ==
  ASSUME OdrInv, NEW c \in Clients, NEW d \in Nodes, NEW flag \in {0, 1}, Message(c, d, flag)
  PROVE  FloodStep
<1> DEFINE n == Home[c]
           T == odr[n].table
           port == odr[n].sourcePort
           id == odr[n].broadcast_id + 1
           table == IF flag = 1 THEN [odr[n].table EXCEPT ![d].next_hop = NoMac]
                                ELSE odr[n].table
           first == App("request", n, d, port, 0)
           buffer == Append(odr[n].buffer, first)
           request == RREQ(n, d, 0, FALSE, flag = 1, id)
           seek == IF Unusable(table[d]) THEN broadcast(n, request) ELSE Silent
           M == addMap(odr[n].MapArray, port, c)
<1>1. /\ Typed /\ n \in Nodes /\ odr[n] \in DaemonsOf(n)
  BY OdrAssumption DEF OdrInv, Typed
<1>2. /\ T \in TablesOf(n) /\ T \in [Nodes -> EntriesOf(n)]
      /\ odr[n].buffer \in Seq(Messages \cup {Blank})
      /\ port \in Nat \ {0} /\ id \in Nat
  BY <1>1 DEF DaemonsOf, TablesOf
<1>3. PICK stack \in Stacks(buffer) :
        LET r == sendMessageFromBuffer(table, buffer, stack)
        IN  Finish(n, net,
                 [odr[n] EXCEPT !.table = table, !.buffer = r.buffer,
                           !.broadcast_id = id, !.sourcePort = @ + 1,
                           !.MapArray = addMap(@, port, c)],
                 Then(seek, r.out), r.crashed)
  BY DEF Message
<1>4. table \in TablesOf(n) /\ Raised(T, table)
  <2> DEFINE e == [T[d] EXCEPT !.next_hop = NoMac]
  <2>1. e \in EntriesOf(n) /\ e.bid = T[d].bid
    BY <1>2 DEF EntriesOf
  <2>2. table = [T EXCEPT ![d] = e] \/ table = T
    OBVIOUS
  <2>3. \A x, y \in Nodes : T[x].bid[y] \in Nat
    BY <1>1, Bids
  <2> HIDE DEF e, table, T
  <2>4. table \in TablesOf(n)
    BY <1>2, <2>1, <2>2 DEF TablesOf
  <2>5. \A x \in Nodes : table[x].bid = T[x].bid
    BY <1>2, <2>1, <2>2
  <2> QED BY <2>3, <2>4, <2>5 DEF Raised
<1>5. buffer \in Seq(Messages \cup {Blank})
  <2>1. first \in Messages \cup {Blank}
    BY <1>1, <1>2, OdrAssumption DEF App, Messages
  <2> HIDE DEF first
  <2> QED BY <1>2, <2>1, AppendProperties
<1>6. seek \in Out(n, Calls(n, T, table))
  <2>1. request \in RREQs /\ request.src = n
    BY <1>1, <1>2, OdrAssumption DEF RREQ, RREQs, Hops
  <2> HIDE DEF request
  <2>2. request \in Calls(n, T, table)
    BY <1>1, <2>1, NoFlood
  <2> HIDE DEF table
  <2> QED BY <1>1, <2>2, Outputs
<1> DEFINE r == sendMessageFromBuffer(table, buffer, stack)
           s == [odr[n] EXCEPT !.table = table, !.buffer = r.buffer, !.broadcast_id = id,
                               !.sourcePort = port + 1, !.MapArray = M]
           out == Then(seek, r.out)
<1>7. Finish(n, net, s, out, r.crashed)
  BY <1>3
<1>8. s.table = table
  BY <1>1 DEF DaemonsOf
<1> HIDE DEF table, buffer, seek, s
<1>9. r.out \in Out(n, Calls(n, T, table)) /\ r.crashed \in BOOLEAN
  BY <1>1, <1>4, <1>5, SweepFloods
<1> HIDE DEF r
<1>10. out \in Out(n, Calls(n, T, table))
  BY <1>1, <1>6, <1>9, Outputs
<1> HIDE DEF out, n
<1> QED BY <1>1, <1>4, <1>7, <1>8, <1>9, <1>10, FloodPass

\* In every step, floods are new.
LEMMA NextFloods == OdrInv /\ [Next]_vars => FloodStep
<1> SUFFICES ASSUME OdrInv, [Next]_vars PROVE FloodStep
  OBVIOUS
<1>1. Typed /\ Traffic
  BY DEF OdrInv
<1>2. ASSUME NEW c \in Clients, NEW d \in Nodes, NEW flag \in {0, 1},
             NEW phase, Send(c, d, flag, phase)
      PROVE  FloodStep
  <2>1. CASE odr[Home[c]].up
    BY <1>2, <2>1, MessageFloods DEF Send
  <2>2. CASE ~odr[Home[c]].up
    BY <1>1, <1>2, <2>2, NoFrames DEF Send
  <2> QED BY <2>1, <2>2
<1>3. ASSUME NEW c \in Clients, Ask(c) PROVE FloodStep
  BY <1>2, <1>3, OdrAssumption DEF Ask
<1>4. ASSUME NEW c \in Clients, Retry(c) PROVE FloodStep
  BY <1>2, <1>4 DEF Retry, OdrInv, Callers, ClientStates
<1>5. ASSUME NEW c \in Clients, GiveUp(c) \/ ReadAnswer(c) PROVE FloodStep
  BY <1>1, <1>5, NoFrames DEF GiveUp, ReadAnswer
<1>6. ASSUME NEW n \in Nodes, NEW queues, NEW m \in Nodes,
             queues = net \/ (queues = Taken(m, n) /\ net[m][n] # <<>>),
             Finish(n, queues, odr[n], Silent, TRUE)
      PROVE  FloodStep
  <2>1. Raised(odr[n].table, odr[n].table)
    BY <1>1, Bids DEF Raised
  <2>2. Silent \in Out(n, Calls(n, odr[n].table, odr[n].table))
    BY Outputs
  <2> QED BY <1>1, <1>6, <2>1, <2>2, FloodPass
<1>7. ASSUME NEW n \in Nodes, NEW m \in Nodes, ReceiveRREQ(n, m) PROVE FloodStep
  <2> DEFINE p == Head(net[m][n])
  <2>1. net[m][n] # <<>> /\ p.type = 0 /\ HandleRREQ(n, m, p)
    BY <1>7 DEF ReceiveRREQ
  <2>2. p # Blank
    BY <2>1 DEF Blank
  <2>3. p \in Packets
    BY <1>1, <2>1, <2>2, Frame
  <2> HIDE DEF p
  <2>4. p \in RREQs
    BY <2>1, <2>3, PacketKinds
  <2> QED BY <2>1, <2>4, HandleFloods
<1>8. ASSUME NEW n \in Nodes, NEW m \in Nodes, ReceiveBlank(n, m) PROVE FloodStep
  <2>1. net[m][n] # <<>>
    BY <1>8 DEF ReceiveBlank
  <2>2. CASE Finish(n, Taken(m, n), odr[n], Silent, TRUE)
    BY <1>6, <2>1, <2>2
  <2>3. ASSUME NEW src \in Nodes, NEW dst \in Nodes,
               HandleRREQ(n, m, RREQ(src, dst, 0, FALSE, FALSE, 0))
        PROVE  FloodStep
    <3> DEFINE p == RREQ(src, dst, 0, FALSE, FALSE, 0)
    <3>1. p \in RREQs
      BY OdrAssumption DEF RREQ, RREQs, Hops
    <3>2. HandleRREQ(n, m, p)
      BY <2>3
    <3> HIDE DEF p
    <3> QED BY <2>1, <3>1, <3>2, HandleFloods
  <2> QED BY <1>8, <2>2, <2>3 DEF ReceiveBlank
<1>9. ASSUME NEW n \in Nodes, Receive(n) PROVE FloodStep
  BY <1>7, <1>8, <1>9, RREPFloods, AppFloods DEF Receive
<1>10. ASSUME NEW n \in Nodes, Stop(n) PROVE FloodStep
  BY <1>6, <1>10 DEF Stop
<1>11. ASSUME NEW n \in Nodes, Boot(n) PROVE FloodStep
  <2>1. net' = net /\ \A x \in Nodes : odr[x].up => odr'[x] = odr[x]
    BY <1>1, <1>11 DEF Boot, Typed
  <2> QED BY <1>1, <2>1, NoFrames
<1>12. CASE Tick
  BY <1>1, <1>12, NoFrames DEF Tick
<1>13. CASE UNCHANGED vars
  BY <1>1, <1>13, NoFrames DEF vars
<1> QED BY <1>3, <1>4, <1>5, <1>9, <1>10, <1>11, <1>12, <1>13 DEF Next

-----------------------------------------------------------------------------
(* Where a message is. *)

\* Sequence q holds message a; and it does so once at most.
Has(q, a) == \E i \in 1..Len(q) : Of(q[i], a)
Once(q, a) == \A i, j \in 1..Len(q) : Of(q[i], a) /\ Of(q[j], a) => i = j

\* With contents P of the boxes, at most one holds a, and once.
AloneIn(P, a) ==
  /\ \A b \in Boxes : Once(P[b], a)
  /\ \A b, x \in Boxes : Has(P[b], a) /\ Has(P[x], a) => b = x

Now == [b \in Boxes |-> At(b)]
Spot(a) == AloneIn(Now, a)

\* What is in the socket of c is a response for the node of c.
Mail ==
  \A c \in Clients : \A i \in 1..Len(client[c].socket) :
    client[c].socket[i].msg = "response" /\ client[c].socket[i].dst = Home[c]

Alone == Mail /\ \A a \in asked : Home[a.client] \notin ended => Spot(a)

\* No message, one, and two sequences.
LEMMA HasParts ==
  ASSUME NEW S, NEW a
  PROVE  /\ ~Has(<<>>, a) /\ Once(<<>>, a)
         /\ \A x : (Has(<<x>>, a) <=> Of(x, a)) /\ Once(<<x>>, a)
         /\ \A q, w \in Seq(S) :
              /\ Has(q \o w, a) <=> Has(q, a) \/ Has(w, a)
              /\ Once(q, a) /\ Once(w, a) /\ ~(Has(q, a) /\ Has(w, a)) => Once(q \o w, a)
<1>1. ~Has(<<>>, a) /\ Once(<<>>, a)
  BY DEF Has, Once
<1>2. ASSUME NEW x PROVE (Has(<<x>>, a) <=> Of(x, a)) /\ Once(<<x>>, a)
  <2>1. Len(<<x>>) = 1 /\ <<x>>[1] = x /\ \A i \in 1..1 : i = 1
    OBVIOUS
  <2> DEFINE q == <<x>>
  <2>2. Len(q) = 1 /\ q[1] = x
    BY <2>1
  <2> HIDE DEF q
  <2>3. (Has(q, a) <=> Of(x, a)) /\ Once(q, a)
    BY <2>1, <2>2 DEF Has, Once
  <2> QED BY <2>3 DEF q
<1>3. ASSUME NEW q \in Seq(S), NEW w \in Seq(S)
      PROVE  /\ Has(q \o w, a) <=> Has(q, a) \/ Has(w, a)
             /\ Once(q, a) /\ Once(w, a) /\ ~(Has(q, a) /\ Has(w, a)) => Once(q \o w, a)
  <2> DEFINE z == q \o w
             k == Len(q)
  <2>1. /\ k \in Nat /\ Len(w) \in Nat /\ Len(z) = k + Len(w)
        /\ \A i \in 1..k + Len(w) : z[i] = IF i <= k THEN q[i] ELSE w[i - k]
    BY LenProperties, ConcatProperties
  <2>2. k = Len(q)
    OBVIOUS
  <2> HIDE DEF z, k
  <2>3. ASSUME NEW i \in 1..k PROVE i \in 1..Len(z) /\ z[i] = q[i]
    <3>1. i \in 1..k + Len(w) /\ i <= k
      BY <2>1
    <3> QED BY <2>1, <3>1
  <2>4. ASSUME NEW i \in 1..Len(w) PROVE i + k \in 1..Len(z) /\ z[i + k] = w[i]
    <3>1. i + k \in 1..k + Len(w) /\ ~(i + k <= k) /\ (i + k) - k = i
      BY <2>1
    <3> QED BY <2>1, <3>1
  <2>5. ASSUME NEW i \in 1..Len(z)
        PROVE  \/ i \in 1..k /\ z[i] = q[i]
               \/ i - k \in 1..Len(w) /\ z[i] = w[i - k]
    <3>1. i \in 1..k + Len(w)
      BY <2>1
    <3>2. CASE i <= k
      BY <2>1, <3>1, <3>2
    <3>3. CASE ~(i <= k)
      BY <2>1, <3>1, <3>3
    <3> QED BY <3>2, <3>3
  <2>6. Has(z, a) <=> Has(q, a) \/ Has(w, a)
    BY <2>2, <2>3, <2>4, <2>5 DEF Has
  <2>7. ASSUME Once(q, a), Once(w, a), ~(Has(q, a) /\ Has(w, a)) PROVE Once(z, a)
    <3>1. ASSUME NEW i \in 1..Len(z), NEW j \in 1..Len(z), Of(z[i], a), Of(z[j], a)
          PROVE  i = j
      <4>1. CASE i \in 1..k /\ z[i] = q[i]
        <5>1. Has(q, a)
          BY <2>2, <3>1, <4>1 DEF Has
        <5>2. j \in 1..k /\ z[j] = q[j]
          BY <2>5, <2>7, <3>1, <5>1 DEF Has
        <5> QED BY <2>2, <2>7, <3>1, <4>1, <5>2 DEF Once
      <4>2. CASE i - k \in 1..Len(w) /\ z[i] = w[i - k]
        <5>1. Has(w, a)
          BY <3>1, <4>2 DEF Has
        <5>2. j - k \in 1..Len(w) /\ z[j] = w[j - k]
          BY <2>2, <2>5, <2>7, <3>1, <5>1 DEF Has
        <5>3. i - k = j - k
          BY <2>7, <3>1, <4>2, <5>2 DEF Once
        <5>4. i \in Nat /\ j \in Nat
          BY <2>1
        <5> QED BY <2>1, <5>3, <5>4
      <4> QED BY <2>5, <4>1, <4>2
    <3> QED BY <3>1 DEF Once
  <2> QED BY <2>6, <2>7 DEF z
<1> QED BY <1>1, <1>2, <1>3

\* The first packet and the others.
LEMMA HasTail ==
  ASSUME NEW S, NEW a, NEW q \in Seq(S), q # <<>>
  PROVE  /\ Has(Tail(q), a) => Has(q, a)
         /\ Of(Head(q), a) => Has(q, a)
         /\ Once(q, a) => Once(Tail(q), a)
         /\ Once(q, a) /\ Of(Head(q), a) => ~Has(Tail(q), a)
<1> DEFINE t == Tail(q)
           h == Head(q)
<1>1. /\ Len(q) \in Nat /\ Len(t) = Len(q) - 1 /\ Len(t) \in Nat /\ h = q[1]
      /\ \A i \in 1..Len(t) : t[i] = q[i + 1]
  <2>1. Len(q) \in Nat /\ Len(t) = Len(q) - 1 /\ t \in Seq(S) /\ h = q[1]
        /\ \A i \in 1..Len(t) : t[i] = q[i + 1]
    BY HeadTailProperties, LenProperties
  <2>2. Len(t) \in Nat
    BY <2>1, LenProperties
  <2> QED BY <2>1, <2>2
<1> HIDE DEF t, h
<1>2. \A i \in 1..Len(t) : i + 1 \in 1..Len(q) /\ i + 1 # 1 /\ t[i] = q[i + 1]
  BY <1>1
<1>3. 1 \in 1..Len(q)
  BY <1>1
<1>4. Has(t, a) => Has(q, a)
  BY <1>2 DEF Has
<1>5. Of(h, a) => Has(q, a)
  BY <1>1, <1>3 DEF Has
<1>6. ASSUME Once(q, a) PROVE Once(t, a)
  <2>1. ASSUME NEW i \in 1..Len(t), NEW j \in 1..Len(t), Of(t[i], a), Of(t[j], a)
        PROVE  i = j
    <3>1. i + 1 = j + 1
      BY <1>2, <1>6, <2>1 DEF Once
    <3> QED BY <1>1, <3>1
  <2> QED BY <2>1 DEF Once
<1>7. Once(q, a) /\ Of(h, a) => ~Has(t, a)
  BY <1>1, <1>2, <1>3 DEF Once, Has
<1> QED BY <1>4, <1>5, <1>6, <1>7 DEF t, h

\* Packets of which none is a.
LEMMA HasNot ==
  ASSUME NEW a, NEW S, \A p \in S : ~Of(p, a), NEW q \in Seq(S)
  PROVE  ~Has(q, a) /\ Once(q, a)
BY ElementOfSeq DEF Has, Once

\* Of R and P, the contents before and what is added, one holds a at most.
LEMMA Merge ==
  ASSUME NEW a, NEW S, NEW P, NEW R, NEW N,
         \A b \in Boxes : P[b] \in Seq(S) /\ R[b] \in Seq(S),
         \A b \in Boxes : N[b] = <<>> \/ N[b] = R[b] \/ N[b] = P[b] \/ N[b] = R[b] \o P[b],
         AloneIn(P, a), AloneIn(R, a),
         (\E b \in Boxes : Has(P[b], a)) => \A b \in Boxes : ~Has(R[b], a)
  PROVE  AloneIn(N, a)
<1>1. ASSUME NEW b \in Boxes
      PROVE  /\ Has(N[b], a) => Has(R[b], a) \/ Has(P[b], a)
             /\ Once(N[b], a)
  <2>1. Once(P[b], a) /\ Once(R[b], a) /\ ~(Has(R[b], a) /\ Has(P[b], a))
    BY DEF AloneIn
  <2>2. P[b] \in Seq(S) /\ R[b] \in Seq(S)
    OBVIOUS
  <2>3. CASE N[b] = <<>>
    BY <2>3, HasParts
  <2>4. CASE N[b] = R[b] \/ N[b] = P[b]
    BY <2>1, <2>4
  <2>5. CASE N[b] = R[b] \o P[b]
    <3>1. /\ Has(R[b] \o P[b], a) <=> Has(R[b], a) \/ Has(P[b], a)
          /\ Once(R[b] \o P[b], a)
      BY <2>1, <2>2, HasParts
    <3> QED BY <2>5, <3>1
  <2> QED BY <2>3, <2>4, <2>5
<1> QED BY <1>1 DEF AloneIn

\* The three kinds of boxes.
LEMMA BoxKinds ==
  /\ \A n \in Nodes : <<"buffer", n, n>> \in Boxes
  /\ \A c \in Clients : <<"socket", c, c>> \in Boxes
  /\ \A m, n \in Nodes : <<"link", m, n>> \in Boxes
  /\ \A b \in Boxes :
       \/ \E n \in Nodes : b = <<"buffer", n, n>>
       \/ \E c \in Clients : b = <<"socket", c, c>>
       \/ \E m, n \in Nodes : b = <<"link", m, n>>
BY DEF Boxes

\* What is in them, before and after a step.
LEMMA BoxesNow ==
  /\ \A n \in Nodes : Now[<<"buffer", n, n>>] = odr[n].buffer
  /\ \A c \in Clients : Now[<<"socket", c, c>>] = client[c].socket
  /\ \A m, n \in Nodes : Now[<<"link", m, n>>] = net[m][n]
<1>1. \A b \in Boxes : Now[b] = At(b)
  BY DEF Now
<1>2. /\ \A b \in Boxes : b[1] = "buffer" => At(b) = odr[b[2]].buffer
      /\ \A b \in Boxes : b[1] = "socket" => At(b) = client[b[2]].socket
      /\ \A b \in Boxes : b[1] = "link" => At(b) = net[b[2]][b[3]]
  BY DEF At
<1> QED BY <1>1, <1>2, BoxKinds

LEMMA BoxesNext ==
  /\ \A n \in Nodes : Now'[<<"buffer", n, n>>] = odr'[n].buffer
  /\ \A c \in Clients : Now'[<<"socket", c, c>>] = client'[c].socket
  /\ \A m, n \in Nodes : Now'[<<"link", m, n>>] = net'[m][n]
<1>1. \A b \in Boxes : Now'[b] = At(b)'
  BY DEF Now, Boxes
<1>2. /\ \A b \in Boxes : b[1] = "buffer" => At(b)' = odr'[b[2]].buffer
      /\ \A b \in Boxes : b[1] = "socket" => At(b)' = client'[b[2]].socket
      /\ \A b \in Boxes : b[1] = "link" => At(b)' = net'[b[2]][b[3]]
  BY DEF At
<1> QED BY <1>1, <1>2, BoxKinds

\* In a pass of n: what stays where it is, and what is put there.
Rest(n, queues) ==
  [b \in Boxes |-> CASE b[1] = "buffer" -> IF b[2] = n THEN <<>> ELSE odr[b[2]].buffer
                      [] b[1] = "socket" -> client[b[2]].socket
                      [] OTHER -> queues[b[2]][b[3]]]
Put(n, buffer, out, mail) ==
  [b \in Boxes |-> CASE b[1] = "buffer" -> IF b[2] = n THEN buffer ELSE <<>>
                      [] b[1] = "socket" -> mail[b[2]]
                      [] OTHER -> IF b[2] = n THEN out[b[3]] ELSE <<>>]

LEMMA BoxesRest ==
  ASSUME NEW n, NEW queues
  PROVE  /\ \A x \in Nodes : Rest(n, queues)[<<"buffer", x, x>>]
                              = IF x = n THEN <<>> ELSE odr[x].buffer
         /\ \A c \in Clients : Rest(n, queues)[<<"socket", c, c>>] = client[c].socket
         /\ \A x, y \in Nodes : Rest(n, queues)[<<"link", x, y>>] = queues[x][y]
<1>1. /\ \A b \in Boxes : b[1] = "buffer" =>
           Rest(n, queues)[b] = IF b[2] = n THEN <<>> ELSE odr[b[2]].buffer
      /\ \A b \in Boxes : b[1] = "socket" => Rest(n, queues)[b] = client[b[2]].socket
      /\ \A b \in Boxes : b[1] = "link" => Rest(n, queues)[b] = queues[b[2]][b[3]]
  BY DEF Rest
<1> QED BY <1>1, BoxKinds

LEMMA BoxesPut ==
  ASSUME NEW n, NEW buffer, NEW out, NEW mail
  PROVE  /\ \A x \in Nodes : Put(n, buffer, out, mail)[<<"buffer", x, x>>]
                              = IF x = n THEN buffer ELSE <<>>
         /\ \A c \in Clients : Put(n, buffer, out, mail)[<<"socket", c, c>>] = mail[c]
         /\ \A x, y \in Nodes : Put(n, buffer, out, mail)[<<"link", x, y>>]
                                 = IF x = n THEN out[y] ELSE <<>>
<1>1. /\ \A b \in Boxes : b[1] = "buffer" =>
           Put(n, buffer, out, mail)[b] = IF b[2] = n THEN buffer ELSE <<>>
      /\ \A b \in Boxes : b[1] = "socket" => Put(n, buffer, out, mail)[b] = mail[b[2]]
      /\ \A b \in Boxes : b[1] = "link" =>
           Put(n, buffer, out, mail)[b] = IF b[2] = n THEN out[b[3]] ELSE <<>>
  BY DEF Put
<1> QED BY <1>1, BoxKinds

\* What the send buffer B of a pass comes to: what is kept and sent holds a once
\* at most, and only if B does.
Splits(B, buffer, out, a) ==
  /\ Once(buffer, a) /\ \A y \in Nodes : Once(out[y], a)
  /\ \A y \in Nodes : ~(Has(buffer, a) /\ Has(out[y], a))
  /\ \A y, z \in Nodes : Has(out[y], a) /\ Has(out[z], a) => y = z
  /\ Has(buffer, a) \/ (\E y \in Nodes : Has(out[y], a)) => Has(B, a)

\* What is worked off, B, and what clients are given hold a once at most, and
\* nothing that stays does if one of them does.
InHand(n, queues, B, mail, a) ==
  /\ AloneIn(Rest(n, queues), a)
  /\ Has(B, a) => \A b \in Boxes : ~Has(Rest(n, queues)[b], a)
  /\ \A c \in Clients : /\ Once(mail[c], a)
                        /\ Has(mail[c], a) => ~Has(B, a) /\ \A b \in Boxes : ~Has(Rest(n, queues)[b], a)
  /\ \A c, d \in Clients : Has(mail[c], a) /\ Has(mail[d], a) => c = d

\* Then at most one box is given a.
LEMMA PutAlone ==
  ASSUME NEW n \in Nodes, NEW queues, NEW B, NEW mail, NEW a, InHand(n, queues, B, mail, a),
         NEW buffer, NEW out, Splits(B, buffer, out, a)
  PROVE  /\ AloneIn(Put(n, buffer, out, mail), a)
         /\ (\E b \in Boxes : Has(Put(n, buffer, out, mail)[b], a)) =>
              \A b \in Boxes : ~Has(Rest(n, queues)[b], a)
<1> DEFINE P == Put(n, buffer, out, mail)
<1>1. ~Has(<<>>, a) /\ Once(<<>>, a)
  BY HasParts
<1>2. /\ \A x \in Nodes : P[<<"buffer", x, x>>] = IF x = n THEN buffer ELSE <<>>
      /\ \A c \in Clients : P[<<"socket", c, c>>] = mail[c]
      /\ \A x, y \in Nodes : P[<<"link", x, y>>] = IF x = n THEN out[y] ELSE <<>>
  BY BoxesPut
<1> HIDE DEF P
<1>3. \A b \in Boxes : Once(P[b], a)
  BY <1>1, <1>2, BoxKinds DEF Splits, InHand
<1>4. ASSUME NEW b \in Boxes, Has(P[b], a)
      PROVE  \/ b = <<"buffer", n, n>> /\ Has(buffer, a) /\ Has(B, a)
             \/ \E c \in Clients : b = <<"socket", c, c>> /\ Has(mail[c], a) /\ ~Has(B, a)
             \/ \E y \in Nodes : b = <<"link", n, y>> /\ Has(out[y], a) /\ Has(B, a)
  <2>1. CASE \E x \in Nodes : b = <<"buffer", x, x>>
    BY <1>1, <1>2, <1>4, <2>1 DEF Splits
  <2>2. CASE \E c \in Clients : b = <<"socket", c, c>>
    BY <1>2, <1>4, <2>2 DEF InHand
  <2>3. CASE \E x, y \in Nodes : b = <<"link", x, y>>
    BY <1>1, <1>2, <1>4, <2>3 DEF Splits
  <2> QED BY <2>1, <2>2, <2>3, BoxKinds
<1>5. ASSUME NEW b \in Boxes, NEW x \in Boxes, Has(P[b], a), Has(P[x], a)
      PROVE  b = x
  BY <1>4, <1>5 DEF Splits, InHand
<1>6. AloneIn(P, a)
  BY <1>3, <1>5 DEF AloneIn
<1>7. (\E b \in Boxes : Has(P[b], a)) => \A b \in Boxes : ~Has(Rest(n, queues)[b], a)
  BY <1>4 DEF InHand
<1> QED BY <1>6, <1>7 DEF P

\* A pass of n leaves a in one box at most.
LEMMA PassSpot ==
  ASSUME Typed, client \in [Clients -> ClientStates], NEW n \in Nodes, NEW m \in Nodes, NEW queues,
         queues = net \/ (queues = Taken(m, n) /\ net[m][n] # <<>>),
         NEW B, NEW mail \in [Clients -> Seq(Messages)], NEW a, InHand(n, queues, B, mail, a),
         NEW s, s.buffer \in Seq(Messages \cup {Blank}), NEW out \in Out(n, Packets \cup {Blank}),
         Splits(B, s.buffer, out, a), NEW crashed \in BOOLEAN, Finish(n, queues, s, out, crashed),
         \A c \in Clients : client'[c].socket = client[c].socket \o mail[c]
  PROVE  Spot(a)'
<1> DEFINE S == Packets \cup {Blank}
           P == Put(n, s.buffer, out, mail)
           R == Rest(n, queues)
           N == Now'
<1>1. AloneIn(P, a) /\ ((\E b \in Boxes : Has(P[b], a)) => \A b \in Boxes : ~Has(R[b], a))
  BY PutAlone
<1>2. AloneIn(R, a)
  BY DEF InHand
<1>3. /\ \A x \in Nodes : P[<<"buffer", x, x>>] = IF x = n THEN s.buffer ELSE <<>>
      /\ \A c \in Clients : P[<<"socket", c, c>>] = mail[c]
      /\ \A x, y \in Nodes : P[<<"link", x, y>>] = IF x = n THEN out[y] ELSE <<>>
  BY BoxesPut
<1>4. /\ \A x \in Nodes : R[<<"buffer", x, x>>] = IF x = n THEN <<>> ELSE odr[x].buffer
      /\ \A c \in Clients : R[<<"socket", c, c>>] = client[c].socket
      /\ \A x, y \in Nodes : R[<<"link", x, y>>] = queues[x][y]
  BY BoxesRest
<1>5. /\ \A x \in Nodes : N[<<"buffer", x, x>>] = odr'[x].buffer
      /\ \A c \in Clients : N[<<"socket", c, c>>] = client'[c].socket
      /\ \A x, y \in Nodes : N[<<"link", x, y>>] = net'[x][y]
  BY BoxesNext
<1>6. /\ \A x \in Nodes : odr'[x] = IF x = n THEN (IF crashed THEN Exited ELSE s) ELSE odr[x]
      /\ \A x, y \in Nodes : \/ net'[x][y] = <<>> \/ net'[x][y] = queues[x][y]
                             \/ x = n /\ net'[x][y] = queues[x][y] \o out[y]
  BY DEF Finish, Typed
<1>7. Exited.buffer = <<>> /\ Messages \subseteq S
  BY BootedType, PacketKinds
<1>8. /\ s.buffer \in Seq(S) /\ \A c \in Clients : mail[c] \in Seq(S)
      /\ \A y \in Nodes : out[y] \in Seq(S)
  <2>1. Messages \cup {Blank} \subseteq S
    BY <1>7
  <2>2. \A y \in Nodes : out[y] \in Seq(S)
    BY DEF Out
  <2> HIDE DEF S
  <2>3. \A c \in Clients : mail[c] \in Seq(S)
    BY <1>7, SeqMonotonic
  <2> QED BY <2>1, <2>2, <2>3, SeqMonotonic
<1>9. /\ \A x \in Nodes : odr[x].buffer \in Seq(S)
      /\ \A c \in Clients : client[c].socket \in Seq(S)
      /\ \A x, y \in Nodes : queues[x][y] \in Seq(S)
  <2>1. \A x, y \in Nodes : net[x][y] \in Seq(S)
    BY DEF Typed
  <2>2. \A x \in Nodes : odr[x].buffer \in Seq(Messages \cup {Blank})
    BY DEF Typed, DaemonsOf
  <2>3. \A c \in Clients : client[c].socket \in Seq(Messages)
    BY DEF ClientStates
  <2>4. Messages \cup {Blank} \subseteq S
    BY <1>7
  <2> HIDE DEF S
  <2>5. ASSUME NEW x \in Nodes, NEW y \in Nodes PROVE queues[x][y] \in Seq(S)
    <3>1. CASE queues = net
      BY <2>1, <3>1
    <3>2. CASE queues = Taken(m, n) /\ net[m][n] # <<>>
      <4>1. Tail(net[m][n]) \in Seq(S)
        BY <2>1, <3>2, HeadTailProperties
      <4>2. queues[x][y] = IF x = m /\ y = n THEN Tail(net[m][n]) ELSE net[x][y]
        BY <3>2, TakenAt
      <4>3. CASE x = m /\ y = n
        BY <4>1, <4>2, <4>3
      <4>4. CASE ~(x = m /\ y = n)
        BY <2>1, <4>2, <4>4
      <4> QED BY <4>3, <4>4
    <3> QED BY <3>1, <3>2
  <2>6. \A x \in Nodes : odr[x].buffer \in Seq(S)
    BY <2>2, <2>4, SeqMonotonic
  <2>7. \A c \in Clients : client[c].socket \in Seq(S)
    BY <1>7, <2>3, SeqMonotonic
  <2> QED BY <2>5, <2>6, <2>7
<1> HIDE DEF P, R, N, S
<1>10. \A b \in Boxes : P[b] \in Seq(S) /\ R[b] \in Seq(S)
  <2>1. <<>> \in Seq(S)
    OBVIOUS
  <2>2. ASSUME NEW x \in Nodes, NEW b, b = <<"buffer", x, x>>
        PROVE  P[b] \in Seq(S) /\ R[b] \in Seq(S)
    <3>1. CASE x = n
      BY <1>3, <1>4, <1>8, <2>1, <2>2, <3>1
    <3>2. CASE x # n
      BY <1>3, <1>4, <1>9, <2>1, <2>2, <3>2
    <3> QED BY <3>1, <3>2
  <2>3. ASSUME NEW c \in Clients, NEW b, b = <<"socket", c, c>>
        PROVE  P[b] \in Seq(S) /\ R[b] \in Seq(S)
    <3>1. P[b] = mail[c] /\ R[b] = client[c].socket
      BY <1>3, <1>4, <2>3
    <3> QED BY <1>8, <1>9, <3>1
  <2>4. ASSUME NEW x \in Nodes, NEW y \in Nodes, NEW b, b = <<"link", x, y>>
        PROVE  P[b] \in Seq(S) /\ R[b] \in Seq(S)
    <3>1. R[b] = queues[x][y] /\ P[b] = IF x = n THEN out[y] ELSE <<>>
      BY <1>3, <1>4, <2>4
    <3>2. CASE x = n
      BY <1>8, <1>9, <3>1, <3>2
    <3>3. CASE x # n
      BY <1>9, <2>1, <3>1, <3>3
    <3> QED BY <3>2, <3>3
  <2> QED BY <2>2, <2>3, <2>4, BoxKinds
<1>11. \A b \in Boxes : N[b] = <<>> \/ N[b] = R[b] \/ N[b] = P[b] \/ N[b] = R[b] \o P[b]
  <2>1. ASSUME NEW x \in Nodes, NEW b, b = <<"buffer", x, x>>
        PROVE  N[b] = <<>> \/ N[b] = R[b] \/ N[b] = P[b]
    <3>1. /\ N[b] = odr'[x].buffer /\ R[b] = IF x = n THEN <<>> ELSE odr[x].buffer
          /\ P[b] = IF x = n THEN s.buffer ELSE <<>>
      BY <1>3, <1>4, <1>5, <2>1
    <3>2. CASE x = n
      BY <1>6, <1>7, <3>1, <3>2
    <3>3. CASE x # n
      BY <1>6, <3>1, <3>3
    <3> QED BY <3>2, <3>3
  <2>2. ASSUME NEW c \in Clients, NEW b, b = <<"socket", c, c>>
        PROVE  N[b] = R[b] \o P[b]
    <3>1. N[b] = client'[c].socket /\ R[b] = client[c].socket /\ P[b] = mail[c]
      BY <1>3, <1>4, <1>5, <2>2
    <3> QED BY <3>1, Zenon
  <2>3. ASSUME NEW x \in Nodes, NEW y \in Nodes, NEW b, b = <<"link", x, y>>
        PROVE  N[b] = <<>> \/ N[b] = R[b] \/ N[b] = R[b] \o P[b]
    <3>1. /\ N[b] = net'[x][y] /\ R[b] = queues[x][y]
          /\ x = n => P[b] = out[y]
      BY <1>3, <1>4, <1>5, <2>3
    <3>2. net'[x][y] = <<>> \/ net'[x][y] = queues[x][y] \/ (x = n /\ net'[x][y] = queues[x][y] \o out[y])
      BY <1>6
    <3> QED BY <3>1, <3>2, Zenon
  <2>4. ASSUME NEW b \in Boxes
        PROVE  N[b] = <<>> \/ N[b] = R[b] \/ N[b] = P[b] \/ N[b] = R[b] \o P[b]
    <3>1. CASE \E x \in Nodes : b = <<"buffer", x, x>>
      BY <2>1, <3>1, Zenon
    <3>2. CASE \E c \in Clients : b = <<"socket", c, c>>
      BY <2>2, <3>2, Zenon
    <3>3. CASE \E x, y \in Nodes : b = <<"link", x, y>>
      BY <2>3, <3>3, Zenon
    <3> QED BY <3>1, <3>2, <3>3, BoxKinds, Zenon
  <2> QED BY <2>4, Zenon
<1>12. AloneIn(N, a)
  BY <1>1, <1>2, <1>10, <1>11, Merge DEF P, R
<1> QED BY <1>12 DEF N, Spot, AloneIn, Boxes

\* What is left when n takes what is in its send buffer, and the frame of m.
LEMMA RestAlone ==
  ASSUME Typed, NEW a, Spot(a), NEW n \in Nodes, NEW m \in Nodes, NEW queues,
         queues = net \/ (queues = Taken(m, n) /\ net[m][n] # <<>>)
  PROVE  /\ AloneIn(Rest(n, queues), a) /\ Once(odr[n].buffer, a)
         /\ Has(odr[n].buffer, a) =>
              /\ \A b \in Boxes : ~Has(Rest(n, queues)[b], a)
              /\ net[m][n] # <<>> => ~Of(Head(net[m][n]), a)
         /\ queues = Taken(m, n) /\ net[m][n] # <<>> /\ Of(Head(net[m][n]), a) =>
              /\ \A b \in Boxes : ~Has(Rest(n, queues)[b], a)
<1> DEFINE R == Rest(n, queues)
           S == Packets \cup {Blank}
           mine == <<"buffer", n, n>>
           link == <<"link", m, n>>
<1>1. /\ \A x \in Nodes : R[<<"buffer", x, x>>] = IF x = n THEN <<>> ELSE odr[x].buffer
      /\ \A c \in Clients : R[<<"socket", c, c>>] = client[c].socket
      /\ \A x, y \in Nodes : R[<<"link", x, y>>] = queues[x][y]
  BY BoxesRest
<1>2. /\ \A x \in Nodes : Now[<<"buffer", x, x>>] = odr[x].buffer
      /\ \A c \in Clients : Now[<<"socket", c, c>>] = client[c].socket
      /\ \A x, y \in Nodes : Now[<<"link", x, y>>] = net[x][y]
  BY BoxesNow
<1>3. AloneIn(Now, a)
  BY DEF Spot
<1>4. ~Has(<<>>, a) /\ Once(<<>>, a)
  BY HasParts
<1>5. /\ mine \in Boxes /\ link \in Boxes /\ mine # link
      /\ Now[mine] = odr[n].buffer /\ Now[link] = net[m][n] /\ R[mine] = <<>>
  BY <1>1, <1>2, BoxKinds
<1>6. net[m][n] \in Seq(S)
  BY DEF Typed
<1>7. \A b \in Boxes : b # mine => R[b] = Now[b] \/ (b = link /\ queues = Taken(m, n)
                                                  /\ net[m][n] # <<>> /\ R[b] = Tail(Now[b]))
  <2>1. ASSUME NEW x \in Nodes, NEW y \in Nodes
        PROVE  \/ queues[x][y] = net[x][y]
               \/ /\ x = m /\ y = n /\ queues = Taken(m, n) /\ net[m][n] # <<>>
                  /\ queues[x][y] = Tail(net[x][y])
    <3>1. CASE queues = net
      BY <3>1
    <3>2. CASE queues = Taken(m, n) /\ net[m][n] # <<>>
      BY <3>2, TakenAt
    <3> QED BY <3>1, <3>2
  <2> HIDE DEF R
  <2>2. ASSUME NEW b \in Boxes, NEW x \in Nodes, NEW y \in Nodes, b = <<"link", x, y>>
        PROVE  R[b] = Now[b] \/ (b = link /\ queues = Taken(m, n)
                                 /\ net[m][n] # <<>> /\ R[b] = Tail(Now[b]))
    BY <1>1, <1>2, <2>1, <2>2
  <2>3. ASSUME NEW b \in Boxes, NEW x \in Nodes, b = <<"buffer", x, x>>, b # mine
        PROVE  R[b] = Now[b]
    BY <1>1, <1>2, <2>3
  <2>4. ASSUME NEW b \in Boxes, NEW c \in Clients, b = <<"socket", c, c>>
        PROVE  R[b] = Now[b]
    BY <1>1, <1>2, <2>4
  <2> QED BY <2>2, <2>3, <2>4, BoxKinds
<1> HIDE DEF R, S, mine, link
<1>8. ASSUME NEW b \in Boxes
      PROVE  /\ Has(R[b], a) => b # mine /\ Has(Now[b], a)
             /\ Once(R[b], a)
  <2>1. Once(Now[b], a)
    BY <1>3 DEF AloneIn
  <2>2. CASE b = mine
    BY <1>4, <1>5, <2>2
  <2>3. CASE b # mine /\ R[b] = Now[b]
    BY <2>1, <2>3
  <2>4. CASE b # mine /\ b = link /\ net[m][n] # <<>> /\ R[b] = Tail(Now[b])
    <3>1. Now[b] = net[m][n]
      BY <1>5, <2>4
    <3>2. Has(Tail(net[m][n]), a) => Has(net[m][n], a)
      BY <1>6, <2>4, HasTail
    <3>3. Once(net[m][n], a) => Once(Tail(net[m][n]), a)
      BY <1>6, <2>4, HasTail
    <3> QED BY <2>1, <2>4, <3>1, <3>2, <3>3
  <2> QED BY <1>7, <2>2, <2>3, <2>4
<1>9. AloneIn(R, a)
  BY <1>3, <1>8 DEF AloneIn
<1>10. Once(odr[n].buffer, a)
  BY <1>3, <1>5 DEF AloneIn
<1>11. ASSUME Has(odr[n].buffer, a)
       PROVE  /\ \A b \in Boxes : ~Has(R[b], a)
              /\ net[m][n] # <<>> => ~Of(Head(net[m][n]), a)
  <2>1. \A b \in Boxes : Has(Now[b], a) => b = mine
    BY <1>3, <1>5, <1>11 DEF AloneIn
  <2>2. net[m][n] # <<>> /\ Of(Head(net[m][n]), a) => Has(Now[link], a)
    <3>1. net[m][n] # <<>> /\ Of(Head(net[m][n]), a) => Has(net[m][n], a)
      BY <1>6, HasTail
    <3> QED BY <1>5, <3>1
  <2> QED BY <1>5, <1>8, <2>1, <2>2
<1>12. ASSUME queues = Taken(m, n), net[m][n] # <<>>, Of(Head(net[m][n]), a)
       PROVE  \A b \in Boxes : ~Has(R[b], a)
  <2>1. Has(Now[link], a) /\ Once(net[m][n], a)
    <3>1. Has(net[m][n], a)
      BY <1>6, <1>12, HasTail
    <3> QED BY <1>3, <1>5, <3>1 DEF AloneIn
  <2>2. \A b \in Boxes : Has(Now[b], a) => b = link
    BY <1>3, <1>5, <2>1 DEF AloneIn
  <2>3. R[link] = Tail(net[m][n])
    BY <1>1, <1>12, TakenAt DEF link
  <2>4. ~Has(Tail(net[m][n]), a)
    BY <1>6, <1>12, <2>1, HasTail
  <2> QED BY <1>8, <2>2, <2>3, <2>4
<1> QED BY <1>9, <1>10, <1>11, <1>12 DEF R

\* What is left of buffer b without entry i: entries before it, and blank slots.
LEMMA RemoveSplits ==
  ASSUME NEW S, NEW b \in Seq(S \cup {Blank}), NEW i \in Nat, NEW a
  PROVE  /\ Has(removeFromBuffer(b, i), a) => Has(b, a)
         /\ Once(b, a) => Once(removeFromBuffer(b, i), a)
         /\ Once(b, a) /\ i \in 1..Len(b) /\ Of(b[i], a) => ~Has(removeFromBuffer(b, i), a)
<1> DEFINE w == removeFromBuffer(b, i)
<1>1. Len(b) \in Nat /\ ~Of(Blank, a)
  BY LenProperties DEF Of, Blank
<1>2. ASSUME NEW k \in 1..Len(w)
      PROVE  k \in 1..Len(b) /\ k \in Nat /\ w[k] = IF k < i THEN b[k] ELSE Blank
  <2>1. w = [x \in 1..(Len(b) - 1) |-> IF x < i THEN b[x] ELSE Blank]
    BY DEF removeFromBuffer
  <2>2. DOMAIN w = 1..(Len(b) - 1)
    BY <2>1
  <2>3. w \in Seq(S \cup {Blank})
    BY RemoveType
  <2> HIDE DEF w
  <2>4. k \in 1..(Len(b) - 1)
    BY <2>2, <2>3, LenProperties
  <2> QED BY <1>1, <2>1, <2>4
<1> HIDE DEF w
<1>3. \A k \in 1..Len(w) : Of(w[k], a) => k \in 1..Len(b) /\ k < i /\ w[k] = b[k]
  BY <1>1, <1>2
<1>4. Has(w, a) => Has(b, a)
  BY <1>3 DEF Has
<1>5. Once(b, a) => Once(w, a)
  BY <1>3 DEF Once
<1>6. ASSUME Once(b, a), i \in 1..Len(b), Of(b[i], a), NEW k \in 1..Len(w), Of(w[k], a)
      PROVE  FALSE
  <2>1. k = i /\ k < i
    BY <1>3, <1>6 DEF Once
  <2> QED BY <2>1
<1> QED BY <1>4, <1>5, <1>6 DEF Has, w

\* One more packet is sent to hardware address mac.
LEMMA SendsOne ==
  ASSUME NEW a, NEW S, NEW p \in S, NEW mac, NEW out \in [Nodes -> Seq(S)],
         \A y \in Nodes : Once(out[y], a), Of(p, a) => \A y \in Nodes : ~Has(out[y], a)
  PROVE  \A y \in Nodes :
           /\ Once(Then(out, sendMessage(mac, p))[y], a)
           /\ Has(Then(out, sendMessage(mac, p))[y], a) <=> Has(out[y], a) \/ (y = mac /\ Of(p, a))
<1> SUFFICES ASSUME NEW y \in Nodes
             PROVE  /\ Once(Then(out, sendMessage(mac, p))[y], a)
                    /\ Has(Then(out, sendMessage(mac, p))[y], a)
                         <=> Has(out[y], a) \/ (y = mac /\ Of(p, a))
  OBVIOUS
<1> DEFINE q == out[y]
           w == IF y = mac THEN <<p>> ELSE <<>>
<1>1. Then(out, sendMessage(mac, p))[y] = q \o w
  BY DEF Then, sendMessage
<1>2. q \in Seq(S) /\ <<p>> \in Seq(S) /\ <<>> \in Seq(S)
  OBVIOUS
<1>3. w \in Seq(S)
  BY <1>2
<1>4. Once(w, a) /\ (Has(w, a) <=> y = mac /\ Of(p, a))
  <2>1. CASE y = mac
    <3>1. w = <<p>>
      BY <2>1
    <3>2. Once(<<p>>, a) /\ (Has(<<p>>, a) <=> Of(p, a))
      BY HasParts
    <3> HIDE DEF w
    <3> QED BY <2>1, <3>1, <3>2
  <2>2. CASE y # mac
    <3>1. w = <<>>
      BY <2>2
    <3>2. Once(<<>>, a) /\ ~Has(<<>>, a)
      BY HasParts
    <3> HIDE DEF w
    <3> QED BY <2>2, <3>1, <3>2
  <2> QED BY <2>1, <2>2
<1>5. Once(q, a) /\ ~(Has(q, a) /\ Has(w, a))
  BY <1>4
<1> HIDE DEF q, w
<1>6. /\ Has(q \o w, a) <=> Has(q, a) \/ Has(w, a)
      /\ Once(q \o w, a)
  BY <1>2, <1>3, <1>4, <1>5, HasParts
<1> QED BY <1>1, <1>4, <1>6 DEF q

\* One iteration of the loop of sendMessageFromBuffer.
LEMMA IterationSplits ==
  ASSUME NEW table, NEW stack, NEW i \in Nat \ {0}, NEW r \in Loops, NEW B, NEW a,
         Splits(B, r.buffer, r.out, a)
  PROVE  Splits(B, Iteration(table, stack, r, i).buffer, Iteration(table, stack, r, i).out, a)
<1> DEFINE p == IF i <= Len(r.buffer) THEN r.buffer[i] ELSE Blank
           dest == IF p = Blank THEN stack[i] ELSE p.dst
           mac == table[dest].next_hop
           s == [r EXCEPT !.undef = @ \/ p = Blank]
           c == [s EXCEPT !.crashed = TRUE]
           b == removeFromBuffer(r.buffer, i)
           o == Then(r.out, sendMessage(mac, p))
           t == [s EXCEPT !.buffer = b, !.out = o]
<1>1. /\ r.buffer \in Seq(Messages \cup {Blank}) /\ Len(r.buffer) \in Nat
      /\ r.out \in [Nodes -> Seq(Messages \cup {Blank})]
  BY LenProperties DEF Loops
<1>2. /\ p \in Messages \cup {Blank}
      /\ Of(p, a) => i \in 1..Len(r.buffer) /\ p = r.buffer[i]
  <2>1. ~Of(Blank, a)
    BY DEF Of, Blank
  <2> QED BY <1>1, <2>1, ElementOfSeq
<1> HIDE DEF p
<1>3. s.buffer = r.buffer /\ s.out = r.out /\ c.buffer = r.buffer /\ c.out = r.out
  BY DEF Loops
<1>4. t.buffer = b /\ t.out = o
  <2> HIDE DEF b, o
  <2> QED BY DEF Loops
<1>5. Iteration(table, stack, r, i) =
        IF r.crashed \/ dest = Crash THEN c
        ELSE IF Usable(table[dest]) THEN [s EXCEPT !.buffer = b, !.out = Then(@, sendMessage(mac, p))]
        ELSE s
  BY DEF Iteration, p
<1>6. t = [s EXCEPT !.buffer = b, !.out = Then(@, sendMessage(mac, p))]
  BY <1>3
<1> HIDE DEF s, c, t, dest, mac
<1>7. /\ Has(b, a) => Has(r.buffer, a)
      /\ Once(b, a)
      /\ Of(p, a) => ~Has(b, a)
  BY <1>1, <1>2, RemoveSplits DEF Splits
<1>8. Of(p, a) => Has(r.buffer, a) /\ \A y \in Nodes : ~Has(r.out[y], a)
  BY <1>2 DEF Splits, Has
<1>9. \A y \in Nodes : Once(o[y], a) /\ (Has(o[y], a) <=> Has(r.out[y], a) \/ (y = mac /\ Of(p, a)))
  <2> DEFINE M == Messages \cup {Blank}
  <2>1. /\ p \in M /\ r.out \in [Nodes -> Seq(M)] /\ \A y \in Nodes : Once(r.out[y], a)
        /\ Of(p, a) => \A y \in Nodes : ~Has(r.out[y], a)
    BY <1>1, <1>2, <1>8 DEF Splits
  <2> HIDE DEF M
  <2> QED BY <2>1, SendsOne
<1> HIDE DEF b, o
<1>10. Splits(B, b, o, a)
  BY <1>7, <1>8, <1>9 DEF Splits
<1> QED BY <1>3, <1>4, <1>5, <1>6, <1>10

\* sendMessageFromBuffer sends or keeps each packet, not both.
LEMMA SweepSplits ==
  ASSUME NEW n \in Nodes, NEW table \in TablesOf(n), NEW buffer \in Seq(Messages \cup {Blank}),
         NEW stack \in Stacks(buffer), NEW r, r = sendMessageFromBuffer(table, buffer, stack),
         NEW a, Once(buffer, a)
  PROVE  Splits(buffer, r.buffer, r.out, a)
<1> DEFINE N == Len(buffer)
           start == [buffer |-> buffer, out |-> Silent, crashed |-> FALSE, undef |-> FALSE]
           f == CHOOSE f : IsSweep(f, N, table, stack, start)
           Right(x) == Swept(n, Messages, x) /\ Splits(buffer, x.buffer, x.out, a)
           Bad == {i \in 0..N : ~Right(f[i])}
<1>1. N \in Nat
  BY LenProperties
<1>2. r = f[N]
  BY DEF sendMessageFromBuffer, IsSweep
<1>3. IsSweep(f, N, table, stack, start)
  <2> HIDE DEF N, start
  <2> QED BY <1>1, SweepExists
<1>4. Right(start)
  <2>1. Silent \in Out(n, Messages) /\ Silent \in Out(n, Messages \cup {Blank})
    BY Outputs
  <2>2. start \in Loops /\ start.undef = FALSE /\ start.buffer = buffer /\ start.out = Silent
    BY <2>1 DEF Loops, Out
  <2>3. \A y \in Nodes : Silent[y] = <<>>
    BY DEF Silent
  <2>4. Splits(buffer, buffer, Silent, a)
    BY <2>3, HasParts DEF Splits
  <2>5. Messages \cup (IF FALSE THEN {Blank} ELSE {}) = Messages
    OBVIOUS
  <2> HIDE DEF start
  <2> QED BY <2>1, <2>2, <2>4, <2>5 DEF Swept
<1> HIDE DEF f, start
<1>5. \A i \in 0..N : f[i] = IF i = 0 THEN start ELSE Iteration(table, stack, f[i - 1], i)
  BY <1>1, <1>3 DEF IsSweep
<1>6. ASSUME Bad # {} PROVE FALSE
  <2>1. PICK i \in Bad : \A j \in Bad : i <= j
    <3>1. Bad \in SUBSET Nat
      BY <1>1
    <3> HIDE DEF Bad
    <3> QED BY <1>6, <3>1, LeastNat
  <2>2. i \in 0..N /\ ~Right(f[i])
    BY <2>1
  <2> HIDE DEF Right
  <2>3. i # 0
    BY <1>4, <1>5, <2>2
  <2>4. i - 1 \in 0..N /\ i \in 1..N /\ ~(i <= i - 1) /\ i \in Nat \ {0}
    BY <1>1, <2>2, <2>3
  <2>5. Right(f[i - 1])
    BY <2>1, <2>4
  <2>6. stack[i] \in Nodes \cup {Crash}
    BY <2>4 DEF Stacks
  <2>7. f[i] = Iteration(table, stack, f[i - 1], i)
    BY <1>5, <2>2, <2>3
  <2> DEFINE x == f[i - 1]
  <2>8. Swept(n, Messages, x) /\ Splits(buffer, x.buffer, x.out, a) /\ x \in Loops
    BY <2>5 DEF Right, Swept
  <2>9. Messages \in SUBSET Messages /\ i \in Nat /\ i # 0
    BY <2>4
  <2> HIDE DEF x, Bad, N
  <2>10. Swept(n, Messages, Iteration(table, stack, x, i))
    BY <2>6, <2>8, <2>9, IterationKeeps
  <2>11. Splits(buffer, Iteration(table, stack, x, i).buffer, Iteration(table, stack, x, i).out, a)
    BY <2>4, <2>8, IterationSplits
  <2> QED BY <2>2, <2>7, <2>10, <2>11 DEF Right, x
<1>7. N \in 0..N
  BY <1>1
<1> HIDE DEF N
<1>8. Right(r)
  BY <1>2, <1>6, <1>7
<1> QED BY <1>8

\* Packets that are no messages.
Signals == RREQs \cup RREPs

LEMMA NoMessage ==
  ASSUME NEW a
  PROVE  /\ \A p \in Signals : ~Of(p, a)
         /\ Signals \subseteq Packets
<1>1. \A p \in Signals : p.type # 2
  BY DEF Signals, RREQs, RREPs
<1> QED BY <1>1, PacketKinds DEF Of, Signals

\* They may be sent before or after the messages, or alone.
LEMMA SignalsToo ==
  ASSUME NEW n \in Nodes, NEW a, NEW B, NEW buffer, NEW S, Signals \subseteq S,
         NEW more \in Out(n, Signals),
         NEW out \in Out(n, S), Splits(B, buffer, out, a)
  PROVE  /\ Splits(B, buffer, Then(more, out), a) /\ Splits(B, buffer, Then(out, more), a)
         /\ Then(more, out) \in Out(n, S) /\ Then(out, more) \in Out(n, S)
<1>1. more \in Out(n, S)
  BY OutMonotonic
<1>2. Then(more, out) \in Out(n, S) /\ Then(out, more) \in Out(n, S)
  BY <1>1, Outputs
<1>3. ASSUME NEW y \in Nodes
      PROVE  /\ Has(Then(more, out)[y], a) <=> Has(out[y], a)
             /\ Has(Then(out, more)[y], a) <=> Has(out[y], a)
             /\ Once(Then(more, out)[y], a) /\ Once(Then(out, more)[y], a)
  <2> DEFINE q == out[y]
             w == more[y]
  <2>1. q \in Seq(S) /\ w \in Seq(S) /\ w \in Seq(Signals)
    BY <1>1 DEF Out
  <2>2. Once(q, a)
    BY DEF Splits
  <2>3. Then(more, out)[y] = w \o q /\ Then(out, more)[y] = q \o w
    BY DEF Then
  <2> HIDE DEF q, w
  <2>4. ~Has(w, a) /\ Once(w, a)
    <3>1. \A p \in Signals : ~Of(p, a)
      BY NoMessage
    <3> QED BY <2>1, <3>1, HasNot
  <2>5. /\ Has(q \o w, a) <=> Has(q, a) \/ Has(w, a)
        /\ Has(w \o q, a) <=> Has(w, a) \/ Has(q, a)
        /\ Once(q \o w, a) /\ Once(w \o q, a)
    BY <2>1, <2>2, <2>4, HasParts
  <2> QED BY <2>3, <2>4, <2>5 DEF q
<1> DEFINE f == Then(more, out)
           g == Then(out, more)
<1>4. \A y \in Nodes : /\ Has(f[y], a) <=> Has(out[y], a)
                       /\ Has(g[y], a) <=> Has(out[y], a)
                       /\ Once(f[y], a) /\ Once(g[y], a)
  BY <1>3
<1> HIDE DEF f, g
<1>5. Splits(B, buffer, f, a) /\ Splits(B, buffer, g, a)
  BY <1>4 DEF Splits
<1> QED BY <1>2, <1>5 DEF f, g

\* Without messages from the buffer.
LEMMA SignalsOnly ==
  ASSUME NEW n \in Nodes, NEW a, NEW buffer, Once(buffer, a), NEW out \in Out(n, Signals)
  PROVE  Splits(buffer, buffer, out, a)
<1>1. \A y \in Nodes : ~Has(out[y], a) /\ Once(out[y], a)
  <2>1. \A p \in Signals : ~Of(p, a)
    BY NoMessage
  <2>2. \A y \in Nodes : out[y] \in Seq(Signals)
    BY DEF Out
  <2> QED BY <2>1, <2>2, HasNot
<1> QED BY <1>1 DEF Splits

\* What is worked off, with the frame that was taken: it has become the packet
\* behind those of the send buffer, or is given to a client.
LEMMA HandOf ==
  ASSUME Typed, NEW a, Spot(a), NEW n \in Nodes, NEW m \in Nodes, NEW queues,
         queues = net \/ (queues = Taken(m, n) /\ net[m][n] # <<>>),
         NEW extra \in Seq(Messages \cup {Blank}), Once(extra, a), NEW mail,
         Has(extra, a) => queues = Taken(m, n) /\ net[m][n] # <<>> /\ Of(Head(net[m][n]), a),
         \A c \in Clients :
           /\ Once(mail[c], a)
           /\ Has(mail[c], a) => /\ queues = Taken(m, n) /\ net[m][n] # <<>>
                                 /\ Of(Head(net[m][n]), a) /\ ~Has(extra, a),
         \A c, d \in Clients : Has(mail[c], a) /\ Has(mail[d], a) => c = d
  PROVE  /\ InHand(n, queues, odr[n].buffer \o extra, mail, a)
         /\ Once(odr[n].buffer \o extra, a)
<1> DEFINE q == odr[n].buffer
           R == Rest(n, queues)
           B == q \o extra
           taken == queues = Taken(m, n) /\ net[m][n] # <<>> /\ Of(Head(net[m][n]), a)
<1>1. q \in Seq(Messages \cup {Blank})
  BY DEF Typed, DaemonsOf
<1>2. AloneIn(R, a) /\ Once(q, a)
  BY RestAlone
<1>3. Has(q, a) => /\ \A b \in Boxes : ~Has(R[b], a)
                   /\ ~taken
  BY RestAlone
<1>4. taken => \A b \in Boxes : ~Has(R[b], a)
  BY RestAlone
<1>5. /\ Has(extra, a) => taken
      /\ \A c \in Clients : Has(mail[c], a) => taken /\ ~Has(extra, a)
  OBVIOUS
<1> HIDE DEF q, R, taken
<1>6. /\ Has(B, a) <=> Has(q, a) \/ Has(extra, a)
      /\ Once(B, a)
  BY <1>1, <1>2, <1>3, <1>5, HasParts
<1> HIDE DEF B
<1>7. InHand(n, queues, B, mail, a)
  BY <1>2, <1>3, <1>4, <1>5, <1>6 DEF InHand, R
<1> QED BY <1>6, <1>7 DEF B, q

\* No client is given anything.
NoMail == [c \in Clients |-> <<>>]

LEMMA NoMailIs ==
  ASSUME client \in [Clients -> ClientStates]
  PROVE  /\ NoMail \in [Clients -> Seq(Messages)]
         /\ \A c \in Clients : NoMail[c] = <<>> /\ client[c].socket = client[c].socket \o NoMail[c]
         /\ \A a : \A c \in Clients : Once(NoMail[c], a) /\ ~Has(NoMail[c], a)
<1>1. \A c \in Clients : NoMail[c] = <<>> /\ client[c].socket \in Seq(Messages)
  BY DEF NoMail, ClientStates
<1>2. NoMail \in [Clients -> Seq(Messages)]
  BY DEF NoMail
<1>3. ASSUME NEW c \in Clients PROVE client[c].socket = client[c].socket \o NoMail[c]
  <2> DEFINE q == client[c].socket
  <2>1. q \in Seq(Messages)
    BY <1>1
  <2> HIDE DEF q
  <2>2. q = q \o <<>>
    BY <2>1, ConcatEmptySeq
  <2>3. NoMail[c] = <<>>
    BY <1>1
  <2> QED BY <2>2, <2>3, Zenon DEF q
<1>4. ASSUME NEW a, NEW c \in Clients PROVE Once(NoMail[c], a) /\ ~Has(NoMail[c], a)
  <2>1. Once(<<>>, a) /\ ~Has(<<>>, a)
    BY HasParts
  <2>2. NoMail[c] = <<>>
    BY <1>1
  <2> QED BY <2>1, <2>2, Zenon
<1> QED BY <1>1, <1>2, <1>3, <1>4

\* Daemon n takes a frame of m or none, and sends no message.
LEMMA SignalPass ==
  ASSUME Typed, client \in [Clients -> ClientStates], NEW n \in Nodes, NEW m \in Nodes, NEW queues,
         queues = net \/ (queues = Taken(m, n) /\ net[m][n] # <<>>),
         NEW s, s.buffer = odr[n].buffer, NEW out \in Out(n, Signals), NEW crashed \in BOOLEAN,
         Finish(n, queues, s, out, crashed), client' = client, NEW a, Spot(a)
  PROVE  Spot(a)'
<1> DEFINE q == odr[n].buffer
<1>1. q \in Seq(Messages \cup {Blank})
  BY DEF Typed, DaemonsOf
<1>2. <<>> \in Seq(Messages \cup {Blank}) /\ Once(<<>>, a) /\ ~Has(<<>>, a)
  BY HasParts
<1>3. /\ NoMail \in [Clients -> Seq(Messages)]
      /\ \A c \in Clients : client[c].socket = client[c].socket \o NoMail[c]
      /\ \A c \in Clients : Once(NoMail[c], a) /\ ~Has(NoMail[c], a)
  BY NoMailIs
<1>4. InHand(n, queues, q \o <<>>, NoMail, a) /\ Once(q \o <<>>, a)
  BY <1>2, <1>3, HandOf
<1> HIDE DEF q
<1>5. q \o <<>> = q
  BY <1>1, ConcatEmptySeq
<1>6. InHand(n, queues, q, NoMail, a) /\ Once(q, a)
  BY <1>4, <1>5
<1>7. Splits(q, s.buffer, out, a)
  BY <1>6, SignalsOnly DEF q
<1>8. out \in Out(n, Packets \cup {Blank})
  <2>1. Signals \subseteq Packets \cup {Blank}
    BY NoMessage
  <2> QED BY <2>1, OutMonotonic
<1>9. s.buffer \in Seq(Messages \cup {Blank})
  BY <1>1 DEF q
<1>10. \A c \in Clients : client'[c].socket = client[c].socket \o NoMail[c]
  <2>1. ASSUME NEW c \in Clients PROVE client'[c].socket = client[c].socket \o NoMail[c]
    <3>1. client'[c].socket = client[c].socket
      OBVIOUS
    <3> QED BY <1>3, <3>1, Zenon
  <2> QED BY <2>1, Zenon
<1> QED BY <1>3, <1>6, <1>7, <1>8, <1>9, <1>10, PassSpot

\* Daemon n takes a frame of m or a message, comes to a table and a send buffer,
\* and works the buffer off.
Hauls(n, m, queues, table, buffer, stack, r, s, more, out, mail) ==
  /\ queues = net \/ (queues = Taken(m, n) /\ net[m][n] # <<>>)
  /\ table \in TablesOf(n) /\ buffer \in Seq(Messages \cup {Blank})
  /\ stack \in Stacks(buffer) /\ r = sendMessageFromBuffer(table, buffer, stack)
  /\ s.buffer = r.buffer /\ more \in Out(n, Signals)
  /\ out = r.out \/ out = Then(more, r.out) \/ out = Then(r.out, more)
  /\ Finish(n, queues, s, out, r.crashed)
  /\ mail \in [Clients -> Seq(Messages)]
  /\ \A c \in Clients : client'[c].socket = client[c].socket \o mail[c]

LEMMA HaulSpot ==
  ASSUME Typed, client \in [Clients -> ClientStates], NEW n \in Nodes, NEW m \in Nodes,
         NEW queues, NEW table, NEW buffer, NEW stack, NEW r, NEW s, NEW more, NEW out, NEW mail,
         Hauls(n, m, queues, table, buffer, stack, r, s, more, out, mail),
         NEW a, InHand(n, queues, buffer, mail, a), Once(buffer, a)
  PROVE  Spot(a)'
<1> USE DEF Hauls
<1> DEFINE S == Packets \cup {Blank}
<1>1. Splits(buffer, r.buffer, r.out, a)
  BY SweepSplits
<1>2. /\ r.buffer \in Seq(Messages \cup {Blank}) /\ r.crashed \in BOOLEAN
      /\ r.out \in Out(n, S)
  <2>1. Messages \in SUBSET Messages
    OBVIOUS
  <2>2. Swept(n, Messages, r)
    BY <2>1, Sweep
  <2>3. Messages \cup (IF r.undef THEN {Blank} ELSE {}) \subseteq S
    BY PacketKinds
  <2> QED BY <2>2, <2>3, OutMonotonic DEF Swept, Loops
<1>3. Signals \subseteq S
  BY NoMessage
<1> HIDE DEF S
<1>4. out \in Out(n, S) /\ Splits(buffer, r.buffer, out, a)
  <2> DEFINE kept == r.buffer
             o == r.out
             f == Then(more, o)
             g == Then(o, more)
  <2>1. o \in Out(n, S) /\ Splits(buffer, kept, o, a) /\ more \in Out(n, Signals)
    BY <1>1, <1>2
  <2>2. out = o \/ out = f \/ out = g
    OBVIOUS
  <2> HIDE DEF kept, o
  <2>3. /\ Splits(buffer, kept, f, a) /\ Splits(buffer, kept, g, a)
        /\ f \in Out(n, S) /\ g \in Out(n, S)
    BY <1>3, <2>1, SignalsToo
  <2> HIDE DEF f, g
  <2> QED BY <2>1, <2>2, <2>3 DEF kept
<1> QED BY <1>2, <1>4, PassSpot DEF S

\* A request that is handled lets out requests and a reply.
LEMMA HandleSignals ==
  ASSUME Typed, NEW n \in Nodes, NEW m \in Neighbours(n), NEW p \in RREQs, HandleRREQ(n, m, p)
  PROVE  \E U, out : /\ out \in Out(n, Signals)
                     /\ Finish(n, Taken(m, n), [odr[n] EXCEPT !.table = U], out, FALSE)
<1> DEFINE reverse == ReverseRoute(n, m, p)
           table == [reverse EXCEPT ![p.dst].bid[p.src] = p.id]
           used == [table EXCEPT ![p.dst].timestamp = now]
           further == [p EXCEPT !.hops = Hop(@)]
           marked == [p EXCEPT !.hops = Hop(@), !.sent = TRUE]
           reply == RREP(p.dst, p.src, 0, p.forced, p.id)
           mac == table[p.src].next_hop
           Ends(t, out) == Finish(n, Taken(m, n), [odr[n] EXCEPT !.table = t], out, FALSE)
<1>1. /\ p.src \in Nodes /\ p.dst \in Nodes /\ p.id \in Nat /\ p.forced \in BOOLEAN
  BY DEF RREQs
<1>2. \/ Ends(odr[n].table, Silent) \/ Ends(reverse, Silent)
      \/ Ends(table, Silent) \/ Ends(table, broadcast(n, further))
      \/ Ends(used, IF p.sent THEN Silent ELSE Answer(n, p, table))
      \/ Ends(table, Answer(n, p, table))
  BY DEF HandleRREQ
<1>3. \/ Answer(n, p, table) = Then(sendMessage(mac, reply), broadcast(n, marked))
      \/ Answer(n, p, table) = Then(sendMessage(mac, reply), Silent)
  BY DEF Answer
<1>4. reverse \in TablesOf(n)
  BY ReverseLearns DEF Learns
<1>5. mac \in Neighbours(n) \cup {NoMac}
  <2> DEFINE f == [reverse[p.dst] EXCEPT !.bid[p.src] = p.id]
  <2>1. reverse \in [Nodes -> EntriesOf(n)]
    BY <1>4 DEF TablesOf
  <2>2. f \in EntriesOf(n)
    BY <1>1, <2>1, MarkedEntry
  <2>3. table = [reverse EXCEPT ![p.dst] = f]
    OBVIOUS
  <2> HIDE DEF f, reverse, table
  <2>4. table[p.src] \in EntriesOf(n)
    BY <1>1, <2>1, <2>2, <2>3
  <2> QED BY <2>4 DEF EntriesOf
<1>6. further \in Signals /\ marked \in Signals /\ reply \in Signals
  <2>1. reply \in RREPs
    BY <1>1, OdrAssumption DEF RREP, RREPs, Hops
  <2> HIDE DEF reply, further, marked
  <2>2. further \in RREQs /\ marked \in RREQs
    BY HopsOn DEF further, marked
  <2> QED BY <2>1, <2>2 DEF Signals
<1> HIDE DEF further, marked, reply, mac
<1>7. /\ Silent \in Out(n, Signals) /\ broadcast(n, further) \in Out(n, Signals)
      /\ broadcast(n, marked) \in Out(n, Signals) /\ sendMessage(mac, reply) \in Out(n, Signals)
  BY <1>5, <1>6, Outputs
<1>8. Answer(n, p, table) \in Out(n, Signals)
  BY <1>3, <1>7, Outputs
<1> HIDE DEF reverse, table, used
<1>9. \E U, out : out \in Out(n, Signals) /\ Ends(U, out)
  <2> HIDE DEF Ends
  <2> QED BY <1>2, <1>7, <1>8, Zenon
<1> QED BY <1>9

\* It moves no message.
LEMMA HandleSpot ==
  ASSUME OdrInv, NEW n \in Nodes, NEW m \in Nodes, net[m][n] # <<>>, NEW p \in RREQs,
         HandleRREQ(n, m, p), client' = client, NEW a, Spot(a)
  PROVE  Spot(a)'
<1>1. Typed /\ Traffic /\ client \in [Clients -> ClientStates] /\ odr[n] \in DaemonsOf(n)
  BY DEF OdrInv, Callers, Typed
<1>2. m \in Neighbours(n)
  BY <1>1, Frame
<1>3. PICK U, out : /\ out \in Out(n, Signals)
                    /\ Finish(n, Taken(m, n), [odr[n] EXCEPT !.table = U], out, FALSE)
  BY <1>1, <1>2, HandleSignals
<1> DEFINE s == [odr[n] EXCEPT !.table = U]
           queues == Taken(m, n)
<1>4. s.buffer = odr[n].buffer /\ queues = Taken(m, n) /\ Finish(n, queues, s, out, FALSE)
  BY <1>1, <1>3 DEF DaemonsOf
<1> HIDE DEF s, queues
<1> QED BY <1>1, <1>3, <1>4, SignalPass

\* The daemon ends.
LEMMA CrashSpot ==
  ASSUME OdrInv, NEW n \in Nodes, NEW m \in Nodes, NEW queues,
         queues = net \/ (queues = Taken(m, n) /\ net[m][n] # <<>>),
         Finish(n, queues, odr[n], Silent, TRUE), client' = client, NEW a, Spot(a)
  PROVE  Spot(a)'
<1>1. Typed /\ client \in [Clients -> ClientStates]
  BY DEF OdrInv, Callers
<1>2. Silent \in Out(n, Signals)
  BY Outputs
<1> QED BY <1>1, <1>2, SignalPass

\* A reply is passed on, or lets the messages go that wait for it.
LEMMA RREPSpot ==
  ASSUME OdrInv, NEW n \in Nodes, NEW m \in Nodes, ReceiveRREP(n, m), NEW a, Spot(a)
  PROVE  Spot(a)'
<1> DEFINE p == Head(net[m][n])
           table == ForwardRoute(n, m, p)
           onward == Relay(table, p)
           further == [p EXCEPT !.hops = Hop(@)]
           buffer == odr[n].buffer
           queues == Taken(m, n)
<1>1. /\ net[m][n] # <<>> /\ p.type = 1 /\ Typed /\ Traffic /\ odr[n] \in DaemonsOf(n)
      /\ buffer \in Seq(Messages \cup {Blank}) /\ client' = client
      /\ client \in [Clients -> ClientStates]
  BY DEF ReceiveRREP, OdrInv, Typed, Callers, DaemonsOf
<1>2. p # Blank
  BY <1>1 DEF Blank
<1>3. m \in Neighbours(n) /\ p \in Good(m, odr[m].table, RoutesKept, ended, asked)
  BY <1>1, <1>2, Frame
<1>4. \/ \E stack \in Stacks(buffer) :
           LET r == sendMessageFromBuffer(table, buffer, stack)
           IN  Finish(n, queues, [odr[n] EXCEPT !.table = table, !.buffer = r.buffer],
                      r.out, r.crashed)
      \/ Finish(n, queues, [odr[n] EXCEPT !.table = table],
                sendMessage(onward.next_hop, further), onward.out_interface = NoMac)
  BY DEF ReceiveRREP
<1>5. queues = Taken(m, n)
  OBVIOUS
<1> HIDE DEF p, queues
<1>6. p \in RREPs /\ p.dst \in Nodes
  BY <1>1, <1>3, PacketKinds DEF Good, RREPs
<1>7. table \in TablesOf(n)
  BY <1>1, <1>3, <1>6, ForwardLearns DEF Learns
<1> HIDE DEF table
<1>8. CASE \E stack \in Stacks(buffer) :
             LET r == sendMessageFromBuffer(table, buffer, stack)
             IN  Finish(n, queues, [odr[n] EXCEPT !.table = table, !.buffer = r.buffer],
                        r.out, r.crashed)
  <2>1. PICK stack \in Stacks(buffer) :
             LET r == sendMessageFromBuffer(table, buffer, stack)
             IN  Finish(n, queues, [odr[n] EXCEPT !.table = table, !.buffer = r.buffer],
                        r.out, r.crashed)
    BY <1>8
  <2> DEFINE r == sendMessageFromBuffer(table, buffer, stack)
             s == [odr[n] EXCEPT !.table = table, !.buffer = r.buffer]
             out == r.out
  <2>2. /\ r = sendMessageFromBuffer(table, buffer, stack) /\ out = r.out
        /\ Finish(n, queues, s, out, r.crashed)
    BY <2>1
  <2> HIDE DEF r, out
  <2>3. s.buffer = r.buffer
    BY <1>1 DEF DaemonsOf
  <2>4. /\ NoMail \in [Clients -> Seq(Messages)]
        /\ \A c \in Clients : client[c].socket = client[c].socket \o NoMail[c]
        /\ \A c \in Clients : Once(NoMail[c], a) /\ ~Has(NoMail[c], a)
    BY <1>1, NoMailIs
  <2>5. \A c \in Clients : client'[c].socket = client[c].socket \o NoMail[c]
    BY <1>1, <2>4, Zenon
  <2>6. <<>> \in Seq(Messages \cup {Blank}) /\ Once(<<>>, a) /\ ~Has(<<>>, a)
    BY HasParts
  <2>7. InHand(n, queues, buffer \o <<>>, NoMail, a) /\ Once(buffer \o <<>>, a)
    BY <1>1, <1>5, <2>4, <2>6, HandOf
  <2> HIDE DEF s, buffer
  <2>8. buffer \o <<>> = buffer
    BY <1>1, ConcatEmptySeq
  <2>9. InHand(n, queues, buffer, NoMail, a) /\ Once(buffer, a)
    BY <2>7, <2>8
  <2>10. Silent \in Out(n, Signals)
    BY Outputs
  <2>11. Hauls(n, m, queues, table, buffer, stack, r, s, Silent, out, NoMail)
    BY <1>1, <1>5, <1>7, <2>2, <2>3, <2>4, <2>5, <2>10 DEF Hauls
  <2> QED BY <1>1, <2>9, <2>11, HaulSpot
<1>9. CASE Finish(n, queues, [odr[n] EXCEPT !.table = table],
                  sendMessage(onward.next_hop, further), onward.out_interface = NoMac)
  <2> DEFINE s == [odr[n] EXCEPT !.table = table]
             out == sendMessage(onward.next_hop, further)
             crashed == onward.out_interface = NoMac
  <2>1. further \in Signals
    BY <1>6, HopsOn DEF Signals
  <2>2. onward.next_hop \in Neighbours(n) \cup {NoMac}
    BY <1>6, <1>7 DEF Relay, TablesOf, EntriesOf
  <2>3. s.buffer = odr[n].buffer
    BY <1>1 DEF DaemonsOf
  <2> HIDE DEF further, s, onward
  <2>4. out \in Out(n, Signals)
    BY <2>1, <2>2, Outputs
  <2>5. Finish(n, queues, s, out, crashed) /\ crashed \in BOOLEAN
    BY <1>9 DEF s
  <2> HIDE DEF out, crashed
  <2> QED BY <1>1, <1>5, <2>3, <2>4, <2>5, SignalPass
<1> QED BY <1>4, <1>8, <1>9

\* searchMap finds clients of the node.
LEMMA FoundClient ==
  ASSUME Typed, NEW n \in Nodes, NEW port, searchMap(odr[n].MapArray, port) # Crash
  PROVE  /\ searchMap(odr[n].MapArray, port) \in Clients
         /\ Home[searchMap(odr[n].MapArray, port)] = n
<1> DEFINE M == odr[n].MapArray
           to == searchMap(M, port)
<1>1. M \in Seq(PortEntries(n))
  BY DEF Typed, DaemonsOf
<1> HIDE DEF M
<1>2. PICK k \in 1..Len(M) : M[k].portNum = port /\ to = M[k].sun_path
  BY <1>1, SearchFinds DEF M
<1>3. M[k] \in PortEntries(n)
  BY <1>1, ElementOfSeq
<1>4. to \in Clients /\ Home[to] = n
  BY <1>2, <1>3 DEF PortEntries
<1> QED BY <1>4 DEF M

\* The packet p is given to client to.
MailTo(to, p) == [c \in Clients |-> IF c = to THEN <<p>> ELSE <<>>]

LEMMA DeliverIs ==
  ASSUME client \in [Clients -> ClientStates], NEW to \in Clients, NEW p \in Messages,
         client' = Deliver(to, p)
  PROVE  /\ MailTo(to, p) \in [Clients -> Seq(Messages)]
         /\ \A c \in Clients : client'[c].socket = client[c].socket \o MailTo(to, p)[c]
         /\ \A a : \A c \in Clients :
              Once(MailTo(to, p)[c], a) /\ (Has(MailTo(to, p)[c], a) => c = to /\ Of(p, a))
<1> DEFINE mail == MailTo(to, p)
           w == <<p>>
           socket == Append(client[to].socket, p)
           q == [client[to] EXCEPT !.socket = socket]
<1>1. w \in Seq(Messages) /\ <<>> \in Seq(Messages)
  OBVIOUS
<1>2. client[to].socket \in Seq(Messages) /\ client[to] \in ClientStates
  BY DEF ClientStates
<1>3. socket = client[to].socket \o w
  BY <1>2, AppendIsConcat
<1>4. \A c \in Clients : mail[c] = IF c = to THEN w ELSE <<>>
  BY DEF MailTo
<1>5. mail = [c \in Clients |-> mail[c]]
  BY DEF MailTo
<1>6. ASSUME NEW a PROVE /\ Once(w, a) /\ (Has(w, a) <=> Of(p, a))
                         /\ Once(<<>>, a) /\ ~Has(<<>>, a)
  BY HasParts
<1>7. client' = [client EXCEPT ![to] = q]
  BY DEF Deliver
<1> HIDE DEF mail, w, socket
<1>8. q.socket = socket
  BY <1>2 DEF ClientStates
<1> HIDE DEF q
<1>9. \A c \in Clients : mail[c] \in Seq(Messages)
  BY <1>1, <1>4
<1>10. mail \in [Clients -> Seq(Messages)]
  BY <1>5, <1>9
<1>11. ASSUME NEW c \in Clients PROVE client'[c].socket = client[c].socket \o mail[c]
  <2>1. CASE c = to
    <3>1. client'[c].socket = socket
      BY <1>7, <1>8, <2>1
    <3>2. mail[c] = w
      BY <1>4, <2>1
    <3> QED BY <1>3, <2>1, <3>1, <3>2, Zenon
  <2>2. CASE c # to
    <3>1. client'[c] = client[c]
      BY <1>7, <2>2
    <3>2. mail[c] = <<>>
      BY <1>4, <2>2
    <3> DEFINE old == client[c].socket
    <3>3. old \in Seq(Messages)
      BY DEF ClientStates
    <3> HIDE DEF old
    <3>4. old = old \o <<>>
      BY <3>3, ConcatEmptySeq
    <3> QED BY <3>1, <3>2, <3>4, Zenon DEF old
  <2> QED BY <2>1, <2>2
<1>12. ASSUME NEW a, NEW c \in Clients
       PROVE  Once(mail[c], a) /\ (Has(mail[c], a) => c = to /\ Of(p, a))
  <2>1. CASE c = to
    BY <1>4, <1>6, <2>1, Zenon
  <2>2. CASE c # to
    BY <1>4, <1>6, <2>2, Zenon
  <2> QED BY <2>1, <2>2
<1> QED BY <1>10, <1>11, <1>12 DEF mail

\* What has come out of p is a only if p is.
LEMMA CameFrom ==
  ASSUME NEW n \in Nodes, NEW p \in Messages, NEW a
  PROVE  /\ Of([p EXCEPT !.hops = Hop(@)], a) => Of(p, a)
         /\ p.dst = n /\ p.msg = "request" /\ Of(Serve(n, p), a) => Of(p, a)
<1> DEFINE q == [p EXCEPT !.hops = Hop(@)]
           r == Serve(n, p)
<1>1. /\ q.type = p.type /\ q.port = p.port /\ q.msg = p.msg
      /\ q.src = p.src /\ q.dst = p.dst /\ p.type = 2
  BY DEF Messages
<1>2. r.port = p.port /\ r.msg = "response" /\ r.src = n /\ r.dst = p.src
  BY DEF Serve, App
<1> HIDE DEF q, r
<1>3. Of(q, a) => Of(p, a)
  BY <1>1 DEF Of
<1>4. p.dst = n /\ p.msg = "request" /\ Of(r, a) => Of(p, a)
  <2>1. "response" # "request"
    OBVIOUS
  <2> QED BY <1>1, <1>2, <2>1 DEF Of
<1> QED BY <1>3, <1>4 DEF q, r

\* An application message moves on: into the send buffer, or to a client.
LEMMA AppSpot ==
  ASSUME OdrInv, NEW n \in Nodes, NEW m \in Nodes, ReceiveApp(n, m), NEW a, Spot(a)
  PROVE  Spot(a)'
<1> DEFINE p == Head(net[m][n])
           table == [odr[n].table EXCEPT ![p.src] = Through(@, m, Hop(p.hops))]
           served == p.dst = n /\ p.msg = "request"
           delivered == p.dst = n /\ p.msg = "response"
           to == searchMap(odr[n].MapArray, p.port)
           extra == IF served THEN <<Serve(n, p)>>
                    ELSE IF delivered THEN <<>>
                    ELSE <<[p EXCEPT !.hops = Hop(@)]>>
           buffer == odr[n].buffer \o extra
           ends == (served /\ n \notin Servers) \/ (delivered /\ to = Crash)
           request == RREQ(n, p.dst, 0, FALSE, TRUE, odr[n].broadcast_id + 1)
           call == broadcast(n, request)
           queues == Taken(m, n)
           Pass(r) ==
             Finish(n, queues,
                  [odr[n] EXCEPT !.table = table, !.buffer = r.buffer,
                                 !.broadcast_id = IF Len(r.buffer) > 0 THEN @ + 1 ELSE @],
                  IF Len(r.buffer) > 0 /\ ~r.crashed THEN Then(r.out, call) ELSE r.out,
                  r.crashed)
<1>1. /\ net[m][n] # <<>> /\ p.type = 2 /\ Typed /\ Traffic /\ odr[n] \in DaemonsOf(n)
      /\ odr[n].table \in [Nodes -> EntriesOf(n)] /\ now \in Nat
      /\ client \in [Clients -> ClientStates]
  BY DEF ReceiveApp, OdrInv, Typed, Callers, DaemonsOf, TablesOf
<1>2. p # Blank
  BY <1>1 DEF Blank
<1>3. m \in Neighbours(n) /\ p \in Good(m, odr[m].table, RoutesKept, ended, asked)
  BY <1>1, <1>2, Frame
<1>4. /\ \/ ends /\ Finish(n, queues, odr[n], Silent, TRUE)
         \/ ~ends /\ \E stack \in Stacks(buffer) : Pass(sendMessageFromBuffer(table, buffer, stack))
      /\ client' = IF delivered /\ ~ends THEN Deliver(to, p) ELSE client
  BY DEF ReceiveApp
<1>5. queues = Taken(m, n) /\ p = Head(net[m][n])
  OBVIOUS
<1> HIDE DEF p, queues
<1>6. p \in Messages /\ p.src \in Nodes /\ p.dst \in Nodes /\ p.hops \in Hops
  BY <1>1, <1>3, PacketKinds DEF Good, Messages, Hops
<1>7. CASE ends
  BY <1>1, <1>4, <1>5, <1>7, CrashSpot
<1>8. table \in TablesOf(n)
  <2> DEFINE f == Through(odr[n].table[p.src], m, Hop(p.hops))
  <2>1. f \in EntriesOf(n)
    <3>1. odr[n].table[p.src] \in EntriesOf(n)
      BY <1>1, <1>6
    <3> QED BY <1>1, <1>3, <1>6, <3>1, HopInRange, ThroughEntry
  <2>2. table = [odr[n].table EXCEPT ![p.src] = f]
    OBVIOUS
  <2> HIDE DEF f, table
  <2> QED BY <1>1, <2>1, <2>2 DEF TablesOf
<1> HIDE DEF table
<1>9. /\ extra \in Seq(Messages \cup {Blank}) /\ Once(extra, a)
      /\ Has(extra, a) => Of(p, a) /\ ~delivered
  <2> DEFINE q == [p EXCEPT !.hops = Hop(@)]
             z == Serve(n, p)
             M == Messages \cup {Blank}
  <2>1. q \in M /\ (served => z \in M)
    BY <1>6, HopsOn, Served
  <2>2. (Of(q, a) => Of(p, a)) /\ (served /\ Of(z, a) => Of(p, a))
    BY <1>6, CameFrom
  <2>3. ~(served /\ delivered)
    OBVIOUS
  <2>4. extra = IF served THEN <<z>> ELSE IF delivered THEN <<>> ELSE <<q>>
    OBVIOUS
  <2> HIDE DEF q, z, M, extra, served, delivered
  <2>5. /\ ~Has(<<>>, a) /\ Once(<<>>, a)
        /\ \A x : (Has(<<x>>, a) <=> Of(x, a)) /\ Once(<<x>>, a)
    BY HasParts
  <2>6. \A x : x \in M => <<x>> \in Seq(M)
    OBVIOUS
  <2>7. <<>> \in Seq(M)
    OBVIOUS
  <2>8. extra \in Seq(M) /\ Once(extra, a) /\ (Has(extra, a) => Of(p, a) /\ ~delivered)
    <3>1. CASE served
      <4>1. extra = <<z>>
        BY <2>4, <3>1
      <4> QED BY <2>1, <2>2, <2>3, <2>5, <2>6, <3>1, <4>1, Zenon
    <3>2. CASE ~served /\ delivered
      <4>1. extra = <<>>
        BY <2>4, <3>2
      <4> QED BY <2>5, <2>7, <4>1, Zenon
    <3>3. CASE ~served /\ ~delivered
      <4>1. extra = <<q>>
        BY <2>4, <3>3
      <4> QED BY <2>1, <2>2, <2>5, <2>6, <3>3, <4>1, Zenon
    <3> QED BY <3>1, <3>2, <3>3
  <2> QED BY <2>8 DEF M
<1> DEFINE mail == IF delivered THEN MailTo(to, p) ELSE NoMail
<1>10. CASE ~ends
  <2>1. delivered => to \in Clients
    BY <1>1, <1>10, FoundClient
  <2>2. client' = IF delivered THEN Deliver(to, p) ELSE client
    BY <1>4, <1>10
  <2>3. /\ mail \in [Clients -> Seq(Messages)]
        /\ \A c \in Clients : client'[c].socket = client[c].socket \o mail[c]
        /\ \A c \in Clients : Once(mail[c], a) /\ (Has(mail[c], a) => delivered /\ c = to /\ Of(p, a))
    <3>1. CASE delivered
      <4> HIDE DEF to
      <4>1. mail = MailTo(to, p) /\ client' = Deliver(to, p) /\ to \in Clients
        BY <2>1, <2>2, <3>1
      <4>2. /\ MailTo(to, p) \in [Clients -> Seq(Messages)]
            /\ \A c \in Clients : client'[c].socket = client[c].socket \o MailTo(to, p)[c]
            /\ \A c \in Clients :
                 Once(MailTo(to, p)[c], a) /\ (Has(MailTo(to, p)[c], a) => c = to /\ Of(p, a))
        BY <1>1, <1>6, <4>1, DeliverIs
      <4> HIDE DEF mail, delivered
      <4> QED BY <3>1, <4>1, <4>2, Zenon
    <3>2. CASE ~delivered
      <4>1. mail = NoMail /\ client' = client
        BY <2>2, <3>2
      <4>2. /\ NoMail \in [Clients -> Seq(Messages)]
            /\ \A c \in Clients : client[c].socket = client[c].socket \o NoMail[c]
            /\ \A c \in Clients : Once(NoMail[c], a) /\ ~Has(NoMail[c], a)
        BY <1>1, NoMailIs
      <4> HIDE DEF mail, delivered
      <4> QED BY <4>1, <4>2, Zenon
    <3> QED BY <3>1, <3>2
  <2>4. PICK stack \in Stacks(buffer) : Pass(sendMessageFromBuffer(table, buffer, stack))
    <3> HIDE DEF Pass
    <3> QED BY <1>4, <1>10
  <2> HIDE DEF mail, extra, delivered, to
  <2>5. InHand(n, queues, buffer, mail, a) /\ Once(buffer, a)
    <3>1. queues = net \/ (queues = Taken(m, n) /\ net[m][n] # <<>>)
      BY <1>1, <1>5
    <3>2. Has(extra, a) => queues = Taken(m, n) /\ net[m][n] # <<>> /\ Of(Head(net[m][n]), a)
      BY <1>1, <1>5, <1>9
    <3>3. \A c \in Clients :
            /\ Once(mail[c], a)
            /\ Has(mail[c], a) => /\ queues = Taken(m, n) /\ net[m][n] # <<>>
                                  /\ Of(Head(net[m][n]), a) /\ ~Has(extra, a)
      BY <1>1, <1>5, <1>9, <2>3
    <3>4. \A c, d \in Clients : Has(mail[c], a) /\ Has(mail[d], a) => c = d
      BY <2>3
    <3>5. extra \in Seq(Messages \cup {Blank}) /\ Once(extra, a)
      BY <1>9
    <3> HIDE DEF mail, extra
    <3> QED BY <1>1, <3>1, <3>2, <3>3, <3>4, <3>5, HandOf
  <2>6. buffer \in Seq(Messages \cup {Blank})
    <3>1. odr[n].buffer \in Seq(Messages \cup {Blank})
      BY <1>1 DEF DaemonsOf
    <3> QED BY <1>9, <3>1, ConcatProperties
  <2>7. call \in Out(n, Signals)
    <3>1. odr[n].broadcast_id + 1 \in Nat
      BY <1>1 DEF DaemonsOf
    <3>2. request \in Signals
      BY <1>6, <3>1, OdrAssumption DEF RREQ, RREQs, Signals, Hops
    <3> HIDE DEF request
    <3> QED BY <3>2, Outputs
  <2> DEFINE r == sendMessageFromBuffer(table, buffer, stack)
             b == IF Len(r.buffer) > 0 THEN odr[n].broadcast_id + 1 ELSE odr[n].broadcast_id
             s == [odr[n] EXCEPT !.table = table, !.buffer = r.buffer, !.broadcast_id = b]
             out == IF Len(r.buffer) > 0 /\ ~r.crashed THEN Then(r.out, call) ELSE r.out
  <2> HIDE DEF call, buffer
  <2>8. Finish(n, queues, s, out, r.crashed)
    BY <2>4
  <2>9. r = sendMessageFromBuffer(table, buffer, stack) /\ (out = r.out \/ out = Then(r.out, call))
    OBVIOUS
  <2>10. s.buffer = r.buffer
    BY <1>1 DEF DaemonsOf
  <2> HIDE DEF r, s, out
  <2>11. Hauls(n, m, queues, table, buffer, stack, r, s, call, out, mail)
    BY <1>1, <1>5, <1>8, <2>3, <2>6, <2>7, <2>8, <2>9, <2>10 DEF Hauls
  <2> QED BY <1>1, <2>5, <2>11, HaulSpot
<1> QED BY <1>4, <1>7, <1>10

\* What a client is given is a response for its node.
LEMMA AppMail ==
  ASSUME OdrInv, Mail, NEW n \in Nodes, NEW m \in Nodes, ReceiveApp(n, m)
  PROVE  Mail'
<1> DEFINE p == Head(net[m][n])
           to == searchMap(odr[n].MapArray, p.port)
<1>1. /\ net[m][n] # <<>> /\ p.type = 2 /\ Typed /\ Traffic
      /\ client \in [Clients -> ClientStates]
      /\ \/ client' = client
         \/ client' = Deliver(to, p) /\ to # Crash /\ p.dst = n /\ p.msg = "response"
  BY DEF ReceiveApp, OdrInv, Callers
<1>2. CASE client' = client
  BY <1>2 DEF Mail
<1>3. CASE client' = Deliver(to, p) /\ to # Crash /\ p.dst = n /\ p.msg = "response"
  <2>1. to \in Clients /\ Home[to] = n
    BY <1>1, <1>3, FoundClient
  <2>2. p \in Messages
    <3>1. p # Blank
      BY <1>1 DEF Blank
    <3> QED BY <1>1, <3>1, Frame, PacketKinds DEF Good
  <2> DEFINE socket == Append(client[to].socket, p)
             q == [client[to] EXCEPT !.socket = socket]
             old == client[to].socket
  <2> HIDE DEF p, to
  <2>3. client' = [client EXCEPT ![to] = q]
    BY <1>3 DEF Deliver
  <2>4. old \in Seq(Messages) /\ client[to] \in ClientStates
    BY <1>1, <2>1 DEF ClientStates
  <2>5. /\ Len(socket) = Len(old) + 1 /\ Len(old) \in Nat
        /\ \A i \in 1..Len(old) : socket[i] = old[i]
        /\ socket[Len(old) + 1] = p
    <3> HIDE DEF old
    <3> QED BY <2>2, <2>4, AppendProperties, LenProperties DEF old
  <2> HIDE DEF socket
  <2>6. q.socket = socket
    BY <2>4 DEF ClientStates
  <2> HIDE DEF q
  <2>7. ASSUME NEW c \in Clients, NEW i \in 1..Len(client'[c].socket)
        PROVE  client'[c].socket[i].msg = "response" /\ client'[c].socket[i].dst = Home[c]
    <3>1. CASE c # to
      BY <1>1, <2>3, <3>1 DEF Mail
    <3>2. CASE c = to
      <4>1. client'[c].socket = socket
        BY <1>1, <2>3, <2>6, <3>2
      <4>2. CASE i \in 1..Len(old)
        BY <2>1, <2>5, <3>2, <4>1, <4>2 DEF Mail
      <4>3. CASE i \notin 1..Len(old)
        <5>1. i = Len(old) + 1
          BY <2>5, <4>1, <4>3
        <5> QED BY <1>3, <2>1, <2>5, <3>2, <4>1, <5>1
      <4> QED BY <4>2, <4>3
    <3> QED BY <3>1, <3>2
  <2> QED BY <2>7 DEF Mail
<1> QED BY <1>1, <1>2, <1>3

\* A port that is not given out yet is on no packet.
LEMMA NotUsed ==
  ASSUME NEW n \in Nodes, PortsAt(n), asked \subseteq Questions, odr[n].sourcePort \in Nat,
         NEW a, Home[a.client] = n, a.port = odr[n].sourcePort, NEW p, Of(p, a), IsOf(p, asked)
  PROVE  FALSE
<1>1. PICK q \in asked : Of(p, q)
  BY DEF IsOf
<1>2. q.port = a.port /\ Home[q.client] = n
  BY <1>1 DEF Of
<1>3. q.port < odr[n].sourcePort /\ q.port \in Nat
  BY <1>2 DEF PortsAt, Questions
<1> QED BY <1>2, <1>3

LEMMA Absent ==
  ASSUME OdrInv, Mail, NEW n \in Nodes, n \notin ended, NEW a, Home[a.client] = n,
         a.port = odr[n].sourcePort
  PROVE  \A b \in Boxes : ~Has(Now[b], a)
<1>1. /\ Typed /\ Traffic /\ PortsAt(n) /\ Callers /\ asked \subseteq Questions
      /\ odr[n].sourcePort \in Nat
  BY DEF OdrInv, Ports, Callers, Typed, DaemonsOf
<1>2. ASSUME NEW p \in Packets \cup {Blank},
             p # Blank /\ p.type = 2 /\ AskedAt(p) \notin ended => IsOf(p, asked)
      PROVE  ~Of(p, a)
  <2>1. SUFFICES ASSUME Of(p, a) PROVE FALSE
    OBVIOUS
  <2>2. p.type = 2 /\ AskedAt(p) = n
    BY <2>1 DEF Of, AskedAt
  <2>3. p # Blank
    BY <2>2 DEF Blank
  <2> QED BY <1>1, <1>2, <2>1, <2>2, <2>3, NotUsed
<1>3. ASSUME NEW x, NEW p,
             \/ p \in Held(x, odr[x].table, RoutesKept, ended, asked)
             \/ p \in Sent(x, odr[x].table, RoutesKept, ended, asked)
      PROVE  ~Of(p, a)
  BY <1>2, <1>3 DEF Held, Sent, Good
<1>4. ASSUME NEW x \in Nodes PROVE ~Has(Now[<<"buffer", x, x>>], a)
  <2> DEFINE H == Held(x, odr[x].table, RoutesKept, ended, asked)
  <2>1. odr[x].buffer \in Seq(H) /\ \A p \in H : ~Of(p, a)
    BY <1>1, <1>3 DEF Traffic
  <2> HIDE DEF H
  <2>2. ~Has(odr[x].buffer, a)
    BY <2>1, HasNot
  <2> QED BY <2>2, BoxesNow
<1>5. ASSUME NEW x \in Nodes, NEW y \in Nodes PROVE ~Has(Now[<<"link", x, y>>], a)
  <2> DEFINE H == Sent(x, odr[x].table, RoutesKept, ended, asked)
  <2>1. net[x][y] \in Seq(H) /\ \A p \in H : ~Of(p, a)
    BY <1>1, <1>3 DEF Traffic
  <2> HIDE DEF H
  <2>2. ~Has(net[x][y], a)
    BY <2>1, HasNot
  <2> QED BY <2>2, BoxesNow
<1>6. ASSUME NEW c \in Clients PROVE ~Has(Now[<<"socket", c, c>>], a)
  <2>1. ASSUME NEW i \in 1..Len(client[c].socket), Of(client[c].socket[i], a) PROVE FALSE
    <3> DEFINE p == client[c].socket[i]
    <3>1. p.msg = "response" /\ p.dst = Home[c]
      BY DEF Mail
    <3>2. Home[c] = n
      BY <2>1, <3>1 DEF Of
    <3>3. AnswersOf(c)
      BY <1>1, <3>2 DEF Callers
    <3>4. IsOf(p, asked)
      BY <3>3 DEF AnswersOf, IsOf
    <3> QED BY <1>1, <2>1, <3>4, NotUsed
  <2>2. ~Has(client[c].socket, a)
    BY <2>1 DEF Has
  <2> QED BY <2>2, BoxesNow
<1> QED BY <1>4, <1>5, <1>6, BoxKinds

\* The send buffer of n gets the message of a new port.
LEMMA NewHand ==
  ASSUME Typed, client \in [Clients -> ClientStates], NEW n \in Nodes,
         NEW a, \A b \in Boxes : ~Has(Now[b], a), NEW first \in Messages
  PROVE  /\ InHand(n, net, odr[n].buffer \o <<first>>, NoMail, a)
         /\ Once(odr[n].buffer \o <<first>>, a)
<1> DEFINE q == odr[n].buffer
           w == <<first>>
           R == Rest(n, net)
<1>1. q \in Seq(Messages \cup {Blank}) /\ w \in Seq(Messages \cup {Blank})
  BY DEF Typed, DaemonsOf
<1>2. \A z : ~Has(z, a) => Once(z, a)
  BY DEF Has, Once
<1>3. ~Has(<<>>, a) /\ Once(w, a)
  BY HasParts
<1>4. ~Has(q, a)
  <2>1. Now[<<"buffer", n, n>>] = q /\ <<"buffer", n, n>> \in Boxes
    BY BoxesNow, BoxKinds
  <2> HIDE DEF q
  <2> QED BY <2>1
<1>5. \A b \in Boxes : ~Has(R[b], a)
  <2>1. \A b \in Boxes : R[b] = <<>> \/ R[b] = Now[b]
    <3>1. /\ \A x \in Nodes : R[<<"buffer", x, x>>] = IF x = n THEN <<>> ELSE odr[x].buffer
          /\ \A c \in Clients : R[<<"socket", c, c>>] = client[c].socket
          /\ \A x, y \in Nodes : R[<<"link", x, y>>] = net[x][y]
      BY BoxesRest
    <3> HIDE DEF R
    <3> QED BY <3>1, BoxesNow, BoxKinds
  <2> HIDE DEF R
  <2> QED BY <1>3, <2>1
<1> HIDE DEF q, w
<1>6. Once(q \o w, a)
  BY <1>1, <1>2, <1>3, <1>4, HasParts
<1>7. \A c \in Clients : Once(NoMail[c], a) /\ ~Has(NoMail[c], a)
  BY NoMailIs
<1> HIDE DEF R
<1>8. AloneIn(R, a)
  BY <1>2, <1>5 DEF AloneIn
<1>9. InHand(n, net, q \o w, NoMail, a)
  BY <1>5, <1>7, <1>8 DEF InHand, R
<1> QED BY <1>6, <1>9 DEF q, w

\* Packets leave boxes, or nothing moves.
LEMMA LessSpot ==
  ASSUME client \in [Clients -> ClientStates], net' = net,
         \A x \in Nodes : odr'[x].buffer = odr[x].buffer \/ odr'[x].buffer = <<>>,
         \A c \in Clients :
           \/ client'[c].socket = client[c].socket
           \/ client[c].socket # <<>> /\ client'[c].socket = Tail(client[c].socket),
         NEW a, Spot(a)
  PROVE  Spot(a)'
<1> DEFINE N == Now'
<1>1. AloneIn(Now, a)
  BY DEF Spot
<1>2. /\ \A x \in Nodes : N[<<"buffer", x, x>>] = odr'[x].buffer
      /\ \A c \in Clients : N[<<"socket", c, c>>] = client'[c].socket
      /\ \A x, y \in Nodes : N[<<"link", x, y>>] = net'[x][y]
  BY BoxesNext
<1> HIDE DEF N
<1>3. ASSUME NEW b \in Boxes
      PROVE  /\ Has(N[b], a) => Has(Now[b], a)
             /\ Once(Now[b], a) => Once(N[b], a)
  <2>1. CASE N[b] = <<>>
    BY <2>1, HasParts
  <2>2. CASE N[b] = Now[b]
    BY <2>2
  <2>3. CASE \E c \in Clients : b = <<"socket", c, c>>
    <3>1. PICK c \in Clients : b = <<"socket", c, c>>
      BY <2>3
    <3> DEFINE q == client[c].socket
    <3>2. q \in Seq(Messages) /\ Now[b] = q /\ N[b] = client'[c].socket
      BY <1>2, <3>1, BoxesNow DEF ClientStates
    <3>3. client'[c].socket = q \/ (q # <<>> /\ client'[c].socket = Tail(q))
      OBVIOUS
    <3> HIDE DEF q
    <3>4. q # <<>> => (Has(Tail(q), a) => Has(q, a)) /\ (Once(q, a) => Once(Tail(q), a))
      BY <3>2, HasTail
    <3> QED BY <3>2, <3>3, <3>4
  <2>4. CASE \E x \in Nodes : b = <<"buffer", x, x>>
    <3>1. N[b] = <<>> \/ N[b] = Now[b]
      BY <1>2, <2>4, BoxesNow
    <3> QED BY <2>1, <2>2, <3>1
  <2>5. CASE \E x, y \in Nodes : b = <<"link", x, y>>
    <3>1. N[b] = Now[b]
      BY <1>2, <2>5, BoxesNow
    <3> QED BY <2>2, <3>1
  <2> QED BY <2>3, <2>4, <2>5, BoxKinds
<1>4. AloneIn(N, a)
  BY <1>1, <1>3 DEF AloneIn
<1> QED BY <1>4 DEF N, Spot, AloneIn, Boxes

\* A client's message is put into the send buffer, and nowhere else.
LEMMA MessageAlone ==
  ASSUME OdrInv, Alone, NEW c \in Clients, NEW d \in Nodes, NEW flag \in {0, 1},
         Message(c, d, flag), \A x \in Clients : client'[x].socket = client[x].socket
  PROVE  Alone'
<1> DEFINE n == Home[c]
           port == odr[n].sourcePort
           id == odr[n].broadcast_id + 1
           table == IF flag = 1 THEN [odr[n].table EXCEPT ![d].next_hop = NoMac]
                                ELSE odr[n].table
           first == App("request", n, d, port, 0)
           buffer == Append(odr[n].buffer, first)
           request == RREQ(n, d, 0, FALSE, flag = 1, id)
           seek == IF Unusable(table[d]) THEN broadcast(n, request) ELSE Silent
           M == addMap(odr[n].MapArray, port, c)
<1>0. PICK new : new = [client |-> c, dst |-> d, flag |-> flag, port |-> port]
  OBVIOUS
<1>1. /\ Typed /\ Traffic /\ n \in Nodes /\ odr[n] \in DaemonsOf(n) /\ Mail
      /\ client \in [Clients -> ClientStates] /\ asked \subseteq Questions
  BY OdrAssumption DEF OdrInv, Typed, Callers, Alone
<1>2. /\ odr[n].table \in [Nodes -> EntriesOf(n)] /\ odr[n].buffer \in Seq(Messages \cup {Blank})
      /\ port \in Nat \ {0} /\ id \in Nat
  BY <1>1 DEF DaemonsOf, TablesOf
<1>3. PICK stack \in Stacks(buffer) :
        LET r == sendMessageFromBuffer(table, buffer, stack)
        IN  /\ Finish(n, net,
                 [odr[n] EXCEPT !.table = table, !.buffer = r.buffer,
                           !.broadcast_id = id, !.sourcePort = @ + 1,
                           !.MapArray = addMap(@, port, c)],
                 Then(seek, r.out), r.crashed)
            /\ asked' = asked \cup {new}
  BY <1>0 DEF Message
<1>4. table \in TablesOf(n)
  <2> DEFINE e == [odr[n].table[d] EXCEPT !.next_hop = NoMac]
  <2>1. e \in EntriesOf(n)
    BY <1>2 DEF EntriesOf
  <2>2. table = [odr[n].table EXCEPT ![d] = e] \/ table = odr[n].table
    OBVIOUS
  <2> HIDE DEF e, table
  <2> QED BY <1>2, <2>1, <2>2 DEF TablesOf
<1>5. /\ first \in Messages /\ first.type = 2 /\ first.msg = "request" /\ first.src = n
      /\ first.port = port
  BY <1>1, <1>2, OdrAssumption DEF App, Messages
<1> HIDE DEF first
<1>6. buffer = odr[n].buffer \o <<first>> /\ buffer \in Seq(Messages \cup {Blank})
  <2> DEFINE q == odr[n].buffer
             S == Messages \cup {Blank}
  <2>1. q \in Seq(S) /\ first \in S
    BY <1>2, <1>5
  <2> HIDE DEF q, S
  <2>2. Append(q, first) = q \o <<first>> /\ Append(q, first) \in Seq(S)
    BY <2>1, AppendIsConcat, AppendProperties
  <2> QED BY <2>2 DEF q, S
<1>7. seek \in Out(n, Signals)
  <2>1. request \in Signals
    BY <1>1, <1>2, OdrAssumption DEF RREQ, RREQs, Signals, Hops
  <2> HIDE DEF request, table
  <2> QED BY <1>1, <2>1, Outputs
<1> DEFINE r == sendMessageFromBuffer(table, buffer, stack)
           s == [odr[n] EXCEPT !.table = table, !.buffer = r.buffer, !.broadcast_id = id,
                               !.sourcePort = port + 1, !.MapArray = M]
           out == Then(seek, r.out)
<1>8. Finish(n, net, s, out, r.crashed) /\ asked' = asked \cup {new}
  BY <1>3
<1>9. r = sendMessageFromBuffer(table, buffer, stack) /\ out = Then(seek, r.out)
  OBVIOUS
<1>10. s.buffer = r.buffer
  BY <1>1 DEF DaemonsOf
<1>11. new.client = c /\ new.port = port
  BY <1>0
<1> HIDE DEF table, buffer, seek, s, r, out
<1>12. ended \subseteq ended'
  BY <1>8 DEF Finish
<1>13. /\ NoMail \in [Clients -> Seq(Messages)]
       /\ \A x \in Clients : client[x].socket = client[x].socket \o NoMail[x]
       /\ \A a : \A x \in Clients : Once(NoMail[x], a) /\ ~Has(NoMail[x], a)
  BY <1>1, NoMailIs
<1>14. \A x \in Clients : client'[x].socket = client[x].socket \o NoMail[x]
  <2>1. ASSUME NEW x \in Clients PROVE client'[x].socket = client[x].socket \o NoMail[x]
    <3>1. client'[x].socket = client[x].socket
      OBVIOUS
    <3> QED BY <1>13, <3>1, Zenon
  <2> QED BY <2>1, Zenon
<1> HIDE DEF n
<1>15. Hauls(n, n, net, table, buffer, stack, r, s, seek, out, NoMail)
  BY <1>1, <1>4, <1>6, <1>7, <1>8, <1>9, <1>10, <1>13, <1>14 DEF Hauls
<1>16. ASSUME NEW a \in asked, Home[a.client] \notin ended PROVE Spot(a)'
  <2>1. Spot(a)
    BY <1>16 DEF Alone
  <2>2. ~Of(first, a)
    <3>1. SUFFICES ASSUME Of(first, a) PROVE FALSE
      OBVIOUS
    <3>2. a.port = port /\ Home[a.client] = n
      BY <1>5, <3>1 DEF Of
    <3>3. PortsAt(n)
      BY <1>1, <1>16, <3>2 DEF OdrInv, Ports
    <3>4. a.port < port
      BY <3>2, <3>3 DEF PortsAt
    <3> QED BY <1>2, <3>2, <3>4
  <2> DEFINE extra == <<first>>
  <2>3. extra \in Seq(Messages \cup {Blank})
    BY <1>5
  <2>4. Once(extra, a) /\ ~Has(extra, a)
    BY <2>2, HasParts
  <2> HIDE DEF extra
  <2>5. InHand(n, net, odr[n].buffer \o extra, NoMail, a) /\ Once(odr[n].buffer \o extra, a)
    BY <1>1, <1>13, <2>1, <2>3, <2>4, HandOf
  <2>6. InHand(n, net, buffer, NoMail, a) /\ Once(buffer, a)
    BY <1>6, <2>5 DEF extra
  <2> QED BY <1>1, <1>15, <2>6, HaulSpot
<1>17. ASSUME n \notin ended PROVE Spot(new)'
  <2>1. Home[new.client] = n
    BY <1>11 DEF n
  <2>2. \A b \in Boxes : ~Has(Now[b], new)
    BY <1>1, <1>11, <1>17, <2>1, Absent
  <2>3. InHand(n, net, buffer, NoMail, new) /\ Once(buffer, new)
    BY <1>1, <1>5, <1>6, <2>2, NewHand
  <2> QED BY <1>1, <1>15, <2>3, HaulSpot
<1>18. \A a \in asked' : Home[a.client] \notin ended' => Spot(a)'
  BY <1>8, <1>11, <1>12, <1>16, <1>17 DEF n
<1>19. Mail'
  BY <1>1 DEF Mail
<1> QED BY <1>18, <1>19 DEF Alone

\* No client asks.
LEMMA AloneStays ==
  ASSUME Alone, asked' = asked, ended \subseteq ended', Mail', \A a : Spot(a) => Spot(a)'
  PROVE  Alone'
<1>1. \A a \in asked' : Home[a.client] \notin ended' => Spot(a)'
  BY DEF Alone
<1> QED BY <1>1 DEF Alone

LEMMA InitAlone == Init => Alone
<1> SUFFICES ASSUME Init PROVE Alone
  OBVIOUS
<1>1. asked = {} /\ \A c \in Clients : client[c].socket = <<>>
  BY DEF Init
<1> QED BY <1>1 DEF Alone, Mail

\* Every step keeps messages where they are or moves them.
LEMMA NextAlone == OdrInv /\ Alone /\ [Next]_vars => Alone'
<1> SUFFICES ASSUME OdrInv, Alone, [Next]_vars PROVE Alone'
  OBVIOUS
<1>1. Typed /\ Traffic /\ Mail /\ client \in [Clients -> ClientStates]
  BY DEF OdrInv, Alone, Callers
<1>2. ASSUME UNCHANGED <<net, ended, asked>>,
             \A x \in Nodes : odr'[x].buffer = odr[x].buffer \/ odr'[x].buffer = <<>>,
             \A c \in Clients : client'[c].socket = client[c].socket
      PROVE  Alone'
  <2>1. Mail'
    BY <1>1, <1>2 DEF Mail
  <2>2. ASSUME NEW a, Spot(a) PROVE Spot(a)'
    BY <1>1, <1>2, <2>2, LessSpot
  <2> QED BY <1>2, <2>1, <2>2, AloneStays
<1>3. ASSUME NEW c \in Clients, NEW d \in Nodes, NEW flag \in {0, 1},
             NEW phase, Send(c, d, flag, phase)
      PROVE  Alone'
  <2>1. \A x \in Clients : client'[x].socket = client[x].socket
    <3>1. PICK e : client' = [client EXCEPT ![c] = e] /\ e.socket = client[c].socket
      <4>1. CASE odr[Home[c]].up
        <5> DEFINE e == [client[c] EXCEPT !.phase = phase, !.target = d]
        <5>1. client' = [client EXCEPT ![c] = e]
          BY <1>3, <4>1 DEF Send
        <5>2. e.socket = client[c].socket
          BY <1>1 DEF ClientStates
        <5> QED BY <5>1, <5>2
      <4>2. CASE ~odr[Home[c]].up
        <5> DEFINE e == [client[c] EXCEPT !.phase = "exited"]
        <5>1. client' = [client EXCEPT ![c] = e]
          BY <1>3, <4>2 DEF Send
        <5>2. e.socket = client[c].socket
          BY <1>1 DEF ClientStates
        <5> QED BY <5>1, <5>2
      <4> QED BY <4>1, <4>2
    <3> QED BY <1>1, <3>1
  <2>2. CASE odr[Home[c]].up
    BY <1>3, <2>1, <2>2, MessageAlone DEF Send
  <2>3. CASE ~odr[Home[c]].up
    BY <1>2, <1>3, <2>1, <2>3 DEF Send
  <2> QED BY <2>2, <2>3
<1>4. ASSUME NEW c \in Clients, Ask(c) PROVE Alone'
  BY <1>3, <1>4, OdrAssumption DEF Ask
<1>5. ASSUME NEW c \in Clients, Retry(c) PROVE Alone'
  BY <1>1, <1>3, <1>5 DEF Retry, ClientStates
<1>6. ASSUME NEW c \in Clients, GiveUp(c) PROVE Alone'
  <2> DEFINE e == [client[c] EXCEPT !.phase = "idle"]
  <2>1. client' = [client EXCEPT ![c] = e] /\ UNCHANGED <<odr, net, ended, asked>>
    BY <1>6 DEF GiveUp
  <2>2. e.socket = client[c].socket
    BY <1>1 DEF ClientStates
  <2> HIDE DEF e
  <2>3. \A x \in Clients : client'[x].socket = client[x].socket
    BY <1>1, <2>1, <2>2
  <2> QED BY <1>2, <2>1, <2>3
<1>7. ASSUME NEW c \in Clients, ReadAnswer(c) PROVE Alone'
  <2> DEFINE q == client[c].socket
             t == Tail(q)
             e == [client[c] EXCEPT !.phase = "idle", !.socket = t]
  <2>1. client' = [client EXCEPT ![c] = e] /\ UNCHANGED <<odr, net, ended, asked>> /\ q # <<>>
    BY <1>7 DEF ReadAnswer
  <2>2. e.socket = t /\ q \in Seq(Messages)
    BY <1>1 DEF ClientStates
  <2> HIDE DEF e
  <2>3. \A x \in Clients : \/ client'[x].socket = client[x].socket
                           \/ client[x].socket # <<>> /\ client'[x].socket = Tail(client[x].socket)
    BY <1>1, <2>1, <2>2
  <2>4. /\ Len(t) = Len(q) - 1 /\ Len(q) \in Nat
        /\ \A i \in 1..Len(t) : t[i] = q[i + 1]
    <3> HIDE DEF q
    <3> QED BY <2>1, <2>2, HeadTailProperties, LenProperties
  <2>5. Mail'
    <3>1. ASSUME NEW x \in Clients, NEW i \in 1..Len(client'[x].socket)
          PROVE  client'[x].socket[i].msg = "response" /\ client'[x].socket[i].dst = Home[x]
      <4>1. CASE x # c
        BY <1>1, <2>1, <4>1 DEF Mail
      <4>2. CASE x = c
        <5>1. client'[x].socket = t
          BY <1>1, <2>1, <2>2, <4>2
        <5> HIDE DEF t
        <5>2. i + 1 \in 1..Len(q) /\ t[i] = q[i + 1]
          BY <2>4, <5>1
        <5>3. q[i + 1].msg = "response" /\ q[i + 1].dst = Home[c]
          BY <1>1, <5>2 DEF Mail
        <5> QED BY <4>2, <5>1, <5>2, <5>3
      <4> QED BY <4>1, <4>2
    <3> QED BY <3>1 DEF Mail
  <2>6. ASSUME NEW a, Spot(a) PROVE Spot(a)'
    BY <1>1, <2>1, <2>3, <2>6, LessSpot
  <2> QED BY <2>1, <2>5, <2>6, AloneStays
<1>8. ASSUME client' = client PROVE Mail'
  BY <1>1, <1>8 DEF Mail
<1>9. ASSUME NEW n \in Nodes, NEW queues, NEW s, NEW out, NEW crashed, Finish(n, queues, s, out, crashed)
      PROVE  ended \subseteq ended'
  BY <1>9 DEF Finish
<1>10. ASSUME NEW n \in Nodes, NEW queues, NEW m \in Nodes,
              queues = net \/ (queues = Taken(m, n) /\ net[m][n] # <<>>),
              Finish(n, queues, odr[n], Silent, TRUE), UNCHANGED <<client, asked>>
       PROVE  Alone'
  <2>1. ASSUME NEW a, Spot(a) PROVE Spot(a)'
    BY <1>10, <2>1, CrashSpot
  <2> QED BY <1>8, <1>9, <1>10, <2>1, AloneStays
<1>11. ASSUME NEW n \in Nodes, NEW m \in Nodes, net[m][n] # <<>>, NEW p \in RREQs,
              HandleRREQ(n, m, p), UNCHANGED <<client, asked>>
       PROVE  Alone'
  <2>1. ASSUME NEW a, Spot(a) PROVE Spot(a)'
    BY <1>11, <2>1, HandleSpot
  <2>2. ended \subseteq ended'
    <3>1. m \in Neighbours(n)
      BY <1>1, <1>11, Frame
    <3> QED BY <1>1, <1>9, <1>11, <3>1, HandleSignals
  <2> QED BY <1>8, <1>11, <2>1, <2>2, AloneStays
<1>12. ASSUME NEW n \in Nodes, NEW m \in Nodes, ReceiveRREQ(n, m) PROVE Alone'
  <2> DEFINE p == Head(net[m][n])
  <2>1. net[m][n] # <<>> /\ p.type = 0 /\ HandleRREQ(n, m, p) /\ UNCHANGED <<client, asked>>
    BY <1>12 DEF ReceiveRREQ
  <2>2. p # Blank
    BY <2>1 DEF Blank
  <2>3. p \in Packets
    BY <1>1, <2>1, <2>2, Frame DEF Good
  <2> HIDE DEF p
  <2>4. p \in RREQs
    BY <2>1, <2>3, PacketKinds
  <2> QED BY <1>11, <2>1, <2>4
<1>13. ASSUME NEW n \in Nodes, NEW m \in Nodes, ReceiveBlank(n, m) PROVE Alone'
  <2>1. net[m][n] # <<>> /\ UNCHANGED <<client, asked>>
    BY <1>13 DEF ReceiveBlank
  <2>2. CASE Finish(n, Taken(m, n), odr[n], Silent, TRUE)
    BY <1>10, <2>1, <2>2
  <2>3. ASSUME NEW src \in Nodes, NEW dst \in Nodes,
               HandleRREQ(n, m, RREQ(src, dst, 0, FALSE, FALSE, 0))
        PROVE  Alone'
    <3> DEFINE p == RREQ(src, dst, 0, FALSE, FALSE, 0)
    <3>1. p \in RREQs
      BY OdrAssumption DEF RREQ, RREQs, Hops
    <3>2. HandleRREQ(n, m, p)
      BY <2>3
    <3> HIDE DEF p
    <3> QED BY <1>11, <2>1, <3>1, <3>2
  <2> QED BY <1>13, <2>2, <2>3 DEF ReceiveBlank
<1>14. ASSUME NEW n \in Nodes, NEW m \in Nodes, ReceiveRREP(n, m) PROVE Alone'
  <2>1. asked' = asked /\ client' = client /\ ended \subseteq ended'
    BY <1>9, <1>14 DEF ReceiveRREP
  <2>2. ASSUME NEW a, Spot(a) PROVE Spot(a)'
    BY <1>14, <2>2, RREPSpot
  <2> QED BY <1>8, <2>1, <2>2, AloneStays
<1>15. ASSUME NEW n \in Nodes, NEW m \in Nodes, ReceiveApp(n, m) PROVE Alone'
  <2>1. asked' = asked /\ ended \subseteq ended'
    BY <1>9, <1>15 DEF ReceiveApp
  <2>2. ASSUME NEW a, Spot(a) PROVE Spot(a)'
    BY <1>15, <2>2, AppSpot
  <2>3. Mail'
    BY <1>1, <1>15, AppMail
  <2> QED BY <2>1, <2>2, <2>3, AloneStays
<1>16. ASSUME NEW n \in Nodes, Stop(n) PROVE Alone'
  BY <1>10, <1>16 DEF Stop
<1>17. ASSUME NEW n \in Nodes, Boot(n) PROVE Alone'
  <2>1. /\ odr' = [odr EXCEPT ![n] = Booted] /\ UNCHANGED <<net, client, ended, asked>>
    BY <1>17 DEF Boot
  <2>2. \A x \in Nodes : odr'[x].buffer = odr[x].buffer \/ odr'[x].buffer = <<>>
    BY <1>1, <2>1, BootedType DEF Typed
  <2> QED BY <1>2, <2>1, <2>2
<1>18. CASE Tick
  BY <1>2, <1>18 DEF Tick
<1>19. CASE UNCHANGED vars
  BY <1>2, <1>19 DEF vars
<1> QED BY <1>4, <1>5, <1>6, <1>7, <1>12, <1>13, <1>14, <1>15, <1>16, <1>17, <1>18, <1>19
  DEF Next, Receive

\* The invariant of the service, for any network: packets, tables and send buffers
\* are what the handlers of odr_chechung.c may leave behind.
THEOREM OdrInvariant == Spec => []OdrInv
BY InitOdr, NextOdr, PTL DEF Spec

\* Tables, send buffers, port maps and sockets hold what they should, and only
\* daemons that run get frames.
THEOREM TypeCorrect == Spec => []TypeOK
<1>1. OdrInv => TypeOK
  BY DEF OdrInv, Typed, Callers, ClientStates, Questions, TypeOK
<1> QED BY <1>1, OdrInvariant, PTL

\* As long as nothing takes a route away, the next hop of every route in every
\* routing table is the destination or has a route itself: what ReverseRoute,
\* ForwardRoute and the handling of application messages enter leads on.
THEOREM RoutesLeadOn == Spec => []RoutesLead
<1>1. OdrInv => RoutesLead
  <2>1. SUFFICES ASSUME OdrInv, RoutesKept, NEW n \in Nodes, NEW d \in Nodes
                 PROVE  LET m == odr[n].table[d].next_hop
                        IN  m \in {NoMac, d} \/ odr[m].table[d].next_hop # NoMac
    BY DEF RoutesLead
  <2> QED BY <2>1 DEF OdrInv, Lead, Knows
<1> QED BY <1>1, OdrInvariant, PTL

\* As long as a client's own daemon has not ended, whatever happens to the other
\* ones, what searchMap finds for a response is the client that asked: ports are
\* given out once, and MapArray holds them with their clients.
THEOREM AnswersFindAsker == Spec => []AnswerToAsker
<1>1. OdrInv => AnswerToAsker
  BY DEF OdrInv, Callers, AnswersOf, AnswerToAsker
<1> QED BY <1>1, OdrInvariant, PTL

\* For any network, a daemon floods a request at most once for as long as it runs,
\* however many copies of it come by whatever paths: ids only rise, and HandleRREQ
\* floods nothing whose id is not above the one it has kept.
THEOREM FloodsStop == Spec => FloodsOnce
<1>1. FloodStep => \A n \in Nodes : odr[n].up /\ odr'[n].up =>
       /\ \A d, s \in Nodes : d # s =>
            odr'[n].table[d].bid[s] >= odr[n].table[d].bid[s]
       /\ \A y \in Nodes : \A i \in (Len(net[n][y]) + 1)..Len(net'[n][y]) :
            LET p == net'[n][y][i]
            IN  p.type = 0 /\ p.src # n =>
                  /\ p.id > odr[n].table[p.dst].bid[p.src]
                  /\ p.id = odr'[n].table[p.dst].bid[p.src]
  BY DEF FloodStep, Raised, NewId
<1> QED BY <1>1, OdrInvariant, NextFloods, PTL DEF Spec, FloodsOnce

\* A client's message is in one place at most, for any network and any number of
\* clients, for as long as the client's daemon runs: sendMessageFromBuffer sends and
\* removes in one pass, and a forwarded packet is copied into the buffer.
THEOREM MessagesMoveOn == Spec => []OneCopy
<1>1. OdrInv /\ Alone => OneCopy
  <2> SUFFICES ASSUME Alone, NEW a \in asked, Home[a.client] \notin ended,
                      NEW x \in Places(a), NEW y \in Places(a)
               PROVE  x = y
    BY DEF OneCopy
  <2>1. AloneIn(Now, a)
    BY DEF Alone, Spot
  <2>2. PICK b \in Boxes : \E i \in In(At(b), a) : x = <<b, i>>
    BY DEF Places
  <2>3. PICK c \in Boxes : \E j \in In(At(c), a) : y = <<c, j>>
    BY DEF Places
  <2>4. PICK i \in In(At(b), a) : x = <<b, i>>
    BY <2>2
  <2>5. PICK j \in In(At(c), a) : y = <<c, j>>
    BY <2>3
  <2>6. Now[b] = At(b) /\ Now[c] = At(c)
    BY DEF Now
  <2>7. b = c
    BY <2>1, <2>4, <2>5, <2>6 DEF AloneIn, Has, In
  <2>8. i = j
    BY <2>1, <2>4, <2>5, <2>6, <2>7 DEF AloneIn, Once, In
  <2> QED BY <2>4, <2>5, <2>7, <2>8
<1>2. Spec => [](OdrInv /\ Alone)
  BY InitOdr, NextOdr, InitAlone, NextAlone, PTL DEF Spec
<1> QED BY <1>1, <1>2, PTL
=============================================================================
