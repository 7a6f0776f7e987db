------------------------------ MODULE ArpProof ------------------------------
(***************************************************************************)
(* The ARP daemons of module Arp, for every set of nodes, whatever their   *)
(* hardware addresses and any number of connections and lost frames.       *)
(*                                                                         *)
(* A step changes the table and the connections of one node, so the        *)
(* invariant is one about a table T and connections C, and a lemma for     *)
(* each way the code changes them is about T and C only.                   *)
(***************************************************************************)
EXTENDS Arp, SequenceTheorems, FiniteSetTheorems, WellFoundedInduction, TLAPS

-----------------------------------------------------------------------------
(* The inductive invariant. *)

Entries == [ip : Nodes, mac : Macs, fd : 0..MaxConns]
Conns == [ip : Macs, mac : Macs, hup : BOOLEAN]

Typed(T, C) == T \in Seq(Entries) /\ C \in [1..MaxConns -> Conns]

\* The parts of AnswersRight for one node; an open connection has an IP.
Right(T, C) ==
  /\ \A fd \in 1..MaxConns :
       /\ C[fd].mac \in {NoMac, C[fd].ip}
       /\ C[fd] # Free => C[fd].ip \in Nodes
  /\ \A i \in 1..Len(T) : T[i].mac \in {NoMac, T[i].ip}

\* DescriptorsLive for one node.
Waits(c) == c # Free /\ c.mac = NoMac
Live(T, C) ==
  \A fd \in 1..MaxConns :
    IF Waits(C[fd])
      THEN \E i \in 1..Len(T) :
             /\ T[i].fd = fd /\ T[i].ip = C[fd].ip
             /\ \A j \in 1..Len(T) : T[j].fd = fd => j = i
      ELSE \A i \in 1..Len(T) : T[i].fd # fd

\* Of two entries for an IP one is complete, and so no third is made if
\* checkEntryExist finds the complete one.
Few(T) ==
  /\ \A i, j \in 1..Len(T) :
       i # j /\ T[i].ip = T[j].ip => T[i].mac # NoMac \/ T[j].mac # NoMac
  /\ \A i, j, k \in 1..Len(T) :
       T[i].ip \in Terminated /\ T[i].ip = T[j].ip /\ T[j].ip = T[k].ip =>
         i = j \/ j = k \/ i = k

NodeOK(T, C) == Typed(T, C) /\ Right(T, C) /\ Live(T, C) /\ Few(T)

-----------------------------------------------------------------------------
(* What the code does to a table and to connections. *)

\* A table with one entry more.
LEMMA AppendEntry ==
  ASSUME NEW T \in Seq(Entries), NEW e \in Entries
  PROVE  /\ Append(T, e) \in Seq(Entries)
         /\ Len(Append(T, e)) = Len(T) + 1 /\ Len(T) \in Nat
         /\ \A i \in 1..Len(T) : Append(T, e)[i] = T[i] /\ T[i] \in Entries
         /\ Append(T, e)[Len(T) + 1] = e
BY AppendProperties, ElementOfSeq, LenProperties

\* A table with one entry replaced.
LEMMA ReplaceEntry ==
  ASSUME NEW T \in Seq(Entries), NEW e \in Entries, NEW k \in 1..Len(T)
  PROVE  /\ [T EXCEPT ![k] = e] \in Seq(Entries)
         /\ Len([T EXCEPT ![k] = e]) = Len(T)
         /\ \A i \in 1..Len(T) : [T EXCEPT ![k] = e][i] = IF i = k THEN e ELSE T[i]
BY ExceptSeq

\* A daemon starts, or has ended.
LEMMA EmptyOK == NodeOK(<<>>, [fd \in 1..MaxConns |-> Free])
<1>1. Free \in Conns /\ Free.mac = NoMac
  BY DEF Free, Conn, Conns, Macs
<1>2. Typed(<<>>, [fd \in 1..MaxConns |-> Free])
  BY <1>1 DEF Typed
<1>3. Right(<<>>, [fd \in 1..MaxConns |-> Free])
  BY <1>1 DEF Right
<1>4. Live(<<>>, [fd \in 1..MaxConns |-> Free]) /\ Few(<<>>)
  BY <1>1 DEF Live, Few, Waits
<1> QED BY <1>2, <1>3, <1>4 DEF NodeOK

\* A request for an IP that is not in the table.
LEMMA AskOK ==
  ASSUME NEW T, NEW C, NodeOK(T, C), NEW fd \in 1..MaxConns, C[fd] = Free,
         NEW ip \in Nodes, \A i \in 1..Len(T) : T[i].ip # ip
  PROVE  NodeOK(Append(T, Entry(ip, NoMac, fd)), [C EXCEPT ![fd] = Conn(ip, NoMac)])
<1> DEFINE e == Entry(ip, NoMac, fd)
           c == Conn(ip, NoMac)
           U == Append(T, e)
           D == [C EXCEPT ![fd] = c]
<1>1. /\ e \in Entries /\ e.ip = ip /\ e.mac = NoMac /\ e.fd = fd
      /\ c \in Conns /\ c.ip = ip /\ c.mac = NoMac /\ c # Free
  BY ArpAssumption DEF Entry, Entries, Conn, Conns, Macs, Free
<1> HIDE DEF e, c
<1>2. T \in Seq(Entries) /\ C \in [1..MaxConns -> Conns]
  BY DEF NodeOK, Typed
<1>3. /\ U \in Seq(Entries) /\ Len(U) = Len(T) + 1 /\ Len(T) \in Nat
      /\ \A i \in 1..Len(T) : U[i] = T[i] /\ T[i] \in Entries
      /\ U[Len(T) + 1] = e
      /\ \A i \in 1..Len(U) : i \in 1..Len(T) \/ i = Len(T) + 1
  BY <1>1, <1>2, AppendEntry
<1>4. D \in [1..MaxConns -> Conns] /\ \A g \in 1..MaxConns : D[g] = IF g = fd THEN c ELSE C[g]
  BY <1>1, <1>2
<1> HIDE DEF U, D
<1>5. Right(U, D)
  BY <1>1, <1>3, <1>4 DEF NodeOK, Right
<1>6. Live(U, D)
  <2> SUFFICES ASSUME NEW g \in 1..MaxConns
               PROVE  IF Waits(D[g])
                        THEN \E i \in 1..Len(U) :
                               /\ U[i].fd = g /\ U[i].ip = D[g].ip
                               /\ \A j \in 1..Len(U) : U[j].fd = g => j = i
                        ELSE \A i \in 1..Len(U) : U[i].fd # g
    BY DEF Live
  <2>1. CASE g = fd
    <3>1. \A i \in 1..Len(T) : U[i].fd # fd
      BY <1>3 DEF NodeOK, Live, Waits
    <3> QED BY <2>1, <3>1, <1>1, <1>3, <1>4 DEF Waits
  <2>2. CASE g # fd /\ Waits(C[g])
    <3>1. PICK i \in 1..Len(T) :
            /\ T[i].fd = g /\ T[i].ip = C[g].ip
            /\ \A j \in 1..Len(T) : T[j].fd = g => j = i
      BY <2>2 DEF NodeOK, Live
    <3>2. i \in 1..Len(U) /\ U[i] = T[i]
      BY <1>3
    <3>3. \A j \in 1..Len(U) : U[j].fd = g => j = i
      BY <2>2, <1>1, <1>3, <3>1
    <3> QED BY <2>2, <1>4, <3>1, <3>2, <3>3
  <2>3. CASE g # fd /\ ~Waits(C[g])
    <3>1. \A i \in 1..Len(T) : T[i].fd # g
      BY <2>3 DEF NodeOK, Live
    <3> QED BY <2>3, <1>1, <1>3, <1>4, <3>1
  <2> QED BY <2>1, <2>2, <2>3
<1>7. Few(U)
  <2>1. Few(T) BY DEF NodeOK
  <2>2. \A i, j \in 1..Len(U) : i # j /\ U[i].ip = U[j].ip =>
          i \in 1..Len(T) /\ j \in 1..Len(T) /\ U[i] = T[i] /\ U[j] = T[j]
    BY <1>1, <1>3
  <2>3. ASSUME NEW i \in 1..Len(U), NEW j \in 1..Len(U), i # j, U[i].ip = U[j].ip
        PROVE  U[i].mac # NoMac \/ U[j].mac # NoMac
    BY <2>1, <2>2, <2>3 DEF Few
  <2>4. ASSUME NEW i \in 1..Len(U), NEW j \in 1..Len(U), NEW k \in 1..Len(U),
               U[i].ip \in Terminated, U[i].ip = U[j].ip, U[j].ip = U[k].ip, i # j, j # k
        PROVE  i = k
    <3>1. /\ i \in 1..Len(T) /\ j \in 1..Len(T) /\ k \in 1..Len(T)
          /\ U[i] = T[i] /\ U[j] = T[j] /\ U[k] = T[k]
      BY <2>2, <2>4
    <3> QED BY <2>1, <2>4, <3>1 DEF Few
  <2> QED BY <2>3, <2>4 DEF Few
<1> QED BY <1>3, <1>4, <1>5, <1>6, <1>7 DEF NodeOK, Typed, U, D, e, c

\* Connections that change, none of them one that waits.
LEMMA SameWaits ==
  ASSUME NEW T, NEW C, NodeOK(T, C), NEW D \in [1..MaxConns -> Conns],
         \A g \in 1..MaxConns :
           /\ Waits(D[g]) <=> Waits(C[g])
           /\ Waits(D[g]) => D[g].ip = C[g].ip
           /\ D[g].mac \in {NoMac, D[g].ip}
           /\ D[g] # Free => D[g].ip \in Nodes
  PROVE  NodeOK(T, D)
<1>1. Typed(T, D) BY DEF NodeOK, Typed
<1>2. Right(T, D) BY DEF NodeOK, Right
<1>3. Live(T, D)  BY DEF NodeOK, Live
<1> QED BY <1>1, <1>2, <1>3 DEF NodeOK

\* A request for an IP whose entry is complete gets its answer at once.
LEMMA KnownOK ==
  ASSUME NEW T, NEW C, NodeOK(T, C), NEW fd \in 1..MaxConns, C[fd] = Free,
         NEW i \in 1..Len(T), T[i].mac # NoMac
  PROVE  NodeOK(T, [C EXCEPT ![fd] = Conn(T[i].ip, T[i].mac)])
<1> DEFINE c == Conn(T[i].ip, T[i].mac)
           D == [C EXCEPT ![fd] = c]
<1>1. T \in Seq(Entries) /\ C \in [1..MaxConns -> Conns]
  BY DEF NodeOK, Typed
<1>2. T[i] \in Entries /\ T[i].mac \in {NoMac, T[i].ip}
  BY <1>1, ElementOfSeq DEF NodeOK, Right
<1>3. c \in Conns /\ c.ip = T[i].ip /\ c.mac = T[i].ip /\ c.ip \in Nodes
  BY <1>2 DEF Entries, Conn, Conns, Macs
<1> HIDE DEF c
<1>4. D \in [1..MaxConns -> Conns] /\ \A g \in 1..MaxConns : D[g] = IF g = fd THEN c ELSE C[g]
  BY <1>1, <1>3
<1> HIDE DEF D
<1>5. ~Waits(c) /\ ~Waits(Free)
  BY <1>2, <1>3 DEF Waits
<1>6. ASSUME NEW g \in 1..MaxConns
      PROVE  /\ Waits(D[g]) <=> Waits(C[g])
             /\ Waits(D[g]) => D[g].ip = C[g].ip
             /\ D[g].mac \in {NoMac, D[g].ip}
             /\ D[g] # Free => D[g].ip \in Nodes
  BY <1>3, <1>4, <1>5 DEF NodeOK, Right
<1> QED BY <1>4, <1>6, SameWaits DEF c, D

\* areq has read the answer.
LEMMA ReturnOK ==
  ASSUME NEW T, NEW C, NodeOK(T, C), NEW fd \in 1..MaxConns, C[fd].mac # NoMac
  PROVE  NodeOK(T, [C EXCEPT ![fd] = Free])
<1> DEFINE D == [C EXCEPT ![fd] = Free]
<1>1. Free \in Conns /\ Free.mac = NoMac /\ C \in [1..MaxConns -> Conns]
  BY DEF NodeOK, Typed, Free, Conn, Conns, Macs
<1>2. D \in [1..MaxConns -> Conns]
      /\ \A g \in 1..MaxConns : D[g] = IF g = fd THEN Free ELSE C[g]
  BY <1>1
<1> HIDE DEF D
<1>3. ~Waits(C[fd]) /\ ~Waits(Free)
  BY DEF Waits
<1>4. ASSUME NEW g \in 1..MaxConns
      PROVE  /\ Waits(D[g]) <=> Waits(C[g])
             /\ Waits(D[g]) => D[g].ip = C[g].ip
             /\ D[g].mac \in {NoMac, D[g].ip}
             /\ D[g] # Free => D[g].ip \in Nodes
  BY <1>1, <1>2, <1>3 DEF NodeOK, Right
<1> QED BY <1>2, <1>4, SameWaits DEF D

\* The tour process ends.
LEMMA ExitOK ==
  ASSUME NEW T, NEW C, NodeOK(T, C)
  PROVE  NodeOK(T, [fd \in 1..MaxConns |->
                      IF C[fd] = Free \/ C[fd].mac # NoMac THEN Free
                      ELSE [C[fd] EXCEPT !.hup = TRUE]])
<1> DEFINE D == [fd \in 1..MaxConns |->
                   IF C[fd] = Free \/ C[fd].mac # NoMac THEN Free
                   ELSE [C[fd] EXCEPT !.hup = TRUE]]
<1>1. Free \in Conns /\ Free.mac = NoMac /\ Free.ip = NoMac
  BY DEF Free, Conn, Conns, Macs
<1>2. ASSUME NEW g \in 1..MaxConns
      PROVE  /\ D[g] \in Conns
             /\ Waits(D[g]) <=> Waits(C[g])
             /\ Waits(D[g]) => D[g].ip = C[g].ip
             /\ D[g].mac \in {NoMac, D[g].ip}
             /\ D[g] # Free => D[g].ip \in Nodes
  <2>1. C[g] \in Conns /\ (C[g] # Free => C[g].ip \in Nodes)
    BY DEF NodeOK, Typed, Right
  <2>2. CASE C[g] = Free \/ C[g].mac # NoMac
    BY <1>1, <2>2 DEF Waits
  <2>3. CASE C[g] # Free /\ C[g].mac = NoMac
    <3>1. D[g] = [C[g] EXCEPT !.hup = TRUE]
      BY <2>3
    <3>2. D[g] \in Conns /\ D[g].ip = C[g].ip /\ D[g].mac = NoMac /\ D[g].ip \in Nodes
      BY <2>1, <2>3, <3>1 DEF Conns
    <3> QED BY <1>1, <2>3, <3>2, ArpAssumption DEF Waits
  <2> QED BY <2>2, <2>3
<1>3. D \in [1..MaxConns -> Conns]
  BY <1>2
<1> HIDE DEF D
<1> QED BY <1>2, <1>3, SameWaits DEF D

\* A request from a node the table does not have in full.
LEMMA RequestOK ==
  ASSUME NEW T, NEW C, NodeOK(T, C), NEW s \in Nodes,
         s \in Terminated => \A i \in 1..Len(T) : ~(T[i].ip = s /\ T[i].mac = s)
  PROVE  NodeOK(Append(T, Entry(s, s, 0)), C)
<1> DEFINE e == Entry(s, s, 0)
           U == Append(T, e)
<1>1. /\ e \in Entries /\ e.ip = s /\ e.mac = s /\ e.fd = 0
  BY ArpAssumption DEF Entry, Entries, Macs
<1> HIDE DEF e
<1>2. T \in Seq(Entries) /\ C \in [1..MaxConns -> Conns]
  BY DEF NodeOK, Typed
<1>3. /\ U \in Seq(Entries) /\ Len(U) = Len(T) + 1 /\ Len(T) \in Nat
      /\ \A i \in 1..Len(T) : U[i] = T[i] /\ T[i] \in Entries
      /\ U[Len(T) + 1] = e
      /\ \A i \in 1..Len(U) : i \in 1..Len(T) \/ i = Len(T) + 1
  BY <1>1, <1>2, AppendEntry
<1> HIDE DEF U
<1>4. Right(U, C)
  BY <1>1, <1>3 DEF NodeOK, Right
<1>5. Live(U, C)
  <2> SUFFICES ASSUME NEW g \in 1..MaxConns
               PROVE  IF Waits(C[g])
                        THEN \E i \in 1..Len(U) :
                               /\ U[i].fd = g /\ U[i].ip = C[g].ip
                               /\ \A j \in 1..Len(U) : U[j].fd = g => j = i
                        ELSE \A i \in 1..Len(U) : U[i].fd # g
    BY DEF Live
  <2>1. CASE Waits(C[g])
    <3>1. PICK i \in 1..Len(T) :
            /\ T[i].fd = g /\ T[i].ip = C[g].ip
            /\ \A j \in 1..Len(T) : T[j].fd = g => j = i
      BY <2>1 DEF NodeOK, Live
    <3>2. i \in 1..Len(U) /\ U[i] = T[i]
      BY <1>3
    <3>3. \A j \in 1..Len(U) : U[j].fd = g => j = i
      BY <1>1, <1>3, <3>1
    <3> QED BY <2>1, <3>1, <3>2, <3>3
  <2>2. CASE ~Waits(C[g])
    <3>1. \A i \in 1..Len(T) : T[i].fd # g
      BY <2>2 DEF NodeOK, Live
    <3> QED BY <2>2, <1>1, <1>3, <3>1
  <2> QED BY <2>1, <2>2
<1>6. Few(U)
  <2>1. Few(T) BY DEF NodeOK
  <2>2. s \in Terminated => \A i \in 1..Len(T) : T[i].ip = s => T[i].mac = NoMac
    BY DEF NodeOK, Right
  <2>3. s \in Terminated => \A i, j \in 1..Len(T) : T[i].ip = s /\ T[j].ip = s => i = j
    BY <2>1, <2>2 DEF Few
  <2>4. ASSUME NEW i \in 1..Len(U), NEW j \in 1..Len(U), i # j, U[i].ip = U[j].ip
        PROVE  U[i].mac # NoMac \/ U[j].mac # NoMac
    <3>1. CASE i = Len(T) + 1 \/ j = Len(T) + 1
      BY <1>1, <1>3, <3>1, ArpAssumption
    <3>2. CASE i \in 1..Len(T) /\ j \in 1..Len(T)
      BY <1>3, <2>1, <2>4, <3>2 DEF Few
    <3> QED BY <1>3, <3>1, <3>2
  <2>5. ASSUME NEW i \in 1..Len(U), NEW j \in 1..Len(U), NEW k \in 1..Len(U),
               U[i].ip \in Terminated, U[i].ip = U[j].ip, U[j].ip = U[k].ip, i # j, j # k
        PROVE  i = k
    <3>1. CASE U[i].ip = s
      BY <1>1, <1>3, <2>3, <2>5, <3>1
    <3>2. CASE U[i].ip # s
      <4>1. i \in 1..Len(T) /\ j \in 1..Len(T) /\ k \in 1..Len(T)
        BY <1>1, <1>3, <2>5, <3>2
      <4>2. U[i] = T[i] /\ U[j] = T[j] /\ U[k] = T[k]
        BY <1>3, <4>1
      <4> QED BY <2>1, <2>5, <4>1, <4>2 DEF Few
    <3> QED BY <3>1, <3>2
  <2> QED BY <2>4, <2>5 DEF Few
<1> QED BY <1>2, <1>3, <1>4, <1>5, <1>6 DEF NodeOK, Typed, U, e

\* Connections D are C after fd was closed or got its answer (none, for fd 0).
Settled(C, D, fd) ==
  \A g \in 1..MaxConns :
    IF g = fd
      THEN /\ ~Waits(D[g]) /\ D[g].mac \in {NoMac, D[g].ip}
           /\ D[g] # Free => D[g].ip \in Nodes
      ELSE D[g] = C[g]

\* A reply completes entry k; the connection that waited there, if any, is
\* closed or has its answer.
LEMMA ReplyOK ==
  ASSUME NEW T, NEW C, NodeOK(T, C), NEW s \in Nodes,
         NEW k \in 1..Len(T), T[k].ip = s,
         NEW D \in [1..MaxConns -> Conns], Settled(C, D, T[k].fd)
  PROVE  NodeOK([T EXCEPT ![k] = Entry(s, s, 0)], D)
<1> DEFINE e == Entry(s, s, 0)
           U == [T EXCEPT ![k] = e]
<1>1. /\ e \in Entries /\ e.ip = s /\ e.mac = s /\ e.fd = 0 /\ s # NoMac
  BY ArpAssumption DEF Entry, Entries, Macs
<1> HIDE DEF e
<1>2. T \in Seq(Entries)
  BY DEF NodeOK, Typed
<1>3. /\ U \in Seq(Entries) /\ Len(U) = Len(T)
      /\ \A i \in 1..Len(T) : U[i] = IF i = k THEN e ELSE T[i]
  BY <1>1, <1>2, ReplaceEntry
<1> HIDE DEF U
<1>4. Right(U, D)
  <2>1. \A g \in 1..MaxConns :
          /\ D[g].mac \in {NoMac, D[g].ip}
          /\ D[g] # Free => D[g].ip \in Nodes
    BY DEF NodeOK, Right, Settled
  <2>2. \A i \in 1..Len(U) : U[i].mac \in {NoMac, U[i].ip}
    BY <1>1, <1>3 DEF NodeOK, Right
  <2> QED BY <2>1, <2>2 DEF Right
<1>5. Live(U, D)
  <2> SUFFICES ASSUME NEW g \in 1..MaxConns
               PROVE  IF Waits(D[g])
                        THEN \E i \in 1..Len(U) :
                               /\ U[i].fd = g /\ U[i].ip = D[g].ip
                               /\ \A j \in 1..Len(U) : U[j].fd = g => j = i
                        ELSE \A i \in 1..Len(U) : U[i].fd # g
    BY DEF Live
  <2>1. CASE g = T[k].fd
    <3>1. \A i \in 1..Len(T) : T[i].fd = g => i = k
      BY <2>1 DEF NodeOK, Live
    <3> QED BY <2>1, <3>1, <1>1, <1>3 DEF Settled
  <2>2. CASE g # T[k].fd /\ Waits(C[g])
    <3>1. PICK i \in 1..Len(T) :
            /\ T[i].fd = g /\ T[i].ip = C[g].ip
            /\ \A j \in 1..Len(T) : T[j].fd = g => j = i
      BY <2>2 DEF NodeOK, Live
    <3>2. i # k /\ U[i] = T[i] /\ D[g] = C[g]
      BY <2>2, <1>3, <3>1 DEF Settled
    <3>3. \A j \in 1..Len(U) : U[j].fd = g => j = i
      BY <1>1, <1>3, <3>1
    <3> QED BY <1>3, <2>2, <3>1, <3>2, <3>3
  <2>3. CASE g # T[k].fd /\ ~Waits(C[g])
    <3>1. \A i \in 1..Len(T) : T[i].fd # g
      BY <2>3 DEF NodeOK, Live
    <3> QED BY <2>3, <1>1, <1>3, <3>1 DEF Settled
  <2> QED BY <2>1, <2>2, <2>3
<1>6. Few(U)
  <2>1. Few(T) BY DEF NodeOK
  <2>2. \A i \in 1..Len(U) :
          U[i].ip = T[i].ip /\ (U[i].mac = NoMac => T[i].mac = NoMac)
    BY <1>1, <1>3
  <2>3. ASSUME NEW i \in 1..Len(U), NEW j \in 1..Len(U), i # j, U[i].ip = U[j].ip
        PROVE  U[i].mac # NoMac \/ U[j].mac # NoMac
    BY <1>3, <2>1, <2>2, <2>3 DEF Few
  <2>4. ASSUME NEW i \in 1..Len(U), NEW j \in 1..Len(U), NEW l \in 1..Len(U),
               U[i].ip \in Terminated, U[i].ip = U[j].ip, U[j].ip = U[l].ip, i # j, j # l
        PROVE  i = l
    BY <1>3, <2>1, <2>2, <2>4 DEF Few
  <2> QED BY <2>3, <2>4 DEF Few
<1> QED BY <1>3, <1>4, <1>5, <1>6 DEF NodeOK, Typed, U, e

-----------------------------------------------------------------------------
(* Lookups. *)

\* A set of indices that is not empty has a least element.
LEMMA LeastIndex ==
  ASSUME NEW S \in SUBSET Nat, S # {}
  PROVE  \E i \in S : \A j \in S : i <= j
<1>1. PICK i \in S : \A j \in S : ~(<<j, i>> \in OpToRel(<, Nat))
  BY WFMin, NatLessThanWellFounded
<1>2. ASSUME NEW j \in S PROVE i <= j
  <2>1. i \in Nat /\ j \in Nat
    OBVIOUS
  <2>2. <<j, i>> \in OpToRel(<, Nat) <=> j < i
    BY <2>1 DEF OpToRel
  <2>3. ~(j < i)
    BY <1>1, <2>2
  <2> QED BY <2>1, <2>3
<1> QED BY <1>2

\* What indexOfIP and checkEntryExist return.
LEMMA IndexOfIP ==
  ASSUME NEW T \in Seq(Entries), NEW ip
  PROVE  IF indexOfIP(T, ip) = 0 THEN \A i \in 1..Len(T) : T[i].ip # ip
         ELSE indexOfIP(T, ip) \in 1..Len(T) /\ T[indexOfIP(T, ip)].ip = ip
<1> DEFINE S == {i \in 1..Len(T) : T[i].ip = ip}
<1>0. Len(T) \in Nat
  BY LenProperties
<1>1. CASE S = {}
  BY <1>1 DEF indexOfIP, FirstIndex
<1>2. CASE S # {}
  <2>0. S \in SUBSET Nat
    BY <1>0
  <2>1. PICK i \in S : \A j \in S : i <= j
    BY <1>2, <2>0, LeastIndex
  <2>2. \A j \in 1..(i - 1) : T[j].ip # ip
    BY <1>0, <2>1
  <2>3. i \in 1..Len(T) /\ T[i].ip = ip
    OBVIOUS
  <2>4. indexOfIP(T, ip) = CHOOSE k \in 1..Len(T) :
          T[k].ip = ip /\ \A j \in 1..(k - 1) : ~(T[j].ip = ip)
    BY <2>3 DEF indexOfIP, FirstIndex
  <2>5. indexOfIP(T, ip) \in 1..Len(T) /\ T[indexOfIP(T, ip)].ip = ip
    BY <2>2, <2>3, <2>4
  <2> QED BY <1>0, <2>5
<1> QED BY <1>1, <1>2

\* checkEntryExist says 0 of an address with a zero byte only if the table has
\* no complete entry for it.
LEMMA EntryExists ==
  ASSUME NEW T \in Seq(Entries), NEW s \in Terminated, checkEntryExist(T, s) = 0
  PROVE  \A i \in 1..Len(T) : ~(T[i].ip = s /\ T[i].mac = s)
<1> DEFINE S == {i \in 1..Len(T) : T[i].ip = s /\ SameMac(T[i].mac, s)}
<1>0. Len(T) \in Nat
  BY LenProperties
<1>1. CASE S = {}
  BY <1>1 DEF SameMac
<1>2. CASE S # {}
  <2>0. S \in SUBSET Nat
    BY <1>0
  <2>1. PICK i \in S : \A j \in S : i <= j
    BY <1>2, <2>0, LeastIndex
  <2>2. \A j \in 1..(i - 1) : ~(T[j].ip = s /\ SameMac(T[j].mac, s))
    BY <1>0, <2>1
  <2>3. i \in 1..Len(T) /\ T[i].ip = s /\ SameMac(T[i].mac, s)
    OBVIOUS
  <2> QED BY <1>0, <2>2, <2>3 DEF checkEntryExist, FirstIndex
<1> QED BY <1>1, <1>2

\* The descriptor of a new connection.
LEMMA DescriptorFree ==
  ASSUME NEW n, \E g \in 1..MaxConns : conns[n][g] = Free
  PROVE  NewDescriptor(n) \in 1..MaxConns /\ conns[n][NewDescriptor(n)] = Free
<1> DEFINE S == {g \in 1..MaxConns : conns[n][g] = Free}
<1>1. MaxConns \in Nat
  BY ArpAssumption
<1>2. S \in SUBSET Nat /\ S # {}
  BY <1>1
<1>3. PICK i \in S : \A j \in S : i <= j
  BY <1>2, LeastIndex
<1>4. \A j \in 1..(i - 1) : conns[n][j] # Free
  BY <1>1, <1>3
<1> QED BY <1>4 DEF NewDescriptor

-----------------------------------------------------------------------------
(* Counting entries. *)

\* The entries of table T for an IP.
EntriesFor(T, ip) == {i \in 1..Len(T) : T[i].ip = ip}

\* E: entries of a table for an IP.  P: lives of the daemon of that IP in which
\* it may still have the table's node make one more.  N: its last life.
Fits(E, P, N) ==
  IsFiniteSet(E) /\ P \subseteq 1..N /\ Cardinality(E) + Cardinality(P) <= 1 + N

\* Sets of lives are finite, and smaller ones have fewer members.
LEMMA FewerLives ==
  ASSUME NEW N \in Nat, NEW P \in SUBSET (1..N), NEW Q \in SUBSET P
  PROVE  /\ IsFiniteSet(P) /\ Cardinality(P) \in Nat /\ Cardinality(P) <= N
         /\ IsFiniteSet(Q) /\ Cardinality(Q) \in Nat /\ Cardinality(Q) <= Cardinality(P)
<1>1. IsFiniteSet(1..N) /\ Cardinality(1..N) = N
  BY FS_Interval
<1>2. IsFiniteSet(P) /\ Cardinality(P) <= N
  BY <1>1, FS_Subset
<1>3. IsFiniteSet(Q) /\ Cardinality(Q) <= Cardinality(P)
  BY <1>2, FS_Subset
<1> QED BY <1>2, <1>3, FS_CardinalityType

\* A request arrives, is lost or is no longer to come.
LEMMA FitsLess ==
  ASSUME NEW E, NEW P, NEW N \in Nat, Fits(E, P, N), NEW Q \in SUBSET P
  PROVE  Fits(E, Q, N)
<1>1. Cardinality(Q) \in Nat /\ Cardinality(P) \in Nat /\ Cardinality(Q) <= Cardinality(P)
  BY FewerLives DEF Fits
<1>2. Cardinality(E) \in Nat
  BY FS_CardinalityType DEF Fits
<1> QED BY <1>1, <1>2 DEF Fits

\* A table with one entry, or none, for the IP.
LEMMA FitsFew ==
  ASSUME NEW E, NEW P, NEW N \in Nat, P \subseteq 1..N, E = {} \/ \E e : E = {e}
  PROVE  Fits(E, P, N)
<1>1. Cardinality(P) \in Nat /\ Cardinality(P) <= N
  BY FewerLives
<1>2. IsFiniteSet(E) /\ Cardinality(E) \in {0, 1}
  BY FS_EmptySet, FS_Singleton
<1> QED BY <1>1, <1>2 DEF Fits

\* A request of life k has one more entry made.
LEMMA FitsEnter ==
  ASSUME NEW E, NEW P, NEW N \in Nat, Fits(E, P, N), NEW k \in P,
         NEW e, e \notin E, NEW Q, Q \subseteq P \ {k}
  PROVE  Fits(E \cup {e}, Q, N)
<1>1. IsFiniteSet(P) /\ Cardinality(P) \in Nat
  BY FewerLives DEF Fits
<1>2. Cardinality(P \ {k}) = Cardinality(P) - 1
  BY <1>1, FS_RemoveElement
<1>3. /\ Cardinality(Q) \in Nat /\ Cardinality(Q) <= Cardinality(P \ {k})
  BY FewerLives DEF Fits
<1>4. /\ IsFiniteSet(E \cup {e}) /\ Cardinality(E \cup {e}) = Cardinality(E) + 1
      /\ Cardinality(E) \in Nat
  BY FS_AddElement, FS_CardinalityType DEF Fits
<1>5. Q \subseteq 1..N
  BY DEF Fits
<1> QED BY <1>1, <1>2, <1>3, <1>4, <1>5 DEF Fits

\* The daemon is started again.
LEMMA FitsStart ==
  ASSUME NEW E, NEW P, NEW N \in Nat, Fits(E, P, N), NEW Q,
         Q \subseteq P \cup {N + 1}
  PROVE  Fits(E, Q, N + 1)
<1>1. IsFiniteSet(P) /\ Cardinality(P) \in Nat
  BY FewerLives DEF Fits
<1>2. N + 1 \notin P
  BY DEF Fits
<1>3. Cardinality(P \cup {N + 1}) = Cardinality(P) + 1
  BY <1>1, <1>2, FS_AddElement
<1>4. P \cup {N + 1} \subseteq 1..(N + 1)
  BY DEF Fits
<1>5. Cardinality(Q) \in Nat /\ Cardinality(Q) <= Cardinality(P) + 1
  BY <1>3, <1>4, FewerLives
<1>6. Cardinality(E) \in Nat
  BY FS_CardinalityType DEF Fits
<1> QED BY <1>1, <1>4, <1>5, <1>6 DEF Fits

\* The entries for an IP in a table with one entry more, or one replaced.
LEMMA EntriesForAppend ==
  ASSUME NEW T \in Seq(Entries), NEW e \in Entries, NEW ip
  PROVE  EntriesFor(Append(T, e), ip) =
           EntriesFor(T, ip) \cup (IF e.ip = ip THEN {Len(T) + 1} ELSE {})
BY AppendEntry DEF EntriesFor

LEMMA EntriesForReplace ==
  ASSUME NEW T \in Seq(Entries), NEW e \in Entries, NEW k \in 1..Len(T),
         e.ip = T[k].ip, NEW ip
  PROVE  EntriesFor([T EXCEPT ![k] = e], ip) = EntriesFor(T, ip)
BY ReplaceEntry DEF EntriesFor

-----------------------------------------------------------------------------
(* The daemons. *)

FrameSet == [op : {"request", "reply"}, sender : Nodes, target : Nodes,
             life : Nat \ {0}]

Tables ==
  /\ arpTable \in [Nodes -> Seq(Entries)]
  /\ conns \in [Nodes -> [1..MaxConns -> Conns]]
  /\ \A n \in Nodes : NodeOK(arpTable[n], conns[n])
Calls == areq \in [Nodes -> Idle..Unheard]
Wire == frames \subseteq FrameSet /\ lost \in 0..MaxLost
Lives == starts \in [Nodes -> Nat \ {0}] /\ up \in [Nodes -> BOOLEAN]

\* The daemon of s has still to ask for n in this life.
MayAsk(s, n) == up[s] /\ EntriesFor(arpTable[s], n) = {}

\* A request on its way was sent in a life up to the last, and the daemon that
\* sent it in this life does not ask again.
OnceALife ==
  \A m \in frames : m.op = "request" =>
    /\ m.life <= starts[m.sender]
    /\ m.life = starts[m.sender] => ~MayAsk(m.sender, m.target)

\* The lives of the daemon of s in which it asked for n, or may ask, and n has
\* not received the request.
InFlight(s, n) == {m \in frames : m.op = "request" /\ m.sender = s /\ m.target = n}
Pending(s, n) ==
  {m.life : m \in InFlight(s, n)} \cup (IF MayAsk(s, n) THEN {starts[s]} ELSE {})

Counts ==
  \A n, s \in Nodes : Fits(EntriesFor(arpTable[n], s), Pending(s, n), starts[s])

ArpInv == Tables /\ Calls /\ Wire /\ Lives /\ OnceALife /\ Counts

\* A step changes one node only.
LEMMA OneNode ==
  ASSUME Tables, NEW n \in Nodes, NEW T, NEW C, NodeOK(T, C),
         arpTable' = [arpTable EXCEPT ![n] = T],
         conns' = [conns EXCEPT ![n] = C]
  PROVE  Tables'
<1>1. T \in Seq(Entries) /\ C \in [1..MaxConns -> Conns]
  BY DEF NodeOK, Typed
<1>2. arpTable' \in [Nodes -> Seq(Entries)] /\ conns' \in [Nodes -> [1..MaxConns -> Conns]]
  BY <1>1 DEF Tables
<1>3. ASSUME NEW m \in Nodes PROVE NodeOK(arpTable'[m], conns'[m])
  <2>1. CASE m = n
    <3>1. arpTable'[m] = T /\ conns'[m] = C
      BY <2>1 DEF Tables
    <3> QED BY <3>1
  <2>2. CASE m # n
    <3>1. arpTable'[m] = arpTable[m] /\ conns'[m] = conns[m]
      BY <2>2 DEF Tables
    <3> QED BY <3>1 DEF Tables
  <2> QED BY <2>1, <2>2
<1> QED BY <1>2, <1>3 DEF Tables

\* The invariant holds at the start.
LEMMA InitArpInv == Init => ArpInv
<1> SUFFICES ASSUME Init PROVE ArpInv
  OBVIOUS
<1>1. <<>> \in Seq(Entries) /\ [fd \in 1..MaxConns |-> Free] \in [1..MaxConns -> Conns]
  BY EmptyOK DEF NodeOK, Typed
<1>2. Tables
  BY <1>1, EmptyOK DEF Init, Tables
<1>3. Calls /\ Wire /\ Lives /\ OnceALife
  BY ArpAssumption DEF Init, Calls, Wire, Lives, OnceALife, Idle, Unheard
<1>4. ASSUME NEW n \in Nodes, NEW s \in Nodes
      PROVE  Fits(EntriesFor(arpTable[n], s), Pending(s, n), starts[s])
  <2>1. EntriesFor(arpTable[n], s) = {} /\ starts[s] = 1
    BY DEF Init, EntriesFor
  <2>2. Pending(s, n) \subseteq 1..1
    BY <2>1 DEF Init, Pending, InFlight
  <2> QED BY <2>1, <2>2, FitsFew
<1> QED BY <1>2, <1>3, <1>4 DEF ArpInv, Counts

\* A request of the tour process, answered or passed on to the network.
LEMMA TourRequestTables ==
  ASSUME ArpInv, NEW n \in Nodes, NEW ip \in Nodes, TourRequest(n, ip)
  PROVE  Tables'
<1> DEFINE i == indexOfIP(arpTable[n], ip)
           fd == NewDescriptor(n)
           room == \E g \in 1..MaxConns : conns[n][g] = Free
           T == arpTable[n]
           C == conns[n]
<1>1. /\ Tables /\ NodeOK(T, C) /\ T \in Seq(Entries)
      /\ arpTable \in [Nodes -> Seq(Entries)]
      /\ conns \in [Nodes -> [1..MaxConns -> Conns]]
  BY DEF ArpInv, Tables
<1>2. IF i = 0 THEN \A j \in 1..Len(T) : T[j].ip # ip
      ELSE i \in 1..Len(T) /\ T[i].ip = ip
  BY <1>1, IndexOfIP
<1>3. ASSUME room PROVE fd \in 1..MaxConns /\ C[fd] = Free
  BY <1>3, DescriptorFree
<1>4. CASE /\ i = 0 /\ room
           /\ arpTable' = [arpTable EXCEPT ![n] = Append(@, Entry(ip, NoMac, fd))]
           /\ conns' = [conns EXCEPT ![n][fd] = Conn(ip, NoMac)]
  <2>1. NodeOK(Append(T, Entry(ip, NoMac, fd)), [C EXCEPT ![fd] = Conn(ip, NoMac)])
    BY <1>1, <1>2, <1>3, <1>4, AskOK
  <2>2. /\ arpTable' = [arpTable EXCEPT ![n] = Append(T, Entry(ip, NoMac, fd))]
        /\ conns' = [conns EXCEPT ![n] = [C EXCEPT ![fd] = Conn(ip, NoMac)]]
    BY <1>4
  <2> QED BY <1>1, <2>1, <2>2, OneNode
<1>5. CASE UNCHANGED <<arpTable, conns>>
  BY <1>1, <1>5 DEF Tables
<1>6. CASE /\ i # 0 /\ checkAddressNotEmpty(arpTable[n][i].mac) /\ room
           /\ conns' = [conns EXCEPT ![n][fd] = Conn(ip, arpTable[n][i].mac)]
           /\ UNCHANGED arpTable
  <2>1. T[i].mac # NoMac
    BY <1>6, ArpAssumption DEF checkAddressNotEmpty
  <2>2. NodeOK(T, [C EXCEPT ![fd] = Conn(T[i].ip, T[i].mac)])
    BY <1>1, <1>2, <1>3, <1>6, <2>1, KnownOK
  <2>3. /\ arpTable' = [arpTable EXCEPT ![n] = T]
        /\ conns' = [conns EXCEPT ![n] = [C EXCEPT ![fd] = Conn(T[i].ip, T[i].mac)]]
    BY <1>1, <1>2, <1>6
  <2> QED BY <1>1, <2>2, <2>3, OneNode
<1> QED BY <1>4, <1>5, <1>6 DEF TourRequest

\* The tour process takes its answer, gives up waiting, or exits.
LEMMA AreqTables ==
  ASSUME ArpInv, NEW n \in Nodes, AreqReturn(n) \/ AreqTimeout(n) \/ TourExit(n)
  PROVE  Tables'
<1> DEFINE T == arpTable[n]
           C == conns[n]
<1>1. /\ Tables /\ NodeOK(T, C)
      /\ arpTable \in [Nodes -> Seq(Entries)]
      /\ conns \in [Nodes -> [1..MaxConns -> Conns]]
  BY DEF ArpInv, Tables
<1>2. CASE AreqReturn(n)
  <2>1. areq[n] \in 1..MaxConns /\ C[areq[n]].mac # NoMac
    BY <1>2 DEF AreqReturn, Answered
  <2>2. NodeOK(T, [C EXCEPT ![areq[n]] = Free])
    BY <1>1, <2>1, ReturnOK
  <2>3. /\ arpTable' = [arpTable EXCEPT ![n] = T]
        /\ conns' = [conns EXCEPT ![n] = [C EXCEPT ![areq[n]] = Free]]
    BY <1>1, <1>2 DEF AreqReturn
  <2> QED BY <1>1, <2>2, <2>3, OneNode
<1>3. CASE AreqTimeout(n)
  BY <1>1, <1>3 DEF AreqTimeout, Tables
<1>4. CASE TourExit(n)
  <2> DEFINE D == [fd \in 1..MaxConns |->
                     IF C[fd] = Free \/ C[fd].mac # NoMac THEN Free
                     ELSE [C[fd] EXCEPT !.hup = TRUE]]
  <2>1. NodeOK(T, D)
    BY <1>1, ExitOK
  <2>2. arpTable' = [arpTable EXCEPT ![n] = T] /\ conns' = [conns EXCEPT ![n] = D]
    BY <1>1, <1>4 DEF TourExit
  <2> QED BY <1>1, <2>1, <2>2, OneNode
<1> QED BY <1>2, <1>3, <1>4

\* A request from the network: the sender is entered, or what is known of it
\* is brought up to date.
LEMMA ReceiveRequestTables ==
  ASSUME ArpInv, NEW n \in Nodes, NEW m \in frames, ReceiveRequest(n, m)
  PROVE  Tables'
<1> DEFINE T == arpTable[n]
           C == conns[n]
<1>1. /\ Tables /\ NodeOK(T, C) /\ T \in Seq(Entries) /\ m.sender \in Nodes
      /\ arpTable \in [Nodes -> Seq(Entries)]
      /\ conns \in [Nodes -> [1..MaxConns -> Conns]]
  BY DEF ArpInv, Tables, Wire, FrameSet
<1>2. CASE checkEntryExist(T, m.sender) = 0
  <2>1. m.sender \in Terminated => \A i \in 1..Len(T) : ~(T[i].ip = m.sender /\ T[i].mac = m.sender)
    BY <1>1, <1>2, EntryExists
  <2>2. NodeOK(Append(T, Entry(m.sender, m.sender, 0)), C)
    <3> HIDE DEF T, C
    <3> QED BY <1>1, <2>1, RequestOK
  <2>3. /\ arpTable' = [arpTable EXCEPT ![n] = Append(T, Entry(m.sender, m.sender, 0))]
        /\ conns' = [conns EXCEPT ![n] = C]
    BY <1>1, <1>2 DEF ReceiveRequest
  <2> QED BY <1>1, <2>2, <2>3, OneNode
<1>3. CASE checkEntryExist(T, m.sender) # 0
  BY <1>1, <1>3 DEF ReceiveRequest, Tables
<1> QED BY <1>2, <1>3

\* A reply from the network: the entry is completed and the connections that
\* waited for it are answered.
LEMMA ReceiveReplyTables ==
  ASSUME ArpInv, NEW n \in Nodes, NEW m \in frames, ReceiveReply(n, m)
  PROVE  Tables'
<1> DEFINE T == arpTable[n]
           C == conns[n]
           s == m.sender
           i == indexOfIP(arpTable[n], m.sender)
           fd == IF i = 0 THEN 0 ELSE arpTable[n][i].fd
<1>1. /\ Tables /\ NodeOK(T, C) /\ T \in Seq(Entries) /\ s \in Nodes
      /\ arpTable \in [Nodes -> Seq(Entries)]
      /\ conns \in [Nodes -> [1..MaxConns -> Conns]]
  BY DEF ArpInv, Tables, Wire, FrameSet
<1>2. CASE DaemonEnds(n)
  BY <1>1, <1>2, EmptyOK, OneNode DEF DaemonEnds
<1>3. CASE i = 0 /\ UNCHANGED <<arpTable, conns>>
  BY <1>1, <1>3 DEF Tables
<1>4. CASE /\ i # 0
           /\ arpTable' = [arpTable EXCEPT ![n][i] = Entry(s, s, 0)]
           /\ IF fd = 0 THEN UNCHANGED conns ELSE Answer(n, fd, s)
  <2>1. i \in 1..Len(T) /\ T[i].ip = s /\ fd = T[i].fd /\ fd \in 0..MaxConns
    <3>1. i \in 1..Len(T) /\ T[i].ip = s
      BY <1>1, <1>4, IndexOfIP
    <3>2. T[i] \in Entries
      BY <1>1, <3>1, ElementOfSeq
    <3> QED BY <1>4, <3>1, <3>2 DEF Entries
  <2>2. arpTable' = [arpTable EXCEPT ![n] = [T EXCEPT ![i] = Entry(s, s, 0)]]
    BY <1>4
  <2>3. CASE fd = 0
    <3>1. Settled(C, C, T[i].fd) /\ C \in [1..MaxConns -> Conns]
      BY <1>1, <2>1, <2>3 DEF Settled
    <3>2. NodeOK([T EXCEPT ![i] = Entry(s, s, 0)], C)
      <4> HIDE DEF T, C, i, s
      <4> QED BY <1>1, <2>1, <3>1, ReplyOK
    <3>3. conns' = [conns EXCEPT ![n] = C]
      BY <1>1, <1>4, <2>3
    <3> QED BY <1>1, <2>2, <3>2, <3>3, OneNode
  <2>4. CASE fd # 0
    <3> DEFINE c == IF areq[n] = fd THEN [C[fd] EXCEPT !.mac = s] ELSE Free
               D == [C EXCEPT ![fd] = c]
    <3>1. fd \in 1..MaxConns /\ C[fd] \in Conns
      BY <1>1, <2>1, <2>4, ArpAssumption
    <3>2. C[fd].ip = s
      BY <1>1, <2>1, <3>1 DEF NodeOK, Live
    <3>3. Free \in Conns /\ Free.mac = NoMac
      BY DEF Free, Conn, Conns, Macs
    <3>4. /\ c \in Conns /\ ~Waits(c) /\ c.mac \in {NoMac, c.ip}
          /\ c # Free => c.ip \in Nodes
      <4>1. CASE areq[n] = fd
        <5>1. c = [C[fd] EXCEPT !.mac = s]
          BY <4>1
        <5>2. c \in Conns /\ c.mac = s /\ c.ip = s
          BY <1>1, <3>1, <3>2, <5>1 DEF Conns, Macs
        <5> QED BY <1>1, <5>2, ArpAssumption DEF Waits
      <4>2. CASE areq[n] # fd
        BY <3>3, <4>2 DEF Waits
      <4> QED BY <4>1, <4>2
    <3>5. D \in [1..MaxConns -> Conns] /\ D[fd] = c
      BY <1>1, <3>1, <3>4
    <3>6. \A g \in 1..MaxConns : g # fd => D[g] = C[g]
      BY <1>1
    <3> HIDE DEF c, D
    <3>7. NodeOK([T EXCEPT ![i] = Entry(s, s, 0)], D)
      <4>1. Settled(C, D, T[i].fd)
        BY <2>1, <3>4, <3>5, <3>6 DEF Settled
      <4> HIDE DEF T, C, i, s, fd
      <4>2. D \in [1..MaxConns -> Conns] /\ i \in 1..Len(T) /\ T[i].ip = s
        BY <2>1, <3>5
      <4>3. s \in Nodes /\ NodeOK(T, C)
        BY <1>1
      <4> QED BY <4>1, <4>2, <4>3, ReplyOK
    <3>8. conns' = [conns EXCEPT ![n] = D]
      BY <1>1, <1>4, <2>4 DEF Answer, D, c
    <3> QED BY <1>1, <2>2, <3>7, <3>8, OneNode
  <2> QED BY <2>3, <2>4
<1> QED BY <1>2, <1>3, <1>4 DEF ReceiveReply

\* Each step leaves the calls of the tour processes and the frames typed.
LEMMA NextCallsWire ==
  ASSUME ArpInv, Next
  PROVE  Calls' /\ Wire'
<1>1. /\ areq \in [Nodes -> Idle..Unheard] /\ frames \subseteq FrameSet
      /\ lost \in 0..MaxLost /\ MaxLost \in Nat /\ MaxConns \in Nat
      /\ Idle = 0 /\ Unheard = MaxConns + 1
  BY ArpAssumption DEF ArpInv, Calls, Wire, Idle, Unheard
<1>2. ASSUME NEW n \in Nodes, NEW ip \in Nodes, TourRequest(n, ip)
      PROVE  Calls' /\ Wire'
  <2>1. Frame("request", n, ip, starts[n]) \in FrameSet
    BY DEF ArpInv, Lives, Frame, FrameSet
  <2>2. (\E g \in 1..MaxConns : conns[n][g] = Free) => NewDescriptor(n) \in Idle..Unheard
    BY <1>1, DescriptorFree
  <2>3. Calls'
    BY <1>1, <1>2, <2>1, <2>2 DEF TourRequest, Calls
  <2>4. Wire'
    BY <1>1, <1>2, <2>1 DEF TourRequest, Wire
  <2> QED BY <2>3, <2>4
<1>3. ASSUME NEW n \in Nodes, AreqReturn(n) \/ AreqTimeout(n) \/ TourExit(n)
      PROVE  Calls' /\ Wire'
  BY <1>1, <1>3 DEF AreqReturn, AreqTimeout, TourExit, Calls, Wire
<1>4. ASSUME NEW n \in Nodes, NEW m \in frames, ReceiveRequest(n, m)
      PROVE  Calls' /\ Wire'
  <2>1. Reply(n, m) \in FrameSet
    BY <1>1 DEF Reply, Frame, FrameSet
  <2> QED BY <1>1, <1>4, <2>1 DEF ReceiveRequest, Calls, Wire
<1>5. ASSUME NEW n \in Nodes, NEW m \in frames, ReceiveReply(n, m)
      PROVE  Calls' /\ Wire'
  <2>1. Wire'
    BY <1>1, <1>5 DEF ReceiveReply, Wire
  <2>2. areq' = areq \/ areq' = [areq EXCEPT ![n] = IF @ = Idle THEN Idle ELSE Unheard]
    BY <1>5 DEF ReceiveReply, DaemonEnds
  <2> QED BY <1>1, <2>1, <2>2 DEF Calls
<1>6. ASSUME NEW m \in frames, Lose(m) PROVE Calls' /\ Wire'
  BY <1>1, <1>6 DEF Lose, Calls, Wire
<1>7. ASSUME NEW n \in Nodes, DaemonStart(n) PROVE Calls' /\ Wire'
  BY <1>1, <1>7 DEF DaemonStart, Calls, Wire
<1>8. Asks \subseteq Nodes \X Nodes
  BY ArpAssumption
<1> QED BY <1>2, <1>3, <1>4, <1>5, <1>6, <1>7, <1>8 DEF Next, Receive

\* A step that starts no daemon: whoever may ask afterwards might before, a new
\* request comes from one who might ask, and the table of one node, if any,
\* changes as given.
LEMMA CountsStep ==
  ASSUME ArpInv, UNCHANGED starts, up' \in [Nodes -> BOOLEAN],
         \A s, n \in Nodes : MayAsk(s, n)' => MayAsk(s, n),
         \A m \in frames' : m.op = "request" /\ m \notin frames =>
           /\ m.sender \in Nodes /\ m.target \in Nodes
           /\ MayAsk(m.sender, m.target) /\ ~MayAsk(m.sender, m.target)'
           /\ m.life = starts[m.sender],
         \A n, s \in Nodes :
           \/ EntriesFor(arpTable[n], s)' = EntriesFor(arpTable[n], s)
           \/ EntriesFor(arpTable[n], s)' = {} \/ \E e : EntriesFor(arpTable[n], s)' = {e}
           \/ \E k \in Pending(s, n) : \E e :
                /\ e \notin EntriesFor(arpTable[n], s)
                /\ EntriesFor(arpTable[n], s)' = EntriesFor(arpTable[n], s) \cup {e}
                /\ k \notin Pending(s, n)'
  PROVE  Lives' /\ OnceALife' /\ Counts'
<1>1. starts \in [Nodes -> Nat \ {0}] /\ frames \subseteq FrameSet
  BY DEF ArpInv, Lives, Wire
<1>2. Lives'
  BY <1>1 DEF Lives
<1>3. OnceALife'
  <2> SUFFICES ASSUME NEW m \in frames', m.op = "request"
               PROVE  /\ m.life <= starts[m.sender]
                      /\ m.life = starts[m.sender] => ~MayAsk(m.sender, m.target)'
    BY DEF OnceALife
  <2>1. CASE m \in frames
    <3>1. m.sender \in Nodes /\ m.target \in Nodes
      BY <1>1, <2>1 DEF FrameSet
    <3> QED BY <2>1, <3>1 DEF ArpInv, OnceALife
  <2>2. CASE m \notin frames
    BY <1>1, <2>2
  <2> QED BY <2>1, <2>2
<1>4. ASSUME NEW n \in Nodes, NEW s \in Nodes
      PROVE  Fits(EntriesFor(arpTable[n], s)', Pending(s, n)', starts[s])
  <2>1. Pending(s, n)' \subseteq Pending(s, n)
    <3>1. ASSUME NEW m \in InFlight(s, n)' PROVE m.life \in Pending(s, n)
      <4>1. m \in frames' /\ m.op = "request" /\ m.sender = s /\ m.target = n
        BY DEF InFlight
      <4>2. CASE m \in frames
        BY <4>1, <4>2 DEF Pending, InFlight
      <4>3. CASE m \notin frames
        BY <4>1, <4>3 DEF Pending
      <4> QED BY <4>2, <4>3
    <3>2. MayAsk(s, n)' => starts[s] \in Pending(s, n)
      BY DEF Pending
    <3> QED BY <3>1, <3>2 DEF Pending
  <2>2. Fits(EntriesFor(arpTable[n], s), Pending(s, n), starts[s]) /\ starts[s] \in Nat
    BY <1>1 DEF ArpInv, Counts
  <2>3. Pending(s, n)' \subseteq 1..starts[s]
    BY <2>1, <2>2 DEF Fits
  <2> DEFINE E == EntriesFor(arpTable[n], s)
             F == EntriesFor(arpTable[n], s)'
             P == Pending(s, n)
             Q == Pending(s, n)'
  <2>4. \/ F = E \/ F = {} \/ \E e : F = {e}
        \/ \E k \in P : \E e : e \notin E /\ F = E \cup {e} /\ k \notin Q
    OBVIOUS
  <2> HIDE DEF E, F, P, Q
  <2>5. Q \subseteq P /\ Q \subseteq 1..starts[s] /\ Fits(E, P, starts[s]) /\ starts[s] \in Nat
    BY <2>1, <2>2, <2>3 DEF E, P, Q
  <2>6. Fits(F, Q, starts[s])
    <3>1. CASE F = E
      BY <2>5, <3>1, FitsLess
    <3>2. CASE F = {} \/ \E e : F = {e}
      BY <2>5, <3>2, FitsFew
    <3>3. ASSUME NEW k \in P, NEW e, e \notin E, F = E \cup {e}, k \notin Q
          PROVE  Fits(F, Q, starts[s])
      <4>1. Q \subseteq P \ {k}
        BY <2>5, <3>3
      <4> QED BY <2>5, <3>3, <4>1, FitsEnter
    <3> QED BY <2>4, <3>1, <3>2, <3>3
  <2> QED BY <2>6 DEF F, Q
<1>5. Counts'
  BY <1>4 DEF Counts
<1> QED BY <1>2, <1>3, <1>5

\* A daemon asks for an IP it has no entry for.
LEMMA TourRequestCounts ==
  ASSUME ArpInv, NEW n \in Nodes, NEW ip \in Nodes, TourRequest(n, ip)
  PROVE  Lives' /\ OnceALife' /\ Counts'
<1>1. /\ arpTable \in [Nodes -> Seq(Entries)] /\ up \in [Nodes -> BOOLEAN]
      /\ UNCHANGED <<up, starts>> /\ up[n]
  BY DEF ArpInv, Tables, Lives, TourRequest
<1>2. CASE UNCHANGED <<arpTable, frames>>
  <2>1. \A s, k \in Nodes : MayAsk(s, k)' => MayAsk(s, k)
    BY <1>1, <1>2 DEF MayAsk
  <2>2. \A k, s \in Nodes : EntriesFor(arpTable[k], s)' = EntriesFor(arpTable[k], s)
    BY <1>2
  <2> QED BY <1>1, <1>2, <2>1, <2>2, CountsStep
<1>3. CASE ~UNCHANGED <<arpTable, frames>>
  <2> DEFINE T == arpTable[n]
             e == Entry(ip, NoMac, NewDescriptor(n))
             m == Frame("request", n, ip, starts[n])
  <2>1. /\ indexOfIP(T, ip) = 0 /\ \E g \in 1..MaxConns : conns[n][g] = Free
        /\ arpTable' = [arpTable EXCEPT ![n] = Append(T, e)]
        /\ frames' = frames \cup {m}
    BY <1>3 DEF TourRequest
  <2>2. EntriesFor(T, ip) = {}
    BY <1>1, <2>1, IndexOfIP DEF EntriesFor
  <2>3. e \in Entries /\ e.ip = ip
    BY <2>1, DescriptorFree, ArpAssumption DEF Entry, Entries, Macs
  <2>4. ASSUME NEW k \in Nodes, NEW s \in Nodes
        PROVE  EntriesFor(arpTable[k], s)' =
                 IF k = n /\ s = ip THEN {Len(T) + 1} ELSE EntriesFor(arpTable[k], s)
    <3> HIDE DEF e
    <3>1. CASE k = n
      <4>1. arpTable'[k] = Append(T, e) /\ T \in Seq(Entries)
        BY <1>1, <2>1, <3>1
      <4>2. EntriesFor(Append(T, e), s) =
              EntriesFor(T, s) \cup (IF e.ip = s THEN {Len(T) + 1} ELSE {})
        BY <2>3, <4>1, EntriesForAppend
      <4> QED BY <2>2, <2>3, <3>1, <4>1, <4>2
    <3>2. CASE k # n
      BY <1>1, <2>1, <3>2
    <3> QED BY <3>1, <3>2
  <2>5. \A s, k \in Nodes : MayAsk(s, k)' => MayAsk(s, k)
    BY <1>1, <2>2, <2>4 DEF MayAsk
  <2>6. MayAsk(n, ip) /\ ~MayAsk(n, ip)'
    BY <1>1, <2>2, <2>4 DEF MayAsk
  <2>7. m.sender = n /\ m.target = ip /\ m.life = starts[n]
    BY DEF Frame
  <2> HIDE DEF m
  <2>8. \A f \in frames' : f \notin frames => f = m
    BY <2>1
  <2>9. \A k, s \in Nodes :
          \/ EntriesFor(arpTable[k], s)' = EntriesFor(arpTable[k], s)
          \/ \E x : EntriesFor(arpTable[k], s)' = {x}
    BY <2>4
  <2> QED BY <1>1, <2>5, <2>6, <2>7, <2>8, <2>9, CountsStep
<1> QED BY <1>2, <1>3

\* A request is received.
LEMMA ReceiveRequestCounts ==
  ASSUME ArpInv, NEW n \in Nodes, NEW m \in frames, ReceiveRequest(n, m)
  PROVE  Lives' /\ OnceALife' /\ Counts'
<1> DEFINE T == arpTable[n]
           e == Entry(m.sender, m.sender, 0)
<1>1. /\ arpTable \in [Nodes -> Seq(Entries)] /\ up \in [Nodes -> BOOLEAN]
      /\ UNCHANGED <<up, starts>> /\ frames \subseteq FrameSet /\ T \in Seq(Entries)
      /\ m.sender \in Nodes /\ m.target = n /\ m.op = "request" /\ Len(T) \in Nat
  BY LenProperties DEF ArpInv, Tables, Lives, Wire, FrameSet, ReceiveRequest
<1>2. \A f \in frames' : f.op = "request" => f \in frames /\ f # m
  BY DEF ReceiveRequest, Reply, Frame
<1>3. arpTable' = arpTable \/ arpTable' = [arpTable EXCEPT ![n] = Append(T, e)]
  BY DEF ReceiveRequest
<1>4. e \in Entries /\ e.ip = m.sender
  BY <1>1, ArpAssumption DEF Entry, Entries, Macs
<1>5. Len(T) + 1 \notin EntriesFor(T, m.sender)
  BY <1>1 DEF EntriesFor
<1>6. ASSUME NEW k \in Nodes, NEW s \in Nodes
      PROVE  \/ EntriesFor(arpTable[k], s)' = EntriesFor(arpTable[k], s)
             \/ /\ k = n /\ s = m.sender
                /\ EntriesFor(arpTable[k], s)' = EntriesFor(T, s) \cup {Len(T) + 1}
  <2> HIDE DEF e
  <2>1. CASE k = n /\ arpTable' # arpTable
    <3>1. arpTable'[k] = Append(T, e)
      BY <1>1, <1>3, <2>1
    <3>2. EntriesFor(Append(T, e), s) =
            EntriesFor(T, s) \cup (IF e.ip = s THEN {Len(T) + 1} ELSE {})
      BY <1>1, <1>4, EntriesForAppend
    <3> QED BY <1>4, <2>1, <3>1, <3>2
  <2>2. CASE k # n \/ arpTable' = arpTable
    BY <1>1, <1>3, <2>2
  <2> QED BY <2>1, <2>2
<1>7. ASSUME NEW s \in Nodes, NEW k \in Nodes, MayAsk(s, k)' PROVE MayAsk(s, k)
  <2>1. EntriesFor(arpTable[s], k)' = {} => EntriesFor(arpTable[s], k) = {}
    BY <1>6
  <2> QED BY <1>1, <1>7, <2>1 DEF MayAsk
<1>8. m.life \in Pending(m.sender, n)
  BY <1>1 DEF Pending, InFlight
<1>9. m.life \notin Pending(m.sender, n)'
  <2>1. ASSUME NEW f \in InFlight(m.sender, n)' PROVE f.life # m.life
    <3>1. f \in frames /\ f # m /\ f.op = m.op /\ f.sender = m.sender /\ f.target = m.target
      BY <1>1, <1>2 DEF InFlight
    <3>2. /\ f = [op |-> f.op, sender |-> f.sender, target |-> f.target, life |-> f.life]
          /\ m = [op |-> m.op, sender |-> m.sender, target |-> m.target, life |-> m.life]
      BY <1>1, <3>1 DEF FrameSet
    <3> QED BY <3>1, <3>2
  <2>2. MayAsk(m.sender, n)' => starts'[m.sender] # m.life
    BY <1>1, <1>7 DEF ArpInv, OnceALife
  <2> QED BY <2>1, <2>2 DEF Pending
<1>10. ASSUME NEW k \in Nodes, NEW s \in Nodes
       PROVE  \/ EntriesFor(arpTable[k], s)' = EntriesFor(arpTable[k], s)
              \/ \E l \in Pending(s, k) : \E x :
                   /\ x \notin EntriesFor(arpTable[k], s)
                   /\ EntriesFor(arpTable[k], s)' = EntriesFor(arpTable[k], s) \cup {x}
                   /\ l \notin Pending(s, k)'
  BY <1>5, <1>6, <1>8, <1>9
<1> QED BY <1>1, <1>2, <1>7, <1>10, CountsStep

\* A reply is received: the table keeps its entries, or the daemon ends.
LEMMA ReceiveReplyCounts ==
  ASSUME ArpInv, NEW n \in Nodes, NEW m \in frames, ReceiveReply(n, m)
  PROVE  Lives' /\ OnceALife' /\ Counts'
<1> DEFINE T == arpTable[n]
           i == indexOfIP(T, m.sender)
           e == Entry(m.sender, m.sender, 0)
<1>1. /\ arpTable \in [Nodes -> Seq(Entries)] /\ up \in [Nodes -> BOOLEAN]
      /\ UNCHANGED starts /\ T \in Seq(Entries) /\ m.sender \in Nodes
      /\ frames' \subseteq frames
  BY DEF ArpInv, Tables, Lives, Wire, FrameSet, ReceiveReply
<1>2. CASE DaemonEnds(n)
  <2>1. up' \in [Nodes -> BOOLEAN] /\ ~up'[n] /\ \A s \in Nodes : s # n => up'[s] = up[s]
    BY <1>1, <1>2 DEF DaemonEnds
  <2>2. \A k, s \in Nodes : EntriesFor(arpTable[k], s)' =
          IF k = n THEN {} ELSE EntriesFor(arpTable[k], s)
    BY <1>1, <1>2 DEF DaemonEnds, EntriesFor
  <2>3. \A s, k \in Nodes : MayAsk(s, k)' => MayAsk(s, k)
    BY <2>1, <2>2 DEF MayAsk
  <2> QED BY <1>1, <2>1, <2>2, <2>3, CountsStep
<1>3. CASE ~DaemonEnds(n)
  <2>1. /\ UNCHANGED up
        /\ arpTable' = IF i = 0 THEN arpTable ELSE [arpTable EXCEPT ![n][i] = e]
    BY <1>3 DEF ReceiveReply
  <2>2. e \in Entries /\ e.ip = m.sender
    BY <1>1, ArpAssumption DEF Entry, Entries, Macs
  <2>3. i # 0 => i \in 1..Len(T) /\ T[i].ip = m.sender
    BY <1>1, IndexOfIP
  <2> HIDE DEF e, i
  <2>4. ASSUME NEW k \in Nodes, NEW s \in Nodes
        PROVE  EntriesFor(arpTable[k], s)' = EntriesFor(arpTable[k], s)
    <3>1. CASE k = n /\ i # 0
      <4>1. arpTable'[k] = [T EXCEPT ![i] = e]
        BY <1>1, <2>1, <3>1
      <4>2. T \in Seq(Entries) /\ arpTable[k] = T
        BY <1>1, <3>1
      <4> HIDE DEF T
      <4>3. EntriesFor([T EXCEPT ![i] = e], s) = EntriesFor(T, s)
        BY <2>2, <2>3, <3>1, <4>2, EntriesForReplace
      <4> QED BY <4>1, <4>2, <4>3
    <3>2. CASE k # n \/ i = 0
      BY <1>1, <2>1, <3>2
    <3> QED BY <3>1, <3>2
  <2>5. \A s, k \in Nodes : MayAsk(s, k)' => MayAsk(s, k)
    BY <2>1, <2>4 DEF MayAsk
  <2> QED BY <1>1, <2>1, <2>4, <2>5, CountsStep
<1> QED BY <1>2, <1>3

\* A daemon is started again: it may ask for everything once more.
LEMMA DaemonStartCounts ==
  ASSUME ArpInv, NEW n \in Nodes, DaemonStart(n)
  PROVE  Lives' /\ OnceALife' /\ Counts'
<1>1. /\ starts \in [Nodes -> Nat \ {0}] /\ up \in [Nodes -> BOOLEAN] /\ ~up[n]
      /\ UNCHANGED <<arpTable, frames>> /\ frames \subseteq FrameSet
      /\ up' = [up EXCEPT ![n] = TRUE] /\ starts' = [starts EXCEPT ![n] = @ + 1]
  BY DEF ArpInv, Lives, Wire, DaemonStart
<1>2. Lives'
  BY <1>1 DEF Lives
<1>3. \A s \in Nodes : s # n => starts'[s] = starts[s] /\ up'[s] = up[s]
  BY <1>1
<1>4. starts'[n] = starts[n] + 1 /\ \A s \in Nodes : starts[s] \in Nat
  BY <1>1
<1>5. \A s, k \in Nodes : s # n => (MayAsk(s, k)' <=> MayAsk(s, k))
  BY <1>1, <1>3 DEF MayAsk
<1>6. OnceALife'
  <2> SUFFICES ASSUME NEW m \in frames, m.op = "request"
               PROVE  /\ m.life <= starts'[m.sender]
                      /\ m.life = starts'[m.sender] => ~MayAsk(m.sender, m.target)'
    BY <1>1 DEF OnceALife
  <2>1. m.sender \in Nodes /\ m.target \in Nodes /\ m.life \in Nat
    BY <1>1 DEF FrameSet
  <2>2. m.life <= starts[m.sender] /\ (m.life = starts[m.sender] => ~MayAsk(m.sender, m.target))
    BY DEF ArpInv, OnceALife
  <2> QED BY <1>3, <1>4, <1>5, <2>1, <2>2
<1>7. ASSUME NEW k \in Nodes, NEW s \in Nodes
      PROVE  Fits(EntriesFor(arpTable[k], s)', Pending(s, k)', starts'[s])
  <2>1. EntriesFor(arpTable[k], s)' = EntriesFor(arpTable[k], s)
        /\ InFlight(s, k)' = InFlight(s, k)
    BY <1>1 DEF InFlight
  <2>2. Fits(EntriesFor(arpTable[k], s), Pending(s, k), starts[s])
    BY DEF ArpInv, Counts
  <2>3. CASE s # n
    <3>1. Pending(s, k)' = Pending(s, k)
      BY <1>3, <1>5, <2>1, <2>3 DEF Pending
    <3> QED BY <1>3, <2>1, <2>2, <2>3, <3>1
  <2>4. CASE s = n
    <3>1. Pending(s, k)' \subseteq Pending(s, k) \cup {starts[s] + 1}
      BY <1>4, <2>1, <2>4 DEF Pending
    <3> QED BY <1>4, <2>1, <2>2, <2>4, <3>1, FitsStart
  <2> QED BY <2>3, <2>4
<1>8. Counts'
  BY <1>7 DEF Counts
<1> QED BY <1>2, <1>6, <1>8

\* Each step keeps the count of entries.
LEMMA NextCounts ==
  ASSUME ArpInv, Next
  PROVE  Lives' /\ OnceALife' /\ Counts'
<1>1. ASSUME UNCHANGED <<arpTable, up, starts>>, frames' \subseteq frames
      PROVE  Lives' /\ OnceALife' /\ Counts'
  <2>1. up' \in [Nodes -> BOOLEAN]
    BY <1>1 DEF ArpInv, Lives
  <2>2. \A s, n \in Nodes : MayAsk(s, n)' => MayAsk(s, n)
    BY <1>1 DEF MayAsk
  <2>3. \A n, s \in Nodes : EntriesFor(arpTable[n], s)' = EntriesFor(arpTable[n], s)
    BY <1>1
  <2> QED BY <1>1, <2>1, <2>2, <2>3, CountsStep
<1>2. ASSUME NEW n \in Nodes, AreqReturn(n) \/ AreqTimeout(n) \/ TourExit(n)
      PROVE  Lives' /\ OnceALife' /\ Counts'
  BY <1>1, <1>2 DEF AreqReturn, AreqTimeout, TourExit
<1>3. ASSUME NEW m \in frames, Lose(m)
      PROVE  Lives' /\ OnceALife' /\ Counts'
  BY <1>1, <1>3 DEF Lose
<1>4. Asks \subseteq Nodes \X Nodes
  BY ArpAssumption
<1> QED BY <1>2, <1>3, <1>4, TourRequestCounts, ReceiveRequestCounts,
          ReceiveReplyCounts, DaemonStartCounts DEF Next, Receive

\* Each step keeps the invariant.
LEMMA NextArpInv == ArpInv /\ [Next]_vars => ArpInv'
<1> SUFFICES ASSUME ArpInv, [Next]_vars PROVE ArpInv'
  OBVIOUS
<1>1. CASE Next
  <2>1. Tables'
    <3>1. ASSUME NEW m \in frames, Lose(m) PROVE Tables'
      BY <3>1 DEF Lose, ArpInv, Tables
    <3>2. ASSUME NEW n \in Nodes, DaemonStart(n) PROVE Tables'
      BY <3>2 DEF DaemonStart, ArpInv, Tables
    <3>3. Asks \subseteq Nodes \X Nodes
      BY ArpAssumption
    <3> QED BY <1>1, <3>1, <3>2, <3>3, TourRequestTables, AreqTables,
              ReceiveRequestTables, ReceiveReplyTables DEF Next, Receive
  <2> QED BY <1>1, <2>1, NextCallsWire, NextCounts DEF ArpInv
<1>2. CASE UNCHANGED vars
  BY <1>2 DEF vars, ArpInv, Tables, Calls, Wire, Lives, OnceALife, Counts, Pending,
              InFlight, MayAsk
<1> QED BY <1>1, <1>2

\* The daemons keep ArpInv, whatever is asked, answered, lost and timed out.
THEOREM DaemonInvariant == Spec => []ArpInv
<1> QED BY InitArpInv, NextArpInv, PTL DEF Spec

\* Every answer and every completed entry is right (AnswersRight): the code
\* matches a reply with the entry for its sender, and the descriptor there is
\* that of a connection that asked for this IP.
THEOREM AnswersAreRight == Spec => []AnswersRight
<1>1. ArpInv => AnswersRight
  BY DEF ArpInv, Tables, NodeOK, Right, AnswersRight
<1> QED BY <1>1, DaemonInvariant, PTL

\* A descriptor in a table is that of a connection that waits
\* (DescriptorsLive): the code takes it out before close makes it free to be
\* used again.
THEOREM DescriptorsAreLive == Spec => []DescriptorsLive
<1>1. ArpInv => DescriptorsLive
  <2> SUFFICES ASSUME ArpInv, NEW n \in Nodes, NEW fd \in 1..MaxConns
               PROVE  IF Waits(conns[n][fd])
                        THEN \E i \in Stored(n, fd) :
                               Stored(n, fd) = {i} /\ arpTable[n][i].ip = conns[n][fd].ip
                        ELSE Stored(n, fd) = {}
    BY DEF DescriptorsLive, Waits
  <2>1. Live(arpTable[n], conns[n])
    BY DEF ArpInv, Tables, NodeOK
  <2>2. CASE Waits(conns[n][fd])
    <3>1. PICK i \in 1..Len(arpTable[n]) :
            /\ arpTable[n][i].fd = fd /\ arpTable[n][i].ip = conns[n][fd].ip
            /\ \A j \in 1..Len(arpTable[n]) : arpTable[n][j].fd = fd => j = i
      BY <2>1, <2>2 DEF Live
    <3>2. Stored(n, fd) = {i}
      BY <3>1 DEF Stored
    <3> QED BY <2>2, <3>1, <3>2
  <2>3. CASE ~Waits(conns[n][fd])
    BY <2>1, <2>3 DEF Live, Stored
  <2> QED BY <2>2, <2>3
<1> QED BY <1>1, DaemonInvariant, PTL

\* A set of which no three members differ has at most two.
LEMMA AtMostTwo ==
  ASSUME NEW S, \A i, j, k \in S : i = j \/ j = k \/ i = k
  PROVE  Cardinality(S) <= 2
<1>1. CASE S = {}
  BY <1>1, FS_EmptySet
<1>2. CASE S # {}
  <2>1. PICK i \in S : TRUE
    BY <1>2
  <2>2. CASE S = {i}
    <3>1. Cardinality({i}) = 1
      BY FS_Singleton
    <3> QED BY <2>2, <3>1
  <2>3. CASE S # {i}
    <3>1. PICK j \in S : j # i
      BY <2>1, <2>3
    <3>2. S = {i} \cup {j}
      BY <2>1, <3>1
    <3>3. IsFiniteSet({i}) /\ Cardinality({i}) = 1
      BY FS_Singleton
    <3>4. Cardinality({i} \cup {j}) = 2
      BY <3>1, <3>3, FS_AddElement
    <3> QED BY <3>2, <3>4
  <2> QED BY <2>2, <2>3
<1> QED BY <1>1, <1>2

\* A table, whose growth the code does not check, has at most one entry for an
\* IP more than the daemon of that IP was started, and at most two if the
\* address has a zero byte (TableFits).
THEOREM TablesFit == Spec => []TableFits
<1>1. ArpInv => TableFits
  <2> SUFFICES ASSUME ArpInv, NEW n \in Nodes, NEW ip \in Nodes
               PROVE  /\ Cardinality(EntriesFor(arpTable[n], ip)) <= 1 + starts[ip]
                      /\ ip \in Terminated => Cardinality(EntriesFor(arpTable[n], ip)) <= 2
    BY DEF TableFits, EntriesFor
  <2> DEFINE E == EntriesFor(arpTable[n], ip)
             P == Pending(ip, n)
  <2>1. Fits(E, P, starts[ip]) /\ starts[ip] \in Nat
    BY DEF ArpInv, Counts, Lives
  <2>2. ip \in Terminated => \A i, j, k \in E : i = j \/ j = k \/ i = k
    BY DEF ArpInv, Tables, NodeOK, Few, EntriesFor
  <2> HIDE DEF E, P
  <2>3. Cardinality(P) \in Nat /\ Cardinality(E) \in Nat
    BY <2>1, FewerLives, FS_CardinalityType DEF Fits
  <2>4. Cardinality(E) <= 1 + starts[ip]
    BY <2>1, <2>3 DEF Fits
  <2> QED BY <2>2, <2>4, AtMostTwo DEF E
<1> QED BY <1>1, DaemonInvariant, PTL

\* TypeOK: the fields of all tables, connections and frames, areq between Idle and
\* Unheard.
THEOREM TypeCorrect == Spec => []TypeOK
<1>1. ArpInv => TypeOK
  BY DEF ArpInv, Tables, Calls, Wire, Lives, TypeOK, Entries, Conns, FrameSet
<1> QED BY <1>1, DaemonInvariant, PTL
=============================================================================
