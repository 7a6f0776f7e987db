------------------------------ MODULE FtpProof ------------------------------
(***************************************************************************)
(* The file server of module Ftp, for any number of clients, names, files  *)
(* and commands.                                                           *)
(***************************************************************************)
EXTENDS Ftp, FiniteSetTheorems, SequenceTheorems, WellFoundedInduction, TLAPS

-----------------------------------------------------------------------------
(* The inductive invariant. *)

Requests == [op : {"ls", "upload", "download", "delete"}, name : Names, whole : BOOLEAN]
Threads ==
  [pc : {"none", "request", "list", "scan", "open", "body", "length",
         "read", "ended"},
   given : Names \cup {Free}, name : Names \cup {Free}, whole : BOOLEAN,
   count : Nat, fList : Seq(Names), raced : BOOLEAN, length : 0..1]

\* A thread t that works on a file has its name.
Named(t) ==
  t.pc \in {"list", "scan", "open", "body", "length", "read"} => t.name \in Names

DirTyped ==
  /\ IsFiniteSet(DOMAIN dir) /\ DOMAIN dir \subseteq Names
  /\ \A n \in DOMAIN dir : dir[n] \in {0, 1}
  /\ leaked \subseteq Names
  /\ reqs \in [Clients -> Seq(Requests)]
  /\ th \in [Clients -> Threads]
  /\ \A c \in Clients : Named(th[c])

CastTyped ==
  /\ client \in [Clients -> {"new", "half", "up", "half dead", "dead"}]
  /\ dataq \in Seq(Clients) /\ multiq \in Seq(Clients) /\ streams \in Seq(Clients)
  /\ IsABag(pending) /\ BagToSet(pending) \subseteq Messages
  /\ monitor \in Messages \cup {Free} /\ sentTo \in 0..Len(streams)
  /\ inbox \in [Clients -> Seq(Messages)]

\* The first file of the directory, which thread t looks for in vain.
Skipped(t) == t.given[2] # 0 /\ First(t.name)

\* The search of a thread t that no other thread has disturbed: the name it
\* tries is in what is left of the listing if it is in the directory, or it is
\* the skipped first.  When the user gave no number, the name without one, which
\* comes first of its kind in a listing, is there too, so that the skipped first
\* is never the one that is tried.
SearchOK(t) ==
  /\ t.count >= 2
  /\ t.pc = "list" => t.name = t.given
  /\ t.pc = "scan" /\ ~t.raced =>
       /\ t.name \in DOMAIN dir => Found(t.fList, t.name) \/ Skipped(t)
       /\ t.name[2] = 0 => t.fList = listFiles
       /\ t.given[2] = 0 /\ t.name[2] # 0 => <<t.name[1], 0>> \in DOMAIN dir
  /\ t.pc = "open" /\ ~t.raced => t.name \notin DOMAIN dir \/ Skipped(t)

SearchInv == \A c \in Clients : SearchOK(th[c])

\* The clients of registered and of waiting connections.
Line == streams \o multiq

\* Box t of a client that registered before that of box s: it has what s has,
\* and at the end the announcement that is being sent, if only t has got that.
Agree(s, t, between) ==
  \E u \in Seq(Messages) :
    t = IF between THEN Append(u \o s, monitor) ELSE u \o s

CastInv ==
  /\ \A i, j \in 1..Len(Line) : Line[i] = Line[j] => i = j
  /\ \A i \in 1..Len(Line) : client[Line[i]] \in {"up", "dead"}
  /\ \A c \in Clients : (\A i \in 1..Len(streams) : streams[i] # c) => inbox[c] = <<>>
  /\ monitor = Free => sentTo = 0
  /\ \A i, j \in 1..Len(streams) :
       i < j /\ Alive(streams[i]) /\ Alive(streams[j]) =>
         Agree(inbox[streams[j]], inbox[streams[i]], i <= sentTo /\ sentTo < j)

UserTyped == issued \in 0..MaxCmds /\ waiting \subseteq Clients

FtpInv == UserTyped /\ DirTyped /\ CastTyped /\ SearchInv /\ CastInv
-----------------------------------------------------------------------------
(* Listings. *)

\* A non-empty set of naturals has a least element.
LEMMA LeastNat ==
  ASSUME NEW T \in SUBSET Nat, T # {}
  PROVE  \E x \in T : \A y \in T : x <= y
<1>1. PICK x \in T : \A y \in T : ~ (<<y, x>> \in OpToRel(<, Nat))
  BY WFMin, NatLessThanWellFounded
<1>2. ASSUME NEW y \in T PROVE x <= y
  <2>1. x \in Nat /\ y \in Nat
    OBVIOUS
  <2>2. <<y, x>> \in OpToRel(<, Nat) <=> y < x
    BY <2>1 DEF OpToRel
  <2>3. ~(y < x)
    BY <1>1, <2>2
  <2> QED BY <2>1, <2>3
<1> QED BY <1>2

\* A name and its number.
LEMMA NameParts ==
  ASSUME NEW n \in Names
  PROVE  n[1] \in Bases /\ n[1] \in Nat /\ n[2] \in Nat /\ n = <<n[1], n[2]>>
<1>1. PICK b \in Bases, k \in Nat : n = <<b, k>>
  BY DEF Names
<1>2. n[1] = b /\ n[2] = k
  BY <1>1
<1> QED BY <1>1, <1>2, FtpAssumption

\* No name comes before itself.
LEMMA Irreflexive ==
  ASSUME NEW n \in Names
  PROVE  ~ Before(n, n)
BY NameParts DEF Before

\* A non-empty set of names has a first one.
LEMMA FirstName ==
  ASSUME NEW T \in SUBSET Names, T # {}
  PROVE  \E x \in T : \A y \in T : y # x => Before(x, y)
<1> DEFINE A == {n[1] : n \in T}
<1>1. \A n \in T : n[1] \in Nat /\ n[2] \in Nat /\ n = <<n[1], n[2]>>
  BY NameParts
<1>2. PICK a \in A : \A b \in A : a <= b
  <2>1. A \in SUBSET Nat /\ A # {}
    BY <1>1
  <2> HIDE DEF A
  <2> QED BY <2>1, LeastNat
<1> DEFINE K == {n[2] : n \in {m \in T : m[1] = a}}
<1>3. PICK k \in K : \A l \in K : k <= l
  <2>1. K \in SUBSET Nat /\ K # {}
    BY <1>1, <1>2
  <2> HIDE DEF K
  <2> QED BY <2>1, LeastNat
<1>4. PICK x \in T : x[1] = a /\ x[2] = k
  BY <1>3
<1>5. ASSUME NEW y \in T, y # x PROVE Before(x, y)
  <2>1. a <= y[1] /\ (y[1] = a => k <= y[2])
    BY <1>2, <1>3
  <2>2. y[1] # a \/ y[2] # k
    BY <1>1, <1>4, <1>5
  <2> QED BY <1>1, <1>4, <2>1, <2>2 DEF Before
<1> QED BY <1>5

Sorted(s) == \A i, j \in 1..Len(s) : i < j => Before(s[i], s[j])

\* A finite set of names has a listing.
LEMMA ListingExists ==
  ASSUME NEW S \in SUBSET Names, IsFiniteSet(S)
  PROVE  \E s \in SetToSeqs(S) : Sorted(s)
<1> DEFINE Bad == {n \in Nat : \E T \in SUBSET Names :
                     /\ IsFiniteSet(T) /\ Cardinality(T) = n
                     /\ ~ \E s \in SetToSeqs(T) : Sorted(s)}
<1>1. Cardinality(S) \in Nat
  BY FS_CardinalityType
<1>2. SUFFICES ASSUME Bad # {} PROVE FALSE
  BY <1>1
<1>3. PICK n \in Bad : \A k \in Bad : n <= k
  BY <1>2, LeastNat
<1>4. PICK T \in SUBSET Names :
        /\ IsFiniteSet(T) /\ Cardinality(T) = n
        /\ ~ \E s \in SetToSeqs(T) : Sorted(s)
  BY <1>3
<1>5. n \in Nat
  BY <1>3
<1>6. CASE T = {}
  <2>1. n = 0 /\ 1..0 = {}
    BY <1>4, <1>6, FS_EmptySet
  <2>2. <<>> \in [1..0 -> {}]
    BY <2>1
  <2>3. <<>> \in SetToSeqs(T)
    BY <1>4, <1>6, <2>1, <2>2 DEF SetToSeqs
  <2>4. Sorted(<<>>)
    BY DEF Sorted
  <2> QED BY <1>4, <2>3, <2>4
<1>7. CASE T # {}
  <2>1. PICK x \in T : \A y \in T : y # x => Before(x, y)
    BY <1>7, FirstName
  <2> DEFINE U == T \ {x}
  <2>2. IsFiniteSet(U) /\ Cardinality(U) = n - 1 /\ n >= 1
    BY <1>4, <1>5, <1>7, FS_RemoveElement, FS_EmptySet
  <2>3. n - 1 \in Nat /\ ~(n <= n - 1)
    BY <1>5, <2>2
  <2>4. n - 1 \notin Bad
    BY <1>3, <2>3
  <2>5. PICK s \in SetToSeqs(U) : Sorted(s)
    BY <2>2, <2>3, <2>4
  <2>6. s \in [1..(n - 1) -> U] /\ s \in Seq(U) /\ Len(s) = n - 1
    <3>1. s \in [1..(n - 1) -> U]
      BY <2>2, <2>5 DEF SetToSeqs
    <3> HIDE DEF U
    <3> QED BY <2>3, <3>1
  <2> DEFINE t == [i \in 1..n |-> IF i = 1 THEN x ELSE s[i - 1]]
  <2>7. \A i \in 2..n : i - 1 \in 1..(n - 1) /\ s[i - 1] \in U
    BY <1>5, <2>6
  <2>8. t \in [1..n -> T] /\ Len(t) = n
    BY <1>5, <2>7
  <2>9. ASSUME NEW i \in 1..n, NEW j \in 1..n, i < j PROVE Before(t[i], t[j])
    <3>1. j \in 2..n /\ t[j] = s[j - 1]
      BY <1>5, <2>9
    <3>2. CASE i = 1
      BY <2>1, <2>7, <3>1, <3>2
    <3>3. CASE i # 1
      <4>1. t[i] = s[i - 1] /\ i - 1 \in 1..Len(s) /\ j - 1 \in 1..Len(s) /\ i - 1 < j - 1
        BY <1>5, <2>6, <2>9, <3>1, <3>3
      <4> QED BY <2>5, <3>1, <4>1 DEF Sorted
    <3> QED BY <3>2, <3>3
  <2>10. ASSUME NEW i \in 1..n, NEW j \in 1..n, i # j PROVE t[i] # t[j]
    <3>1. Before(t[i], t[j]) \/ Before(t[j], t[i])
      BY <1>5, <2>9, <2>10
    <3>2. t[i] \in Names /\ t[j] \in Names
      BY <2>8
    <3> QED BY <3>1, <3>2, Irreflexive
  <2>11. t \in SetToSeqs(T)
    BY <1>4, <2>8, <2>10 DEF SetToSeqs
  <2>12. Sorted(t)
    BY <2>8, <2>9 DEF Sorted
  <2> QED BY <1>4, <2>11, <2>12
<1> QED BY <1>6, <1>7

\* listFiles has every name of the directory, in order.
LEMMA ListingRight ==
  ASSUME DirTyped
  PROVE  /\ listFiles \in Seq(Names) /\ Sorted(listFiles)
         /\ \A n : n \in DOMAIN dir <=> Found(listFiles, n)
<1> DEFINE D == DOMAIN dir
           k == Cardinality(D)
           s == listFiles
<1>1. IsFiniteSet(D) /\ D \in SUBSET Names /\ k \in Nat
  BY FS_CardinalityType DEF DirTyped
<1>2. s \in SetToSeqs(D) /\ Sorted(s)
  BY <1>1, ListingExists DEF listFiles, Sorted
<1>3. s \in [1..k -> D] /\ \A i, j \in 1..k : i # j => s[i] # s[j]
  BY <1>2 DEF SetToSeqs
<1>4. s \in Seq(D) /\ Len(s) = k
  BY <1>1, <1>3
<1>5. s \in Seq(Names)
  BY <1>1, <1>4, SeqMonotonic
<1>6. s \in Injection(1..k, D)
  BY <1>3 DEF Injection, IsInjective
<1>7. IsFiniteSet(1..k) /\ Cardinality(1..k) = k
  BY <1>1, FS_Interval
<1>8. s \in Surjection(1..k, D)
  BY <1>1, <1>6, <1>7, FS_Injection
<1>9. \A n : n \in D <=> \E i \in 1..k : s[i] = n
  BY <1>3, <1>8 DEF Surjection
<1> QED BY <1>2, <1>4, <1>5, <1>9 DEF Found

-----------------------------------------------------------------------------
(* The directory and the threads that work on it. *)

\* Steps that do not touch the directory, the requests or the threads.
LEMMA DirIdle ==
  ASSUME DirTyped, SearchInv, UNCHANGED <<dir, leaked, reqs, th>>
  PROVE  DirTyped' /\ SearchInv'
<1>1. listFiles' = listFiles
  BY DEF listFiles
<1>2. DirTyped'
  BY DEF DirTyped
<1>3. SearchInv'
  BY <1>1 DEF SearchInv, SearchOK, Skipped, First
<1> QED BY <1>2, <1>3

\* One thread goes on to q and leaves the names in the directory as they are.
LEMMA OneThread ==
  ASSUME DirTyped, SearchInv, NEW c \in Clients, NEW q \in Threads,
         Named(q), SearchOK(q), th' = [th EXCEPT ![c] = q],
         DOMAIN dir' = DOMAIN dir, \A n \in DOMAIN dir : dir'[n] \in {0, 1},
         leaked' \subseteq Names, reqs' \in [Clients -> Seq(Requests)]
  PROVE  DirTyped' /\ SearchInv'
<1>1. listFiles' = listFiles
  BY DEF listFiles
<1>2. th' \in [Clients -> Threads] /\ \A d \in Clients : th'[d] = IF d = c THEN q ELSE th[d]
  BY DEF DirTyped
<1>3. \A d \in Clients : Named(th'[d])
  BY <1>2 DEF DirTyped
<1>4. DirTyped'
  BY <1>2, <1>3 DEF DirTyped
<1>5. \A d \in Clients : SearchOK(th[d])'
  <2>1. SUFFICES ASSUME NEW d \in Clients PROVE SearchOK(th[d])'
    OBVIOUS
  <2>2. CASE d = c
    <3>1. th'[d] = q
      BY <1>2, <2>2
    <3> QED BY <1>1, <3>1 DEF SearchOK, Skipped, First
  <2>3. CASE d # c
    <3>1. th'[d] = th[d]
      BY <1>2, <2>3
    <3> QED BY <1>1, <3>1 DEF SearchOK, SearchInv, Skipped, First
  <2> QED BY <2>2, <2>3
<1> QED BY <1>4, <1>5 DEF SearchInv

\* A thread has changed the directory, whose contents the others that search no
\* longer know.
LEMMA Disturbed ==
  ASSUME NEW t \in [Clients -> Threads], NEW c \in Clients,
         \A d \in Clients : Named(t[d]) /\ SearchOK(t[d]),
         t[c].pc \notin {"scan", "open"}, th' = Race(c, t)
  PROVE  /\ th' \in [Clients -> Threads] /\ \A d \in Clients : Named(th'[d])
         /\ SearchInv'
<1>1. ASSUME NEW d \in Clients
      PROVE  th'[d] \in Threads /\ Named(th'[d]) /\ SearchOK(th[d])'
  <2>0. t[d] \in Threads /\ Named(t[d]) /\ SearchOK(t[d])
    OBVIOUS
  <2>1. CASE d # c /\ t[d].pc \in {"scan", "open"}
    <3>1. th'[d] = [t[d] EXCEPT !.raced = TRUE]
      BY <2>1 DEF Race
    <3>2. th'[d] \in Threads /\ th'[d].raced = TRUE /\ th'[d].pc = t[d].pc
          /\ th'[d].name = t[d].name /\ th'[d].count = t[d].count
          /\ th'[d].given = t[d].given
      BY <2>0, <3>1 DEF Threads
    <3> QED BY <2>0, <2>1, <3>2 DEF Named, SearchOK
  <2>2. CASE d = c \/ t[d].pc \notin {"scan", "open"}
    <3>1. th'[d] = t[d] /\ t[d].pc \notin {"scan", "open"}
      BY <2>2 DEF Race
    <3> QED BY <2>0, <3>1 DEF SearchOK
  <2> QED BY <2>1, <2>2
<1>2. th' = [d \in Clients |-> th'[d]]
  BY DEF Race
<1> QED BY <1>1, <1>2 DEF SearchInv

\* A thread between two commands, and one that has ended.
LEMMA RestingThread ==
  /\ Idle \in Threads /\ Idle.pc = "request" /\ Idle.count = 2
  /\ Ended \in Threads /\ Ended.pc = "ended" /\ Ended.count = 2
  /\ [Idle EXCEPT !.pc = "none"] \in Threads
  /\ [Idle EXCEPT !.pc = "none"].pc = "none" /\ [Idle EXCEPT !.pc = "none"].count = 2
<1>1. <<>> \in Seq(Names)
  BY EmptySeq
<1>2. Idle \in Threads /\ Idle.pc = "request" /\ Idle.count = 2
  BY <1>1 DEF Idle, Threads
<1>3. Ended \in Threads /\ Ended.pc = "ended" /\ Ended.count = 2
  BY <1>2 DEF Ended, Threads
<1>4. /\ [Idle EXCEPT !.pc = "none"] \in Threads
      /\ [Idle EXCEPT !.pc = "none"].pc = "none" /\ [Idle EXCEPT !.pc = "none"].count = 2
  BY <1>2 DEF Threads
<1> QED BY <1>2, <1>3, <1>4

\* The directory and the threads at the start.
LEMMA InitDir == Init => DirTyped /\ SearchInv
<1> SUFFICES ASSUME Init PROVE DirTyped /\ SearchInv
  OBVIOUS
<1> DEFINE q == [Idle EXCEPT !.pc = "none"]
<1>1. q \in Threads /\ q.pc = "none" /\ q.count = 2
  BY RestingThread
<1>2. th = [c \in Clients |-> q]
  BY DEF Init
<1> HIDE DEF q
<1>3. th \in [Clients -> Threads] /\ \A c \in Clients : th[c].pc = "none" /\ th[c].count = 2
  BY <1>1, <1>2
<1>4. DOMAIN dir = FirstFiles /\ (\A n \in DOMAIN dir : dir[n] \in {0, 1}) /\ leaked = {}
  BY DEF Init
<1>5. reqs \in [Clients -> Seq(Requests)]
  BY DEF Init
<1>6. DirTyped
  BY <1>3, <1>4, <1>5, FtpAssumption DEF DirTyped, Named, Names
<1>7. SearchInv
  BY <1>3 DEF SearchInv, SearchOK
<1> QED BY <1>6, <1>7

\* A user's command adds a request.
LEMMA CommandDir ==
  ASSUME DirTyped, SearchInv, NEW c \in Clients,
         NEW op \in {"ls", "upload", "download", "delete"}, NEW name \in Given[c],
         NEW whole \in BOOLEAN, Command(c, op, name, whole)
  PROVE  DirTyped' /\ SearchInv'
<1> DEFINE r == [op |-> op, name |-> name, whole |-> whole]
<1>1. r \in Requests
  BY FtpAssumption DEF Requests, Names
<1>2. reqs' = [reqs EXCEPT ![c] = Append(reqs[c], r)]
  BY DEF Command
<1>3. reqs[c] \in Seq(Requests)
  BY DEF DirTyped
<1> HIDE DEF r
<1>4. reqs' \in [Clients -> Seq(Requests)]
  BY <1>1, <1>2, <1>3, AppendProperties DEF DirTyped
<1>5. dir' = dir /\ leaked' = leaked /\ th' = th
  BY DEF Command, dirVars
<1>6. listFiles' = listFiles
  BY <1>5 DEF listFiles
<1>7. DirTyped'
  BY <1>4, <1>5 DEF DirTyped
<1>8. SearchInv'
  BY <1>5, <1>6 DEF SearchInv, SearchOK, Skipped, First
<1> QED BY <1>7, <1>8

\* The thread of an accepted connection starts.
LEMMA AcceptDir ==
  ASSUME DirTyped, CastTyped, SearchInv, Accept
  PROVE  DirTyped' /\ SearchInv'
<1> DEFINE c == Head(dataq)
           q == [th[c] EXCEPT !.pc = "request"]
<1>1. c \in Clients
  BY HeadTailProperties DEF Accept, CastTyped
<1>2. th' = [th EXCEPT ![c] = q] /\ dir' = dir /\ leaked' = leaked /\ reqs' = reqs
  BY DEF Accept, dirVars
<1>3. q \in Threads /\ q.pc = "request" /\ q.count = th[c].count
  BY <1>1 DEF DirTyped, Threads
<1>4. th[c].count >= 2
  BY <1>1 DEF SearchInv, SearchOK
<1> HIDE DEF c, q
<1> QED BY <1>1, <1>2, <1>3, <1>4, OneThread DEF Named, SearchOK, DirTyped

\* A request is read: a deletion disturbs the threads that search.
LEMMA ReadRequestDir ==
  ASSUME DirTyped, SearchInv, NEW c \in Clients, ReadRequest(c)
  PROVE  DirTyped' /\ SearchInv'
<1> DEFINE r == Head(reqs[c])
<1>1. th[c] \in Threads /\ th[c].pc = "request" /\ th[c].count >= 2
  BY DEF ReadRequest, DirTyped, SearchInv, SearchOK
<1>2. r \in Requests /\ reqs' \in [Clients -> Seq(Requests)]
  <2>1. reqs[c] \in Seq(Requests) /\ reqs[c] # <<>> /\ reqs' = [reqs EXCEPT ![c] = Tail(reqs[c])]
    BY DEF ReadRequest, DirTyped
  <2> QED BY <2>1, HeadTailProperties DEF DirTyped
<1>3. leaked' = leaked
  BY DEF ReadRequest
<1>4. r.name \in Names /\ r.whole \in BOOLEAN
  BY <1>2 DEF Requests
<1>5. CASE dir' = dir /\ th' = th
  <2>1. th' = [th EXCEPT ![c] = th[c]]
    BY <1>5 DEF DirTyped
  <2>2. Named(th[c]) /\ SearchOK(th[c])
    BY DEF DirTyped, SearchInv
  <2>3. leaked' \subseteq Names /\ \A n \in DOMAIN dir : dir'[n] \in {0, 1}
    BY <1>3, <1>5 DEF DirTyped
  <2> QED BY <1>1, <1>2, <1>5, <2>1, <2>2, <2>3, OneThread
<1>6. CASE /\ dir' = [n \in DOMAIN dir \ {r.name} |-> dir[n]]
           /\ th' = Race(c, th)
  <2>1. /\ th' \in [Clients -> Threads] /\ \A d \in Clients : Named(th'[d])
        /\ SearchInv'
    BY <1>1, <1>6, Disturbed DEF DirTyped, SearchInv
  <2>2. /\ IsFiniteSet(DOMAIN dir') /\ DOMAIN dir' \subseteq Names
        /\ \A n \in DOMAIN dir' : dir'[n] \in {0, 1}
    BY <1>6, FS_RemoveElement DEF DirTyped
  <2> QED BY <1>2, <1>3, <2>1, <2>2 DEF DirTyped
<1>7. CASE \E pc \in {"list", "length"} :
             /\ dir' = dir
             /\ th' = [th EXCEPT ![c] = [th[c] EXCEPT !.pc = pc, !.given = r.name,
                                                      !.name = r.name, !.whole = r.whole]]
  <2>1. PICK pc \in {"list", "length"} :
             /\ dir' = dir
             /\ th' = [th EXCEPT ![c] = [th[c] EXCEPT !.pc = pc, !.given = r.name,
                                                      !.name = r.name, !.whole = r.whole]]
    BY <1>7
  <2> DEFINE q == [th[c] EXCEPT !.pc = pc, !.given = r.name, !.name = r.name,
                               !.whole = r.whole]
  <2>2. /\ q \in Threads /\ q.pc = pc /\ q.name = r.name /\ q.given = r.name
        /\ q.count = th[c].count
    BY <1>1, <1>4 DEF Threads
  <2>3. th' = [th EXCEPT ![c] = q]
    BY <2>1
  <2> HIDE DEF q, r
  <2>4. Named(q) /\ SearchOK(q)
    BY <1>1, <1>4, <2>2 DEF Named, SearchOK
  <2>5. leaked' \subseteq Names /\ \A n \in DOMAIN dir : dir'[n] \in {0, 1}
    BY <1>3, <2>1 DEF DirTyped
  <2> QED BY <1>2, <2>1, <2>2, <2>3, <2>4, <2>5, OneThread
<1>8. \/ dir' = dir /\ th' = th
      \/ /\ dir' = [n \in DOMAIN dir \ {r.name} |-> dir[n]]
         /\ th' = Race(c, th)
      \/ \E pc \in {"list", "length"} :
             /\ dir' = dir
             /\ th' = [th EXCEPT ![c] = [th[c] EXCEPT !.pc = pc, !.given = r.name,
                                                      !.name = r.name, !.whole = r.whole]]
  BY DEF ReadRequest
<1> QED BY <1>5, <1>6, <1>7, <1>8

\* A file is created or emptied, which disturbs the threads that search.
LEMMA OpenFileDir ==
  ASSUME DirTyped, SearchInv, NEW c \in Clients, OpenFile(c)
  PROVE  DirTyped' /\ SearchInv'
<1> DEFINE n == th[c].name
           q == [th[c] EXCEPT !.pc = "body", !.raced = FALSE]
           t == [th EXCEPT ![c] = q]
<1>1. th[c] \in Threads /\ n \in Names /\ th[c].count >= 2
  BY DEF OpenFile, DirTyped, Named, SearchInv, SearchOK
<1>2. q \in Threads /\ q.pc = "body" /\ q.count = th[c].count /\ q.name = n
  BY <1>1 DEF Threads
<1>3. th' = Race(c, t)
  BY DEF OpenFile
<1>4. /\ dir' = [m \in DOMAIN dir \cup {n} |-> IF m = n THEN 0 ELSE dir[m]]
      /\ leaked' = leaked /\ reqs' = reqs
  BY DEF OpenFile, clientVars
<1> HIDE DEF n, q
<1>5. Named(q) /\ SearchOK(q)
  BY <1>1, <1>2 DEF Named, SearchOK
<1>6. /\ t \in [Clients -> Threads] /\ t[c] = q
      /\ \A d \in Clients : Named(t[d]) /\ SearchOK(t[d])
  BY <1>2, <1>5 DEF DirTyped, SearchInv
<1> HIDE DEF t
<1>7. /\ th' \in [Clients -> Threads] /\ \A d \in Clients : Named(th'[d])
      /\ SearchInv'
  BY <1>2, <1>3, <1>6, Disturbed
<1>8. /\ IsFiniteSet(DOMAIN dir') /\ DOMAIN dir' \subseteq Names
      /\ \A m \in DOMAIN dir' : dir'[m] \in {0, 1}
  BY <1>1, <1>4, FS_AddElement DEF DirTyped
<1> QED BY <1>4, <1>7, <1>8 DEF DirTyped

\* The listing, and the name tried next.
LEMMA ListNamesDir ==
  ASSUME DirTyped, SearchInv, NEW c \in Clients, ListNames(c)
  PROVE  DirTyped' /\ SearchInv'
<1> DEFINE q == [th[c] EXCEPT !.pc = "scan", !.fList = listFiles,
                              !.count = 2, !.raced = FALSE]
<1>1. th[c] \in Threads /\ th[c].name = th[c].given /\ th[c].name \in Names
  BY DEF ListNames, DirTyped, SearchInv, SearchOK, Named
<1>2. listFiles \in Seq(Names) /\ \A n : n \in DOMAIN dir <=> Found(listFiles, n)
  BY ListingRight
<1>3. /\ q \in Threads /\ q.pc = "scan" /\ q.name = th[c].name /\ q.count = 2
      /\ q.fList = listFiles /\ q.given = q.name
  BY <1>1, <1>2 DEF Threads
<1>4. th' = [th EXCEPT ![c] = q] /\ dir' = dir /\ leaked' = leaked /\ reqs' = reqs
  BY DEF ListNames, dirVars, clientVars
<1> HIDE DEF q
<1>5. Named(q) /\ SearchOK(q)
  BY <1>1, <1>2, <1>3 DEF Named, SearchOK
<1> QED BY <1>3, <1>4, <1>5, OneThread DEF DirTyped

\* A step of the search.  A name without a number is listed before those with
\* one, so what lies behind it, or behind the first of all names, has them all.
LEMMA ScanDir ==
  ASSUME DirTyped, SearchInv, NEW c \in Clients, Scan(c)
  PROVE  DirTyped' /\ SearchInv'
<1> DEFINE t == th[c]
           b == t.name[1]
           l == listFiles
<1>1. t \in Threads /\ t.pc = "scan" /\ t.name \in Names /\ SearchOK(t)
  BY DEF Scan, DirTyped, SearchInv, Named
<1>2. t.count \in Nat /\ t.count >= 2 /\ t.fList \in Seq(Names) /\ t.raced \in BOOLEAN
  BY <1>1 DEF Threads, SearchOK
<1>3. b \in Bases /\ b \in Nat /\ t.name[2] \in Nat /\ t.name = <<b, t.name[2]>>
  BY <1>1, NameParts
<1>4. l \in Seq(Names) /\ Sorted(l) /\ \A n : n \in DOMAIN dir <=> Found(l, n)
  BY ListingRight
<1>5. Len(l) \in Nat /\ Len(t.fList) \in Nat
  BY <1>2, <1>4, LenProperties
<1>6. UNCHANGED <<dir, leaked, reqs>> /\ leaked \subseteq Names
      /\ (\A n \in DOMAIN dir : dir'[n] \in {0, 1}) /\ reqs' \in [Clients -> Seq(Requests)]
  BY DEF Scan, dirVars, clientVars, DirTyped
\* A name without a number is not behind one with the same base.
<1>7. ASSUME NEW k \in Nat, NEW i \in 1..Len(l), NEW j \in 1..Len(l),
             l[i] = <<b, 0>>, l[j] = <<b, k>>, k # 0
      PROVE  i < j
  <2>1. ~ Before(<<b, k>>, <<b, 0>>)
    BY <1>3, <1>7 DEF Before
  <2>2. ~(j < i)
    BY <1>4, <1>7, <2>1 DEF Sorted
  <2>3. i # j
    BY <1>7
  <2> QED BY <1>5, <2>2, <2>3
<1> DEFINE opens == [t EXCEPT !.pc = "open", !.fList = <<>>, !.count = 2]
           first == [t EXCEPT !.name = <<@[1], 1>>, !.fList = Behind(@, t.name)]
           next == [t EXCEPT !.name = <<@[1], t.count>>, !.count = @ + 1,
                             !.fList = SubSeq(l, 2, Len(l))]
           then == CASE ~Found(t.fList, t.name) -> opens
                     [] Found(t.fList, t.name) /\ t.name[2] = 0 -> first
                     [] OTHER -> next
<1>11. th' = [th EXCEPT ![c] = NextName(th[c])] /\ NextName(th[c]) = then
  BY DEF Scan, NextName
<1> HIDE DEF opens, first, next
<1>12. /\ ~Found(t.fList, t.name) => th' = [th EXCEPT ![c] = opens]
       /\ Found(t.fList, t.name) /\ t.name[2] = 0 => th' = [th EXCEPT ![c] = first]
       /\ Found(t.fList, t.name) /\ t.name[2] # 0 => th' = [th EXCEPT ![c] = next]
  BY <1>11
<1> HIDE DEF then
<1>8. CASE ~Found(t.fList, t.name)
  <2> DEFINE q == opens
  <2>1. th' = [th EXCEPT ![c] = q]
    BY <1>8, <1>12
  <2>2. q \in Threads /\ q.pc = "open" /\ q.name = t.name /\ q.count = 2 /\ q.raced = t.raced
        /\ q.given = t.given
    BY <1>1, EmptySeq DEF Threads, opens
  <2> HIDE DEF q
  <2>3. Named(q) /\ SearchOK(q)
    BY <1>1, <1>8, <2>2 DEF Named, SearchOK, Skipped
  <2> QED BY <1>6, <2>1, <2>2, <2>3, OneThread
<1>9. CASE Found(t.fList, t.name) /\ t.name[2] = 0
  <2> DEFINE i == CHOOSE i \in 1..Len(t.fList) : t.fList[i] = t.name
             f == SubSeq(t.fList, i + 1, Len(t.fList))
             q == first
  <2>1. th' = [th EXCEPT ![c] = q]
    BY <1>9, <1>12
  <2>2. i \in 1..Len(t.fList) /\ t.fList[i] = t.name
    BY <1>9 DEF Found
  <2>3. \A j \in (i + 1)..Len(t.fList) : t.fList[j] \in Names
    BY <1>2, <1>5, <2>2, ElementOfSeq
  <2> HIDE DEF i
  <2>4. /\ f \in Seq(Names)
        /\ Len(f) = IF i + 1 <= Len(t.fList) THEN Len(t.fList) - (i + 1) + 1 ELSE 0
        /\ \A j \in 1..(Len(t.fList) - (i + 1) + 1) : f[j] = t.fList[(i + 1) + j - 1]
    BY <1>5, <2>2, <2>3, SubSeqProperties
  <2>10. Behind(t.fList, t.name) = f
    BY DEF Behind, i
  <2> HIDE DEF f
  <2>5. <<b, 1>> \in Names
    BY <1>3 DEF Names
  <2>6. q \in Threads /\ q.pc = "scan" /\ q.name = <<b, 1>> /\ q.fList = f
        /\ q.count = t.count /\ q.raced = t.raced /\ q.given = t.given
    BY <1>1, <2>4, <2>5, <2>10 DEF Threads, first
  <2>7. ASSUME ~t.raced PROVE <<b, 0>> \in DOMAIN dir
    BY <1>1, <1>3, <1>4, <1>9, <2>7 DEF SearchOK
  <2>8. ASSUME ~t.raced, <<b, 1>> \in DOMAIN dir PROVE Found(f, <<b, 1>>)
    <3>1. t.fList = l
      BY <1>1, <1>9, <2>8 DEF SearchOK
    <3>2. PICK j \in 1..Len(l) : l[j] = <<b, 1>>
      BY <1>4, <2>8 DEF Found
    <3>3. i < j
      BY <1>3, <1>7, <1>9, <2>2, <3>1, <3>2
    <3>4. j - i \in 1..Len(f) /\ f[j - i] = l[j]
      <4>1. i \in Nat /\ j \in Nat /\ i + 1 <= Len(l)
        BY <1>5, <2>2, <3>1, <3>3
      <4>2. j - i \in 1..(Len(l) - (i + 1) + 1) /\ (i + 1) + (j - i) - 1 = j
        BY <1>5, <3>3, <4>1
      <4> QED BY <1>5, <2>4, <3>1, <4>1, <4>2
    <3> QED BY <3>2, <3>4 DEF Found
  <2>9. Named(q) /\ SearchOK(q)
    <3> HIDE DEF q, t, b
    <3>1. <<b, 1>>[2] = 1 /\ <<b, 1>>[1] = b
      OBVIOUS
    <3> QED BY <1>2, <2>5, <2>6, <2>7, <2>8, <3>1 DEF Named, SearchOK
  <2> HIDE DEF q
  <2> QED BY <1>6, <2>1, <2>6, <2>9, OneThread
<1>10. CASE Found(t.fList, t.name) /\ t.name[2] # 0
  <2> DEFINE k == t.count
             f == SubSeq(l, 2, Len(l))
             q == next
  <2>1. th' = [th EXCEPT ![c] = q]
    BY <1>10, <1>12
  <2>2. \A j \in 2..Len(l) : l[j] \in Names
    BY <1>4, <1>5, ElementOfSeq
  <2>3. /\ f \in Seq(Names)
        /\ Len(f) = IF 2 <= Len(l) THEN Len(l) - 2 + 1 ELSE 0
        /\ \A j \in 1..(Len(l) - 2 + 1) : f[j] = l[2 + j - 1]
    BY <1>5, <2>2, SubSeqProperties
  <2>9. f = SubSeq(l, 2, Len(l)) /\ k \in Nat /\ k + 1 \in Nat
    BY <1>2
  <2> HIDE DEF f
  <2>4. <<b, k>> \in Names
    BY <1>2, <1>3 DEF Names
  <2>5. q \in Threads /\ q.pc = "scan" /\ q.name = <<b, k>> /\ q.fList = f
        /\ q.count = k + 1 /\ q.raced = t.raced /\ q.given = t.given
    BY <1>1, <2>3, <2>4, <2>9 DEF Threads, next
  <2>6. ASSUME ~t.raced, t.given[2] = 0 PROVE <<b, 0>> \in DOMAIN dir
    BY <1>1, <1>10, <2>6 DEF SearchOK
  <2>7. ASSUME ~t.raced, <<b, k>> \in DOMAIN dir
        PROVE  Found(f, <<b, k>>) \/ Skipped(q)
    <3>1. PICK j \in 1..Len(l) : l[j] = <<b, k>>
      BY <1>4, <2>7 DEF Found
    <3>2. CASE j # 1
      <4>1. j - 1 \in 1..(Len(l) - 2 + 1) /\ 2 <= Len(l) /\ 2 + (j - 1) - 1 = j
        BY <1>5, <3>2
      <4>2. j - 1 \in 1..Len(f) /\ f[j - 1] = l[j]
        BY <1>5, <2>3, <4>1
      <4> QED BY <3>1, <4>2 DEF Found
    <3>3. CASE j = 1
      <4>1. ASSUME NEW m \in DOMAIN dir, m # <<b, k>> PROVE Before(<<b, k>>, m)
        <5>1. PICK i \in 1..Len(l) : l[i] = m
          BY <1>4, <4>1 DEF Found
        <5>2. 1 < i /\ 1 \in 1..Len(l)
          <6>1. i # 1
            BY <3>1, <3>3, <4>1, <5>1
          <6> HIDE DEF l
          <6> QED BY <1>5, <6>1
        <5> QED BY <1>4, <3>1, <3>3, <5>1, <5>2 DEF Sorted
      <4>2. First(<<b, k>>)
        BY <2>7, <4>1 DEF First
      <4>3. t.given[2] # 0
        <5> SUFFICES ASSUME t.given[2] = 0 PROVE FALSE
          OBVIOUS
        <5>1. PICK i \in 1..Len(l) : l[i] = <<b, 0>>
          BY <1>4, <2>6, <2>7 DEF Found
        <5>2. i < j
          BY <1>2, <1>7, <3>1, <5>1
        <5> QED BY <1>5, <3>3, <5>2
      <4> QED BY <2>5, <4>2, <4>3 DEF Skipped
    <3> QED BY <3>2, <3>3
  <2>8. Named(q) /\ SearchOK(q)
    <3> HIDE DEF q, b, k
    <3>1. <<b, k>>[2] = k /\ <<b, k>>[1] = b
      OBVIOUS
    <3>2. k # 0 /\ k + 1 >= 2
      BY <1>2 DEF k
    <3> QED BY <2>4, <2>5, <2>6, <2>7, <3>1, <3>2 DEF Named, SearchOK
  <2> HIDE DEF q
  <2> QED BY <1>6, <2>1, <2>5, <2>8, OneThread
<1> QED BY <1>8, <1>9, <1>10

\* The contents of a file come or go; no name comes or goes with them.
LEMMA TransferDir ==
  ASSUME DirTyped, SearchInv, NEW c \in Clients,
         ReceiveBody(c) \/ GetLength(c) \/ ReadFile(c) \/ ReadEof(c)
  PROVE  DirTyped' /\ SearchInv'
<1>1. th[c] \in Threads /\ SearchOK(th[c]) /\ Named(th[c]) /\ th[c].count >= 2
  BY DEF DirTyped, SearchInv, SearchOK
<1>2. reqs' \in [Clients -> Seq(Requests)]
  BY DEF ReceiveBody, GetLength, ReadFile, ReadEof, clientVars, DirTyped
<1>3. DOMAIN dir' = DOMAIN dir /\ \A n \in DOMAIN dir : dir'[n] \in {0, 1}
  BY DEF ReceiveBody, GetLength, ReadFile, ReadEof, dirVars, DirTyped
<1>4. leaked' \subseteq Names
  BY <1>1 DEF ReceiveBody, GetLength, ReadFile, ReadEof, dirVars, DirTyped, Named
<1>5. PICK q \in Threads : /\ th' = [th EXCEPT ![c] = q] /\ q.count >= 2
                           /\ q.pc \in {"request", "ended", "read"}
                           /\ q.pc = "read" => q.name \in Names
  <2>1. CASE ReceiveBody(c) \/ ReadFile(c)
    <3>1. th' = [th EXCEPT ![c] = Idle] \/ th' = [th EXCEPT ![c] = Ended]
      BY <2>1 DEF ReceiveBody, ReadFile
    <3> QED BY <3>1, RestingThread
  <2>2. CASE GetLength(c)
    <3> DEFINE q == [th[c] EXCEPT !.pc = "read", !.length = Size(th[c].name)]
    <3>1. Size(th[c].name) \in 0..1
      BY DEF Size, DirTyped
    <3>2. q \in Threads /\ q.pc = "read" /\ q.name = th[c].name /\ q.count = th[c].count
      BY <1>1, <3>1 DEF Threads
    <3>3. th' = [th EXCEPT ![c] = q] /\ th[c].name \in Names
      BY <1>1, <2>2 DEF GetLength, Named
    <3> QED BY <1>1, <3>2, <3>3
  <2>3. CASE ReadEof(c)
    <3> DEFINE q == [th[c] EXCEPT !.pc = "ended"]
    <3>1. q \in Threads /\ q.pc = "ended" /\ q.count = th[c].count
      BY <1>1 DEF Threads
    <3>2. th' = [th EXCEPT ![c] = q]
      BY <2>3 DEF ReadEof
    <3> QED BY <1>1, <3>1, <3>2
  <2> QED BY <2>1, <2>2, <2>3
<1>6. Named(q) /\ SearchOK(q)
  BY <1>5 DEF Named, SearchOK
<1> QED BY <1>2, <1>3, <1>4, <1>5, <1>6, OneThread

-----------------------------------------------------------------------------
(* The announcements. *)

\* An announcement is added to those that wait, or taken from them.
LEMMA BagSteps ==
  ASSUME NEW B, IsABag(B), BagToSet(B) \subseteq Messages, NEW m \in Messages
  PROVE  /\ IsABag(B (+) SetToBag({m})) /\ BagToSet(B (+) SetToBag({m})) \subseteq Messages
         /\ IsABag(B (-) SetToBag({m})) /\ BagToSet(B (-) SetToBag({m})) \subseteq Messages
<1>1. /\ IsABag(B (+) SetToBag({m}))
      /\ BagToSet(B (+) SetToBag({m})) \subseteq Messages
  BY DEF IsABag, BagToSet, SetToBag, (+)
<1>2. /\ IsABag(B (-) SetToBag({m}))
      /\ BagToSet(B (-) SetToBag({m})) \subseteq Messages
  BY DEF IsABag, BagToSet, SetToBag, (-)
<1> QED BY <1>1, <1>2

\* No announcement at the start.
LEMMA InitCast == Init => CastTyped /\ CastInv
<1> SUFFICES ASSUME Init PROVE CastTyped /\ CastInv
  OBVIOUS
<1>1. /\ client = [c \in Clients |-> "new"] /\ dataq = <<>> /\ multiq = <<>>
      /\ streams = <<>> /\ monitor = Free /\ sentTo = 0 /\ inbox = [c \in Clients |-> <<>>]
      /\ pending = EmptyBag
  BY DEF Init
<1>2. IsABag(pending) /\ BagToSet(pending) = {}
  BY <1>1 DEF IsABag, BagToSet, SetToBag, EmptyBag
<1>3. Len(streams) = 0 /\ Len(Line) = 0
  BY <1>1 DEF Line
<1>4. CastTyped
  BY <1>1, <1>2, <1>3 DEF CastTyped
<1>5. CastInv
  BY <1>1, <1>3 DEF CastInv
<1> QED BY <1>4, <1>5

\* The steps of a data connection's thread do no more than add to the
\* announcements that wait.
LEMMA ThreadCast ==
  ASSUME DirTyped, CastTyped, CastInv, NEW c \in Clients, ThreadStep(c)
  PROVE  CastTyped' /\ CastInv'
<1>1. UNCHANGED <<client, dataq, multiq, streams, monitor, sentTo, inbox>>
  BY DEF ThreadStep, ReadRequest, ReadEof, ListNames, Scan, OpenFile, ReceiveBody,
         GetLength, ReadFile, clientVars, castVars
<1>2. \/ pending' = pending
      \/ \E m \in Messages : pending' = pending (+) SetToBag({m})
  <2>1. CASE ReadRequest(c)
    <3>1. reqs[c] \in Seq(Requests) /\ reqs[c] # <<>>
      BY <2>1 DEF ReadRequest, DirTyped
    <3>2. Head(reqs[c]) \in Requests
      BY <3>1, HeadTailProperties
    <3>3. Head(reqs[c]).name \in Names
      BY <3>2 DEF Requests
    <3> QED BY <2>1, <3>3 DEF ReadRequest, Announce, Messages
  <2>2. CASE ReceiveBody(c)
    <3>1. th[c].name \in Names
      BY <2>2 DEF ReceiveBody, DirTyped, Named
    <3> QED BY <2>2, <3>1 DEF ReceiveBody, Announce, Messages
  <2>3. CASE ~ReadRequest(c) /\ ~ReceiveBody(c)
    BY <2>3 DEF ThreadStep, ReadEof, ListNames, Scan, OpenFile,
                GetLength, ReadFile, castVars
  <2> QED BY <2>1, <2>2, <2>3
<1>3. IsABag(pending') /\ BagToSet(pending') \subseteq Messages
  BY <1>2, BagSteps DEF CastTyped
<1>4. CastTyped'
  BY <1>1, <1>3 DEF CastTyped
<1>5. CastInv'
  BY <1>1 DEF CastInv, Line, Alive, Agree
<1> QED BY <1>4, <1>5

\* A client takes up a connection, or dies: no client comes back to life, and
\* only one with an empty box joins the line.
LEMMA UserCast ==
  ASSUME CastTyped, CastInv, NEW c \in Clients, User(c)
  PROVE  CastTyped' /\ CastInv'
<1>0. UNCHANGED <<streams, pending, monitor, sentTo>>
  BY DEF User, ConnectData, ConnectMulti, Die, Command, castVars
<1>1. /\ streams \in Seq(Clients) /\ multiq \in Seq(Clients) /\ Line \in Seq(Clients)
      /\ Len(streams) \in Nat /\ Len(Line) \in Nat
  BY ConcatProperties, LenProperties DEF CastTyped, Line
<1>2. CASE ConnectData(c)
  <2>1. /\ client[c] = "new" /\ client' = [client EXCEPT ![c] = "half"]
        /\ dataq' = Append(dataq, c) /\ multiq' = multiq /\ inbox' = inbox
    BY <1>2 DEF ConnectData, castVars
  <2>2. CastTyped'
    BY <1>0, <2>1, AppendProperties DEF CastTyped
  <2>3. \A d \in Clients : (Alive(d)' <=> Alive(d))
    BY <2>1 DEF Alive, CastTyped
  <2>4. \A i \in 1..Len(Line) : Line[i] \in Clients /\ Line[i] # c
    BY <1>1, <2>1, ElementOfSeq DEF CastInv
  <2>5. Line' = Line
    BY <1>0, <2>1 DEF Line
  <2>6. \A i \in 1..Len(Line) : client'[Line[i]] \in {"up", "dead"}
    BY <2>1, <2>4 DEF CastInv, CastTyped
  <2>7. \A i \in 1..Len(streams) : streams[i] \in Clients
    BY <1>1, ElementOfSeq
  <2>8. CastInv'
    BY <1>0, <2>1, <2>3, <2>5, <2>6, <2>7 DEF CastInv, Agree
  <2> QED BY <2>2, <2>8
<1>3. CASE ConnectMulti(c)
  <2>1. /\ client[c] = "half" /\ client' = [client EXCEPT ![c] = "up"]
        /\ multiq' = Append(multiq, c) /\ dataq' = dataq /\ inbox' = inbox
    BY <1>3 DEF ConnectMulti, castVars
  <2>2. CastTyped'
    BY <1>0, <2>1, AppendProperties DEF CastTyped
  <2>3. \A d \in Clients : (Alive(d)' <=> Alive(d))
    BY <2>1 DEF Alive, CastTyped
  <2>4. \A i \in 1..Len(Line) : Line[i] \in Clients /\ Line[i] # c
    BY <1>1, <2>1, ElementOfSeq DEF CastInv
  <2>5. Line' = Append(Line, c)
    <3>1. Append(multiq, c) = multiq \o <<c>> /\ Append(Line, c) = Line \o <<c>>
      BY <1>1, AppendIsConcat
    <3>2. <<c>> \in Seq(Clients)
      OBVIOUS
    <3> QED BY <1>0, <1>1, <2>1, <3>1, <3>2, ConcatAssociative DEF Line
  <2>6. /\ Len(Line') = Len(Line) + 1 /\ Line'[Len(Line) + 1] = c
        /\ \A i \in 1..Len(Line) : Line'[i] = Line[i]
    BY <1>1, <2>5, AppendProperties
  <2>7. \A i \in 1..Len(Line') : i \in 1..Len(Line) \/ i = Len(Line) + 1
    BY <1>1, <2>6
  <2>8. \A i, j \in 1..Len(Line') : Line'[i] = Line'[j] => i = j
    BY <2>4, <2>6, <2>7 DEF CastInv
  <2>9. \A i \in 1..Len(Line') : client'[Line'[i]] \in {"up", "dead"}
    BY <2>1, <2>4, <2>6, <2>7 DEF CastInv, CastTyped
  <2>10. \A i \in 1..Len(streams) : streams[i] \in Clients
    BY <1>1, ElementOfSeq
  <2>11. CastInv'
    BY <1>0, <2>1, <2>3, <2>8, <2>9, <2>10 DEF CastInv, Agree
  <2> QED BY <2>2, <2>11
<1>4. ASSUME NEW x \in {"half dead", "dead"}, client' = [client EXCEPT ![c] = x],
             inbox' = [inbox EXCEPT ![c] = <<>>], UNCHANGED <<dataq, multiq>>,
             client[c] \in {"half", "up"}, client[c] = "up" => x = "dead"
      PROVE  CastTyped' /\ CastInv'
  <2>1. CastTyped'
    <3>1. inbox' \in [Clients -> Seq(Messages)]
      BY <1>4, EmptySeq DEF CastTyped
    <3>2. client' \in [Clients -> {"new", "half", "up", "half dead", "dead"}]
      BY <1>4 DEF CastTyped
    <3> QED BY <1>0, <1>4, <3>1, <3>2 DEF CastTyped
  <2>2. ~Alive(c)' /\ \A d \in Clients \ {c} : (Alive(d)' <=> Alive(d)) /\ inbox'[d] = inbox[d]
    BY <1>4 DEF Alive, CastTyped
  <2>3. Line' = Line /\ \A i \in 1..Len(Line) : Line[i] \in Clients
    BY <1>0, <1>1, <1>4, ElementOfSeq DEF Line
  <2>4. \A i \in 1..Len(Line) : client'[Line[i]] \in {"up", "dead"}
    BY <1>4, <2>3 DEF CastInv, CastTyped
  <2>5. \A i \in 1..Len(streams) : streams[i] \in Clients
    BY <1>1, ElementOfSeq
  <2>6. ASSUME NEW d \in Clients, \A i \in 1..Len(streams) : streams[i] # d
        PROVE  inbox'[d] = <<>>
    BY <1>4, <2>2, <2>6 DEF CastInv, CastTyped
  <2>7. ASSUME NEW i \in 1..Len(streams), NEW j \in 1..Len(streams), i < j,
               Alive(streams[i])', Alive(streams[j])'
        PROVE  Agree(inbox[streams[j]], inbox[streams[i]], i <= sentTo /\ sentTo < j)'
    <3>1. streams[i] \in Clients \ {c} /\ streams[j] \in Clients \ {c}
      BY <1>0, <2>2, <2>5, <2>7
    <3>2. Agree(inbox[streams[j]], inbox[streams[i]], i <= sentTo /\ sentTo < j)
      BY <1>0, <2>2, <2>7, <3>1 DEF CastInv
    <3> QED BY <1>0, <2>2, <3>1, <3>2 DEF Agree
  <2>8. CastInv'
    BY <1>0, <2>3, <2>4, <2>6, <2>7 DEF CastInv
  <2> QED BY <2>1, <2>8
<1>5. CASE Die(c)
  BY <1>4, <1>5 DEF Die, castVars
<1>6. ASSUME NEW op, NEW name, NEW whole \in BOOLEAN, Command(c, op, name, whole)
      PROVE  CastTyped' /\ CastInv'
  <2>1. CASE whole
    <3>1. UNCHANGED <<client, dataq, multiq, inbox>>
      BY <1>6, <2>1 DEF Command
    <3>2. CastTyped'
      BY <1>0, <3>1 DEF CastTyped
    <3>3. CastInv'
      BY <1>0, <3>1 DEF CastInv, Line, Alive, Agree
    <3> QED BY <3>2, <3>3
  <2>2. CASE ~whole
    BY <1>4, <1>6, <2>2 DEF Command
  <2> QED BY <2>1, <2>2
<1> QED BY <1>2, <1>3, <1>5, <1>6 DEF User

\* A connection is registered: its client has got nothing yet, and nothing is
\* being sent.
LEMMA AcceptCast ==
  ASSUME CastTyped, CastInv, Accept
  PROVE  CastTyped' /\ CastInv'
<1> DEFINE c == Head(multiq)
           k == Len(streams)
<1>1. /\ streams' = Append(streams, c) /\ multiq' = Tail(multiq) /\ multiq # <<>>
      /\ dataq' = Tail(dataq) /\ dataq # <<>> /\ monitor = Free /\ sentTo = 0
      /\ UNCHANGED <<client, pending, monitor, sentTo, inbox>>
  BY DEF Accept, CastInv
<1>2. /\ streams \in Seq(Clients) /\ multiq \in Seq(Clients) /\ Line \in Seq(Clients)
      /\ k \in Nat /\ Len(multiq) \in Nat /\ Len(multiq) > 0
      /\ Len(Line) = k + Len(multiq)
  <2>1. streams \in Seq(Clients) /\ multiq \in Seq(Clients)
    BY DEF CastTyped
  <2>2. k \in Nat /\ Len(multiq) \in Nat
    BY <2>1, LenProperties
  <2>3. Len(multiq) > 0
    BY <1>1, <2>1, EmptySeq
  <2> QED BY <2>1, <2>2, <2>3, ConcatProperties DEF Line
<1>3. c \in Clients /\ Tail(multiq) \in Seq(Clients) /\ multiq = <<c>> \o Tail(multiq)
      /\ c = multiq[1]
  BY <1>1, <1>2, HeadTailProperties
<1>4. /\ streams' \in Seq(Clients) /\ Len(streams') = k + 1 /\ streams'[k + 1] = c
      /\ \A i \in 1..k : streams'[i] = streams[i]
  BY <1>1, <1>2, <1>3, AppendProperties
<1>5. CastTyped'
  <2>1. dataq' \in Seq(Clients)
    BY <1>1, HeadTailProperties DEF CastTyped
  <2>2. sentTo' \in 0..Len(streams')
    BY <1>1, <1>2, <1>4
  <2> QED BY <1>1, <1>3, <1>4, <2>1, <2>2 DEF CastTyped
<1>6. Line' = Line
  <2>1. Append(streams, c) = streams \o <<c>> /\ <<c>> \in Seq(Clients)
    BY <1>2, <1>3, AppendIsConcat
  <2> DEFINE x == <<c>>
             y == Tail(multiq)
  <2>2. x \in Seq(Clients) /\ y \in Seq(Clients) /\ streams \in Seq(Clients)
    BY <1>2, <1>3, <2>1
  <2>3. streams' = streams \o x /\ multiq' = y /\ multiq = x \o y
    BY <1>1, <1>3, <2>1
  <2> HIDE DEF x, y
  <2>4. (streams \o x) \o y = streams \o (x \o y)
    BY <2>2, ConcatAssociative
  <2> QED BY <2>3, <2>4 DEF Line
<1>7. /\ \A i \in 1..k : Line[i] = streams[i] /\ streams[i] \in Clients
      /\ Line[k + 1] = c /\ k + 1 \in 1..Len(Line) /\ 1..k \subseteq 1..Len(Line)
  <2>1. \A i \in 1..(k + Len(multiq)) : Line[i] = IF i <= k THEN streams[i] ELSE multiq[i - k]
    BY <1>2, ConcatProperties DEF Line
  <2>2. k + 1 \in 1..(k + Len(multiq)) /\ ~(k + 1 <= k) /\ (k + 1) - k = 1
    BY <1>2
  <2>3. \A i \in 1..k : i \in 1..(k + Len(multiq)) /\ i <= k /\ streams[i] \in Clients
    BY <1>2, ElementOfSeq
  <2> HIDE DEF c
  <2> QED BY <1>2, <1>3, <2>1, <2>2, <2>3
<1>8. \A i \in 1..k : streams[i] # c
  <2>1. \A i \in 1..k : i # k + 1
    BY <1>2
  <2>2. \A i, j \in 1..Len(Line) : Line[i] = Line[j] => i = j
    BY DEF CastInv
  <2> HIDE DEF c, k
  <2> QED BY <1>7, <2>1, <2>2
<1>9. inbox[c] = <<>>
  BY <1>3, <1>8 DEF CastInv
<1> HIDE DEF c, k
<1>10. ASSUME NEW d \in Clients, \A i \in 1..Len(streams') : streams'[i] # d
       PROVE  inbox'[d] = <<>>
  <2>1. \A i \in 1..Len(streams) : i \in 1..Len(streams') /\ streams'[i] = streams[i]
    BY <1>2, <1>4 DEF k
  <2> QED BY <1>1, <1>10, <2>1 DEF CastInv
<1>11. ASSUME NEW i \in 1..Len(streams'), NEW j \in 1..Len(streams'), i < j,
              Alive(streams[i])', Alive(streams[j])'
       PROVE  Agree(inbox[streams[j]], inbox[streams[i]], i <= sentTo /\ sentTo < j)'
  <2>1. i \in 1..k /\ ~(i <= sentTo) /\ streams'[i] = streams[i]
    BY <1>1, <1>2, <1>4, <1>11
  <2>2. CASE j \in 1..k
    <3>1. Agree(inbox[streams[j]], inbox[streams[i]], i <= sentTo /\ sentTo < j)
      BY <1>1, <1>4, <1>11, <2>1, <2>2 DEF CastInv, Alive, k
    <3> QED BY <1>1, <1>4, <2>1, <2>2, <3>1 DEF Agree
  <2>3. CASE j = k + 1
    <3>1. inbox[streams[i]] \in Seq(Messages)
      BY <1>7, <2>1 DEF CastTyped
    <3>2. inbox[streams[i]] \o <<>> = inbox[streams[i]]
      BY <3>1, ConcatEmptySeq
    <3>3. inbox'[streams'[j]] = <<>> /\ inbox'[streams'[i]] = inbox[streams[i]]
      BY <1>1, <1>4, <1>9, <2>1, <2>3
    <3>4. ~(i <= sentTo')
      BY <1>1, <2>1
    <3> QED BY <3>1, <3>2, <3>3, <3>4 DEF Agree
  <2> QED BY <1>2, <1>4, <2>2, <2>3
<1>12. CastInv'
  BY <1>1, <1>6, <1>10, <1>11 DEF CastInv
<1> QED BY <1>5, <1>12

\* An announcement takes the monitor, or gives it up when all have it.
LEMMA MonitorCast ==
  ASSUME CastTyped, CastInv, Leave \/ \E m \in BagToSet(pending) : Enter(m)
  PROVE  CastTyped' /\ CastInv'
<1>1. /\ UNCHANGED <<client, dataq, multiq, streams, inbox>>
      /\ sentTo' = 0 /\ (sentTo = 0 \/ sentTo = Len(streams))
  BY DEF Leave, Enter, clientVars, CastInv
<1>2. /\ monitor' \in Messages \cup {Free}
      /\ IsABag(pending') /\ BagToSet(pending') \subseteq Messages
  BY BagSteps DEF Leave, Enter, CastTyped
<1>3. Len(streams) \in Nat
  BY LenProperties DEF CastTyped
<1>4. CastTyped'
  <2>1. sentTo' \in 0..Len(streams')
    BY <1>1, <1>3
  <2> QED BY <1>1, <1>2, <2>1 DEF CastTyped
<1>5. ASSUME NEW i \in 1..Len(streams), NEW j \in 1..Len(streams), i < j,
             Alive(streams[i])', Alive(streams[j])'
      PROVE  Agree(inbox[streams[j]], inbox[streams[i]], i <= sentTo /\ sentTo < j)'
  <2>1. Agree(inbox[streams[j]], inbox[streams[i]], i <= sentTo /\ sentTo < j)
    BY <1>1, <1>5 DEF CastInv, Alive
  <2>2. ~(i <= sentTo /\ sentTo < j) /\ ~(i <= sentTo')
    BY <1>1, <1>3
  <2> QED BY <1>1, <2>1, <2>2 DEF Agree
<1>6. Line' = Line
  BY <1>1 DEF Line
<1>7. CastInv'
  BY <1>1, <1>5, <1>6 DEF CastInv
<1> QED BY <1>4, <1>7

\* The next stream gets the announcement: its client catches up with those that
\* registered before it, and is one ahead of those behind.
LEMMA SendCast ==
  ASSUME CastTyped, CastInv, SendTo
  PROVE  CastTyped' /\ CastInv'
<1> DEFINE k == sentTo + 1
           c == streams[k]
<1>1. /\ monitor # Free /\ sentTo < Len(streams) /\ sentTo' = k
      /\ inbox' = Received(c)
      /\ UNCHANGED <<client, dataq, multiq, streams, pending, monitor>>
  BY DEF SendTo, clientVars
<1>2. /\ streams \in Seq(Clients) /\ Len(streams) \in Nat /\ monitor \in Messages
      /\ sentTo \in Nat /\ k \in 1..Len(streams)
  <2>1. streams \in Seq(Clients) /\ monitor \in Messages /\ sentTo \in 0..Len(streams)
    BY <1>1 DEF CastTyped
  <2>2. Len(streams) \in Nat
    BY <2>1, LenProperties
  <2> QED BY <1>1, <2>1, <2>2
<1>3. c \in Clients /\ \A i \in 1..Len(streams) : streams[i] \in Clients
  BY <1>2, ElementOfSeq
<1>4. /\ inbox' \in [Clients -> Seq(Messages)]
      /\ Alive(c) => inbox'[c] = Append(inbox[c], monitor)
      /\ \A d \in Clients : d # c => inbox'[d] = inbox[d]
  BY <1>1, <1>2, <1>3, AppendProperties DEF Received, CastTyped
<1>5. CastTyped'
  <2>1. sentTo' \in 0..Len(streams')
    BY <1>1, <1>2
  <2> QED BY <1>1, <1>4, <2>1 DEF CastTyped
<1>6. Line' = Line
  BY <1>1 DEF Line
<1>7. \A i \in 1..Len(streams) : i # k => streams[i] # c
  <2>1. multiq \in Seq(Clients) /\ Len(multiq) \in Nat
    BY LenProperties DEF CastTyped
  <2>2. /\ Len(Line) = Len(streams) + Len(multiq)
        /\ \A i \in 1..(Len(streams) + Len(multiq)) :
             Line[i] = IF i <= Len(streams) THEN streams[i] ELSE multiq[i - Len(streams)]
    BY <1>2, <2>1, ConcatProperties DEF Line
  <2>3. \A i \in 1..Len(streams) : i \in 1..Len(Line) /\ Line[i] = streams[i]
    BY <1>2, <2>1, <2>2
  <2> QED BY <1>2, <2>3 DEF CastInv
<1>8. ASSUME NEW d \in Clients, \A i \in 1..Len(streams) : streams[i] # d
      PROVE  inbox'[d] = <<>>
  BY <1>2, <1>4, <1>8 DEF CastInv
<1>9. ASSUME NEW i \in 1..Len(streams), NEW j \in 1..Len(streams), i < j,
             Alive(streams[i])', Alive(streams[j])'
      PROVE  Agree(inbox[streams[j]], inbox[streams[i]], i <= sentTo /\ sentTo < j)'
  <2> DEFINE s == inbox[streams[j]]
             t == inbox[streams[i]]
  <2>1. s \in Seq(Messages) /\ t \in Seq(Messages)
    BY <1>3 DEF CastTyped
  <2>2. Alive(streams[i]) /\ Alive(streams[j])
    BY <1>1, <1>9 DEF Alive
  <2>3. PICK u \in Seq(Messages) :
          t = IF i <= sentTo /\ sentTo < j THEN Append(u \o s, monitor) ELSE u \o s
    BY <1>9, <2>2 DEF CastInv, Agree
  <2> HIDE DEF s, t
  <2>4. u \o s \in Seq(Messages)
    BY <2>1, <2>3, ConcatProperties
  <2>5. SUFFICES inbox'[streams[i]] = IF i <= k /\ k < j
                                        THEN Append(u \o inbox'[streams[j]], monitor)
                                        ELSE u \o inbox'[streams[j]]
    BY <1>1, <2>3 DEF Agree
  <2>6. CASE i = k
    <3>1. i <= k /\ k < j /\ ~(i <= sentTo) /\ j # k
      BY <1>2, <1>9, <2>6
    <3>2. inbox'[streams[i]] = Append(t, monitor)
      BY <1>4, <2>2, <2>6 DEF t
    <3>3. inbox'[streams[j]] = s
      BY <1>3, <1>4, <1>7, <3>1 DEF s
    <3> QED BY <2>3, <3>1, <3>2, <3>3
  <2>7. CASE j = k
    <3>1. /\ inbox'[streams[i]] = t /\ inbox'[streams[j]] = Append(s, monitor)
          /\ t = Append(u \o s, monitor) /\ ~(k < j)
      <4>1. i # k /\ i <= sentTo /\ sentTo < j /\ ~(k < j)
        BY <1>2, <1>9, <2>7
      <4>2. inbox'[streams[i]] = t
        BY <1>3, <1>4, <1>7, <4>1 DEF t
      <4>3. inbox'[streams[j]] = Append(s, monitor)
        BY <1>4, <2>2, <2>7 DEF s
      <4>4. t = Append(u \o s, monitor)
        BY <2>3, <4>1
      <4> QED BY <4>1, <4>2, <4>3, <4>4
    <3>2. Append(u \o s, monitor) = u \o Append(s, monitor)
      <4>1. /\ Append(u \o s, monitor) = (u \o s) \o <<monitor>>
            /\ Append(s, monitor) = s \o <<monitor>>
        BY <1>2, <2>1, <2>4, AppendIsConcat
      <4>2. <<monitor>> \in Seq(Messages)
        BY <1>2
      <4> QED BY <2>1, <2>3, <4>1, <4>2, ConcatAssociative
    <3> QED BY <3>1, <3>2
  <2>8. CASE i # k /\ j # k
    <3>1. /\ inbox'[streams[i]] = t /\ inbox'[streams[j]] = s
          /\ (i <= k /\ k < j) <=> (i <= sentTo /\ sentTo < j)
      BY <1>2, <1>3, <1>4, <1>7, <2>8 DEF s, t
    <3> QED BY <2>3, <3>1
  <2> QED BY <2>6, <2>7, <2>8
<1>10. CastInv'
  BY <1>1, <1>6, <1>8, <1>9 DEF CastInv
<1> QED BY <1>5, <1>10

-----------------------------------------------------------------------------
(* The theorems. *)

\* The invariant holds at the start.
LEMMA InitFtpInv == Init => FtpInv
<1>1. Init => UserTyped
  BY FtpAssumption DEF Init, UserTyped
<1> QED BY <1>1, InitDir, InitCast DEF FtpInv

\* Each step keeps the invariant.
LEMMA NextFtpInv == FtpInv /\ [Next]_vars => FtpInv'
<1> SUFFICES ASSUME FtpInv, [Next]_vars PROVE FtpInv'
  OBVIOUS
<1>0. UserTyped /\ DirTyped /\ CastTyped /\ SearchInv /\ CastInv
  BY DEF FtpInv
<1>1. ASSUME NEW c \in Clients, User(c) PROVE FtpInv'
  <2>1. CastTyped' /\ CastInv'
    BY <1>0, <1>1, UserCast
  <2>2. CASE ConnectData(c) \/ ConnectMulti(c) \/ Die(c)
    <3>1. UNCHANGED <<dir, leaked, reqs, th>>
      BY <2>2 DEF ConnectData, ConnectMulti, Die, dirVars
    <3>2. UserTyped'
      BY <1>0, <2>2 DEF ConnectData, ConnectMulti, Die, UserTyped
    <3> QED BY <1>0, <2>1, <3>1, <3>2, DirIdle DEF FtpInv
  <2>3. ASSUME NEW op \in {"ls", "upload", "download", "delete"}, NEW name \in Given[c],
               NEW whole \in BOOLEAN, Command(c, op, name, whole)
        PROVE  FtpInv'
    <3>1. DirTyped' /\ SearchInv'
      BY <1>0, <2>3, CommandDir
    <3>2. waiting' \subseteq Clients
      BY <1>0, <2>3 DEF Command, UserTyped
    <3>3. issued' \in 0..MaxCmds
      BY <1>0, <2>3, FtpAssumption DEF Command, UserTyped
    <3> QED BY <2>1, <3>1, <3>2, <3>3 DEF FtpInv, UserTyped
  <2> QED BY <1>1, <2>2, <2>3 DEF User
<1>2. ASSUME NEW c \in Clients, ThreadStep(c) PROVE FtpInv'
  <2>1. CastTyped' /\ CastInv'
    BY <1>0, <1>2, ThreadCast
  <2>2. DirTyped' /\ SearchInv'
    BY <1>0, <1>2, ReadRequestDir, ListNamesDir, ScanDir, OpenFileDir, TransferDir
       DEF ThreadStep
  <2>3. issued' = issued /\ waiting' \subseteq waiting
    BY <1>2 DEF ThreadStep, ReadRequest, ReadEof, ListNames, Scan, OpenFile,
                ReceiveBody, GetLength, ReadFile, clientVars
  <2> QED BY <1>0, <2>1, <2>2, <2>3 DEF FtpInv, UserTyped
<1>3. CASE Accept
  <2>1. UserTyped'
    BY <1>0, <1>3 DEF Accept, UserTyped
  <2> QED BY <1>0, <1>3, <2>1, AcceptDir, AcceptCast DEF FtpInv
<1>4. CASE CastStep \/ \E m \in BagToSet(pending) : Enter(m)
  <2>1. UNCHANGED <<dir, leaked, reqs, th, issued, waiting>>
    BY <1>4 DEF CastStep, SendTo, Leave, Enter, dirVars, clientVars
  <2>2. UserTyped'
    BY <1>0, <2>1 DEF UserTyped
  <2>3. DirTyped' /\ SearchInv'
    BY <1>0, <2>1, DirIdle
  <2>4. CastTyped' /\ CastInv'
    BY <1>0, <1>4, MonitorCast, SendCast DEF CastStep
  <2> QED BY <2>2, <2>3, <2>4 DEF FtpInv
<1>5. CASE UNCHANGED vars
  <2>1. /\ UNCHANGED <<dir, leaked, reqs, th, issued, waiting>>
        /\ UNCHANGED <<client, dataq, multiq, streams, pending, monitor, sentTo, inbox>>
    BY <1>5 DEF vars, dirVars, clientVars, castVars
  <2>2. UserTyped'
    BY <1>0, <2>1 DEF UserTyped
  <2>3. DirTyped' /\ SearchInv'
    BY <1>0, <2>1, DirIdle
  <2>4. CastTyped'
    BY <1>0, <2>1 DEF CastTyped
  <2>5. CastInv'
    BY <1>0, <2>1 DEF CastInv, Line, Alive, Agree
  <2> QED BY <2>2, <2>3, <2>4, <2>5 DEF FtpInv
<1> QED BY <1>1, <1>2, <1>3, <1>4, <1>5 DEF Next

\* The invariant of the file server: what its threads know of the directory
\* (getName), and what each client has got of the announcements
\* (sendMessageToStreams).
THEOREM FtpInvariant == Spec => []FtpInv
<1> QED BY InitFtpInv, NextFtpInv, PTL DEF Spec

\* All variables of the server and its clients keep their types.
THEOREM TypeCorrect == Spec => []TypeOK
<1>1. FtpInv => TypeOK
  <2> SUFFICES ASSUME FtpInv PROVE TypeOK
    OBVIOUS
  <2>1. Requests \subseteq [op : {"ls", "upload", "download", "delete"},
                            name : Names, whole : BOOLEAN]
    BY DEF Requests
  <2> DEFINE R == [op : {"ls", "upload", "download", "delete"},
                   name : Names, whole : BOOLEAN]
  <2>2. reqs \in [Clients -> Seq(R)]
    <3> HIDE DEF R
    <3>1. reqs \in [Clients -> Seq(Requests)] /\ Requests \subseteq R
      BY <2>1 DEF FtpInv, DirTyped, R
    <3>2. \A c \in Clients : reqs[c] \in Seq(R)
      BY <3>1, SeqMonotonic
    <3> QED BY <3>1, <3>2
  <2>3. /\ issued \in 0..MaxCmds /\ waiting \subseteq Clients
    BY DEF FtpInv, UserTyped
  <2>4. /\ DOMAIN dir \subseteq Names /\ \A n \in DOMAIN dir : dir[n] \in {0, 1}
        /\ leaked \subseteq Names /\ th \in [Clients -> Threads]
    BY DEF FtpInv, DirTyped
  <2>5. CastTyped
    BY DEF FtpInv
  <2> QED BY <2>2, <2>3, <2>4, <2>5 DEF TypeOK, CastTyped, Threads
<1> QED BY <1>1, FtpInvariant, PTL

\* An upload that no other thread has disturbed overwrites no file but the first
\* of the directory, and that only when the user gave a name with a number
\* (OverwriteRacedOrFirst): for a name without one getName returns a free name,
\* although it looks only behind the name it tried last, and skips the first
\* name of each further listing.
THEOREM OverwritesKnown == Spec => []OverwriteRacedOrFirst
<1>1. FtpInv => OverwriteRacedOrFirst
  BY DEF FtpInv, SearchInv, SearchOK, Skipped, OverwriteRacedOrFirst
<1> QED BY <1>1, FtpInvariant, PTL

\* The end of a sequence is a suffix of it.
LEMMA ConcatSuffix ==
  ASSUME NEW S, NEW u \in Seq(S), NEW s \in Seq(S)
  PROVE  IsSuffix(s, u \o s)
<1> DEFINE t == u \o s
           n == Len(s)
           m == Len(u)
<1>1. n \in Nat /\ m \in Nat /\ t \in Seq(S) /\ Len(t) = m + n
      /\ \A i \in 1..(m + n) : t[i] = IF i <= m THEN u[i] ELSE s[i - m]
  BY LenProperties, ConcatProperties
<1> HIDE DEF t, n, m
<1>2. \A i \in 1..n : s[(n - i) + 1] \in S
  BY <1>1, ElementOfSeq DEF n
<1>3. \A i \in 1..(m + n) : t[(m + n - i) + 1] \in S
  <2>1. \A i \in 1..(m + n) : (m + n - i) + 1 \in 1..Len(t)
    BY <1>1
  <2> QED BY <1>1, <2>1, ElementOfSeq
<1>4. Reverse(s) = [i \in 1..n |-> s[(n - i) + 1]]
  BY DEF Reverse, n
<1>5. Reverse(t) = [i \in 1..(m + n) |-> t[(m + n - i) + 1]]
  BY <1>1 DEF Reverse
<1>6. Len(Reverse(s)) = n /\ Reverse(s) \in Seq(S)
  BY <1>1, <1>2, <1>4
<1>7. Len(Reverse(t)) = m + n /\ Reverse(t) \in Seq(S)
  BY <1>1, <1>3, <1>5
<1>8. \A i \in 1..n : Reverse(s)[i] = Reverse(t)[i]
  <2>1. SUFFICES ASSUME NEW i \in 1..n PROVE s[(n - i) + 1] = t[(m + n - i) + 1]
    BY <1>1, <1>4, <1>5
  <2>2. (m + n - i) + 1 \in 1..(m + n) /\ ~((m + n - i) + 1 <= m)
        /\ ((m + n - i) + 1) - m = (n - i) + 1
    BY <1>1
  <2> QED BY <1>1, <2>2
<1>9. SubSeq(Reverse(s), 1, n) = SubSeq(Reverse(t), 1, n)
  <2>1. \A i \in 1..n : Reverse(s)[i] \in S /\ Reverse(t)[i] \in S
    BY <1>1, <1>6, <1>8, ElementOfSeq
  <2>2. /\ SubSeq(Reverse(s), 1, n) \in Seq(S) /\ SubSeq(Reverse(t), 1, n) \in Seq(S)
        /\ Len(SubSeq(Reverse(s), 1, n)) = n /\ Len(SubSeq(Reverse(t), 1, n)) = n
        /\ \A i \in 1..n : SubSeq(Reverse(s), 1, n)[i] = Reverse(s)[i]
        /\ \A i \in 1..n : SubSeq(Reverse(t), 1, n)[i] = Reverse(t)[i]
    BY <1>1, <2>1, SubSeqProperties
  <2> QED BY <1>8, <2>2, SeqEqual
<1> QED BY <1>1, <1>6, <1>7, <1>9 DEF IsSuffix, IsPrefix, t

\* Whenever no announcement is being sent, what a client has got is the end of
\* what each client got that registered before it and still lives: the monitor
\* of sendMessageToStreams keeps the announcements in one order for all.
THEOREM OneOrder == Spec => []SameOrder
<1>1. FtpInv => SameOrder
  <2> SUFFICES ASSUME FtpInv, monitor = Free,
                      NEW i \in 1..Len(streams), NEW j \in 1..Len(streams),
                      i < j, Alive(streams[i]), Alive(streams[j])
               PROVE  IsSuffix(inbox[streams[j]], inbox[streams[i]])
    BY DEF SameOrder
  <2>1. streams[j] \in Clients /\ sentTo = 0
    BY ElementOfSeq DEF FtpInv, CastTyped, CastInv
  <2>2. inbox[streams[j]] \in Seq(Messages)
    BY <2>1 DEF FtpInv, CastTyped
  <2>3. ~(i <= sentTo)
    BY <2>1
  <2>4. PICK u \in Seq(Messages) : inbox[streams[i]] = u \o inbox[streams[j]]
    BY <2>3 DEF FtpInv, CastInv, Agree
  <2> QED BY <2>2, <2>4, ConcatSuffix
<1> QED BY <1>1, FtpInvariant, PTL
=============================================================================
