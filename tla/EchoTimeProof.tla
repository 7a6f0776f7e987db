--------------------------- MODULE EchoTimeProof ---------------------------
(***************************************************************************)
(* The echo and time server of module EchoTime, for any number of clients, *)
(* lines, starts of the server, and any size of sockets and pipes.         *)
(***************************************************************************)
EXTENDS EchoTime, SequenceTheorems, TLAPS

-----------------------------------------------------------------------------
(* The inductive invariant. *)

Children == [kind : {"echo", "time"}, run : {"connecting", "running", "ended"}]
Sessions ==
  [server : 0..MaxStarts, thread : {"backlog", "read", "write", "done"},
   buf : Seq(Lines), in : Seq(Lines), out : Seq(Lines),
   fin : BOOLEAN, rst : BOOLEAN, srv : {"open", "fin", "rst", "finrst"},
   typed : 0..MaxTyped, text : [1..MaxTyped -> Messages], got : Seq(Lines)]

Servers == [up : BOOLEAN, starts : 1..MaxStarts]

Typed ==
  /\ server \in Servers
  /\ parent \in [Clients -> {"menu", "reading", "quit", "crash"}]
  /\ child \in [Clients -> Children]
  /\ pipe \in [Clients -> Seq(Messages)]
  /\ conn \in [Clients -> Sessions]

\* The lines a + 1, a + 2, ... of client c.
LinesFrom(x, c, a) == \A k \in 1..Len(x) : x[k] = <<c, a + k>>

\* What the echo child got, what is on its way back to it, what the thread has
\* read and what is on its way there are the lines typed, one after the other.
\* The end of the server takes the last two away for good.
Stream(c, d) ==
  /\ LinesFrom(d.out, c, Len(d.got))
  /\ LinesFrom(d.buf, c, Len(d.got) + Len(d.out))
  /\ LinesFrom(d.in, c, Len(d.got) + Len(d.out) + Len(d.buf))
  /\ d.srv = "open" => Len(d.got) + Len(d.out) + Len(d.buf) + Len(d.in) = d.typed
  /\ d.srv # "open" => d.buf = <<>> /\ d.in = <<>>
  /\ d.thread \in {"backlog", "read"} => d.buf = <<>>

\* The server at the other end of connection d still runs.
Open(d) == server.up /\ d.server = server.starts

\* Only lines that were typed have another text than "line".
Untyped(d) == \A k \in 1..MaxTyped : k > d.typed => d.text[k] = "line"

\* The connection d of client c and its child h.
SessionOK(c, d, h) ==
  /\ LinesFrom(d.got, c, 0)
  /\ Untyped(d)
  /\ d.server <= server.starts
  /\ d.server # 0 => (d.srv = "open" <=> Open(d))
  /\ h.run = "running" => d.server # 0
  /\ h.run = "running" /\ h.kind = "echo" => Stream(c, d)

\* The user of connection d typed the words of the message, or its server ended.
TypedCrash(d) == \E k \in 1..MaxTyped : d.text[k] = "server process crash"
Excused(d) == (d.server # 0 /\ ~Open(d)) \/ TypedCrash(d)

\* Nothing else reads like the end of the server, in pipe m to parent p.
PipeOK(p, m, d, h) ==
  /\ h.run = "connecting" => p = "reading" /\ m = <<>>
  /\ p = "crash" => Excused(d)
  /\ (\E i \in 1..Len(m) : m[i] = "server process crash") => Excused(d)

EchoInv ==
  /\ Typed
  /\ \A c \in Clients : /\ SessionOK(c, conn[c], child[c])
                        /\ PipeOK(parent[c], pipe[c], conn[c], child[c])

-----------------------------------------------------------------------------
(* Streams. *)

\* The empty stream holds the lines from anywhere on.
LEMMA LinesEmpty ==
  ASSUME NEW c, NEW a
  PROVE  <<>> \in Seq(Lines) /\ Len(<<>>) = 0 /\ LinesFrom(<<>>, c, a)
BY DEF LinesFrom

\* A stream with the next line at its end.
LEMMA LinesAppend ==
  ASSUME NEW c, NEW a \in Nat, NEW x \in Seq(Lines), LinesFrom(x, c, a),
         NEW n \in Nat, n = a + Len(x) + 1, <<c, n>> \in Lines
  PROVE  /\ Append(x, <<c, n>>) \in Seq(Lines) /\ Len(Append(x, <<c, n>>)) = Len(x) + 1
         /\ LinesFrom(Append(x, <<c, n>>), c, a)
<1>1. Len(x) \in Nat
  BY LenProperties
<1>2. /\ Append(x, <<c, n>>) \in Seq(Lines) /\ Len(Append(x, <<c, n>>)) = Len(x) + 1
      /\ \A i \in 1..Len(x) : Append(x, <<c, n>>)[i] = x[i]
      /\ Append(x, <<c, n>>)[Len(x) + 1] = <<c, n>>
  BY AppendProperties
<1>3. n = a + (Len(x) + 1)
  BY <1>1
<1>4. ASSUME NEW k \in 1..Len(Append(x, <<c, n>>))
      PROVE  Append(x, <<c, n>>)[k] = <<c, a + k>>
  <2>1. CASE k = Len(x) + 1
    BY <1>2, <1>3, <2>1
  <2>2. CASE k \in 1..Len(x)
    BY <1>2, <2>2 DEF LinesFrom
  <2> QED BY <1>1, <1>2, <2>1, <2>2
<1>5. LinesFrom(Append(x, <<c, n>>), c, a)
  BY <1>4 DEF LinesFrom
<1> QED BY <1>2, <1>5

\* A stream that goes on where another ends.
LEMMA LinesConcat ==
  ASSUME NEW c, NEW a \in Nat, NEW x \in Seq(Lines), NEW y \in Seq(Lines),
         LinesFrom(x, c, a), LinesFrom(y, c, a + Len(x))
  PROVE  /\ x \o y \in Seq(Lines) /\ Len(x \o y) = Len(x) + Len(y)
         /\ LinesFrom(x \o y, c, a)
<1>1. Len(x) \in Nat /\ Len(y) \in Nat
  BY LenProperties
<1>2. /\ x \o y \in Seq(Lines) /\ Len(x \o y) = Len(x) + Len(y)
      /\ \A i \in 1..(Len(x) + Len(y)) :
           (x \o y)[i] = IF i <= Len(x) THEN x[i] ELSE y[i - Len(x)]
  BY ConcatProperties
<1>3. ASSUME NEW k \in 1..Len(x \o y) PROVE (x \o y)[k] = <<c, a + k>>
  <2>1. CASE k <= Len(x)
    BY <1>1, <1>2, <2>1 DEF LinesFrom
  <2>2. CASE k > Len(x)
    <3>1. k - Len(x) \in 1..Len(y) /\ (a + Len(x)) + (k - Len(x)) = a + k
      BY <1>1, <1>2, <2>2
    <3>2. y[k - Len(x)] = <<c, (a + Len(x)) + (k - Len(x))>>
      BY <3>1 DEF LinesFrom
    <3> QED BY <1>1, <1>2, <2>2, <3>1, <3>2
  <2> QED BY <1>1, <1>2, <2>1, <2>2
<1> QED BY <1>2, <1>3 DEF LinesFrom

\* Sums of lengths are lengths.
LEMMA Sums ==
  /\ \A i, j, k \in Nat : i + j \in Nat /\ i + j + k \in Nat
  /\ \A i \in Nat : i + 0 = i
OBVIOUS

\* One read takes a first part of the stream and leaves the rest.
LEMMA LinesSplit ==
  ASSUME NEW x \in Seq(Lines), NEW s \in Chunks(x)
  PROVE  /\ s \in Seq(Lines) /\ Rest(x, s) \in Seq(Lines)
         /\ Len(s) \in 1..Len(x) /\ Len(Rest(x, s)) = Len(x) - Len(s)
         /\ \A c : \A a \in Nat : LinesFrom(x, c, a) =>
              LinesFrom(s, c, a) /\ LinesFrom(Rest(x, s), c, a + Len(s))
<1>1. Len(x) \in Nat
  BY LenProperties
<1>2. PICK k \in 1..Len(x) : s = SubSeq(x, 1, k)
  BY DEF Chunks
<1>3. s \in Seq(Lines) /\ Len(s) = k /\ \A i \in 1..k : s[i] = x[i]
  BY <1>1, <1>2, SubSeqProperties
<1>4. /\ Rest(x, s) \in Seq(Lines) /\ Len(Rest(x, s)) = Len(x) - k
      /\ \A i \in 1..(Len(x) - k) : Rest(x, s)[i] = x[k + i]
  BY <1>1, <1>3, SubSeqProperties DEF Rest
<1>5. ASSUME NEW c, NEW a \in Nat, LinesFrom(x, c, a)
      PROVE  LinesFrom(s, c, a) /\ LinesFrom(Rest(x, s), c, a + Len(s))
  <2>1. LinesFrom(s, c, a)
    BY <1>1, <1>3, <1>5 DEF LinesFrom
  <2>2. ASSUME NEW i \in 1..Len(Rest(x, s))
        PROVE  Rest(x, s)[i] = <<c, (a + Len(s)) + i>>
    <3>1. k + i \in 1..Len(x) /\ a + (k + i) = (a + k) + i
      BY <1>1, <1>4
    <3>2. x[k + i] = <<c, a + (k + i)>>
      BY <1>5, <3>1 DEF LinesFrom
    <3> QED BY <1>1, <1>3, <1>4, <3>1, <3>2
  <2> QED BY <2>1, <2>2 DEF LinesFrom
<1> QED BY <1>1, <1>3, <1>4, <1>5

-----------------------------------------------------------------------------
(* Steps that concern one client. *)

\* A step of one client or of its thread leaves the other clients as they were.
LEMMA OneClient ==
  ASSUME EchoInv, NEW c \in Clients, server' = server,
         NEW p \in {"menu", "reading", "quit", "crash"}, NEW h \in Children,
         NEW m \in Seq(Messages), NEW d \in Sessions,
         parent' = [parent EXCEPT ![c] = p], child' = [child EXCEPT ![c] = h],
         pipe' = [pipe EXCEPT ![c] = m], conn' = [conn EXCEPT ![c] = d],
         SessionOK(c, d, h), PipeOK(p, m, d, h)
  PROVE  EchoInv'
<1>1. Typed'
  BY DEF EchoInv, Typed
<1>2. ASSUME NEW b \in Clients
      PROVE  /\ SessionOK(b, conn[b], child[b])'
             /\ PipeOK(parent[b], pipe[b], conn[b], child[b])'
  <2>1. CASE b = c
    <3>1. parent'[b] = p /\ child'[b] = h /\ pipe'[b] = m /\ conn'[b] = d
      BY <2>1 DEF EchoInv, Typed
    <3> QED BY <2>1, <3>1 DEF SessionOK, PipeOK, Stream, Open, Excused
  <2>2. CASE b # c
    <3>1. /\ parent'[b] = parent[b] /\ child'[b] = child[b]
          /\ pipe'[b] = pipe[b] /\ conn'[b] = conn[b]
      BY <2>2 DEF EchoInv, Typed
    <3>2. SessionOK(b, conn[b], child[b]) /\ PipeOK(parent[b], pipe[b], conn[b], child[b])
      BY DEF EchoInv
    <3> QED BY <3>1, <3>2 DEF SessionOK, PipeOK, Stream, Open, Excused
  <2> QED BY <2>1, <2>2
<1> QED BY <1>1, <1>2 DEF EchoInv

\* A new connection, and none.
LEMMA NewConnOK ==
  ASSUME server.starts \in 0..MaxStarts
  PROVE  /\ NewConn \in Sessions /\ NewConn.server = server.starts /\ NewConn.got = <<>>
         /\ NewConn.out = <<>> /\ NewConn.in = <<>> /\ NewConn.buf = <<>>
         /\ NewConn.typed = 0 /\ NewConn.srv = "open" /\ Untyped(NewConn)
<1>1. <<>> \in Seq(Lines) /\ [k \in 1..MaxTyped |-> "line"] \in [1..MaxTyped -> Messages]
  BY DEF Messages
<1> QED BY <1>1, EchoTimeAssumption DEF NewConn, Sessions, Untyped

LEMMA NoConnOK ==
  ASSUME server.starts \in 0..MaxStarts
  PROVE  /\ NoConn \in Sessions /\ NoConn.server = 0 /\ NoConn.got = <<>>
         /\ Untyped(NoConn)
<1>1. /\ NoConn \in Sessions /\ NoConn.server = 0 /\ NoConn.got = NewConn.got
      /\ NoConn.text = NewConn.text /\ NoConn.typed = NewConn.typed
  <2>1. NewConn \in Sessions /\ 0 \in 0..MaxStarts
    BY NewConnOK, EchoTimeAssumption
  <2> QED BY <2>1 DEF NoConn, Sessions
<1> QED BY <1>1, NewConnOK DEF Untyped

\* The invariant holds at the start.
LEMMA InitEchoInv == Init => EchoInv
<1> SUFFICES ASSUME Init PROVE EchoInv
  OBVIOUS
<1>1. <<>> \in Seq(Lines) /\ <<>> \in Seq(Messages) /\ Len(<<>>) = 0
  OBVIOUS
<1>2. NoConn \in Sessions /\ NoConn.server = 0 /\ NoConn.got = <<>> /\ Untyped(NoConn)
  <2>1. server.starts \in 0..MaxStarts
    BY EchoTimeAssumption DEF Init
  <2> QED BY <2>1, NoConnOK
<1>3. Typed
  BY <1>1, <1>2, EchoTimeAssumption DEF Init, Typed, Servers, Children
<1>4. ASSUME NEW c \in Clients
      PROVE  /\ SessionOK(c, conn[c], child[c])
             /\ PipeOK(parent[c], pipe[c], conn[c], child[c])
  BY <1>1, <1>2 DEF Init, SessionOK, PipeOK, LinesFrom
<1> QED BY <1>3, <1>4 DEF EchoInv

\* What the invariant says of one client.
LEMMA Client ==
  ASSUME EchoInv, NEW c \in Clients
  PROVE  /\ SessionOK(c, conn[c], child[c])
         /\ PipeOK(parent[c], pipe[c], conn[c], child[c])
         /\ parent[c] \in {"menu", "reading", "quit", "crash"}
         /\ child[c] \in Children /\ pipe[c] \in Seq(Messages) /\ conn[c] \in Sessions
         /\ parent = [parent EXCEPT ![c] = parent[c]]
         /\ child = [child EXCEPT ![c] = child[c]]
         /\ pipe = [pipe EXCEPT ![c] = pipe[c]]
         /\ conn = [conn EXCEPT ![c] = conn[c]]
         /\ server.starts \in 1..MaxStarts /\ conn[c].server \in 0..MaxStarts
BY DEF EchoInv, Typed, Sessions, Servers

\* The bytes and the thread of one connection.
LEMMA ConnStep ==
  ASSUME EchoInv, NEW c \in Clients, NEW d \in Sessions,
         conn' = [conn EXCEPT ![c] = d], UNCHANGED <<server, parent, child, pipe>>,
         d.server = conn[c].server, d.srv = conn[c].srv, LinesFrom(d.got, c, 0),
         d.typed = conn[c].typed, d.text = conn[c].text,
         child[c].run = "running" /\ child[c].kind = "echo" => Stream(c, d)
  PROVE  EchoInv'
<1> DEFINE p == parent[c]
           h == child[c]
           m == pipe[c]
<1>1. SessionOK(c, d, h)
  BY Client DEF SessionOK, Open, Untyped
<1>2. PipeOK(p, m, d, h)
  <2>1. Excused(conn[c]) => Excused(d)
    BY DEF Excused, TypedCrash, Open
  <2> QED BY <2>1, Client DEF PipeOK
<1>3. /\ p \in {"menu", "reading", "quit", "crash"}
      /\ h \in Children /\ m \in Seq(Messages) /\ server' = server
  BY Client
<1>4. /\ parent' = [parent EXCEPT ![c] = p]
      /\ child' = [child EXCEPT ![c] = h]
      /\ pipe' = [pipe EXCEPT ![c] = m]
      /\ conn' = [conn EXCEPT ![c] = d]
  BY Client
<1> HIDE DEF p, h, m
<1> QED BY <1>1, <1>2, <1>3, <1>4, OneClient, ZenonT(60)

\* A child ends; its pipe gets message m, unless the pipe is left as it is.
LEMMA ChildEndsStep ==
  ASSUME EchoInv, NEW c \in Clients, NEW d \in Sessions, NEW m \in Seq(Messages),
         child[c].run # "ended", ChildEnds(c),
         conn' = [conn EXCEPT ![c] = d], pipe' = [pipe EXCEPT ![c] = m],
         UNCHANGED <<server, parent>>,
         d.server = conn[c].server, d.srv = conn[c].srv, d.got = conn[c].got,
         d.typed = conn[c].typed, d.text = conn[c].text,
         (\E i \in 1..Len(m) : m[i] = "server process crash") =>
           \/ \E i \in 1..Len(pipe[c]) : pipe[c][i] = "server process crash"
           \/ Excused(conn[c])
  PROVE  EchoInv'
<1> DEFINE h == [child[c] EXCEPT !.run = "ended"]
<1>1. child[c] \in Children
  BY Client
<1>2. h \in Children /\ h.run = "ended"
  BY <1>1 DEF Children
<1>3. child' = [child EXCEPT ![c] = h]
  BY <1>1 DEF ChildEnds, Children
<1> HIDE DEF h
<1>4. SessionOK(c, d, h)
  <2>1. SessionOK(c, conn[c], child[c])
    BY Client
  <2> QED BY <1>2, <2>1 DEF SessionOK, Open, Untyped
<1>5. PipeOK(parent[c], m, d, h)
  <2>1. Excused(conn[c]) => Excused(d)
    BY DEF Excused, Open, TypedCrash
  <2> QED BY <1>2, <2>1, Client DEF PipeOK
<1> QED BY <1>2, <1>3, <1>4, <1>5, Client, OneClient, ZenonT(60)

\* The child writes a message to its parent.
LEMMA ToldPipe ==
  ASSUME EchoInv, NEW c \in Clients, NEW msg \in Messages, Told(c, msg)
  PROVE  /\ Append(pipe[c], msg) \in Seq(Messages)
         /\ pipe' = [pipe EXCEPT ![c] = Append(pipe[c], msg)]
         /\ (\E i \in 1..Len(Append(pipe[c], msg)) :
               Append(pipe[c], msg)[i] = "server process crash") =>
            \/ \E i \in 1..Len(pipe[c]) : pipe[c][i] = "server process crash"
            \/ msg = "server process crash"
<1>1. pipe[c] \in Seq(Messages)
  BY Client
<1>2. Len(pipe[c]) \in Nat
  BY <1>1, LenProperties
<1>3. /\ Append(pipe[c], msg) \in Seq(Messages)
      /\ Len(Append(pipe[c], msg)) = Len(pipe[c]) + 1
      /\ \A i \in 1..Len(pipe[c]) : Append(pipe[c], msg)[i] = pipe[c][i]
      /\ Append(pipe[c], msg)[Len(pipe[c]) + 1] = msg
  BY <1>1, AppendProperties
<1>4. pipe' = [pipe EXCEPT ![c] = Append(pipe[c], msg)]
  BY DEF Told
<1>5. ASSUME NEW i \in 1..Len(Append(pipe[c], msg)),
             Append(pipe[c], msg)[i] = "server process crash"
      PROVE  \/ \E j \in 1..Len(pipe[c]) : pipe[c][j] = "server process crash"
             \/ msg = "server process crash"
  <2>1. CASE i = Len(pipe[c]) + 1
    BY <1>3, <1>5, <2>1
  <2>2. CASE i \in 1..Len(pipe[c])
    BY <1>3, <1>5, <2>2
  <2>3. i = Len(pipe[c]) + 1 \/ i \in 1..Len(pipe[c])
    BY <1>2, <1>3
  <2> QED BY <2>1, <2>2, <2>3
<1> QED BY <1>3, <1>4, <1>5

\* The parent starts a child, reads what it reports, or quits.
LEMMA ParentSteps ==
  ASSUME EchoInv, NEW c \in Clients,
         \/ \E kind \in {"echo", "time"} : Choose(c, kind)
         \/ Quit(c) \/ ParentRead(c) \/ ParentEof(c)
  PROVE  EchoInv'
<1>1. <<>> \in Seq(Lines) /\ <<>> \in Seq(Messages) /\ Len(<<>>) = 0
  OBVIOUS
<1>2. ASSUME NEW kind \in {"echo", "time"}, Choose(c, kind) PROVE EchoInv'
  <2> DEFINE h == [kind |-> kind, run |-> "connecting"]
  <2>1. h \in Children /\ h.run = "connecting"
    BY DEF Children
  <2>2. NoConn \in Sessions /\ NoConn.server = 0 /\ NoConn.got = <<>> /\ Untyped(NoConn)
    <3>1. server.starts \in 0..MaxStarts
      BY Client, EchoTimeAssumption
    <3> QED BY <3>1, NoConnOK
  <2>3. /\ parent' = [parent EXCEPT ![c] = "reading"] /\ child' = [child EXCEPT ![c] = h]
        /\ pipe' = [pipe EXCEPT ![c] = <<>>] /\ conn' = [conn EXCEPT ![c] = NoConn]
        /\ server' = server
    BY <1>2 DEF Choose
  <2> HIDE DEF h
  <2>4. SessionOK(c, NoConn, h)
    <3>1. server.starts \in 1..MaxStarts
      BY Client
    <3> QED BY <2>1, <2>2, <3>1, LinesEmpty, EchoTimeAssumption DEF SessionOK
  <2>5. PipeOK("reading", <<>>, NoConn, h)
    BY <1>1, <2>1 DEF PipeOK
  <2> QED BY <1>1, <2>1, <2>2, <2>3, <2>4, <2>5, OneClient, ZenonT(60)
<1>3. CASE Quit(c)
  <2>1. PipeOK("quit", pipe[c], conn[c], child[c])
    BY <1>3, Client DEF PipeOK, Quit
  <2> QED BY <1>3, <2>1, Client, OneClient, ZenonT(60) DEF Quit
<1>4. CASE ParentRead(c)
  <2> DEFINE p == CASE Head(pipe[c]) = "server process crash" -> "crash"
                    [] Head(pipe[c]) = "cannot connect to server" -> "menu"
                    [] OTHER -> parent[c]
  <2>1. /\ parent' = [parent EXCEPT ![c] = p] /\ pipe' = [pipe EXCEPT ![c] = <<>>]
        /\ UNCHANGED <<server, child, conn>> /\ parent[c] = "reading" /\ pipe[c] # <<>>
    BY <1>4 DEF ParentRead
  <2>2. pipe[c] \in Seq(Messages)
    BY Client
  <2>3. 1 \in 1..Len(pipe[c]) /\ Head(pipe[c]) = pipe[c][1]
    <3>1. Len(pipe[c]) \in Nat /\ Len(pipe[c]) # 0
      BY <2>1, <2>2, EmptySeq, LenProperties
    <3> QED BY <2>2, <3>1
  <2>4. p \in {"menu", "reading", "quit", "crash"}
    BY <2>1
  <2>5. p = "crash" => pipe[c][1] = "server process crash"
    BY <2>1, <2>3
  <2> HIDE DEF p
  <2>6. PipeOK(p, <<>>, conn[c], child[c])
    <3>1. PipeOK(parent[c], pipe[c], conn[c], child[c])
      BY Client
    <3>2. child[c].run # "connecting"
      BY <2>1, <3>1 DEF PipeOK
    <3>3. p = "crash" => Excused(conn[c])
      BY <2>3, <2>5, <3>1 DEF PipeOK
    <3> QED BY <1>1, <3>2, <3>3 DEF PipeOK
  <2> QED BY <1>1, <2>1, <2>4, <2>6, Client, OneClient, ZenonT(60)
<1>5. CASE ParentEof(c)
  <2>1. PipeOK("menu", pipe[c], conn[c], child[c])
    BY <1>5, Client DEF PipeOK, ParentEof
  <2> QED BY <1>5, <2>1, Client, OneClient, ZenonT(60) DEF ParentEof
<1> QED BY <1>2, <1>3, <1>4, <1>5

\* The child connects, or reports that it cannot.
LEMMA ConnectStep ==
  ASSUME EchoInv, NEW c \in Clients, Connect(c)
  PROVE  EchoInv'
<1>1. <<>> \in Seq(Lines) /\ <<>> \in Seq(Messages) /\ Len(<<>>) = 0
  OBVIOUS
<1>2. CASE server.up
  <2> DEFINE h == [child[c] EXCEPT !.run = "running"]
  <2>1. child[c] \in Children /\ server.starts \in 1..MaxStarts
    BY Client
  <2>2. h \in Children /\ h.run = "running"
    BY <2>1 DEF Children
  <2>3. /\ child' = [child EXCEPT ![c] = h] /\ conn' = [conn EXCEPT ![c] = NewConn]
        /\ UNCHANGED <<server, parent, pipe>> /\ child[c].run = "connecting"
    BY <1>2, <2>1 DEF Connect, Children
  <2> HIDE DEF h
  <2>4. /\ NewConn \in Sessions /\ NewConn.server = server.starts /\ NewConn.got = <<>>
        /\ NewConn.out = <<>> /\ NewConn.in = <<>> /\ NewConn.buf = <<>>
        /\ NewConn.typed = 0 /\ NewConn.srv = "open" /\ Untyped(NewConn)
    <3>1. server.starts \in 0..MaxStarts
      BY <2>1, EchoTimeAssumption
    <3> QED BY <3>1, NewConnOK
  <2>5. Stream(c, NewConn)
    BY <2>4, LinesEmpty DEF Stream
  <2>6. SessionOK(c, NewConn, h)
    BY <1>2, <2>1, <2>4, <2>5, LinesEmpty DEF SessionOK, Open
  <2>7. parent[c] = "reading" /\ pipe[c] = <<>>
    BY <2>3, Client DEF PipeOK
  <2>8. PipeOK(parent[c], pipe[c], NewConn, h)
    BY <1>1, <2>2, <2>7 DEF PipeOK
  <2>9. /\ parent' = [parent EXCEPT ![c] = parent[c]] /\ pipe' = [pipe EXCEPT ![c] = pipe[c]]
        /\ parent[c] \in {"menu", "reading", "quit", "crash"}
        /\ pipe[c] \in Seq(Messages) /\ server' = server
    BY <2>3, Client
  <2> QED BY <2>2, <2>3, <2>4, <2>6, <2>8, <2>9, OneClient, ZenonT(60)
<1>3. CASE ~server.up
  <2>1. /\ Told(c, "cannot connect to server") /\ ChildEnds(c)
        /\ child[c].run # "ended" /\ UNCHANGED <<server, parent, conn>>
    BY <1>3 DEF Connect
  <2>2. "cannot connect to server" \in Messages
    BY DEF Messages
  <2>3. conn[c] \in Sessions /\ conn' = [conn EXCEPT ![c] = conn[c]]
    BY <2>1, Client
  <2> QED BY <2>1, <2>2, <2>3, ToldPipe, ChildEndsStep
<1> QED BY <1>2, <1>3

\* The sequences of a connection, their lengths and the numbers.
LEMMA SessionTypes ==
  ASSUME NEW d \in Sessions
  PROVE  /\ d.buf \in Seq(Lines) /\ d.in \in Seq(Lines) /\ d.out \in Seq(Lines)
         /\ d.got \in Seq(Lines) /\ d.typed \in 0..MaxTyped /\ d.typed \in Nat
         /\ Len(d.buf) \in Nat /\ Len(d.in) \in Nat /\ Len(d.out) \in Nat
         /\ Len(d.got) \in Nat
<1>1. /\ d.buf \in Seq(Lines) /\ d.in \in Seq(Lines) /\ d.out \in Seq(Lines)
      /\ d.got \in Seq(Lines) /\ d.typed \in 0..MaxTyped
  BY DEF Sessions
<1> QED BY <1>1, LenProperties, EchoTimeAssumption

\* A line is typed and written to the connection.
LEMMA TypeStep ==
  ASSUME EchoInv, NEW c \in Clients, Type(c)
  PROVE  EchoInv'
<1> DEFINE e == conn[c]
<1>1. /\ e \in Sessions /\ SessionOK(c, e, child[c])
      /\ PipeOK(parent[c], pipe[c], e, child[c]) /\ child[c] \in Children
  BY Client
<1>2. /\ child[c].kind = "echo" /\ child[c].run = "running" /\ e.typed < MaxTyped
      /\ UNCHANGED <<server, parent, pipe>>
  <2>1. /\ child[c] = [kind |-> "echo", run |-> "running"] /\ e.typed < MaxTyped
        /\ UNCHANGED <<server, parent, pipe>>
    BY Zenon DEF Type
  <2> QED BY <2>1
<1>3. /\ Stream(c, e) /\ LinesFrom(e.got, c, 0) /\ e.server # 0
  BY <1>1, <1>2 DEF SessionOK
<1>4. /\ e.buf \in Seq(Lines) /\ e.in \in Seq(Lines) /\ e.out \in Seq(Lines)
      /\ e.typed \in Nat /\ Len(e.got) \in Nat /\ Len(e.buf) \in Nat
      /\ Len(e.in) \in Nat /\ Len(e.out) \in Nat /\ MaxTyped \in Nat
  BY <1>1, SessionTypes, EchoTimeAssumption
<1>5. ASSUME NEW text \in Texts[c][e.typed + 1], e.srv \in {"open", "fin"}, UNCHANGED child,
             conn' = [conn EXCEPT ![c].typed = @ + 1,
               ![c].text[conn[c].typed + 1] = text,
               ![c].in = IF conn[c].srv = "open" THEN Append(@, <<c, conn[c].typed + 1>>)
                         ELSE @,
               ![c].srv = IF @ = "open" THEN @ ELSE "finrst"]
      PROVE  EchoInv'
  <2> DEFINE a == Len(e.got) + Len(e.out) + Len(e.buf)
             x == IF e.srv = "open" THEN Append(e.in, <<c, e.typed + 1>>) ELSE e.in
             v == IF e.srv = "open" THEN e.srv ELSE "finrst"
             t == [e.text EXCEPT ![e.typed + 1] = text]
             d == [e EXCEPT !.typed = e.typed + 1, !.text = t, !.in = x, !.srv = v]
  <2>1. /\ e.typed + 1 \in 1..MaxTyped /\ e.typed + 1 \in 0..MaxTyped
        /\ <<c, e.typed + 1>> \in Lines
    BY <1>2, <1>4 DEF Lines
  <2>2. /\ e.text \in [1..MaxTyped -> Messages] /\ text \in Messages
        /\ e.text[e.typed + 1] = "line"
    <3>1. e.text[e.typed + 1] = "line"
      BY <1>1, <1>4, <2>1 DEF SessionOK, Untyped
    <3> QED BY <1>1, <2>1, <3>1, EchoTimeAssumption DEF Sessions
  <2>3. /\ t \in [1..MaxTyped -> Messages]
        /\ \A k \in 1..MaxTyped : k # e.typed + 1 => t[k] = e.text[k]
    BY <2>1, <2>2
  <2>4. conn' = [conn EXCEPT ![c] = d]
    BY <1>1, <1>5 DEF Sessions
  <2>5. /\ x \in Seq(Lines) /\ v \in {"open", "finrst"} /\ (v = "open" <=> e.srv = "open")
        /\ IF e.srv = "open" THEN x = Append(e.in, <<c, e.typed + 1>>) ELSE x = e.in
    BY <1>4, <1>5, <2>1, AppendProperties
  <2> HIDE DEF x, v, t
  <2>6. /\ d \in Sessions /\ d.server = e.server /\ d.srv = v /\ d.got = e.got
        /\ d.out = e.out /\ d.buf = e.buf /\ d.thread = e.thread
        /\ d.in = x /\ d.typed = e.typed + 1 /\ d.text = t
    BY <1>1, <2>1, <2>3, <2>5 DEF Sessions
  <2> HIDE DEF d
  <2>7. ASSUME e.srv = "open"
        PROVE  LinesFrom(x, c, a) /\ a + Len(x) = e.typed + 1
    <3>1. a \in Nat /\ e.typed + 1 = a + Len(e.in) + 1 /\ LinesFrom(e.in, c, a)
      <4>1. a \in Nat
        BY <1>4, Sums
      <4>2. LinesFrom(e.in, c, a)
        BY <1>3 DEF Stream
      <4>3. e.typed = a + Len(e.in)
        BY <1>3, <2>7 DEF Stream
      <4> HIDE DEF a
      <4> QED BY <1>4, <4>1, <4>2, <4>3
    <3>2. Len(x) = Len(e.in) + 1 /\ LinesFrom(x, c, a)
      <4> HIDE DEF a
      <4>1. e.typed + 1 \in Nat
        BY <1>4
      <4> DEFINE n == e.typed + 1
                 y == e.in
      <4>2. /\ n \in Nat /\ n = a + Len(y) + 1 /\ <<c, n>> \in Lines
            /\ x = Append(y, <<c, n>>) /\ y \in Seq(Lines) /\ LinesFrom(y, c, a)
        BY <1>4, <2>1, <2>5, <2>7, <3>1, <4>1
      <4> SUFFICES Len(x) = Len(y) + 1 /\ LinesFrom(x, c, a)
        OBVIOUS
      <4> HIDE DEF n, y
      <4> QED BY <3>1, <4>2, LinesAppend
    <3> HIDE DEF a
    <3> QED BY <1>4, <3>1, <3>2
  <2>8. Stream(c, d)
    <3>1. Len(d.got) + Len(d.out) + Len(d.buf) = a
      BY <2>6
    <3>2. /\ LinesFrom(d.out, c, Len(d.got))
          /\ LinesFrom(d.buf, c, Len(d.got) + Len(d.out))
          /\ d.thread \in {"backlog", "read"} => d.buf = <<>>
      BY <1>3, <2>6 DEF Stream
    <3>3. CASE e.srv = "open"
      BY <2>5, <2>6, <2>7, <3>1, <3>2, <3>3 DEF Stream
    <3>4. CASE e.srv # "open"
      <4>1. d.in = <<>> /\ d.buf = <<>>
        BY <1>3, <2>5, <2>6, <3>4 DEF Stream
      <4> QED BY <2>5, <2>6, <3>1, <3>2, <3>4, <4>1, LinesEmpty DEF Stream
    <3> QED BY <3>3, <3>4
  <2>9. Untyped(d) /\ (TypedCrash(e) => TypedCrash(d))
    <3>1. ASSUME NEW k \in 1..MaxTyped, k > e.typed + 1 PROVE t[k] = "line"
      BY <1>1, <1>4, <2>3, <3>1 DEF SessionOK, Untyped
    <3>2. ASSUME NEW k \in 1..MaxTyped, e.text[k] = "server process crash"
          PROVE  t[k] = "server process crash"
      BY <2>2, <2>3, <3>2
    <3> QED BY <2>6, <3>1, <3>2 DEF Untyped, TypedCrash
  <2>10. SessionOK(c, d, child[c])
    BY <1>1, <1>3, <2>5, <2>6, <2>8, <2>9 DEF SessionOK, Open
  <2>11. PipeOK(parent[c], pipe[c], d, child[c])
    BY <1>1, <2>6, <2>9 DEF PipeOK, Open, Excused
  <2>12. /\ parent' = [parent EXCEPT ![c] = parent[c]]
         /\ child' = [child EXCEPT ![c] = child[c]] /\ pipe' = [pipe EXCEPT ![c] = pipe[c]]
         /\ parent[c] \in {"menu", "reading", "quit", "crash"}
         /\ child[c] \in Children /\ pipe[c] \in Seq(Messages) /\ server' = server
    BY <1>2, <1>5, Client
  <2> QED BY <2>4, <2>6, <2>10, <2>11, <2>12, OneClient, ZenonT(60)
<1>6. CASE ChildEnds(c) /\ UNCHANGED conn
  <2>1. /\ pipe[c] \in Seq(Messages) /\ pipe' = [pipe EXCEPT ![c] = pipe[c]]
        /\ conn' = [conn EXCEPT ![c] = e]
    BY <1>2, <1>6, Client
  <2> QED BY <1>1, <1>2, <1>6, <2>1, ChildEndsStep
<1> QED BY <1>5, <1>6 DEF Type

\* The child ends, with a message of its own or without one.
LEMMA ChildSteps ==
  ASSUME EchoInv, NEW c \in Clients,
         TypeEof(c) \/ Kill(c) \/ ChildEof(c) \/ ChildReset(c) \/ BrokenPipe(c)
  PROVE  EchoInv'
<1> DEFINE e == conn[c]
<1>1. /\ e \in Sessions /\ SessionOK(c, e, child[c])
      /\ child[c] \in Children /\ pipe[c] \in Seq(Messages)
  BY Client
<1>2. <<>> \in Seq(Lines) /\ (e.out # <<>>) \in BOOLEAN /\ (e.out = <<>>) \in BOOLEAN
  OBVIOUS
<1>3. CASE TypeEof(c)
  <2> DEFINE r == e.out # <<>>
             d == [e EXCEPT !.fin = TRUE, !.rst = r, !.out = <<>>]
  <2>1. /\ Told(c, "user enter ctrl D") /\ ChildEnds(c) /\ child[c].run # "ended"
        /\ UNCHANGED <<server, parent>>
    <3>1. child[c].run = "running"
      <4>1. child[c] = [kind |-> "echo", run |-> "running"]
        BY <1>3 DEF TypeEof
      <4> QED BY <4>1
    <3> QED BY <1>3, <3>1 DEF TypeEof
  <2>2. conn' = [conn EXCEPT ![c] = d]
    BY <1>1, <1>3 DEF TypeEof, Sessions
  <2>3. r \in BOOLEAN
    OBVIOUS
  <2> HIDE DEF r
  <2>4. /\ d \in Sessions /\ d.server = e.server /\ d.srv = e.srv /\ d.got = e.got
        /\ d.typed = e.typed /\ d.text = e.text
    BY <1>1, <1>2, <2>3 DEF Sessions
  <2> HIDE DEF d
  <2>5. "user enter ctrl D" \in Messages /\ "user enter ctrl D" # "server process crash"
    BY DEF Messages
  <2> QED BY <2>1, <2>2, <2>4, <2>5, ToldPipe, ChildEndsStep
<1>4. ASSUME NEW u, Closed(c, u), ChildEnds(c), child[c].run # "ended",
             UNCHANGED <<server, parent, pipe>>
      PROVE  EchoInv'
  <2> DEFINE r == u # <<>>
             f == u = <<>>
             d == [e EXCEPT !.fin = f, !.rst = r, !.out = <<>>]
  <2>1. pipe' = [pipe EXCEPT ![c] = pipe[c]]
    BY <1>4, Client
  <2>2. conn' = [conn EXCEPT ![c] = d]
    BY <1>1, <1>4 DEF Closed, Sessions
  <2>3. r \in BOOLEAN /\ f \in BOOLEAN
    OBVIOUS
  <2> HIDE DEF r, f
  <2>4. /\ d \in Sessions /\ d.server = e.server /\ d.srv = e.srv /\ d.got = e.got
        /\ d.typed = e.typed /\ d.text = e.text
    BY <1>1, <1>2, <2>3 DEF Sessions
  <2> HIDE DEF d
  <2> QED BY <1>1, <1>4, <2>1, <2>2, <2>4, ChildEndsStep
<1>5. CASE ChildEof(c)
  <2>1. /\ Told(c, "server process crash") /\ ChildEnds(c) /\ child[c].run = "running"
        /\ UNCHANGED <<server, parent>> /\ e.srv # "open"
        /\ conn' = [conn EXCEPT ![c] = e]
    BY <1>5, Client DEF ChildEof
  <2>2. Excused(e)
    BY <1>1, <2>1 DEF SessionOK, Excused
  <2>3. "server process crash" \in Messages
    BY DEF Messages
  <2> QED BY <1>1, <2>1, <2>2, <2>3, ToldPipe, ChildEndsStep
<1>6. CASE ChildEnds(c) /\ child[c].run = "running" /\ UNCHANGED <<server, parent, pipe, conn>>
  <2>1. pipe' = [pipe EXCEPT ![c] = pipe[c]] /\ conn' = [conn EXCEPT ![c] = e]
    BY <1>6, Client
  <2> QED BY <1>1, <1>6, <2>1, ChildEndsStep
<1>7. CASE Kill(c)
  BY <1>4, <1>7 DEF Kill
<1>8. CASE ChildReset(c)
  BY <1>6, <1>8 DEF ChildReset
<1>9. CASE BrokenPipe(c)
  BY <1>4, <1>6, <1>9 DEF BrokenPipe
<1> QED BY <1>3, <1>5, <1>7, <1>8, <1>9

\* The child reads what the thread sent back.
LEMMA ChildReadStep ==
  ASSUME EchoInv, NEW c \in Clients, ChildRead(c)
  PROVE  EchoInv'
<1> DEFINE e == conn[c]
<1>1. /\ e \in Sessions /\ SessionOK(c, e, child[c])
      /\ PipeOK(parent[c], pipe[c], e, child[c]) /\ child[c] \in Children
  BY Client
<1>2. PICK s \in Chunks(e.out) :
        /\ conn' = [conn EXCEPT ![c].out = Rest(@, s),
                      ![c].got = IF child[c].kind = "echo" THEN @ \o s ELSE @]
        /\ Told(c, TextOf(e, s))
  BY DEF ChildRead
<1> DEFINE msg == TextOf(e, s)
<1>3. child[c].run = "running" /\ Told(c, msg) /\ UNCHANGED <<server, parent, child>>
  BY <1>2 DEF ChildRead
<1>4. /\ e.buf \in Seq(Lines) /\ e.in \in Seq(Lines) /\ e.out \in Seq(Lines)
      /\ e.got \in Seq(Lines) /\ Len(e.got) \in Nat /\ Len(e.out) \in Nat
      /\ Len(e.buf) \in Nat /\ Len(e.in) \in Nat
  BY <1>1, SessionTypes
<1> DEFINE x == Rest(e.out, s)
           g == IF child[c].kind = "echo" THEN e.got \o s ELSE e.got
           d == [e EXCEPT !.out = x, !.got = g]
<1>5. /\ s \in Seq(Lines) /\ x \in Seq(Lines) /\ Len(s) \in 1..Len(e.out)
      /\ Len(x) = Len(e.out) - Len(s)
      /\ \A b : \A a \in Nat : LinesFrom(e.out, b, a) =>
           LinesFrom(s, b, a) /\ LinesFrom(x, b, a + Len(s))
  BY <1>4, LinesSplit
<1>6. conn' = [conn EXCEPT ![c] = d]
  BY <1>1, <1>2 DEF Sessions
<1>7. msg \in Messages /\ (msg = "server process crash" => Excused(e))
  <2>1. CASE Len(s) = 1 /\ s[1][2] # 0
    <3>1. s[1] \in Lines
      BY <1>5, <2>1, ElementOfSeq
    <3>2. s[1][2] \in 1..MaxTyped
      BY <2>1, <3>1, EchoTimeAssumption DEF Lines
    <3>3. msg = e.text[s[1][2]] /\ e.text \in [1..MaxTyped -> Messages]
      BY <1>1, <2>1 DEF TextOf, Sessions
    <3> QED BY <3>2, <3>3 DEF Excused, TypedCrash
  <2>2. CASE ~(Len(s) = 1 /\ s[1][2] # 0)
    BY <2>2 DEF TextOf, Messages
  <2> QED BY <2>1, <2>2
<1> HIDE DEF msg
<1>8. CASE child[c].kind = "echo"
  <2>1. Stream(c, e) /\ LinesFrom(e.got, c, 0)
    BY <1>1, <1>3, <1>8 DEF SessionOK
  <2>2. LinesFrom(s, c, Len(e.got)) /\ LinesFrom(x, c, Len(e.got) + Len(s))
    BY <1>4, <1>5, <2>1 DEF Stream
  <2>3. g = e.got \o s
    BY <1>8
  <2>4. g \in Seq(Lines) /\ Len(g) = Len(e.got) + Len(s) /\ LinesFrom(g, c, 0)
    <3>1. LinesFrom(s, c, 0 + Len(e.got))
      BY <1>4, <2>2
    <3> QED BY <1>4, <1>5, <2>1, <2>3, <3>1, LinesConcat
  <2> HIDE DEF g, x
  <2>5. /\ d \in Sessions /\ d.server = e.server /\ d.srv = e.srv /\ d.got = g
        /\ d.out = x /\ d.buf = e.buf /\ d.thread = e.thread /\ d.in = e.in
        /\ d.typed = e.typed /\ d.text = e.text
    BY <1>1, <1>5, <2>4 DEF Sessions
  <2> HIDE DEF d
  <2>6. Len(d.got) + Len(d.out) = Len(e.got) + Len(e.out)
    <3>1. Len(s) \in Nat /\ Len(s) <= Len(e.out)
      BY <1>4, <1>5
    <3>2. Len(d.got) = Len(e.got) + Len(s) /\ Len(d.out) = Len(e.out) - Len(s)
      BY <1>5, <2>4, <2>5
    <3>3. (Len(e.got) + Len(s)) + (Len(e.out) - Len(s)) = Len(e.got) + Len(e.out)
      <4> DEFINE i == Len(e.got)
                 j == Len(e.out)
                 k == Len(s)
      <4>1. i \in Nat /\ j \in Nat /\ k \in Nat
        BY <1>4, <3>1
      <4> SUFFICES (i + k) + (j - k) = i + j
        OBVIOUS
      <4> HIDE DEF i, j, k
      <4> QED BY <4>1
    <3> QED BY <3>2, <3>3
  <2>7. Stream(c, d)
    BY <2>1, <2>2, <2>4, <2>5, <2>6 DEF Stream
  <2>8. SessionOK(c, d, child[c])
    BY <1>1, <2>4, <2>5, <2>7 DEF SessionOK, Open, Untyped
  <2>9. PipeOK(parent[c], Append(pipe[c], msg), d, child[c])
    BY <1>7, <1>1, <1>3, <2>5, ToldPipe DEF PipeOK, Open, Excused, TypedCrash
  <2>10. /\ parent' = [parent EXCEPT ![c] = parent[c]]
         /\ child' = [child EXCEPT ![c] = child[c]]
         /\ parent[c] \in {"menu", "reading", "quit", "crash"}
         /\ pipe' = [pipe EXCEPT ![c] = Append(pipe[c], msg)]
         /\ Append(pipe[c], msg) \in Seq(Messages)
    BY <1>7, <1>3, Client, ToldPipe
  <2> QED BY <1>1, <1>3, <1>6, <2>5, <2>8, <2>9, <2>10, OneClient, ZenonT(60)
<1>9. CASE child[c].kind # "echo"
  <2>1. g = e.got
    BY <1>9
  <2> HIDE DEF g, x
  <2>2. /\ d \in Sessions /\ d.server = e.server /\ d.srv = e.srv /\ d.got = e.got
        /\ d.typed = e.typed /\ d.text = e.text
    BY <1>1, <1>4, <1>5, <2>1 DEF Sessions
  <2> HIDE DEF d
  <2>3. SessionOK(c, d, child[c])
    BY <1>1, <1>9, <2>2 DEF SessionOK, Open, Untyped
  <2>4. PipeOK(parent[c], Append(pipe[c], msg), d, child[c])
    BY <1>7, <1>1, <1>3, <2>2, ToldPipe DEF PipeOK, Open, Excused, TypedCrash
  <2>5. /\ parent' = [parent EXCEPT ![c] = parent[c]]
        /\ child' = [child EXCEPT ![c] = child[c]]
        /\ parent[c] \in {"menu", "reading", "quit", "crash"}
        /\ pipe' = [pipe EXCEPT ![c] = Append(pipe[c], msg)]
        /\ Append(pipe[c], msg) \in Seq(Messages)
    BY <1>7, <1>3, Client, ToldPipe
  <2> QED BY <1>1, <1>3, <1>6, <2>2, <2>3, <2>4, <2>5, OneClient, ZenonT(60)
<1> QED BY <1>8, <1>9

-----------------------------------------------------------------------------
(* The server. *)

\* The server accepts a connection and starts its thread.
LEMMA AcceptStep ==
  ASSUME EchoInv, NEW c \in Clients, Accept(c)
  PROVE  EchoInv'
<1> DEFINE e == conn[c]
           d == [e EXCEPT !.thread = "read"]
<1>1. e \in Sessions /\ SessionOK(c, e, child[c])
  BY Client
<1>2. /\ conn' = [conn EXCEPT ![c] = d] /\ UNCHANGED <<server, parent, child, pipe>>
      /\ e.thread = "backlog"
  BY <1>1 DEF Accept, Sessions
<1>3. /\ d \in Sessions /\ d.server = e.server /\ d.srv = e.srv /\ d.got = e.got
      /\ d.out = e.out /\ d.buf = e.buf /\ d.in = e.in /\ d.typed = e.typed
      /\ d.text = e.text
  BY <1>1 DEF Sessions
<1> HIDE DEF d
<1>4. Stream(c, e) => Stream(c, d)
  BY <1>2, <1>3 DEF Stream
<1> QED BY <1>1, <1>2, <1>3, <1>4, ConnStep DEF SessionOK

\* The thread reads what is there, or the end of the stream.
LEMMA EchoReadStep ==
  ASSUME EchoInv, NEW c \in Clients, EchoRead(c), ~ServerEnds
  PROVE  EchoInv'
<1> DEFINE e == conn[c]
<1>1. e \in Sessions /\ SessionOK(c, e, child[c])
  BY Client
<1>2. e.thread = "read" /\ UNCHANGED <<server, parent, child, pipe>>
  BY DEF EchoRead
<1>3. ASSUME NEW s \in Chunks(e.in),
             conn' = [conn EXCEPT ![c].buf = s, ![c].in = Rest(@, s), ![c].thread = "write"]
      PROVE  EchoInv'
  <2> DEFINE x == Rest(e.in, s)
             d == [e EXCEPT !.buf = s, !.in = x, !.thread = "write"]
  <2>1. /\ e.in \in Seq(Lines) /\ Len(e.got) \in Nat /\ Len(e.out) \in Nat
        /\ Len(e.in) \in Nat /\ e.typed \in Nat
    BY <1>1, SessionTypes
  <2>2. /\ s \in Seq(Lines) /\ x \in Seq(Lines) /\ Len(s) \in 1..Len(e.in)
        /\ Len(x) = Len(e.in) - Len(s)
        /\ \A b : \A a \in Nat : LinesFrom(e.in, b, a) =>
             LinesFrom(s, b, a) /\ LinesFrom(x, b, a + Len(s))
    BY <2>1, LinesSplit
  <2>3. conn' = [conn EXCEPT ![c] = d]
    BY <1>1, <1>3 DEF Sessions
  <2> HIDE DEF x
  <2>4. /\ d \in Sessions /\ d.server = e.server /\ d.srv = e.srv /\ d.got = e.got
        /\ d.out = e.out /\ d.buf = s /\ d.in = x /\ d.typed = e.typed
        /\ d.thread = "write" /\ d.text = e.text
    BY <1>1, <2>2 DEF Sessions
  <2> HIDE DEF d
  <2>5. ASSUME Stream(c, e) PROVE Stream(c, d)
    <3> DEFINE a == Len(e.got) + Len(e.out)
    <3>1. e.buf = <<>> /\ Len(e.buf) = 0
      BY <1>2, <2>5, LinesEmpty DEF Stream
    <3>2. a \in Nat
      BY <2>1, Sums
    <3>3. LinesFrom(e.in, c, a + Len(e.buf))
      BY <2>5 DEF Stream
    <3>4. e.srv = "open" => a + Len(e.buf) + Len(e.in) = e.typed
      BY <2>5 DEF Stream
    <3>5. a + Len(e.buf) = a
      <4> HIDE DEF a
      <4> QED BY <3>1, <3>2, Sums
    <3>6. LinesFrom(s, c, a) /\ LinesFrom(x, c, a + Len(s))
      <4> HIDE DEF a
      <4> QED BY <2>2, <3>2, <3>3, <3>5
    <3>7. a + Len(s) + Len(x) = a + Len(e.in)
      <4>1. Len(s) \in Nat /\ Len(s) <= Len(e.in)
        BY <2>1, <2>2
      <4>2. (a + Len(s)) + (Len(e.in) - Len(s)) = a + Len(e.in)
        <5> DEFINE j == Len(e.in)
                   k == Len(s)
        <5>1. j \in Nat /\ k \in Nat
          BY <2>1, <4>1
        <5> SUFFICES (a + k) + (j - k) = a + j
          OBVIOUS
        <5> HIDE DEF a, j, k
        <5> QED BY <3>2, <5>1
      <4> QED BY <2>2, <4>2
    <3>8. e.srv = "open" => a + Len(e.in) = e.typed
      <4> HIDE DEF a
      <4> QED BY <3>4, <3>5
    <3>9. e.srv # "open" => FALSE
      BY <2>1, <2>2, <2>5, LinesEmpty DEF Stream
    <3>10. Len(d.got) + Len(d.out) = a /\ LinesFrom(d.out, c, Len(d.got))
      BY <2>4, <2>5 DEF Stream
    <3> QED BY <2>4, <3>6, <3>7, <3>8, <3>9, <3>10 DEF Stream
  <2> QED BY <1>1, <1>2, <2>3, <2>4, <2>5, ConnStep DEF SessionOK
<1>4. CASE conn' = [conn EXCEPT ![c].thread = "done"]
  <2> DEFINE d == [e EXCEPT !.thread = "done"]
  <2>1. conn' = [conn EXCEPT ![c] = d]
    BY <1>1, <1>4 DEF Sessions
  <2>2. /\ d \in Sessions /\ d.server = e.server /\ d.srv = e.srv /\ d.got = e.got
        /\ d.out = e.out /\ d.buf = e.buf /\ d.in = e.in /\ d.typed = e.typed
        /\ d.text = e.text
    BY <1>1 DEF Sessions
  <2>3. e.thread \in {"backlog", "read"}
    BY <1>2
  <2> HIDE DEF d
  <2>4. Stream(c, e) => Stream(c, d)
    BY <2>2, <2>3 DEF Stream
  <2> QED BY <1>1, <1>2, <2>1, <2>2, <2>4, ConnStep DEF SessionOK
<1> QED BY <1>3, <1>4 DEF EchoRead

\* What the thread writes comes behind what is on its way to the client.
LEMMA EchoWriteStep ==
  ASSUME EchoInv, NEW c \in Clients, EchoWrite(c), ~ServerEnds
  PROVE  EchoInv'
<1> DEFINE e == conn[c]
           o == IF child[c].run = "running" THEN e.out \o e.buf ELSE e.out
           r == e.rst \/ child[c].run = "ended"
           d == [e EXCEPT !.thread = "read", !.buf = <<>>, !.out = o, !.rst = r]
<1>1. e \in Sessions /\ SessionOK(c, e, child[c])
  BY Client
<1>2. UNCHANGED <<server, parent, child, pipe>>
  BY DEF EchoWrite
<1>3. conn' = [conn EXCEPT ![c] = d]
  BY <1>1 DEF EchoWrite, Written, Buf, Sessions
<1>4. /\ e.buf \in Seq(Lines) /\ e.out \in Seq(Lines) /\ e.in \in Seq(Lines)
      /\ Len(e.got) \in Nat /\ Len(e.out) \in Nat /\ Len(e.buf) \in Nat
      /\ Len(e.in) \in Nat
  BY <1>1, SessionTypes
<1>5. o \in Seq(Lines) /\ <<>> \in Seq(Lines)
  BY <1>4, ConcatProperties, LinesEmpty
<1>6. r \in BOOLEAN
  BY <1>1 DEF Sessions
<1>7. child[c].run = "running" => o = e.out \o e.buf
  OBVIOUS
<1> HIDE DEF o, r
<1>8. /\ d \in Sessions /\ d.server = e.server /\ d.srv = e.srv /\ d.got = e.got
      /\ d.out = o /\ d.buf = <<>> /\ d.in = e.in /\ d.typed = e.typed
      /\ d.text = e.text
  BY <1>1, <1>5, <1>6 DEF Sessions
<1> HIDE DEF d
<1>9. ASSUME Stream(c, e), child[c].run = "running" PROVE Stream(c, d)
  <2>1. o = e.out \o e.buf
    BY <1>7, <1>9
  <2>2. Len(o) = Len(e.out) + Len(e.buf) /\ LinesFrom(o, c, Len(e.got))
    <3>1. LinesFrom(e.out, c, Len(e.got)) /\ LinesFrom(e.buf, c, Len(e.got) + Len(e.out))
      BY <1>9 DEF Stream
    <3> DEFINE u == e.out
               v == e.buf
               a == Len(e.got)
    <3>2. /\ u \in Seq(Lines) /\ v \in Seq(Lines) /\ a \in Nat /\ o = u \o v
          /\ LinesFrom(u, c, a) /\ LinesFrom(v, c, a + Len(u))
      BY <1>4, <2>1, <3>1
    <3>3. Len(u \o v) = Len(u) + Len(v) /\ LinesFrom(u \o v, c, a)
      <4> HIDE DEF u, v, a
      <4> QED BY <3>2, LinesConcat
    <3> QED BY <3>2, <3>3
  <2>3. Len(<<>>) = 0
    OBVIOUS
  <2>4. Len(d.got) + Len(d.out) + Len(d.buf) = Len(e.got) + Len(e.out) + Len(e.buf)
    <3>1. /\ Len(d.got) = Len(e.got) /\ Len(d.out) = Len(e.out) + Len(e.buf)
          /\ Len(d.buf) = 0
      BY <1>8, <2>2, <2>3
    <3>2. Len(e.got) + (Len(e.out) + Len(e.buf)) + 0 = Len(e.got) + Len(e.out) + Len(e.buf)
      <4> DEFINE i == Len(e.got)
                 j == Len(e.out)
                 k == Len(e.buf)
      <4>1. i \in Nat /\ j \in Nat /\ k \in Nat
        BY <1>4
      <4> SUFFICES i + (j + k) + 0 = i + j + k
        OBVIOUS
      <4> HIDE DEF i, j, k
      <4> QED BY <4>1
    <3> QED BY <3>1, <3>2
  <2>5. LinesFrom(d.buf, c, Len(d.got) + Len(d.out))
    BY <1>8, LinesEmpty
  <2> QED BY <1>8, <1>9, <2>2, <2>4, <2>5 DEF Stream
<1> QED BY <1>1, <1>2, <1>3, <1>8, <1>9, ConnStep DEF SessionOK

\* The time thread waits, writes, or finds its client gone.
LEMMA TimeSteps ==
  ASSUME EchoInv, NEW c \in Clients, TimeTimeout(c) \/ TimeWrite(c) \/ TimeRead(c)
  PROVE  EchoInv'
<1> DEFINE e == conn[c]
<1>1. e \in Sessions /\ SessionOK(c, e, child[c])
  BY Client
<1>2. UNCHANGED <<server, parent, child, pipe>> /\ child[c].kind # "echo"
  BY DEF TimeTimeout, TimeWrite, TimeRead
<1>3. ASSUME NEW t \in {"write", "done"}, conn' = [conn EXCEPT ![c].thread = t]
      PROVE  EchoInv'
  <2> DEFINE d == [e EXCEPT !.thread = t]
  <2>1. conn' = [conn EXCEPT ![c] = d]
    BY <1>1, <1>3 DEF Sessions
  <2>2. /\ d \in Sessions /\ d.server = e.server /\ d.srv = e.srv /\ d.got = e.got
        /\ d.typed = e.typed /\ d.text = e.text
    BY <1>1 DEF Sessions
  <2> HIDE DEF d
  <2> QED BY <1>1, <1>2, <2>1, <2>2, ConnStep DEF SessionOK
<1>4. CASE Written(c, << <<c, 0>> >>)
  <2> DEFINE s == << <<c, 0>> >>
             o == IF child[c].run = "running" THEN e.out \o s ELSE e.out
             r == e.rst \/ child[c].run = "ended"
             d == [e EXCEPT !.thread = "read", !.buf = <<>>, !.out = o, !.rst = r]
  <2>1. conn' = [conn EXCEPT ![c] = d]
    BY <1>1, <1>4 DEF Written, Sessions
  <2>2. <<c, 0>> \in Lines /\ e.out \in Seq(Lines)
    BY <1>1, EchoTimeAssumption DEF Lines, Sessions
  <2>3. s \in Seq(Lines)
    BY <2>2
  <2>4. o \in Seq(Lines) /\ <<>> \in Seq(Lines)
    <3> HIDE DEF s
    <3> QED BY <2>2, <2>3, ConcatProperties, LinesEmpty
  <2>5. r \in BOOLEAN
    BY <1>1 DEF Sessions
  <2> HIDE DEF o, r
  <2>6. /\ d \in Sessions /\ d.server = e.server /\ d.srv = e.srv /\ d.got = e.got
        /\ d.typed = e.typed /\ d.text = e.text
    BY <1>1, <2>4, <2>5 DEF Sessions
  <2> HIDE DEF d
  <2> QED BY <1>1, <1>2, <2>1, <2>6, ConnStep DEF SessionOK
<1> QED BY <1>3, <1>4 DEF TimeTimeout, TimeWrite, TimeRead

\* The end of the server: whoever is connected to it learns that it is gone.
LEMMA ServerEndsStep ==
  ASSUME EchoInv, server.up, ServerEnds, UNCHANGED <<parent, child, pipe>>
  PROVE  EchoInv'
<1> DEFINE srv(c) == IF conn[c].in # <<>> \/ conn[c].thread = "backlog"
                       THEN "rst" ELSE "fin"
           d(c) == IF Open(conn[c])
                     THEN [conn[c] EXCEPT !.thread = "done", !.buf = <<>>, !.in = <<>>,
                                          !.srv = srv(c)]
                     ELSE conn[c]
<1>1. /\ server' \in Servers /\ ~server'.up /\ server'.starts = server.starts
      /\ server.starts \in 1..MaxStarts
  BY DEF EchoInv, Typed, Servers, ServerEnds
<1>2. conn' = [c \in Clients |-> d(c)]
  BY DEF ServerEnds, Serving, Open
<1>3. ASSUME NEW c \in Clients
      PROVE  /\ d(c) \in Sessions /\ d(c).server = conn[c].server /\ d(c).got = conn[c].got
             /\ d(c).out = conn[c].out
             /\ d(c).typed = conn[c].typed /\ d(c).text = conn[c].text
             /\ IF Open(conn[c])
                  THEN d(c).srv # "open" /\ d(c).buf = <<>> /\ d(c).in = <<>>
                  ELSE d(c) = conn[c]
  <2>1. conn[c] \in Sessions
    BY Client
  <2>2. srv(c) \in {"rst", "fin"} /\ <<>> \in Seq(Lines)
    BY LinesEmpty
  <2> HIDE DEF srv
  <2>3. CASE Open(conn[c])
    <3>1. d(c) = [conn[c] EXCEPT !.thread = "done", !.buf = <<>>, !.in = <<>>,
                                 !.srv = srv(c)]
      BY <2>3
    <3> HIDE DEF d
    <3> QED BY <2>1, <2>2, <2>3, <3>1 DEF Sessions
  <2>4. CASE ~Open(conn[c])
    BY <2>1, <2>4
  <2> QED BY <2>3, <2>4
<1> HIDE DEF d
<1>4. Typed'
  BY <1>1, <1>2, <1>3 DEF EchoInv, Typed
<1>5. ASSUME NEW c \in Clients
      PROVE  /\ SessionOK(c, conn[c], child[c])'
             /\ PipeOK(parent[c], pipe[c], conn[c], child[c])'
  <2>1. /\ SessionOK(c, conn[c], child[c])
        /\ PipeOK(parent[c], pipe[c], conn[c], child[c])
        /\ conn[c].server \in 0..MaxStarts
    BY Client
  <2>2. conn'[c] = d(c)
    BY <1>2
  <2>3. ~Open(conn[c])'
    BY <1>1 DEF Open
  <2>4. PipeOK(parent[c], pipe[c], conn[c], child[c])'
    <3>1. Excused(conn[c]) => Excused(conn[c])'
      BY <1>3, <2>2, <2>3 DEF Excused, TypedCrash
    <3> QED BY <2>1, <3>1 DEF PipeOK
  <2>5. Stream(c, conn[c]) => Stream(c, d(c))
    <3>1. CASE Open(conn[c])
      BY <1>3, <3>1, LinesEmpty DEF Stream
    <3>2. CASE ~Open(conn[c])
      BY <1>3, <3>2
    <3> QED BY <3>1, <3>2
  <2>6. conn[c].server # 0 => d(c).srv # "open"
    BY <1>3, <2>1 DEF SessionOK
  <2>7. SessionOK(c, conn[c], child[c])'
    <3>1. /\ LinesFrom(conn'[c].got, c, 0) /\ conn'[c].server <= server'.starts
          /\ Untyped(conn'[c])
      BY <1>1, <1>3, <2>1, <2>2 DEF SessionOK, Untyped
    <3>2. conn'[c].server # 0 => conn'[c].srv # "open"
      BY <1>3, <2>2, <2>6
    <3>3. child'[c].run = "running" => conn'[c].server # 0
      BY <1>3, <2>1, <2>2 DEF SessionOK
    <3>4. child'[c].run = "running" /\ child'[c].kind = "echo" => Stream(c, conn'[c])
      BY <2>1, <2>2, <2>5 DEF SessionOK
    <3> QED BY <2>3, <3>1, <3>2, <3>3, <3>4 DEF SessionOK, Stream
  <2> QED BY <2>4, <2>7
<1> QED BY <1>4, <1>5 DEF EchoInv

\* The server is started again: connections to the old one stay closed.
LEMMA StartStep ==
  ASSUME EchoInv, Start
  PROVE  EchoInv'
<1>1. /\ server \in Servers /\ server.starts \in 1..MaxStarts /\ MaxStarts \in Nat
      /\ server' = [up |-> TRUE, starts |-> server.starts + 1]
      /\ ~server.up /\ server.starts < MaxStarts
      /\ UNCHANGED <<parent, child, pipe, conn>>
  BY EchoTimeAssumption DEF EchoInv, Typed, Servers, Start
<1>2. server' \in Servers /\ server'.starts = server.starts + 1
  BY <1>1 DEF Servers
<1>3. Typed'
  BY <1>1, <1>2 DEF EchoInv, Typed
<1>4. ASSUME NEW c \in Clients
      PROVE  /\ SessionOK(c, conn[c], child[c])'
             /\ PipeOK(parent[c], pipe[c], conn[c], child[c])'
  <2>1. /\ SessionOK(c, conn[c], child[c])
        /\ PipeOK(parent[c], pipe[c], conn[c], child[c])
        /\ conn[c].server \in 0..MaxStarts
    BY Client
  <2>2. conn[c].server <= server.starts
    BY <2>1 DEF SessionOK
  <2>3. ~Open(conn[c]) /\ ~Open(conn[c])' /\ conn[c].server <= server'.starts
    BY <1>1, <1>2, <2>1, <2>2 DEF Open
  <2>4. PipeOK(parent[c], pipe[c], conn[c], child[c])'
    BY <1>1, <2>1, <2>3 DEF PipeOK, Excused
  <2>5. SessionOK(c, conn[c], child[c])'
    BY <1>1, <2>1, <2>3 DEF SessionOK, Stream
  <2> QED BY <2>4, <2>5
<1> QED BY <1>3, <1>4 DEF EchoInv

-----------------------------------------------------------------------------
(* The programs together. *)

\* Each step keeps the invariant.
LEMMA NextEchoInv == EchoInv /\ [Next]_vars => EchoInv'
<1> SUFFICES ASSUME EchoInv, [Next]_vars PROVE EchoInv'
  OBVIOUS
<1>1. CASE UNCHANGED vars
  <2>1. Typed'
    BY <1>1 DEF vars, EchoInv, Typed
  <2>2. ASSUME NEW c \in Clients
        PROVE  /\ SessionOK(c, conn[c], child[c])'
               /\ PipeOK(parent[c], pipe[c], conn[c], child[c])'
    <3>1. /\ SessionOK(c, conn[c], child[c])
          /\ PipeOK(parent[c], pipe[c], conn[c], child[c])
      BY Client
    <3> QED BY <1>1, <3>1 DEF vars, SessionOK, PipeOK, Stream, Open, Excused
  <2> QED BY <2>1, <2>2 DEF EchoInv
<1>2. ASSUME NEW c \in Clients, User(c) \/ ParentStep(c) \/ ChildStep(c)
      PROVE  EchoInv'
  BY <1>2, ParentSteps, TypeStep, ChildSteps, ConnectStep, ChildReadStep
  DEF User, ParentStep, ChildStep
<1>3. ASSUME NEW c \in Clients, ThreadStep(c) PROVE EchoInv'
  <2>1. CASE ServerEnds /\ (EchoRead(c) \/ EchoWrite(c))
    <3>1. server.up /\ UNCHANGED <<parent, child, pipe>>
      BY <2>1 DEF EchoRead, EchoWrite, Serving
    <3> QED BY <2>1, <3>1, ServerEndsStep
  <2>2. CASE ~ServerEnds /\ (EchoRead(c) \/ EchoWrite(c))
    BY <2>2, EchoReadStep, EchoWriteStep
  <2> QED BY <1>3, <2>1, <2>2, AcceptStep, TimeSteps DEF ThreadStep
<1>4. CASE Stop
  BY <1>4, ServerEndsStep DEF Stop
<1> QED BY <1>1, <1>2, <1>3, <1>4, StartStep DEF Next

\* The programs keep EchoInv.
THEOREM EchoInvariant == Spec => []EchoInv
<1> QED BY InitEchoInv, NextEchoInv, PTL DEF Spec

\* An echo child gets back what its user typed, in order and from the beginning
\* (EchoOwn): every thread has a buffer of its own, reads into it only when it
\* has written it out, and TCP cuts the stream but keeps its order.
THEOREM EchoIsOwn == Spec => []EchoOwn
<1>1. EchoInv => EchoOwn
  <2> SUFFICES ASSUME EchoInv, NEW c \in Clients
               PROVE  conn[c].got = [k \in 1..Len(conn[c].got) |-> <<c, k>>]
    BY DEF EchoOwn
  <2>1. conn[c].got \in Seq(Lines) /\ LinesFrom(conn[c].got, c, 0)
    BY Client, SessionTypes DEF SessionOK
  <2>2. \A k \in 1..Len(conn[c].got) : conn[c].got[k] = <<c, k>>
    BY <2>1, LenProperties DEF LinesFrom
  <2>3. conn[c].got = [k \in 1..Len(conn[c].got) |-> conn[c].got[k]]
    BY <2>1, LenProperties
  <2> QED BY <2>2, <2>3
<1> QED BY <1>1, EchoInvariant, PTL

\* A client that exits because of a crash of the server is right, unless its user
\* typed the words of the message (ExitMeansCrash): a thread that ends does not
\* close its connection, so only the end of the process ends the stream.
THEOREM CrashIsReal == Spec => []ExitMeansCrash
<1>1. EchoInv => ExitMeansCrash
  BY Client DEF ExitMeansCrash, ServerGone, Serving, PipeOK, Open, Excused, TypedCrash
<1> QED BY <1>1, EchoInvariant, PTL

\* TypeOK: all sessions, messages and states of the programs are among those named.
THEOREM TypeCorrect == Spec => []TypeOK
<1>1. EchoInv => TypeOK
  BY DEF EchoInv, Typed, TypeOK, Servers, Children, Messages, Sessions
<1> QED BY <1>1, EchoInvariant, PTL
=============================================================================
