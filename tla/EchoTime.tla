------------------------------ MODULE EchoTime ------------------------------
(***************************************************************************)
(* The echo and time server (tcp-socket-server/code/tcpechotimesrv.c), the *)
(* menu clients (tcpechotimecli.c) and the child each of them starts for a *)
(* service (echo_cli.c, time_cli.c), with the pipe from child to parent.   *)
(*                                                                         *)
(* A client c has one session at a time.  Line <<c, k>> is the k-th its    *)
(* user types in it, and <<c, 0>> a time sent to it.  TCP keeps order and  *)
(* loses nothing, but forgets where one write ends and the next begins: a  *)
(* line stands for any piece of what is typed that may arrive by itself.   *)
(***************************************************************************)
EXTENDS Naturals, Sequences

CONSTANTS Clients,
          Texts,      \* of each client and each line of a session: what the user
                      \* may type, "line" for any text other than the two the
                      \* parent looks for
          MaxTyped,   \* bound: lines typed in a session
          MaxStarts,  \* bound: starts of the server
          SockSize,   \* times a socket holds before a writer blocks
          PipeSize    \* messages a pipe holds before a writer blocks

Messages == {"line", "user enter ctrl D", "server process crash",
             "cannot connect to server"}

ASSUME EchoTimeAssumption ==
  /\ Texts \in [Clients -> [1..MaxTyped -> SUBSET Messages]]
  /\ MaxTyped \in Nat /\ MaxStarts \in Nat \ {0}
  /\ SockSize \in Nat \ {0} /\ PipeSize \in Nat \ {0}

VARIABLES server,  \* whether it runs, and how often it was started
          parent,  \* of each client: "menu", "reading", "quit", "crash"
          child,   \* of each client: the service, and how far the child is
          pipe,    \* of each client: messages to the parent
          conn     \* of each client: the connection of the session

vars == <<server, parent, child, pipe, conn>>

\* A connection: the start of the server it is to; the thread that serves it
\* and the lines that has read; the bytes each way; what the server's end knows
\* of the client's (fin, rst) and the client's of the server's (srv: "open",
\* "fin", "rst", or "finrst" for a reset after the end); the number of lines
\* typed, their texts, and the lines that came back.
NewConn ==
  [server |-> server.starts, thread |-> "backlog", buf |-> <<>>,
   in |-> <<>>, out |-> <<>>, fin |-> FALSE, rst |-> FALSE, srv |-> "open",
   typed |-> 0, text |-> [k \in 1..MaxTyped |-> "line"], got |-> <<>>]

NoConn ==
  [NewConn EXCEPT !.server = 0, !.thread = "done"]

Init ==
  /\ server = [up |-> TRUE, starts |-> 1]
  /\ parent = [c \in Clients |-> "menu"]
  /\ child = [c \in Clients |-> [kind |-> "echo", run |-> "ended"]]
  /\ pipe = [c \in Clients |-> <<>>]
  /\ conn = [c \in Clients |-> NoConn]

\* What one read may return of the bytes s.
Chunks(s) == {SubSeq(s, 1, k) : k \in 1..Len(s)}
Rest(s, t) == SubSeq(s, Len(t) + 1, Len(s))

-----------------------------------------------------------------------------
(* The parent: a menu, and while a child runs a loop on the pipe. *)

\* The user chooses a service.  The parent was asleep for a second, in which
\* the server has done with the session before.  A child that still runs, after
\* an echo that reads "cannot connect to server", is left to itself: nobody reads
\* its pipe, and all it can still do to others is to end the server (Stop).
Choose(c, kind) ==
  /\ parent[c] = "menu" /\ (conn[c].thread = "done" \/ child[c].run = "running")
  /\ parent' = [parent EXCEPT ![c] = "reading"]
  /\ child' = [child EXCEPT ![c] = [kind |-> kind, run |-> "connecting"]]
  /\ pipe' = [pipe EXCEPT ![c] = <<>>]
  /\ conn' = [conn EXCEPT ![c] = NoConn]
  /\ UNCHANGED server

Quit(c) ==
  /\ parent[c] = "menu"
  /\ parent' = [parent EXCEPT ![c] = "quit"]
  /\ UNCHANGED <<server, child, pipe, conn>>

\* One read takes whatever is in the pipe, but strcmp sees the first message
\* only: those behind it are lost.  An echo is compared like a message of the
\* child's own.
ParentRead(c) ==
  /\ parent[c] = "reading" /\ pipe[c] # <<>>
  /\ parent' = [parent EXCEPT ![c] =
       CASE Head(pipe[c]) = "server process crash" -> "crash"
         [] Head(pipe[c]) = "cannot connect to server" -> "menu"
         [] OTHER -> @]
  /\ pipe' = [pipe EXCEPT ![c] = <<>>]
  /\ UNCHANGED <<server, child, conn>>

\* Mutant: the parent has not closed its own copy of the pipe's end.
MutParentKeepsEnd(c) ==
  /\ FALSE
  /\ UNCHANGED vars

\* The pipe is empty and its last writer gone.
ParentEof(c) ==
  /\ parent[c] = "reading" /\ pipe[c] = <<>> /\ child[c].run = "ended"
  /\ parent' = [parent EXCEPT ![c] = "menu"]
  /\ UNCHANGED <<server, child, pipe, conn>>

-----------------------------------------------------------------------------
(* The child. *)

Told(c, msg) == pipe' = [pipe EXCEPT ![c] = Append(@, msg)]
Reader(c) == parent[c] \in {"menu", "reading"}
Room(c) == Reader(c) /\ Len(pipe[c]) < PipeSize
ChildEnds(c) == child' = [child EXCEPT ![c].run = "ended"]

\* The socket of a child that ends is closed: one with bytes to read sends a
\* reset.
Closed(c, unread) ==
  conn' = [conn EXCEPT ![c].fin = unread = <<>>, ![c].rst = unread # <<>>,
                       ![c].out = <<>>]

Connect(c) ==
  /\ child[c].run = "connecting"
  /\ IF server.up
       THEN /\ conn' = [conn EXCEPT ![c] = NewConn]
            /\ child' = [child EXCEPT ![c].run = "running"]
            /\ UNCHANGED pipe
       ELSE /\ Told(c, "cannot connect to server")
            /\ ChildEnds(c)
            /\ UNCHANGED conn
  /\ UNCHANGED <<server, parent>>

\* The user types a line for the echo child.  The first write to a server that
\* has gone is answered by a reset, the next ends the child with SIGPIPE.
Type(c) ==
  /\ child[c] = [kind |-> "echo", run |-> "running"]
  /\ conn[c].typed < MaxTyped
  /\ \/ \E text \in Texts[c][conn[c].typed + 1] :
          /\ conn[c].srv \in {"open", "fin"}
          /\ conn' = [conn EXCEPT ![c].typed = @ + 1,
               ![c].text[conn[c].typed + 1] = text,
               ![c].in = IF conn[c].srv = "open" THEN Append(@, <<c, conn[c].typed + 1>>)
                         ELSE @,
               ![c].srv = IF @ = "open" THEN @ ELSE "finrst"]
          /\ UNCHANGED child
     \/ /\ conn[c].srv \in {"rst", "finrst"}
        /\ ChildEnds(c)
        /\ UNCHANGED conn
  /\ UNCHANGED <<server, parent, pipe>>

\* Ctrl-D: the echo child shuts its end down and exits at once; a socket closed
\* with bytes to read sends a reset.
TypeEof(c) ==
  /\ child[c] = [kind |-> "echo", run |-> "running"] /\ Room(c)
  /\ Told(c, "user enter ctrl D")
  /\ ChildEnds(c)
  /\ conn' = [conn EXCEPT ![c].fin = TRUE, ![c].rst = conn[c].out # <<>>,
                          ![c].out = <<>>]
  /\ UNCHANGED <<server, parent>>

\* Ctrl-C, or the window is closed, or Ctrl-D when the parent is gone.
Kill(c) ==
  /\ child[c].run = "running"
  /\ ChildEnds(c)
  /\ Closed(c, conn[c].out)
  /\ UNCHANGED <<server, parent, pipe>>

\* The text the parent sees of the lines s of connection d: only a line by itself
\* may read like a message of the child's own.
TextOf(d, s) == IF Len(s) = 1 /\ s[1][2] # 0 THEN d.text[s[1][2]] ELSE "line"

\* The child passes on what it reads: the echo child what is there, the time
\* child a line.
ChildRead(c) ==
  /\ child[c].run = "running" /\ Room(c)
  /\ \E s \in Chunks(conn[c].out) :
       /\ child[c].kind = "time" => Len(s) = 1
       /\ conn' = [conn EXCEPT ![c].out = Rest(@, s),
                     ![c].got = IF child[c].kind = "echo" THEN @ \o s ELSE @]
       /\ Told(c, TextOf(conn[c], s))
  /\ UNCHANGED <<server, parent, child>>

\* The end of the stream means that the server is gone.
ChildEof(c) ==
  /\ child[c].run = "running" /\ conn[c].out = <<>>
  /\ conn[c].srv \in {"fin", "finrst"} /\ Room(c)
  /\ Told(c, "server process crash")
  /\ ChildEnds(c)
  /\ UNCHANGED <<server, parent, conn>>

\* The parent has exited: the child is ended by SIGPIPE when it passes on what it
\* read, or reports the end of the stream.
BrokenPipe(c) ==
  /\ child[c].run = "running" /\ ~Reader(c)
  /\ \/ \E s \in Chunks(conn[c].out) : Closed(c, Rest(conn[c].out, s))
     \/ /\ conn[c].out = <<>> /\ conn[c].srv \in {"fin", "finrst"}
        /\ UNCHANGED conn
  /\ ChildEnds(c)
  /\ UNCHANGED <<server, parent, pipe>>

\* A reset ends the child without a word to the parent.
ChildReset(c) ==
  /\ child[c].run = "running" /\ conn[c].out = <<>> /\ conn[c].srv = "rst"
  /\ ChildEnds(c)
  /\ UNCHANGED <<server, parent, pipe, conn>>

-----------------------------------------------------------------------------
(* The server: a thread for each connection. *)

Serving(c) == server.up /\ conn[c].server = server.starts

\* The process ends, and with it all threads: an end with bytes to read, or not
\* yet accepted, is reset.
ServerEnds ==
  /\ server' = [server EXCEPT !.up = FALSE]
  /\ conn' = [c \in Clients |->
       IF Serving(c) THEN
         [conn[c] EXCEPT !.thread = "done", !.buf = <<>>, !.in = <<>>,
            !.srv = IF conn[c].in # <<>> \/ conn[c].thread = "backlog"
                      THEN "rst" ELSE "fin"]
       ELSE conn[c]]

\* The user stops the server, and starts it.
Stop == server.up /\ ServerEnds /\ UNCHANGED <<parent, child, pipe>>

Start ==
  /\ ~server.up /\ server.starts < MaxStarts
  /\ server' = [up |-> TRUE, starts |-> server.starts + 1]
  /\ UNCHANGED <<parent, child, pipe, conn>>

Accept(c) ==
  /\ Serving(c) /\ conn[c].thread = "backlog"
  /\ conn' = [conn EXCEPT ![c].thread = "read"]
  /\ UNCHANGED <<server, parent, child, pipe>>

\* echoRequest: pthread_exit at the end of the stream, without a close; an
\* error ends the process.
EchoRead(c) ==
  /\ Serving(c) /\ child[c].kind = "echo" /\ conn[c].thread = "read"
  /\ \/ \E s \in Chunks(conn[c].in) :
          /\ conn' = [conn EXCEPT ![c].buf = s, ![c].in = Rest(@, s),
                                  ![c].thread = "write"]
          /\ UNCHANGED server
     \/ /\ conn[c].in = <<>> /\ conn[c].fin
        /\ conn' = [conn EXCEPT ![c].thread = "done"]
        /\ UNCHANGED server
     \/ /\ conn[c].in = <<>> /\ ~conn[c].fin /\ conn[c].rst
        /\ ServerEnds
  /\ UNCHANGED <<parent, child, pipe>>

\* Mutant: a static buffer, which another thread may have filled since.
MutSharedBuf(c) ==
  IF \E d \in Clients \ {c} : conn[d].buf # <<>>
    THEN conn[CHOOSE d \in Clients \ {c} : conn[d].buf # <<>>].buf
    ELSE conn[c].buf

Buf(c) == conn[c].buf

\* Writing to a client that has gone is answered by a reset.
Written(c, s) ==
  conn' = [conn EXCEPT
    ![c].thread = "read", ![c].buf = <<>>,
    ![c].out = IF child[c].run = "running" THEN @ \o s ELSE @,
    ![c].rst = @ \/ child[c].run = "ended"]

\* Mutant: one line is echoed and the connection closed.
MutOneEcho(c) ==
  /\ Serving(c) /\ child[c].kind = "echo" /\ conn[c].thread = "write"
  /\ conn' = [conn EXCEPT ![c].thread = "done", ![c].buf = <<>>,
                          ![c].out = @ \o Buf(c), ![c].srv = "fin"]
  /\ UNCHANGED <<server, parent, child, pipe>>

\* Writen ends the process when the connection was reset.
EchoWrite(c) ==
  /\ Serving(c) /\ child[c].kind = "echo" /\ conn[c].thread = "write"
  /\ IF conn[c].rst THEN ServerEnds ELSE Written(c, Buf(c)) /\ UNCHANGED server
  /\ UNCHANGED <<parent, child, pipe>>

\* timeRequest: nothing to read for five seconds.
TimeTimeout(c) ==
  /\ Serving(c) /\ child[c].kind = "time" /\ conn[c].thread = "read"
  /\ ~conn[c].fin /\ ~conn[c].rst
  /\ conn' = [conn EXCEPT ![c].thread = "write"]
  /\ UNCHANGED <<server, parent, child, pipe>>

\* The time is sent; an error ends the thread only.
TimeWrite(c) ==
  /\ Serving(c) /\ child[c].kind = "time" /\ conn[c].thread = "write"
  /\ IF conn[c].rst THEN conn' = [conn EXCEPT ![c].thread = "done"]
     ELSE Len(conn[c].out) < SockSize /\ Written(c, << <<c, 0>> >>)
  /\ UNCHANGED <<server, parent, child, pipe>>

\* Readable: the end of the stream, behind an error if there is one.
TimeRead(c) ==
  /\ Serving(c) /\ child[c].kind = "time" /\ conn[c].thread = "read"
  /\ conn[c].fin \/ conn[c].rst
  /\ conn' = [conn EXCEPT ![c].thread = "done"]
  /\ UNCHANGED <<server, parent, child, pipe>>

-----------------------------------------------------------------------------
ParentStep(c) == ParentRead(c) \/ ParentEof(c)
ChildStep(c) ==
  \/ Connect(c) \/ ChildRead(c) \/ ChildEof(c) \/ ChildReset(c) \/ BrokenPipe(c)
ThreadStep(c) ==
  \/ Accept(c) \/ EchoRead(c) \/ EchoWrite(c)
  \/ TimeTimeout(c) \/ TimeWrite(c) \/ TimeRead(c)
User(c) ==
  \/ \E kind \in {"echo", "time"} : Choose(c, kind)
  \/ Quit(c) \/ Type(c) \/ TypeEof(c) \/ Kill(c)

Next ==
  \/ \E c \in Clients : User(c) \/ ParentStep(c) \/ ChildStep(c) \/ ThreadStep(c)
  \/ Stop \/ Start

Spec == Init /\ [][Next]_vars

\* Processes and threads are scheduled; what a user does is left open.
FairSpec ==
  /\ Spec
  /\ \A c \in Clients :
       WF_vars(ParentStep(c)) /\ WF_vars(ChildStep(c)) /\ WF_vars(ThreadStep(c))

-----------------------------------------------------------------------------
(* Properties. *)

Lines == Clients \X (0..MaxTyped)

TypeOK ==
  /\ server \in [up : BOOLEAN, starts : 1..MaxStarts]
  /\ parent \in [Clients -> {"menu", "reading", "quit", "crash"}]
  /\ child \in [Clients -> [kind : {"echo", "time"},
                            run : {"connecting", "running", "ended"}]]
  /\ pipe \in [Clients -> Seq(Messages)]
  /\ conn \in [Clients -> [server : 0..MaxStarts,
        thread : {"backlog", "read", "write", "done"}, buf : Seq(Lines),
        in : Seq(Lines), out : Seq(Lines),
        fin : BOOLEAN, rst : BOOLEAN, srv : {"open", "fin", "rst", "finrst"},
        typed : 0..MaxTyped, text : [1..MaxTyped -> Messages], got : Seq(Lines)]]

\* What comes back to an echo child is what its user typed, in order and from
\* the beginning, whatever the threads of other clients read and write and
\* however TCP cuts the stream.
EchoOwn ==
  \A c \in Clients :
    conn[c].got = [k \in 1..Len(conn[c].got) |-> <<c, k>>]

\* The server the session of c was with is gone.
ServerGone(c) == conn[c].server # 0 /\ ~Serving(c)

\* A client exits with "server process crash" only when the server process has
\* ended, or its user typed these words, which come back as an echo: a thread
\* of the server that is done keeps its connection open, so the end of the
\* stream never means the end of a thread.
ExitMeansCrash ==
  \A c \in Clients : parent[c] = "crash" =>
    \/ ServerGone(c)
    \/ \E k \in 1..MaxTyped : conn[c].text[k] = "server process crash"

\* Liveness: when its child ends, or the server its child is connected to, a
\* parent gets back to its menu or exits, although messages in the pipe may be
\* lost behind others.
SessionEnds ==
  \A c \in Clients :
    (parent[c] = "reading" /\ (child[c].run = "ended" \/ ServerGone(c)))
      ~> (parent[c] # "reading")
=============================================================================
