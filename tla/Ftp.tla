-------------------------------- MODULE Ftp --------------------------------
(***************************************************************************)
(* The file server and its clients (ftp-server-client/finalProject): a     *)
(* thread for each client, which all work on one directory                 *)
(* (DataServerThread.java), and a thread for each announcement, which      *)
(* sends it to every client (MulticastServerThread.java,                   *)
(* MulticastUtil.java).                                                    *)
(*                                                                         *)
(* The paths are those of Windows: a listing comes sorted, and a file that *)
(* is open cannot be deleted.  A name <<b, 0>> is that of a file b.x, and  *)
(* <<b, k>> is b[k].x.  Of a file only its length is kept, 0 or 1.         *)
(***************************************************************************)
EXTENDS Naturals, Sequences, FiniteSets, SequencesExt, Bags

CONSTANTS Clients,
          Bases,      \* the names without a number, in order
          Given,      \* the names the user of each client gives
          FirstFiles, \* the names in the directory at the start
          Mortal,     \* bound: the clients that a user may close
          MaxCmds     \* bound: commands of all clients

ASSUME FtpAssumption ==
  /\ Bases \subseteq Nat /\ IsFiniteSet(Bases)
  /\ Given \in [Clients -> SUBSET (Bases \X Nat)]
  /\ FirstFiles \subseteq Bases \X Nat /\ IsFiniteSet(FirstFiles)
  /\ Mortal \subseteq Clients /\ MaxCmds \in Nat

VARIABLES dir,      \* the directory: name -> length
          leaked,   \* names of files with a stream nobody closed
          client,   \* "new", "half" (data connected), "up", "half dead", "dead"
          issued,   \* commands given so far
          waiting,  \* clients that wait for an answer
          reqs,     \* of each client: requests on the data connection
          dataq, multiq, \* connections to accept
          streams,  \* outputStreamList: clients in the order they registered
          th,       \* the server thread of each data connection
          pending,  \* announcements whose thread waits for the monitor, a bag
          monitor,  \* the announcement that is being sent, or Free
          sentTo,   \* how many streams have it
          inbox     \* of each client that lives: the announcements it got

dirVars == <<dir, leaked>>
clientVars == <<client, issued, waiting, reqs, dataq, multiq>>
castVars == <<streams, pending, monitor, sentTo, inbox>>
vars == <<dirVars, clientVars, th, castVars>>

Free == <<>>
\* A thread: where it is, the name the user gave and the one it works on, whether
\* the client lives through the upload, getName's count and what is left of its
\* listing, whether another thread has changed the directory since, and the
\* length of a download.
Idle == [pc |-> "request", given |-> Free, name |-> Free, whole |-> TRUE, count |-> 2,
         fList |-> <<>>, raced |-> FALSE, length |-> 0]
Ended == [Idle EXCEPT !.pc = "ended"]
Alive(c) == client[c] \in {"new", "half", "up"}

Init ==
  /\ dir = [n \in FirstFiles |-> 1] /\ leaked = {}
  /\ client = [c \in Clients |-> "new"]
  /\ issued = 0 /\ waiting = {}
  /\ reqs = [c \in Clients |-> <<>>]
  /\ dataq = <<>> /\ multiq = <<>> /\ streams = <<>>
  /\ th = [c \in Clients |-> [Idle EXCEPT !.pc = "none"]]
  /\ pending = EmptyBag /\ monitor = Free /\ sentTo = 0
  /\ inbox = [c \in Clients |-> <<>>]

-----------------------------------------------------------------------------
(* The clients. *)

ConnectData(c) ==
  /\ client[c] = "new"
  /\ client' = [client EXCEPT ![c] = "half"]
  /\ dataq' = Append(dataq, c)
  /\ UNCHANGED <<dirVars, issued, waiting, reqs, multiq, th, castVars>>

ConnectMulti(c) ==
  /\ client[c] = "half"
  /\ client' = [client EXCEPT ![c] = "up"]
  /\ multiq' = Append(multiq, c)
  /\ UNCHANGED <<dirVars, issued, waiting, reqs, dataq, th, castVars>>

\* The user gives a command.  A client waits for the answer to ls and download;
\* it may die while it uploads.
Command(c, op, name, whole) ==
  /\ client[c] = "up" /\ c \notin waiting /\ issued < MaxCmds
  /\ ~whole => op = "upload" /\ c \in Mortal
  /\ op = "ls" => name = CHOOSE n \in Given[c] : TRUE
  /\ issued' = issued + 1
  /\ reqs' = [reqs EXCEPT ![c] =
                Append(@, [op |-> op, name |-> name, whole |-> whole])]
  /\ waiting' = IF op \in {"ls", "download"} THEN waiting \cup {c} ELSE waiting
  /\ client' = IF whole THEN client ELSE [client EXCEPT ![c] = "dead"]
  /\ inbox' = IF whole THEN inbox ELSE [inbox EXCEPT ![c] = <<>>]
  /\ UNCHANGED <<dirVars, dataq, multiq, th, streams, pending, monitor, sentTo>>

\* The user closes a client.
Die(c) ==
  /\ c \in Mortal /\ client[c] \in {"half", "up"}
  /\ client' = [client EXCEPT ![c] = IF @ = "half" THEN "half dead" ELSE "dead"]
  /\ waiting' = waiting \ {c}
  /\ inbox' = [inbox EXCEPT ![c] = <<>>]
  /\ UNCHANGED <<dirVars, issued, reqs, dataq, multiq, th,
                 streams, pending, monitor, sentTo>>

\* The server's main thread accepts a data and a multicast connection, which
\* need not be of the same client, and registers the one and serves the other.
Accept ==
  /\ dataq # <<>> /\ multiq # <<>> /\ monitor = Free
  /\ streams' = Append(streams, Head(multiq))
  /\ th' = [th EXCEPT ![Head(dataq)].pc = "request"]
  /\ dataq' = Tail(dataq) /\ multiq' = Tail(multiq)
  /\ UNCHANGED <<dirVars, client, issued, waiting, reqs,
                 pending, monitor, sentTo, inbox>>

-----------------------------------------------------------------------------
(* The directory. *)

Before(m, n) == m[1] < n[1] \/ (m[1] = n[1] /\ m[2] < n[2])
listFiles ==
  CHOOSE s \in SetToSeqs(DOMAIN dir) : \A i, j \in 1..Len(s) : i < j => Before(s[i], s[j])
Open == {th[c].name : c \in {d \in Clients : th[d].pc = "body"}}
Size(n) == IF n \in DOMAIN dir THEN dir[n] ELSE 0

\* The other threads that are looking for a name learn nothing of the change.
Race(c, t) ==
  [d \in Clients |-> IF d # c /\ t[d].pc \in {"scan", "open"}
                       THEN [t[d] EXCEPT !.raced = TRUE] ELSE t[d]]

Announce(what, name) == pending (+) SetToBag({<<what, name>>})

-----------------------------------------------------------------------------
(* The thread of a data connection. *)

\* readUTF, and the commands that are done at once.  A delete fails while the
\* file is written, and perhaps when a stream to it was left open, which the
\* garbage collector closes some time; it is announced all the same.
ReadRequest(c) ==
  LET r == Head(reqs[c])
  IN /\ th[c].pc = "request" /\ reqs[c] # <<>>
     /\ reqs' = [reqs EXCEPT ![c] = Tail(@)]
     /\ \/ /\ r.op = "ls"
           /\ waiting' = waiting \ {c}
           /\ UNCHANGED <<dir, th, pending>>
        \/ /\ r.op = "delete"
           /\ \/ /\ r.name \notin Open
                 /\ dir' = [n \in DOMAIN dir \ {r.name} |-> dir[n]]
              \/ /\ r.name \in Open \cup leaked
                 /\ dir' = dir
           /\ th' = IF dir' = dir THEN th ELSE Race(c, th)
           /\ pending' = Announce("deleted", r.name)
           /\ UNCHANGED waiting
        \/ /\ r.op \in {"upload", "download"}
           /\ th' = [th EXCEPT ![c] =
                [@ EXCEPT !.pc = IF r.op = "upload" THEN "list" ELSE "length",
                          !.given = r.name, !.name = r.name, !.whole = r.whole]]
           /\ UNCHANGED <<dir, waiting, pending>>
     /\ UNCHANGED <<leaked, client, issued, dataq, multiq,
                    streams, monitor, sentTo, inbox>>

\* The client is gone: the thread ends.
ReadEof(c) ==
  /\ th[c].pc = "request" /\ reqs[c] = <<>> /\ ~Alive(c)
  /\ th' = [th EXCEPT ![c].pc = "ended"]
  /\ UNCHANGED <<dirVars, clientVars, castVars>>

\* getName: the first listing.
ListNames(c) ==
  /\ th[c].pc = "list"
  /\ th' = [th EXCEPT ![c] = [@ EXCEPT !.pc = "scan", !.fList = listFiles,
                                       !.count = 2, !.raced = FALSE]]
  /\ UNCHANGED <<dirVars, clientVars, castVars>>

Found(s, n) == \E i \in 1..Len(s) : s[i] = n
Behind(s, n) ==
  LET i == CHOOSE i \in 1..Len(s) : s[i] = n IN SubSeq(s, i + 1, Len(s))

\* Mutant: a numbered name is taken to be free.
MutScan(c) ==
  /\ th[c].pc = "scan"
  /\ th' = [th EXCEPT ![c] =
       IF Found(@.fList, @.name) /\ @.name[2] = 0
         THEN [@ EXCEPT !.name = <<@[1], 1>>, !.fList = Behind(@, th[c].name)]
         ELSE [@ EXCEPT !.pc = "open", !.fList = <<>>, !.count = 2]]
  /\ UNCHANGED <<dirVars, clientVars, castVars>>

\* getName: a name that is taken gets a number, and the search goes on behind
\* it; a number that is taken is counted up, and the search begins again with a
\* new listing, at its second name.
NextName(t) ==
  CASE ~Found(t.fList, t.name) ->
         [t EXCEPT !.pc = "open", !.fList = <<>>, !.count = 2]
    [] Found(t.fList, t.name) /\ t.name[2] = 0 ->
         [t EXCEPT !.name = <<@[1], 1>>, !.fList = Behind(@, t.name)]
    [] OTHER ->
         [t EXCEPT !.name = <<@[1], t.count>>, !.count = @ + 1,
                   !.fList = SubSeq(listFiles, 2, Len(listFiles))]

Scan(c) ==
  /\ th[c].pc = "scan"
  /\ th' = [th EXCEPT ![c] = NextName(@)]
  /\ UNCHANGED <<dirVars, clientVars, castVars>>

\* FileOutputStream creates or empties the file.
OpenFile(c) ==
  LET n == th[c].name
  IN /\ th[c].pc = "open"
     /\ dir' = [m \in DOMAIN dir \cup {n} |-> IF m = n THEN 0 ELSE dir[m]]
     /\ th' = Race(c, [th EXCEPT ![c].pc = "body", ![c].raced = FALSE])
     /\ UNCHANGED <<leaked, clientVars, castVars>>

\* The bytes are written and the upload announced; the thread of a client that
\* died in the middle ends without closing the file.
ReceiveBody(c) ==
  /\ th[c].pc = "body"
  /\ IF th[c].whole
       THEN /\ dir' = [dir EXCEPT ![th[c].name] = 1]
            /\ th' = [th EXCEPT ![c] = Idle]
            /\ pending' = Announce("uploaded", th[c].name)
            /\ UNCHANGED leaked
       ELSE /\ th' = [th EXCEPT ![c] = Ended]
            /\ leaked' = leaked \cup {th[c].name}
            /\ UNCHANGED <<dir, pending>>
  /\ UNCHANGED <<clientVars, streams, monitor, sentTo, inbox>>

\* download: the length, which is 0 for a file that is not there.
GetLength(c) ==
  /\ th[c].pc = "length"
  /\ th' = [th EXCEPT ![c].pc = "read", ![c].length = Size(th[c].name)]
  /\ UNCHANGED <<dirVars, clientVars, castVars>>

\* Mutant: nothing is sent of an empty file.
MutSkipEmpty(c) ==
  /\ th[c].pc = "read"
  /\ th' = [th EXCEPT ![c] = Idle]
  /\ waiting' = IF th[c].length = 0 THEN waiting ELSE waiting \ {c}
  /\ UNCHANGED <<dirVars, client, issued, reqs, dataq, multiq, castVars>>

\* download: the file is opened, read and sent.  If it is not there, or shorter
\* than it was, the exception ends the thread; the sockets stay open, and the
\* stream is never closed.
ReadFile(c) ==
  /\ th[c].pc = "read"
  /\ IF th[c].name \in DOMAIN dir /\ Size(th[c].name) >= th[c].length
       THEN /\ th' = [th EXCEPT ![c] = Idle]
            /\ waiting' = waiting \ {c}
       ELSE /\ th' = [th EXCEPT ![c] = Ended]
            /\ UNCHANGED waiting
  /\ leaked' = leaked \cup ({th[c].name} \cap DOMAIN dir)
  /\ UNCHANGED <<dir, client, issued, reqs, dataq, multiq, castVars>>

-----------------------------------------------------------------------------
(* The announcements: sendMessageToStreams holds the monitor. *)

\* Mutant: not synchronized, a second loop takes over from the first.
MutEnter(m) ==
  /\ pending' = (pending (-) SetToBag({m}))
                  (+) SetToBag(IF monitor = Free THEN {} ELSE {monitor})
  /\ monitor' = m /\ sentTo' = 0
  /\ UNCHANGED <<dirVars, clientVars, th, streams, inbox>>

Enter(m) ==
  /\ monitor = Free
  /\ pending' = pending (-) SetToBag({m})
  /\ monitor' = m /\ sentTo' = 0
  /\ UNCHANGED <<dirVars, clientVars, th, streams, inbox>>

Received(c) == IF Alive(c) THEN [inbox EXCEPT ![c] = Append(@, monitor)] ELSE inbox

\* Mutant: println waits for a client that has gone.
MutSendTo ==
  /\ monitor # Free /\ sentTo < Len(streams) /\ Alive(streams[sentTo + 1])
  /\ inbox' = Received(streams[sentTo + 1])
  /\ sentTo' = sentTo + 1
  /\ UNCHANGED <<dirVars, clientVars, th, streams, pending, monitor>>

\* println to the next stream; a PrintWriter hides the error of one whose
\* client has gone, and no stream is ever removed.
SendTo ==
  /\ monitor # Free /\ sentTo < Len(streams)
  /\ inbox' = Received(streams[sentTo + 1])
  /\ sentTo' = sentTo + 1
  /\ UNCHANGED <<dirVars, clientVars, th, streams, pending, monitor>>

Leave ==
  /\ monitor # Free /\ sentTo = Len(streams)
  /\ monitor' = Free /\ sentTo' = 0
  /\ UNCHANGED <<dirVars, clientVars, th, streams, pending, inbox>>

-----------------------------------------------------------------------------
User(c) ==
  \/ ConnectData(c) \/ ConnectMulti(c) \/ Die(c)
  \/ \E op \in {"ls", "upload", "download", "delete"},
        name \in Given[c], whole \in BOOLEAN : Command(c, op, name, whole)
ThreadStep(c) ==
  \/ ReadRequest(c) \/ ReadEof(c) \/ ListNames(c) \/ Scan(c) \/ OpenFile(c)
  \/ ReceiveBody(c) \/ GetLength(c) \/ ReadFile(c)
CastStep == SendTo \/ Leave

Next ==
  \/ \E c \in Clients : User(c) \/ ThreadStep(c)
  \/ Accept
  \/ \E m \in BagToSet(pending) : Enter(m)
  \/ CastStep

Spec == Init /\ [][Next]_vars

\* The server's threads are scheduled, and each that waits for the monitor gets
\* it some time; a client that has begun to connect goes on.  What users do is
\* left open.
FairSpec ==
  /\ Spec
  /\ \A c \in Clients : WF_vars(ThreadStep(c)) /\ WF_vars(ConnectMulti(c))
  /\ WF_vars(Accept)
  /\ WF_vars(\E m \in BagToSet(pending) : Enter(m))
  /\ WF_vars(CastStep)

-----------------------------------------------------------------------------
(* Properties. *)

Names == Bases \X Nat
Messages == {"uploaded", "deleted"} \X Names

TypeOK ==
  /\ DOMAIN dir \subseteq Names
  /\ \A n \in DOMAIN dir : dir[n] \in {0, 1}
  /\ leaked \subseteq Names
  /\ client \in [Clients -> {"new", "half", "up", "half dead", "dead"}]
  /\ issued \in 0..MaxCmds /\ waiting \subseteq Clients
  /\ reqs \in [Clients -> Seq([op : {"ls", "upload", "download", "delete"},
                               name : Names, whole : BOOLEAN])]
  /\ dataq \in Seq(Clients) /\ multiq \in Seq(Clients) /\ streams \in Seq(Clients)
  /\ th \in [Clients ->
       [pc : {"none", "request", "list", "scan", "open", "body", "length",
              "read", "ended"},
        given : Names \cup {Free}, name : Names \cup {Free}, whole : BOOLEAN,
        count : Nat, fList : Seq(Names), raced : BOOLEAN, length : 0..1]]
  /\ IsABag(pending) /\ BagToSet(pending) \subseteq Messages /\ monitor \in Messages \cup {Free}
  /\ sentTo \in 0..Len(streams) /\ inbox \in [Clients -> Seq(Messages)]

\* The first name of a listing.
First(n) == n \in DOMAIN dir /\ \A m \in DOMAIN dir : m = n \/ Before(n, m)

\* An upload empties a file that is there only when another thread has created
\* or deleted one since the listing, or when the user gave a name with a number
\* and the file is the first of the directory, which a renewed listing is not
\* searched for.  For a name without a number the skipping does no harm: the
\* numbering never returns a name in use.
OverwriteRacedOrFirst ==
  \A c \in Clients :
    th[c].pc = "open" /\ th[c].name \in DOMAIN dir =>
      th[c].raced \/ (th[c].given[2] # 0 /\ First(th[c].name))

\* Announcements come to all clients in one order and none is left out: who
\* registered later has the last of those an earlier one has.
SameOrder ==
  monitor = Free =>
    \A i, j \in 1..Len(streams) :
      i < j /\ Alive(streams[i]) /\ Alive(streams[j]) =>
        IsSuffix(inbox[streams[j]], inbox[streams[i]])

\* Liveness: the announcement of an upload or a deletion gets through to all
\* registered clients, also when one of them has died.
Announced == []<>(pending = EmptyBag /\ monitor = Free)

\* A client died between its two connections, and the pairs that are accepted
\* are no longer those of one client.
Unpaired == \E c \in Clients : client[c] = "half dead"

\* Liveness: a client that waits gets its answer, or dies, unless the thread of
\* its connection ended with an exception, or has not been started because
\* another client died between its two connections.
CommandEnds ==
  \A c \in Clients :
    (c \in waiting) ~> (c \notin waiting \/ th[c].pc = "ended" \/ Unpaired)
=============================================================================
