# A TLA+ model of the socket-programming repository

The repository holds five network programs. This project models them in TLA+,
checks the models with TLC on small instances and proves the central results
with TLAPS for every value of the constants. Paths below are relative to the
repository (`TCP` = `TCP-like-protocal-usingUDPsocket/code`, `ODR` =
`On-Demand shortest-hop Routing (ODR) protocol/code`).

## 1. The system

| Part | State it keeps | Operations | Hard behaviour |
|---|---|---|---|
| File transfer, set-up (`TCP/udpserv.c` 229-464, `TCP/udpcli.c` 427-586) | parent: connection socket, filename buffer, client address, alarm pipe; client: connected port, alarm pipe | filename, port number, ACK, echo, fork; two timeouts by `alarm` and a pipe | datagrams lost, late or repeated; an alarm that goes off between `select` and `alarm(0)`; two clients at once |
| File transfer, server child (`udpserv.c` 476-961, `get_cwnd`) | list of unacknowledged segments, `last_seg_acked`, congestion state, round-trip estimate | receive a request, send a burst, time out and resend, give up | reordered requests, the retry limit, a zero window, integer arithmetic of the timer |
| File transfer, client (`udpcli.c` `dg_cli1`, `print_data2`) | receive list and its counter, `last_seg_acked`, `last_seg_in_transfer`, shared by two threads | request, receive, insert, print, TIME_WAIT | reads without the mutex, `free` before `pthread_join`, lost completion |
| File transfer, choice of the client's address (`udpcli.c` 270-370 and 1021-1089, `udpserv.c` 353-410) | none | compare addresses bit by bit, choose an address, set SO_DONTROUTE | masks of different length, a host with the loopback only |
| ARP daemon (`multicast/code/arp_chechung.c`) | table of IP, hardware address, waiting descriptor | request of the tour process, broadcast request, reply | two nodes that ask for each other at once; a second request while the first is open; an asker that times out or ends; a descriptor used again; unchecked table size |
| Tour (`multicast/code/tour_chechung.c`) | ping flags and counters, last-node flag, alarm | forward the tour packet, ask the ARP daemon, ping every second, multicast the end, identify oneself | multicast racing pings and tour packets; a tour that comes back; lost multicasts |
| ODR service (`ODR/odr_chechung.c`, `function.c`) with its time client and server | routing table with time stamps, send buffer, port map | client message, RREQ, RREP, application message | duplicate and crossing RREQs, stale routes, the buffer walked while it shrinks |
| Echo and time server (`tcp-socket-server/code`) | connections and their threads; client: menu, child, pipe | echo, time, menu client with a child and a pipe | messages that run together in the pipe, resets, the server ending and starting again, child and parent ending in either order |
| FTP (`ftp-server-client/finalProject`) | directory of files, list of announcement streams | upload, download, delete, list, announce | the listing and the creation of a file in two steps, clients that die in the middle of a file or between their two connections, a synchronized loop over the streams of dead clients |

What makes each correct: the transfer prints the file whole, in order, and both
ends end; the handshake gives each client one child, with its file; the ARP
table answers with the right address and answers everyone; ODR routes lead on, a
flood passes a daemon once, and a message is in one place and reaches the client
that asked; the tour ends at every node of its list and only when all have
joined; an echo client gets its own lines back, and a client says that the server
crashed only when it did; an FTP upload overwrites no file by its own numbering, and
all clients hear the announcements in one order. The places where a test would hardly reach are the
list `hazards` of `PROJECT.json`.

The parts meet in few places. The handshake ends where the transfer begins (the
fork and the call of `dg_cli1`). The tour process calls the ARP daemon over a
Unix socket: module `Tour` runs the daemons of module `Arp` as a part of it. The other programs are independent of each other.

## 2. Modules

| Module | Models | Extends |
|---|---|---|
| `Congestion` | `get_cwnd` and the timeout's reset, as operators on a record | |
| `Transfer` | one transfer: server child, client main thread, consumer thread, network | `Congestion`, instantiates `FileDelivery` |
| `FileDelivery` | the abstract specification of a transfer | |
| `Rto` | round-trip estimator, backoff and retry limit in 32-bit microseconds | |
| `Handshake` | parent server and clients up to the transfer | |
| `Subnet` | the choice of the client's address and of SO_DONTROUTE, as operators | |
| `Setup` | a client from its start to the transfer: choice, bind, handshake | `Handshake`, `Subnet` |
| `Arp` | the ARP daemons of several nodes, and the calls of `areq` | |
| `Tour` | the tour processes of several nodes, composed with the daemons | instantiates `Arp` |
| `EchoTime` | echo and time server, menu clients, their children | |
| `Ftp` | the file server's threads and its clients | |
| `Odr` | the ODR daemons of several nodes, their time clients and servers | |
| `TransferProof`, `RtoProof`, `HandshakeProof`, `ArpProof`, `TourProof`, `EchoTimeProof`, `FtpProof`, `OdrProof` | lemmas, theorems and proofs | the module named (`HandshakeProof`: `Setup`) |
| `MCTransfer`, `MCRto`, `MCHandshake`, `MCSetup`, `MCArp`, `MCTour`, `MCOdr`, `MCEchoTime`, `MCFtp` | instances for TLC | the module named |

Definitions called `Mut...` stand beside the definition they vary. Each is a
plausible bug (a dropped guard, a missing reset, an off-by-one); with it in place
of the original TLC reports the property listed with it in `PROJECT.json`.

### Transfer

Control points. The server child is single-threaded and only `select` waits, so
one pass of a loop is one step; the send loop takes one step per segment. The
client's main thread has a control point before every read of a variable the
consumer writes: `ack` and `rwnd` (617, 618: two reads without the mutex), `send`
(620), `listen` (714), `read` (722), `insert` (793, the mutex), `post` (839). The
consumer has one before each write: `drain` (unlink, print, `last_seg_acked`),
`count` (`num_seg_in_buf`), `check`; it holds the mutex in `drain` and `count`.

Data. A segment is its number, the chunk in its payload (0 for an all-zero
payload) and its flag bits; the 4-byte conversions are exact for numbers in
range and are left out. The receive list is sorted and without repetition, so it
is the set of its nodes. The network is a set: datagrams are delivered in any
order, repeatedly (`Duplicates`) or once, and lost when a bound (`MaxToServer`, `MaxToClient`) is
reached, by a step of the network, or by the program's own simulated loss.

Exits. `ServerExit` forgets the child's memory. The parent keeps the connection
socket open, so nobody tells the client.

`ServerSelectError` stands for the overflow that module `Rto` finds: in the last
two rounds before the retry limit the timer may be negative and `select` fails.

### Rto

Times are microseconds. `TransTimes` is the set of values the conversion of an
out-of-range double may give (INT_MIN, or INT_MAX, which is then cut). RTO is
declared without a value; `EstimateSound` also says it is set before its use.

### Handshake

`sArmed`/`cArmed` say that an alarm is on, `sPipe`/`cPipe` count the bytes in the
pipe. Reading the socket and `alarm(0)` are separate steps, so that the alarm can
go off in between. `filename` is a sequence of characters, because `Recvfrom`
adds no terminator and the end of a longer name can stay. A client's socket takes
datagrams from its peer only, and keeps what was queued before `connect`.

### Subnet and Setup

An address is a number of `Width` bits (32 in the code); a host has at most
`MaxInterfaces` interfaces (`FD_SETSIZE` in the code). `MatchLoop` is the loop over
them, turn by turn. `Setup` lets a client on any
host choose its address, bind its socket and go on to the handshake; nothing of the
choice is read later, so it is forgotten there. `ChoiceRight` compares each choice
with `Right`, where "on the same subnet" is defined without looking at bits. The
client takes the matching interface whose address has most bits in common with the
server's, not the one with the longest mask. A host that has the loopback only
leaves the address uninitialised (`Uninitialized`), and `BindFails` may follow.

### Arp

A node stands for its IP and its hardware address. `LeadZero`, `Terminated` and
`Odd` are the three facts about address bytes the code's tests depend on. `strcmp`
(328) stops at a zero byte; an address that has none (not in `Terminated`) goes on,
in the entry with `sll_hatype` and in the message with the sender's IP, so that it
is not equal to itself and `checkEntryExist` never finds it. And
`*mac++ & 0xff != 0` looks at the lowest bit. The update of an existing entry on a
request (484-486) goes to a local copy and changes nothing. `lost` and `starts` are
not in the code: the first lets the liveness property except a lost frame, the
second counts the starts of a daemon. A frame carries the `life` of the daemon that
asked, so that the set of frames keeps apart two with the same bytes.

`conns[n]` are the descriptors of daemon n that are open because a request waits,
and `areq[n]` is where its tour process waits: at a descriptor, at a connection the
daemon has forgotten (`Unheard`) or not at all. A request that times out leaves its
connection open; `TourExit` hangs up, and a daemon that answers such a connection
is ended by SIGPIPE (`DaemonEnds`); `DaemonStart` starts it again with an empty
table, while frames of its former life are on their way. `accept` gives the lowest free descriptor, so
numbers are used again. `Asks` says who may ask for whom: in the run
`arp` the tour processes are free to ask so in any order and to end at any time; in
`Tour` they do what `tour_chechung.c` does, and no daemon is started again.

### Tour

`proc[n]` has the variables of the process of node n under their names, and where
it is: at `select`, in a pass over the nodes to ping (`todo`), or in a call of
`send_v4` that waits for `areq` (`target`). `Start` and `ReceiveRT` are the two ways
a routing packet is sent; there is one packet, at index `rt` of the list. A pass
asks the daemon for every node in `if_ping`, one request at a time, and `SendPing`
and `PingGarbage` are the two ways it returns: with an answer, or after five seconds
with whatever the buffer holds. A ping is answered if its hardware address is
right and nothing is lost.

Time is abstracted to order: `select` times out only when nothing waits for the
process, and the alarm of five seconds goes off only when all multicasts have been
read. `mq` counts datagrams and does not order them. `ping_counter_array` stops at
`Goal`; the code only compares it.

### EchoTime

TCP is two byte streams that keep order but forget the ends of writes (`Chunks`),
with the end of stream and the reset as the receiver sees them (`fin`, `rst`, `srv`):
a socket closed with unread bytes resets, the first write to a closed peer is
answered by a reset, the second ends the writer. An error in `Writen` or `Readline`
ends the whole server process, an error in the time thread only the thread.
`ParentRead` takes all that is in the pipe and compares the first message. A thread
that is done does not close its connection. Lines are named by client and number,
and `text` says what a line reads like: the echo child writes the bytes it gets to
the pipe as they are (`echo_cli.c:88`), where the parent compares them with the
child's own messages, so an echo of the words "server process crash" or "cannot
connect to server", alone in one read, is taken for one (`TextOf`). `Texts` bounds
what a user types. After such an echo the parent exits, and its child is ended by the
next write to the pipe (`BrokenPipe`), or goes back to its menu with the child still
running; when another service is chosen then, the old child and its window are left out of
the model, but for the end of the server it may bring about, which `Stop` covers.
The time's text is left out.

### Ftp

One step per system call of a thread that another thread can notice: the request,
the listing, each turn of `getName`'s search that takes a new listing, the opening
of the file, its bytes, its length. The paths are those of Windows, so a
listing is sorted and an open file cannot be deleted. `leaked` are the names with a stream
nobody closed, which the garbage collector may or may not have closed when a delete
comes. `raced` is not in the code: it says that the directory was changed by another
thread since the listing; `given`, the name as the user typed it, is kept next to the
one `getName` has come to. `Given` says which names users give, with a number or
without one. Numbers are compared as numbers, which is the order of the text for
those below ten; names without a dot, on which `getName` fails, are left out.
`Accept` stands for the two `accept`s of `main`: one step that takes the head of each
of the two queues, which may be connections of different clients, so that a client
that dies between its two connections shifts the pairs.
`inbox` is what a client has heard. The client's own directory is left out.

### Odr

One pass of a daemon's loop is one step; the daemon waits for the local server
inside a pass, so the server's answer is part of it. `odr[n]` is the memory of the
daemon of node n. A next hop and the interface that goes with it are the
neighbour's node; the two are separate fields because a forced request (649)
clears the first only, and a frame to address 0 over a known interface is lost
while interface 0 makes `sendto` fail and ends the daemon. `net[m][n]` is a queue:
a link keeps the order, different links do not. Frames for a daemon that does not
run are gone. Loss is left out otherwise; the client's alarms may go off at any
time.

`removeFromBuffer` moves entries the wrong way, so that the removed entry and all
behind it become the empty slot after the last (`Blank`). `getNodeByIP` of an empty
address asks for whatever its stack holds: `stack` chooses, per slot, a node or the
end of the process, and a blank packet that is sent has the same choice where it
arrives. `undef` remembers that this has happened.

Time is one clock in seconds; a pass takes no time. `ended` (the nodes whose daemon
has ended, whether it runs again or not), `asked` and `undef` are not in the code and
no guard but the bounds reads them.

## 3. Runs

Deadlock is not checked: the programs end, or have nothing to do once the bound on
requests is reached. Each module states its type invariant; a run checks that of
`Transfer`, and section 4 proves them all.

| Run | Bounds | Shows |
|---|---|---|
| `transfer` | 2 segments, window 2, buffer 2, 2 retries, cwnd up to 2, every datagram stays deliverable | `TypeOK`, `IInv` (the invariant of the proofs), `InOrderOutput`, `CounterMatchesList`, `TimerGuardsFirstUnacked`, `SenderBounds`, `DoneMeansPrinted` under unlimited duplication and reordering |
| `transfer_live` | 3 segments, window 2, 1 datagram in flight each way, loss | `WithinReceiveWindow`, `FullBufferDrains`, `DeliversFile` (refinement), `ServerEnds`, `ClientEnds` |
| `transfer_stale` | 2 segments, 2 datagrams each way | violated: what a comment says and the code does not do |
| `rto` | the code's constants, five samples from 0 to 9 s, 6 estimates | `EstimateSound`, `TimerSoundBeforeLastTwo`, `GivesUpLate` |
| `handshake` | 2 clients (symmetric), 2 datagrams each way | `OneChildPerClient`, `PortIsServed` |
| `setup` | 1 client, on each host with up to 2 interfaces and addresses of 3 bits, 3 datagrams each way | `HandshakeEnds`, `ChoiceRight` |
| `arp` | 3 nodes: n1, whose address has no zero byte, asks for n2 and n3, n2 asks for n1, n3 has an even address that begins with 0; the daemons of n1 and n2 started twice, 2 descriptors, 1 lost frame | `AnswersRight`, `DescriptorsLive`, `TableFits`, `StoredIsAnswered` |
| `tour` | 3 nodes; tours n1 n2 n3 and n1 n2 n1 n2, 1 reply to count, 1 lost frame, 1 lost multicast | `GroupComplete`, `Identifies`, `QuietAfterEnd`, `TourEnds` |
| `odr` | a line of 3 nodes, 2 clients at one end, 2 messages (a retry counts), the middle daemon stopped once, the clock moved once by 1 or 2 s with stale time 1 | `OneCopy` (not of a client whose daemon has ended), `AnswerToAsker`, `RoutesLead` |
| `odr_live` | a triangle, clients on two nodes, 2 messages, a port map of one slot | `FloodsOnce`, `Settles`, `CalmAnswered` |
| `echotime` | 2 clients, 2 lines a session, or 1 for the second client; the first may type "cannot connect to server" and then "server process crash"; the server started twice, a pipe of 2 messages | `EchoOwn`, `ExitMeansCrash`, `SessionEnds` |
| `ftp` | 2 clients, the name b[2].x in use at the start; one client gives b.x, the other b.x and b[2].x and may die; 3 commands | `OverwriteRacedOrFirst`, `SameOrder`, `Announced`, `CommandEnds` |

Why the bounds suffice. A file longer than the window (3 and 2) makes the window
slide and the list fill without the next segment; two segments in any order and
number already contain every crossing of an old with a new request. Two retries
reach the timeout, the reset of the counter and both ways of giving up (the code
has 12, which only repeats the middle ones; `Rto` uses 12). Two clients are the
least that can be confused. Two nodes that ask, for each other and one for a third,
without a bound on their requests, reach simultaneous requests, repeated ones and
every use of two descriptors; a second start of both makes the table of one grow to
the bound of `TableFits`, three entries for a node whose address has no zero byte. Three nodes and a tour that visits two of them twice
reach a source that is pinged, a node that is first and last at once and pings in
both directions; the code's five replies only repeat the first. Three bits make an
address with a mask of every length, and two interfaces are what the choice
compares. Two lines and a pipe of two messages let reads join and split what was
written, and two starts give a session with a server that is gone while another runs.
Three commands are an upload, another of the same name between its listing and its
creation, and a delete of either; b[2].x is the first of the directory until b.x is
uploaded, so an upload under it meets the skipped first entry and the one that is
found. Two messages are the least that wait
in one send buffer or whose RREQs cross; one and two seconds are the instant a
route expires and the time after it; hop counts up to 4 exceed every path without
a circle. The proofs do not depend on bounds.

Fairness. Weak fairness for the steps of processes and threads that are only
waiting for the processor, a sleep or a timer. Strong fairness for taking the
mutex, because the consumer releases it between two passes, and for sending and
receiving, because the simulated loss has a probability below 1 and the network
delivers some of what is sent again and again; none for `ServerSelectError`, whose
outcome is undefined. `Arp` has weak fairness for receiving a frame that is not lost.
`Tour` adds weak fairness of every process and of the start, and strong fairness of a
ping of the preceding node that gets through, because it is sent every second.
`EchoTime` and `Ftp` have weak fairness of each process and thread, of accepting and,
in `Ftp`, of some thread's getting the monitor that is free; a client that has made
its first connection makes the second or dies.
In `Handshake`, strong fairness also covers the filename and its answer; `Setup` adds
weak fairness of the client's preparations. `Odr` only
assumes that some daemon takes a frame as long as there is one: the daemons loop
around `select`. Users, alarms, the clock and the server's being started are not fair.

### What the violated run shows, and what else was seen

`transfer_stale`: `udpcli.c:791` tests `last_seg_acked` before the lock. A
retransmitted segment that the consumer prints in between is inserted below
`last_seg_acked`: the trace of the run ends there. In the code the segment then
stays at the head of the list, where the consumer waits for another (1208). The list
fills up, and the two programs go round: the server's timer sends, the client
answers with the same acknowledgement and in the end a window of 0, and each
answer sets `conse_packet_drop` to 0 (`udpserv.c:705`), so that the server does not
give up. This is why `Stale` is an exception in the two liveness properties.

Seen while modelling and not given a run of their own:

* Transfer. From the eleventh round on the timer may leave the range of `TCP/README`
  104-106 (`udpserv.c:576`; the reason for `ServerSelectError` and the name of
  `TimerSoundBeforeLastTwo`). `free(recv_base)` (`udpcli.c:883`) runs while the
  consumer may be in its pass over the list. A file of length 0 gets no EOF bit
  (`udpserv.c:844`). The PROBE and LAST_IN_ITER bits are never set, because the send
  loop is left when `seg_to_send` is 0 (`udpserv.c:808` before 828 and 833;
  `TCP/README` 74-75 and 129-131).
* Handshake. Crossing retries of two clients can give one of them the other's file
  (`udpserv.c:442`), and a short filename keeps the tail of a longer one (344). The
  client that times out on the echo closes its socket and then writes to it, so that
  it ends instead of trying again (`udpcli.c:553`). SO_DONTROUTE, once set by the
  server, stays set for later clients.
* ARP. A second request for an IP that is being asked for is dropped with its
  descriptor (`arp_chechung.c:458`), and a lost frame leaves the IP unknown for ever.
  Simultaneous requests leave two entries for an IP (493). An address without a zero
  byte is never found by `strcmp` (328): whoever asked for it and is then asked by it
  has two entries, and one more for each time its daemon is started again and asks,
  so that with restarts the 20 slots can run out. A read that returns 0
  (418-425) is not treated as an end.
* Tour. `hostNameToNumberArray` returns an array of its own frame
  (`tour_chechung.c:698`), and its test for a node twice in a row (686) compares with
  a name whose first letters it has already overwritten, so it never holds. `Sendto` leaves off the last 20 bytes of a
  routing packet (776). `areq` leaks its socket and copies an unwritten buffer
  after a timeout (443-454).
* ODR. The RREP sends the first buffered message and erases the second
  (`odr_chechung.c:445`), and the daemon goes on with an empty packet. An RREP stores
  the id of the node that asked as the highest id of the node it comes from (861), so
  that a later forced RREQ of that node does not count as newer, though the ODR
  `ReadMe` says it sets the reverse path. An intermediate node answers with hop count
  0 (786) whatever its own distance. A message that crosses a forced RREQ can bring
  back the old reverse route (899) and leave a circle of two nodes until the route
  ages. A circle also comes about with no route taken away: let five nodes have the
  links s-m, m-n, s-n, m-x and x-d, and the routes n to d by m and m to d by x, of
  2 hops; s asks for d twice, its first RREQ reaches n by m and the second directly;
  n answers both as an intermediate with hop count 0, one answer by way of m, which
  takes 1 hop for better than 2 and sends to n what n sends to m. TLC confirms these 17
  steps, which is why `Settles` and `CalmAnswered` except `NoCircle`; `A3.pdf` admits
  loops. A route exactly `stale_time` old passes none of the three tests (459). A
  restarted daemon counts broadcast ids from 0, which others take for old (480). The
  send buffer's 100 slots are unchecked (626). A request for a node without a time
  server ends its daemon (942). `checkAddressNotEmpty` sees lowest bits only (157). The
  client takes a late answer for the answer to its current question.
* Echo and time. The time is formatted in static memory all threads share
  (`tcpechotimesrv.c:224`). A thread that is done leaves its descriptor open (196). A
  user who types "server process crash" makes the client exit while the server runs,
  and "cannot connect to server" sends it back to its menu while its child runs:
  echoes and messages share one pipe (`echo_cli.c:88`, `tcpechotimecli.c:114-117`).
  `ExitMeansCrash` says so.
* FTP. A delete that fails is announced all the same (`DataServerThread.java:62`); a
  download of a missing file ends the thread and leaves the client waiting (122); a
  new listing is searched from its second name (171). Because of that an upload
  under a name with a number overwrites a file with no race at all: when b[2].x is
  there and the first of the directory, `getName("b[2].x")` counts to b[2].x again, does
  not see it, and returns it; so does b[5].x, if it is there too. This is the
  exception in `OverwriteRacedOrFirst`; under a name without a number it cannot
  happen. A client that dies between its
  two connections shifts the pairs that the server's `main` accepts (25-26), and one
  that does not read its announcements stops all others.

## 4. Proofs

Eight modules hold the theorems. Each proves an inductive invariant
(`Spec => []Inv`, with `Init => Inv` and one lemma per action) and takes the
properties of the runs from it. All hold for every value of the constants that
satisfies the `ASSUME` of the module; TLC evaluates these on every run.

| Module | Invariant | Properties of the runs, proved | Type invariant |
|---|---|---|---|
| `TransferProof` | `IInv` | `InOrderOutput`, `CounterMatchesList`, `WithinReceiveWindow`, `TimerGuardsFirstUnacked`, `SenderBounds`, `DoneMeansPrinted`, `FullBufferDrains`, `DeliversFile` (refinement) | proved |
| `RtoProof` | `RInv` | `EstimateSound`, `TimerSoundBeforeLastTwo`, `GivesUpLate` | proved |
| `HandshakeProof` | `HInv` | `OneChildPerClient`, `PortIsServed`; the same for `SetupSpec`, and `ChoiceRight` | proved |
| `ArpProof` | `ArpInv` | `AnswersRight`, `DescriptorsLive`, `TableFits` | proved |
| `TourProof` | `TourInv` | `GroupComplete`, `Identifies`, `QuietAfterEnd`; and `Spec => Arp!Spec` | proved |
| `EchoTimeProof` | `EchoInv` | `EchoOwn`, `ExitMeansCrash` | proved |
| `FtpProof` | `FtpInv` | `OverwriteRacedOrFirst`, `SameOrder` | proved |
| `OdrProof` | `OdrInv /\ Alone` | `RoutesLead`, `AnswerToAsker`, `OneCopy`, `FloodsOnce` (action property) | proved |

### Assumptions

They are types and sizes, and these facts the proofs need. `BackoffAssumption`
(`Rto`): RTTMAX times the backoff fits an int in all rounds but the last
two, which is what the code's constants give. `NoMac \notin Nodes` (`Arp`, `Odr`):
the empty address is nobody's. `Crash \notin Nodes \cup Clients` (`Odr`): the end of
a process is told from the values on a stack. `Asks = Nodes \X Nodes` and
`Source \in Nodes` (`Tour`): a tour process and an ARP daemon run on every node.
`IsFiniteSet(Nodes)` (`Tour`) and `IsFiniteSet(FirstFiles)` (`Ftp`): there are finitely
many nodes, and a directory is finite. Of powers of two nothing is assumed: the
provers do not know exponents, but the library counts the subsets of a set, and
2^n is the number of those of `1..n`.

### Arguments

*Transfer.* `InOrderOutput` needs that a buffered node holds the chunk of its
number (`ListOK`), hence that no dummy is ever inserted: a dummy carries the
server's `last_seg_acked`, which is at most the client's (`BurstOK`, `RequestsOK`),
so the test at 791 refuses it, and the client's number only grows. Flow control
needs the two unlocked reads in the right order: the acknowledgement is read
first, so the window that goes with it is never too large (`RequestsOK`,
`CounterMatchesList`). That no number past the end is used needs that
an acknowledgement never exceeds the file: the last segment is buffered only
together with the EOF bit, and the main thread sends no request in between
(`EofKnown`, `MainOK`). `TimerGuardsFirstUnacked` is not inductive, because reordered
requests put old numbers behind new ones; `WindowOrder` says that whatever the
client still needs below a buffered number stands before it in the list.
`Refinement` maps every step of the transfer to a step of `FileDelivery` or to none.
The module begins with the lemmas about `get_cwnd` and the timeout.

*Rto.* The shifts and subtractions of the estimator are bounded by lemmas about
integer division. `RtoSet` says why RTO is set before its first use: no timeout can
have been counted in the first round, which alone would skip the update.

*Handshake.* `OneChildPerClient` alone says nothing of the datagrams that lead to
the next child. `AnswersOK` says which port numbers may be on their way,
`ConnOK` that a client connects once, `AcksOK` that whoever sends past the listening
socket is connected to the port it sends to, and `SocketsOK` that every socket
but the latest belongs to exactly one child. That sockets are no more than clients
plus one, in `TypeOK`, follows by counting children.

*Setup.* What a client does before the handshake leaves `HInv` as it is
(`PrepareStep`), so `SetupSafe` has the same argument. `ChoiceIsRight` is about
numbers: a bit is a quotient of a quotient (`PowerSum`, `PowerNext`), so two addresses
agree in their first bits exactly when the quotients by a power of two are equal
(`PrefixIsQuotient`), and a mask of leading ones has as many ones as its length
(`MaskNumber`). `LoopSteps` and `LoopFinds` are the loop invariant: after each turn
the best interface is the nearest of those seen that match, or none matches. What
would be an induction is in each case an argument by a least counterexample
(`LeastNumber`).

*Arp.* All is said of the table and the connections of one node (`NodeOK`), and
each thing the code does to them has a lemma (`AskOK`, `KnownOK`, `ReturnOK`, `ExitOK`,
`RequestOK`, `ReplyOK`). `DescriptorsLive` is inductive only together with `Few`: of two
entries for an IP one is complete, so an incomplete one is unique and the answer goes to
the descriptor stored there. `Few` also gives two entries at most for an address with a
zero byte, which `checkEntryExist` finds. For any other address `TableFits` is a count over
the lives of its daemon (`Counts`): a daemon asks for an IP once in a life, since the entry
it makes stays (`OnceALife`), so the entries for it in another table, and the lives whose
request is still to come (`Pending`), are at most one more than its starts.

*Tour.* `Walk` says that the nodes the routing packet has passed are members, and
that a node is the last only when the packet is gone; from then on no
packet can turn `ping_switch_` on again, which is what `QuietAfterEnd` rests on. `End`
says that a member that runs after the end was told, will be, or lost the datagram.
`Counts` bounds the datagrams, which is what `TypeOK` adds: the tour is ended once,
by the only last node, and a process identifies itself once, when it reads of that end.
`ImplementsArp` shows that the tour processes use the daemons only by actions of
`Arp`, so the theorems of `ArpProof` hold in the composition.

*EchoTime.* `Stream`: what the child got, the bytes on the way back, those in the
thread and those on the way there are the typed lines, one after the other,
however reads cut them. `PipeOK`: what reads like the message of a crash is in a pipe
only when the server of that session is gone or its user typed the words (`Excused`);
that excuse lasts, because a line keeps its text (`Untyped`: only typed lines have one).
`SessionOK` ties the end of the stream to the
server's end, since threads that are done close nothing.

*Ftp.* `SearchOK` is about a search nobody disturbed: the name it tries is in what is
left of the listing if it is in the directory at all, or it is the first of the
directory (`Skipped`). A renewed listing is searched from its second name; if the user
gave no number the first cannot be the one looked for, because the name without the
number is in the directory and sorts before it. `CastInv` compares
the inboxes of two clients while an announcement is being written
(`Agree`): the earlier one may have one announcement more, the one under way.

*Odr.* What a daemon sends or keeps has a source it knows, as long as routes are
kept, and is a question or an answer to one, unless the daemon that asked has ended
(`Traffic`); next hops know the destination (`Lead`); a daemon that never ended gives out each
port once (`Ports`). `sendMessageFromBuffer`'s loop is a recursive function; a least
counterexample over its iterations (`LeastNat`, `Sweep`) shows that it sends and
keeps only what was in the buffer, or blanks. `AnswerToAsker` excepts a client whose
own daemon has ended, because a daemon that starts again gives out its old ports
(`odr_chechung.c:481`); the other daemons may end and start again at any time.

`OneCopy` compares all buffers, links and sockets before and after a step (`Alone`).
A pass takes one packet and a buffer, and gives back a buffer and what it sends; it
is shown that the copies of a message in what it gives back are no more, and
at most one, than those in what it took (`RREPSpot`, `AppSpot`, `LessSpot`; `SweepSplits`
through the turns of `sendMessageFromBuffer`), and that the copy there is, if any,
was in the boxes of that pass alone (`PassSpot`). A new message is nowhere else
because a port that has not been given out is on no packet (`NotUsed`, `Absent`).
`FloodsOnce` follows from the guard of line 760 once it is shown that nothing a
daemon does lowers an id it has stored for two different ends (`Raised`); line 861
writes where both ends are one node.

### Only model-checked

Liveness under fairness is out of the prover's reach: `ServerEnds`, `ClientEnds`,
`HandshakeEnds`, `StoredIsAnswered`, `TourEnds`, `Settles`, `CalmAnswered`, `SessionEnds`,
`Announced` and `CommandEnds`. Every other property of a passing run is a theorem.

## 5. Not modelled, and the plan

Not modelled: `print_list`, which only prints; a file of length 0; buffers read
past their end; the listing of interfaces (`get_ifi_info_plus.c`, `get_hw_addrs.c`),
which only asks the kernel and whose result `Subnet`, `Arp` and `Odr` take as a
constant; the reading of the configuration files; `client.c`, `server.c` and
`dg_send_recv.c`, which the transfer does not use; the local directory of an FTP
client, which no other process sees.

The plan is carried out: every component is modelled as far as the above, and
every safety property is both checked and proved. A reader who extends the model
should begin with the file of length 0 and the reading of the configuration.
