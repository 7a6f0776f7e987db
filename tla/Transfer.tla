------------------------------ MODULE Transfer ------------------------------
(***************************************************************************)
(* One file transfer of the reliable-UDP pair: the forked server child     *)
(* (udpserv.c, the loop of mydg_echo), the client's main thread (udpcli.c, *)
(* dg_cli1), its consumer thread (print_data2) and the datagrams between   *)
(* them.                                                                   *)
(*                                                                         *)
(* A control point is a place where another thread's write can matter: the *)
(* main thread reads last_seg_acked and num_seg_in_buf without the mutex,  *)
(* so every such read is a step of its own, and the consumer's update of   *)
(* the two is two steps.  The server is single-threaded; one pass of its   *)
(* send loop is a step.                                                    *)
(***************************************************************************)
EXTENDS Integers, Sequences, FiniteSets, Congestion

CONSTANTS NumSegs,    \* segments of the requested file
          MaxWindow,  \* client.in: the client's receive window
          MaxBuffer,  \* server.in: maxBufferSize
          MaxRexmt,   \* RTT_MAXNREXMT (12 in the code)
          MaxCwnd,    \* bound: a request that would push cwnd past it is late
          MaxToServer, \* bound: requests in flight, more are lost
          MaxToClient, \* bound: segments in flight, more are lost
          Duplicates  \* whether the network may deliver a datagram again

ASSUME TransferAssumption ==
  /\ NumSegs \in Nat \ {0}
  /\ MaxWindow \in Nat \ {0}
  /\ MaxBuffer \in Nat \ {0}
  /\ MaxRexmt \in Nat \ {0}
  /\ MaxCwnd \in Nat \ {0}
  /\ MaxToServer \in Nat /\ MaxToClient \in Nat
  /\ Duplicates \in BOOLEAN

VARIABLES
  \* The server child.
  fileExists,   \* file_exists: fopen succeeded
  spc,          \* "select", "send", "done" (exit 0), "failed" (exit 1, err_sys)
  sendWin,      \* the list behind send_base: numbers of the buffered segments
  sAcked,       \* its last_seg_acked, also the counter of the send loop
  segToSend,    \* seg_to_send
  recvRwnd,     \* recv_rwnd, 0 outside the send loop
  conse,        \* conse_packet_drop
  cc,           \* congestion state
  \* Datagrams in flight.
  toServer, toClient,
  \* The client's main thread.
  cpc,
  ackNum,       \* request_seg.ack_num, 0 once the request was handed to Send
  initRwnd,     \* request_seg.rwnd, then the reads left in this round
  seg,          \* the segment between the unlocked test and the next read
  complete,     \* receive_complete
  \* Shared by the client's two threads.
  lastAcked,    \* last_seg_acked
  numInBuf,     \* num_seg_in_buf
  recvBuf,      \* the list behind recv_base
  lastInTransfer,
  freed,        \* free(recv_base) was called
  \* The consumer thread.
  tpc, output

serverVars == <<fileExists, spc, sendWin, sAcked, segToSend, recvRwnd, conse, cc>>
mainVars == <<cpc, ackNum, initRwnd, seg, complete, lastInTransfer, freed>>
sharedVars == <<lastAcked, numInBuf, recvBuf>>
threadVars == <<tpc, output>>
clientVars == <<mainVars, sharedVars, threadVars>>
vars == <<serverVars, toServer, toClient, clientVars>>

-----------------------------------------------------------------------------
(* Segments.  A sequence number of -1 stands for the pair sequence_num = -1,
   ack_num = -1 of the "file not found" answer.  data is the file chunk in
   the payload, 0 when the payload is all zeros; the client exits on a
   not-found answer before it looks at the payload. *)

NotFound == -1

\* The segment the send loop builds for number s, and stores in its window.
DataSegment(s) ==
  [seq |-> s, data |-> s, eof |-> (s = NumSegs), probe |-> FALSE,
   resent |-> FALSE, lastInIter |-> FALSE]

\* What is sent when the timer goes off on an empty window.
DummySegment(s) ==
  [seq |-> s, data |-> 0, eof |-> FALSE, probe |-> FALSE,
   resent |-> TRUE, lastInIter |-> FALSE]

NoSegment == DummySegment(0)

\* Mutant: acknowledges one segment too many.
MutRequest(ack, rwnd, isComplete) ==
  [ack |-> ack + 1, rwnd |-> rwnd, complete |-> isComplete]

Request(ack, rwnd, isComplete) ==
  [ack |-> ack, rwnd |-> rwnd, complete |-> isComplete]

\* A datagram put on the wire, or lost there when the wire is full.
Sent(net, m, max) == IF Cardinality(net) < max THEN net \cup {m} ELSE net

\* UDP delivers in any order.  With Duplicates a datagram stays in flight, so
\* that it is delivered any number of times or, when lost, never; without, it
\* is consumed, and loss is a step of the network.
AfterDelivery(net, m) == IF Duplicates THEN net ELSE net \ {m}

Init ==
  /\ fileExists \in BOOLEAN
  /\ spc = "select"
  /\ sendWin = <<>> /\ sAcked = 0 /\ segToSend = 0 /\ recvRwnd = 0
  /\ conse = 0 /\ cc = InitCongestion
  /\ toServer = {} /\ toClient = {}
  /\ cpc = "ack" /\ ackNum = 0 /\ initRwnd = 0 /\ seg = NoSegment
  /\ complete = FALSE /\ lastInTransfer = -1 /\ freed = FALSE
  /\ lastAcked = 0 /\ numInBuf = 0 /\ recvBuf = {}
  /\ tpc = "wait" /\ output = <<>>

-----------------------------------------------------------------------------
(* The server child. *)

\* exit() or err_sys: the child's memory is gone, and although the parent
\* still holds the connection socket open, nobody reads it any more.
ServerExit(status) ==
  /\ spc' = status
  /\ sendWin' = <<>> /\ sAcked' = 0 /\ segToSend' = 0 /\ recvRwnd' = 0
  /\ conse' = 0 /\ cc' = InitCongestion
  /\ toServer' = {}

\* The loop's first test: too many consecutive timeouts.
ServerGiveUp ==
  /\ spc = "select" /\ conse = MaxRexmt
  /\ ServerExit("failed")
  /\ UNCHANGED <<fileExists, toClient, clientVars>>

\* RTO * 2^conse does not fit an int (see module Rto): select gets a negative
\* timeout and err_sys ends the child.  It happens in the last two rounds.
ServerSelectError ==
  /\ spc = "select" /\ conse < MaxRexmt /\ conse >= MaxRexmt - 2 /\ conse > 0
  /\ ServerExit("failed")
  /\ UNCHANGED <<fileExists, toClient, clientVars>>

\* Mutant: the dummy takes the next number.
MutDummyAhead ==
  IF sendWin # <<>> THEN [DataSegment(Head(sendWin)) EXCEPT !.resent = TRUE]
                    ELSE DummySegment(sAcked + 1)

\* The segment resent when the timer goes off.
ResentSegment ==
  IF sendWin # <<>> THEN [DataSegment(Head(sendWin)) EXCEPT !.resent = TRUE]
                    ELSE DummySegment(sAcked)

\* Mutant: consecutive timeouts are not counted.
MutUncountedTimeout ==
  /\ spc = "select" /\ conse < MaxRexmt
  /\ cc' = OnTimeout(cc)
  /\ toClient' = Sent(toClient, ResentSegment, MaxToClient)
  /\ UNCHANGED <<fileExists, spc, sendWin, sAcked, segToSend, recvRwnd, conse,
                 toServer, clientVars>>

\* select returned 0.
ServerTimeout ==
  /\ spc = "select" /\ conse < MaxRexmt
  /\ conse' = conse + 1
  /\ cc' = OnTimeout(cc)
  /\ toClient' = Sent(toClient, ResentSegment, MaxToClient)
  /\ UNCHANGED <<fileExists, spc, sendWin, sAcked, segToSend, recvRwnd,
                 toServer, clientVars>>

\* Mutant: one node too many.
MutPopNext(win, a) ==
  IF \E i \in 1..Len(win) : win[i] > a + 1
    THEN LET first == CHOOSE i \in 1..Len(win) :
                        /\ win[i] > a + 1
                        /\ \A j \in 1..(i - 1) : win[j] <= a + 1
         IN  SubSeq(win, first, Len(win))
    ELSE <<>>

\* Drop the nodes at the front of the list up to the first one above a.
PopAcked(win, a) ==
  IF \E i \in 1..Len(win) : win[i] > a
    THEN LET first == CHOOSE i \in 1..Len(win) :
                        /\ win[i] > a
                        /\ \A j \in 1..(i - 1) : win[j] <= a
         IN  SubSeq(win, first, Len(win))
    ELSE <<>>

Smaller(a, b) == IF a < b THEN a ELSE b

\* A request arrives: congestion window, sliding window, size of the burst.
ServerReceive(m) ==
  LET c == get_cwnd(cc, m.ack)
      win == PopAcked(sendWin, m.ack - 1)
  IN /\ spc = "select" /\ conse < MaxRexmt
     /\ c.cwnd <= MaxCwnd
     /\ ~m.complete
     /\ toServer' = AfterDelivery(toServer, m)
     /\ conse' = 0
     /\ cc' = [c EXCEPT !.prev = m.ack]
     /\ sAcked' = m.ack - 1
     /\ sendWin' = win
     /\ recvRwnd' = m.rwnd
     /\ segToSend' = Smaller(Smaller(m.rwnd, c.cwnd), MaxBuffer - Len(win))
     /\ spc' = "send"
     /\ UNCHANGED <<fileExists, toClient, clientVars>>

\* The client has printed everything: leave the loop and exit(0).
ServerReceiveComplete(m) ==
  /\ spc = "select" /\ conse < MaxRexmt
  /\ m.complete
  /\ ServerExit("done")
  /\ UNCHANGED <<fileExists, toClient, clientVars>>

\* The send loop's exits: nothing left to send, the last segment, a probe.
EndBurst == spc' = "select" /\ segToSend' = 0 /\ recvRwnd' = 0

ServerSendDone ==
  /\ spc = "send" /\ segToSend = 0
  /\ EndBurst
  /\ UNCHANGED <<fileExists, sendWin, sAcked, conse, cc, toServer, toClient,
                 clientVars>>

\* The segment built by one pass of the send loop; a missing file is answered
\* with NotFound.
BurstNumber == IF fileExists THEN sAcked + 1 ELSE NotFound

\* Mutant: the EOF bit one segment late.
MutLateEof ==
  [seq |-> BurstNumber, data |-> BurstNumber,
   eof |-> (BurstNumber = NumSegs + 1), probe |-> (recvRwnd = 0),
   resent |-> FALSE, lastInIter |-> (segToSend = 0)]

BurstSegment ==
  [seq |-> BurstNumber, data |-> BurstNumber, eof |-> (BurstNumber = NumSegs),
   probe |-> (recvRwnd = 0), resent |-> FALSE, lastInIter |-> (segToSend = 0)]

ServerSend ==
  LET s == BurstSegment
  IN /\ spc = "send" /\ segToSend > 0
     /\ sAcked' = sAcked + 1
     /\ sendWin' = IF \E i \in 1..Len(sendWin) : sendWin[i] = s.seq
                     THEN sendWin ELSE Append(sendWin, s.seq)
     /\ toClient' = Sent(toClient, s, MaxToClient)
     /\ IF s.eof \/ s.probe THEN EndBurst
        ELSE segToSend' = segToSend - 1 /\ UNCHANGED <<spc, recvRwnd>>
     /\ UNCHANGED <<fileExists, conse, cc, toServer, clientVars>>

-----------------------------------------------------------------------------
(* The client's main thread. *)

\* Mutant: the end of the file was seen, not printed.
MutEofSeen == lastInTransfer # -1

AllPrinted == lastInTransfer = lastAcked

\* request_seg.ack_num = last_seg_acked + 1, read without the mutex.
ReadAck ==
  /\ cpc = "ack"
  /\ ackNum' = lastAcked + 1
  /\ cpc' = "rwnd"
  /\ UNCHANGED <<initRwnd, seg, complete, lastInTransfer, freed, sharedVars,
                 threadVars, serverVars, toServer, toClient>>

\* request_seg.rwnd = max_window_size - num_seg_in_buf, also without it.
ReadRwnd ==
  /\ cpc = "rwnd"
  /\ initRwnd' = MaxWindow - numInBuf
  /\ cpc' = "send"
  /\ UNCHANGED <<ackNum, seg, complete, lastInTransfer, freed, sharedVars,
                 threadVars, serverVars, toServer, toClient>>

\* The test for the end of the transfer, then the send or the simulated loss.
SendRequest ==
  LET m == Request(IF AllPrinted THEN lastInTransfer ELSE ackNum,
                   initRwnd, AllPrinted)
  IN /\ cpc = "send"
     /\ complete' = AllPrinted
     /\ toServer' \in {toServer, Sent(toServer, m, MaxToServer)}
     \* A window of 0 waits for one datagram, any other for one per slot.
     /\ initRwnd' = IF initRwnd = 0 THEN 1 ELSE initRwnd
     /\ ackNum' = 0
     /\ cpc' = "listen"
     /\ UNCHANGED <<seg, lastInTransfer, freed, sharedVars, threadVars,
                    serverVars, toClient>>

\* The head of the receive loop; leaving it goes back to the outer loop,
\* which is left, freeing the list, once the completion was announced.
Listen ==
  /\ cpc = "listen"
  /\ IF initRwnd > 0 /\ ~AllPrinted
       THEN cpc' = "read" /\ UNCHANGED <<initRwnd, freed>>
       ELSE /\ initRwnd' = 0
            /\ IF complete THEN cpc' = "join" /\ freed' = TRUE
                           ELSE cpc' = "ack" /\ UNCHANGED freed
  /\ UNCHANGED <<ackNum, seg, complete, lastInTransfer, sharedVars, threadVars,
                 serverVars, toServer, toClient>>

\* A datagram is read and dropped by the simulated loss.
ReceiveDrop(m) ==
  /\ cpc = "read"
  /\ toClient' = AfterDelivery(toClient, m)
  /\ initRwnd' = initRwnd - 1
  /\ cpc' = "listen"
  /\ UNCHANGED <<ackNum, seg, complete, lastInTransfer, freed, sharedVars,
                 threadVars, serverVars, toServer>>

\* A datagram is read: the not-found answer ends the process, a probe ends
\* the round, and the test against last_seg_acked is made without the mutex.
Receive(m) ==
  /\ cpc = "read"
  /\ toClient' = AfterDelivery(toClient, m)
  /\ \/ /\ m.seq = NotFound
        /\ cpc' = "notfound"
        /\ UNCHANGED <<seg, initRwnd>>
     \/ /\ m.seq # NotFound /\ m.probe
        /\ cpc' = "listen" /\ initRwnd' = 0
        /\ UNCHANGED seg
     \/ /\ m.seq # NotFound /\ ~m.probe
        /\ seg' = m
        /\ cpc' = IF m.seq > lastAcked THEN "insert" ELSE "post"
        /\ UNCHANGED initRwnd
  /\ UNCHANGED <<ackNum, complete, lastInTransfer, freed, sharedVars,
                 threadVars, serverVars, toServer>>

\* The consumer holds the mutex from waking up to the end of its pass.
MutexFree == tpc \notin {"drain", "count"}

\* Mutant: a segment already in the list is counted again.
MutCountDuplicates ==
  /\ cpc = "insert" /\ MutexFree
  /\ IF numInBuf < MaxWindow
       THEN /\ recvBuf' = recvBuf \cup {[seq |-> seg.seq, data |-> seg.data]}
            /\ numInBuf' = numInBuf + 1
       ELSE UNCHANGED <<recvBuf, numInBuf>>
  /\ cpc' = "post"
  /\ UNCHANGED <<ackNum, initRwnd, seg, complete, lastInTransfer, freed,
                 lastAcked, threadVars, serverVars, toServer, toClient>>

\* The ordered insertion under the mutex.  The list is kept as the set of its
\* nodes: it is sorted, so its head is the least, and a number occurs once.
Insert ==
  /\ cpc = "insert" /\ MutexFree
  /\ IF numInBuf < MaxWindow /\ \A e \in recvBuf : e.seq # seg.seq
       THEN /\ recvBuf' = recvBuf \cup {[seq |-> seg.seq, data |-> seg.data]}
            /\ numInBuf' = numInBuf + 1
       ELSE UNCHANGED <<recvBuf, numInBuf>>
  /\ cpc' = "post"
  /\ UNCHANGED <<ackNum, initRwnd, seg, complete, lastInTransfer, freed,
                 lastAcked, threadVars, serverVars, toServer, toClient>>

\* After the insertion: end of file, retransmission and end of burst leave
\* the receive loop, anything else counts against the advertised window.
PostReceive ==
  /\ cpc = "post"
  /\ lastInTransfer' = IF seg.eof THEN seg.seq ELSE lastInTransfer
  /\ initRwnd' = IF seg.eof \/ seg.resent \/ seg.lastInIter
                   THEN 0 ELSE initRwnd - 1
  /\ seg' = NoSegment
  /\ cpc' = "listen"
  /\ UNCHANGED <<ackNum, complete, freed, sharedVars, threadVars, serverVars,
                 toServer, toClient>>

\* pthread_join, then the 15 second TIME_WAIT.
Join ==
  /\ cpc = "join" /\ tpc = "done"
  /\ cpc' = "timewait"
  /\ UNCHANGED <<ackNum, initRwnd, seg, complete, lastInTransfer, freed,
                 sharedVars, threadVars, serverVars, toServer, toClient>>

TimeWaitReply(m) ==
  /\ cpc = "timewait"
  /\ toClient' = AfterDelivery(toClient, m)
  /\ toServer' \in {toServer, Sent(toServer,
         Request(IF AllPrinted THEN lastInTransfer ELSE lastAcked + 1,
                 MaxWindow - numInBuf, AllPrinted), MaxToServer)}
  /\ UNCHANGED <<clientVars, serverVars>>

\* SIGALRM interrupts the read and the socket is closed.
TimeWaitAlarm ==
  /\ cpc = "timewait"
  /\ cpc' = "closed"
  /\ UNCHANGED <<ackNum, initRwnd, seg, complete, lastInTransfer, freed,
                 sharedVars, threadVars, serverVars, toServer, toClient>>

-----------------------------------------------------------------------------
(* The consumer thread.  exit() of the main thread ends it too. *)

ProcessAlive == cpc # "notfound"

\* pthread_cond_timedwait returns with the mutex.
WakeUp ==
  /\ tpc = "wait" /\ ProcessAlive
  /\ tpc' = "drain"
  /\ UNCHANGED <<output, mainVars, sharedVars, serverVars, toServer, toClient>>

ListHead == CHOOSE e \in recvBuf : \A f \in recvBuf : e.seq <= f.seq
\* Mutant: whatever is at the head is printed.
MutAnyHead == recvBuf # {}

HeadIsNext == recvBuf # {} /\ ListHead.seq = lastAcked + 1

\* The head is the next segment: unlink it, print it, advance last_seg_acked.
PrintHead ==
  /\ tpc = "drain" /\ ProcessAlive
  /\ HeadIsNext
  /\ recvBuf' = recvBuf \ {ListHead}
  /\ output' = Append(output, ListHead.data)
  /\ lastAcked' = ListHead.seq
  /\ tpc' = "count"
  /\ UNCHANGED <<numInBuf, mainVars, serverVars, toServer, toClient>>

\* ... and only then count it out.
CountOut ==
  /\ tpc = "count" /\ ProcessAlive
  /\ numInBuf' = numInBuf - 1
  /\ tpc' = "drain"
  /\ UNCHANGED <<output, lastAcked, recvBuf, mainVars, serverVars, toServer,
                 toClient>>

\* The pass ends: release the mutex.
Release ==
  /\ tpc = "drain" /\ ProcessAlive
  /\ ~HeadIsNext
  /\ tpc' = "check"
  /\ UNCHANGED <<output, mainVars, sharedVars, serverVars, toServer, toClient>>

\* Mutant: the thread goes on waiting after the last segment.
MutCheckForever ==
  /\ tpc = "check" /\ ProcessAlive
  /\ tpc' = "wait"
  /\ UNCHANGED <<output, mainVars, sharedVars, serverVars, toServer, toClient>>

\* The thread ends when the last segment was printed.
CheckEnd ==
  /\ tpc = "check" /\ ProcessAlive
  /\ tpc' = IF AllPrinted THEN "done" ELSE "wait"
  /\ UNCHANGED <<output, mainVars, sharedVars, serverVars, toServer, toClient>>

-----------------------------------------------------------------------------
(* The network loses a datagram. *)
LoseRequest(m) ==
  /\ ~Duplicates
  /\ toServer' = toServer \ {m}
  /\ UNCHANGED <<toClient, clientVars, serverVars>>

LoseSegment(m) ==
  /\ ~Duplicates
  /\ toClient' = toClient \ {m}
  /\ UNCHANGED <<toServer, clientVars, serverVars>>

Server ==
  \/ ServerGiveUp \/ ServerSelectError \/ ServerTimeout
  \/ ServerSend \/ ServerSendDone
  \/ \E m \in toServer : ServerReceive(m) \/ ServerReceiveComplete(m)

ClientMain ==
  \/ ReadAck \/ ReadRwnd \/ SendRequest \/ Listen
  \/ Insert \/ PostReceive \/ Join \/ TimeWaitAlarm
  \/ \E m \in toClient : ReceiveDrop(m) \/ Receive(m) \/ TimeWaitReply(m)

Consumer == WakeUp \/ PrintHead \/ CountOut \/ Release \/ CheckEnd

Network ==
  \/ \E m \in toServer : LoseRequest(m)
  \/ \E m \in toClient : LoseSegment(m)

Next == Server \/ ClientMain \/ Consumer \/ Network

Spec == Init /\ [][Next]_vars

\* Fairness.  Processes and threads are scheduled, sleeps and timers end (weak
\* fairness).  The consumer sleeps between two passes, so a thread waiting for
\* the mutex gets it; the network and the simulated loss, whose probability is
\* below 1, do not swallow everything for ever (strong fairness).
ServerLocal ==
  ServerGiveUp \/ ServerTimeout \/ ServerSend \/ ServerSendDone
MainLocal ==
  ReadAck \/ ReadRwnd \/ SendRequest \/ Listen \/ PostReceive \/ Join
    \/ TimeWaitAlarm

Fairness ==
  /\ WF_vars(ServerLocal)
  /\ WF_vars(MainLocal)
  /\ WF_vars(Consumer)
  /\ SF_vars(Insert)
  /\ SF_vars(SendRequest /\ toServer' # toServer)
  /\ SF_vars(\E m \in toServer : ServerReceive(m) \/ ServerReceiveComplete(m))
  /\ SF_vars(\E m \in toClient : Receive(m))

FairSpec == Spec /\ Fairness

-----------------------------------------------------------------------------
(* Properties. *)

SegmentNumbers == {NotFound} \cup (0..NumSegs)

\* Segments the server can put on the wire: chunks of the file, the not-found
\* answer and dummies.
Segments ==
  [seq : SegmentNumbers, data : SegmentNumbers, eof : BOOLEAN,
   probe : BOOLEAN, resent : BOOLEAN, lastInIter : BOOLEAN]

Requests == [ack : 1..NumSegs, rwnd : 0..MaxWindow, complete : BOOLEAN]

\* Types.  They already say that the server never numbers a segment past the
\* end of the file and that no acknowledgement or window leaves its range.
TypeOK ==
  /\ fileExists \in BOOLEAN
  /\ spc \in {"select", "send", "done", "failed"}
  /\ sendWin \in Seq(SegmentNumbers)
  /\ sAcked \in Nat /\ segToSend \in Nat /\ recvRwnd \in 0..MaxWindow
  /\ conse \in 0..MaxRexmt
  /\ cc \in Congestion
  /\ toServer \in SUBSET Requests
  /\ toClient \in SUBSET Segments
  /\ cpc \in {"ack", "rwnd", "send", "listen", "read", "insert", "post",
              "join", "timewait", "closed", "notfound"}
  /\ ackNum \in 0..(NumSegs + 1) /\ initRwnd \in 0..MaxWindow
  /\ seg \in Segments
  /\ complete \in BOOLEAN /\ freed \in BOOLEAN
  /\ lastAcked \in 0..NumSegs /\ numInBuf \in 0..MaxWindow
  /\ recvBuf \in SUBSET [seq : 1..NumSegs, data : 1..NumSegs]
  /\ lastInTransfer \in {-1, NumSegs}
  /\ tpc \in {"wait", "drain", "count", "check", "done"}
  /\ output \in Seq(1..NumSegs)

\* What the transfer is for: the consumer prints the chunks of the file, in
\* order, none missing, none twice, and never the payload of a dummy segment
\* (print_data2 against DataSegment and the timeout branch).
InOrderOutput ==
  /\ Len(output) = lastAcked
  /\ \A i \in 1..Len(output) : output[i] = i

\* The unlocked counter: num_seg_in_buf counts the nodes of the receive list
\* but for the one the consumer has unlinked and not yet counted out, so the
\* advertised window never exceeds the free slots.
CounterMatchesList ==
  numInBuf = Cardinality(recvBuf) + (IF tpc = "count" THEN 1 ELSE 0)

\* Flow control: no segment in flight or buffered lies beyond the receive
\* window, although a request may carry an acknowledgement and a window that
\* were read at different times.
WithinReceiveWindow ==
  /\ \A m \in toClient : m.seq <= lastAcked + MaxWindow
  /\ \A e \in recvBuf : e.seq <= lastAcked + MaxWindow

\* Segments at or below last_seg_acked in the list (mid-drain excepted,
\* last_seg_acked moves after the unlink).
Stale == \E e \in recvBuf : e.seq <= lastAcked

\* A full receive list can always be drained: it holds the next segment in
\* order, so the window reopens without any datagram from the server.
FullBufferDrains ==
  Cardinality(recvBuf) = MaxWindow /\ ~Stale
    => \E e \in recvBuf : e.seq = lastAcked + 1

\* README: "a timer is used to guard the first unACKed outgoing segment".
\* Reordered requests move the server's last_seg_acked backwards and put old
\* numbers at the end of its list; the head it resends is still never beyond
\* the segment the client waits for.
TimerGuardsFirstUnacked ==
  sendWin # <<>> => Head(sendWin) <= lastAcked + 1

\* The send list respects maxBufferSize and the congestion variables keep
\* their meaning, whatever the order in which requests arrive.
SenderBounds ==
  /\ Len(sendWin) <= MaxBuffer
  /\ CongestionOK(cc)

\* The server child reports success only for a file that was printed whole.
DoneMeansPrinted ==
  spc = "done" => Len(output) = NumSegs

-----------------------------------------------------------------------------
(* The inductive strengthening of the safety properties. *)

\* A segment on the wire is the not-found answer, a dummy the client has
\* passed already, or a chunk of the file inside the receive window.
WireOK(m) ==
  \/ m.seq = NotFound /\ ~fileExists
  \/ m.data = 0 /\ m.seq \in 0..lastAcked /\ m.seq < NumSegs /\ ~m.eof
  \/ /\ fileExists
     /\ m.seq \in 1..NumSegs /\ m.data = m.seq
     /\ m.seq <= lastAcked + MaxWindow
     /\ m.eof <=> (m.seq = NumSegs)

SegmentsOK ==
  /\ \A m \in toClient : WireOK(m)
  /\ cpc \in {"insert", "post"} => WireOK(seg) /\ seg.seq # NotFound
  /\ cpc = "insert" => seg.data # 0

RequestsOK ==
  /\ \A m \in toServer : /\ m.ack <= lastAcked + 1
                         /\ m.complete => lastAcked = NumSegs
  /\ cpc \in {"rwnd", "send"} => ackNum \in 1..(lastAcked + 1)

\* The main thread's control points.
MainOK ==
  /\ cpc \in {"read", "insert", "post"} => initRwnd >= 1
  /\ cpc \in {"join", "timewait", "closed"} => complete
  /\ complete => lastInTransfer = NumSegs /\ lastAcked = NumSegs

\* The last segment is never buffered or printed before its EOF bit is seen.
EofKnown ==
  (lastAcked = NumSegs \/ \E e \in recvBuf : e.seq = NumSegs)
    => lastInTransfer = NumSegs \/ (cpc = "post" /\ seg.eof)

ListOK ==
  /\ IsFiniteSet(recvBuf)
  /\ CounterMatchesList
  /\ \A e \in recvBuf : e.data = e.seq /\ e.seq <= lastAcked + MaxWindow

BurstOK ==
  /\ sendWin = <<>> => sAcked <= lastAcked /\ sAcked < NumSegs
  /\ spc = "send" =>
       /\ sAcked + segToSend <= lastAcked + MaxWindow
       /\ Len(sendWin) + segToSend <= MaxBuffer
       /\ segToSend > 0 => recvRwnd > 0
       /\ fileExists => sAcked < NumSegs

WindowOK ==
  \A i \in 1..Len(sendWin) :
    \/ ~fileExists /\ sendWin[i] = NotFound
    \/ /\ fileExists
       /\ sendWin[i] \in 1..NumSegs /\ sendWin[i] <= lastAcked + MaxWindow

\* Data is buffered or printed only from a file that exists, and only a
\* missing one is reported missing.
FileKnown ==
  /\ recvBuf # {} \/ lastAcked > 0 => fileExists
  /\ cpc = "notfound" => ~fileExists

\* In list win, every number above low and below an entry comes before it.
OrderedAbove(win, low) ==
  \A i \in 1..Len(win) : \A y \in (low + 1)..(win[i] - 1) :
    \E j \in 1..(i - 1) : win[j] = y

\* Whatever the client still needs below a buffered segment is buffered
\* before it.
WindowOrder ==
  /\ OrderedAbove(sendWin, lastAcked)
  /\ spc = "send" /\ fileExists =>
       \A y \in (lastAcked + 1)..sAcked :
         \E j \in 1..Len(sendWin) : sendWin[j] = y

IInv ==
  /\ TypeOK /\ InOrderOutput /\ SegmentsOK /\ RequestsOK /\ MainOK
  /\ EofKnown /\ ListOK /\ BurstOK /\ WindowOK /\ FileKnown /\ WindowOrder
  /\ SenderBounds /\ DoneMeansPrinted

-----------------------------------------------------------------------------
(* The abstract specification. *)

Delivery == INSTANCE FileDelivery WITH
  NumChunks <- NumSegs,
  exists <- fileExists,
  printed <- output,
  sender <- IF spc \in {"select", "send"} THEN "sending" ELSE spc,
  receiver <- IF cpc \in {"closed", "notfound"} THEN cpc ELSE "receiving"

\* The datagrams, windows, threads and timers of a transfer implement the
\* delivery of the file: print_data2 prints it, the child's exit(0) and the
\* client's close come after the whole of it, exit(2) only for a missing one.
DeliversFile == Delivery!Spec

-----------------------------------------------------------------------------
(* What the comments and the README say and the code does not do. *)

\* udpcli.c: "if we have already ack this segment, just ignore it".  The test
\* is made before the mutex is taken, so a segment that is acknowledged in
\* between is inserted all the same.
StaleIgnored == ~Stale

-----------------------------------------------------------------------------
\* Liveness.  The server child ends, with success or by giving up, unless the
\* client's list holds a stale segment (the race of the unlocked test).
ServerEnds == <>(spc \in {"done", "failed"} \/ Stale)

\* The client ends, unless the server gave up on it or its list is stuck.
ClientEnds == <>(cpc \in {"closed", "notfound"} \/ spc = "failed" \/ Stale)
=============================================================================
