--------------------------- MODULE TransferProof ---------------------------
(***************************************************************************)
(* IInv of module Transfer is inductive, for every file length, window,    *)
(* buffer size and retry limit, over a network that reorders and loses     *)
(* and, with Duplicates, repeats datagrams.  The safety properties follow. *)
(***************************************************************************)
EXTENDS Transfer, SequenceTheorems, FiniteSetTheorems, WellFoundedInduction, TLAPS

-----------------------------------------------------------------------------
(* Congestion control: every operation keeps its state sound: the window   *)
(* and the threshold stay at least 1 and three duplicates are counted      *)
(* exactly in fast recovery.                                               *)

\* Halving a window as the code does never yields 0.
LEMMA HalfOrOnePositive ==
  ASSUME NEW n \in Nat
  PROVE  HalfOrOne(n) \in Nat /\ HalfOrOne(n) >= 1
BY DEF HalfOrOne

\* A changed window keeps the type of the congestion state.
LEMMA ResizeType ==
  ASSUME NEW c \in Congestion, NEW w \in Nat
  PROVE  [c EXCEPT !.cwnd = w, !.dup = 0] \in Congestion
BY DEF Congestion

\* ... and so does a change of state with it.
LEMMA ResizeStateType ==
  ASSUME NEW c \in Congestion, NEW w \in Nat,
         NEW st \in {SlowStart, Avoidance, FastRecovery}
  PROVE  [c EXCEPT !.cwnd = w, !.state = st, !.dup = 0] \in Congestion
BY DEF Congestion

\* get_cwnd keeps the congestion state sound for every acknowledgement
\* number, old or new.
LEMMA GetCwndOK ==
  ASSUME NEW c, CongestionOK(c), NEW arrive \in Int
  PROVE  CongestionOK(get_cwnd(c, arrive))
<1> DEFINE half == HalfOrOne(c.cwnd)
<1>0. /\ c \in Congestion /\ c.cwnd \in Nat /\ c.cwnd >= 1
      /\ c.ssthresh \in Nat /\ c.ssthresh >= 1 /\ c.dup \in 0..3
      /\ c.state \in {SlowStart, Avoidance, FastRecovery}
      /\ c.state = FastRecovery <=> c.dup = 3
      /\ half \in Nat /\ half >= 1
  BY HalfOrOnePositive DEF CongestionOK, Congestion
<1>9. c \in Congestion
  BY <1>0
<1> HIDE DEF half
<1>1. CASE c.prev = arrive /\ c.state = FastRecovery
  <2> DEFINE n == [c EXCEPT !.cwnd = c.cwnd + 1]
  <2>1. get_cwnd(c, arrive) = n
    BY <1>1 DEF get_cwnd, SlowStart, Avoidance, FastRecovery
  <2>2. n \in Congestion
    BY <1>0, <1>1 DEF Congestion, SlowStart, Avoidance, FastRecovery
  <2>3. n.cwnd = c.cwnd + 1 /\ n.ssthresh = c.ssthresh /\ n.dup = c.dup /\ n.state = c.state
    BY <1>0, <1>1 DEF Congestion, CongestionOK
  <2> QED BY <1>0, <1>1, <2>1, <2>2, <2>3 DEF CongestionOK, SlowStart, Avoidance, FastRecovery
<1>2. CASE c.prev = arrive /\ c.state # FastRecovery /\ c.dup + 1 = 3
  <2> DEFINE n == [c EXCEPT !.dup = 3, !.state = FastRecovery,
                            !.ssthresh = half, !.cwnd = half]
  <2>1. get_cwnd(c, arrive) = n
    BY <1>2 DEF get_cwnd, CountDup, half
  <2>2. n \in Congestion
    BY <1>0 DEF Congestion
  <2>3. n.cwnd = half /\ n.ssthresh = half /\ n.dup = 3 /\ n.state = FastRecovery
    BY <1>0 DEF Congestion
  <2> QED BY <1>0, <2>1, <2>2, <2>3 DEF CongestionOK
<1>3. CASE c.prev = arrive /\ c.state # FastRecovery /\ c.dup + 1 # 3
  <2> DEFINE n == [c EXCEPT !.dup = c.dup + 1]
  <2>1. get_cwnd(c, arrive) = n
    BY <1>3 DEF get_cwnd, CountDup
  <2>2. n \in Congestion
    BY <1>0 DEF Congestion
  <2>3. n.cwnd = c.cwnd /\ n.ssthresh = c.ssthresh /\ n.dup = c.dup + 1
        /\ n.state = c.state
    BY <1>0 DEF Congestion
  <2> QED BY <1>0, <1>3, <2>1, <2>2, <2>3 DEF CongestionOK
<1>4. CASE c.prev # arrive /\ c.state = SlowStart
  <2> DEFINE n == NewAckSlowStart(c)
  <2>1. get_cwnd(c, arrive) = n
    BY <1>4 DEF get_cwnd, SlowStart, Avoidance, FastRecovery
  <2>2. CASE c.cwnd * 2 >= c.ssthresh
    <3>1. n = [c EXCEPT !.cwnd = c.ssthresh, !.state = Avoidance, !.dup = 0]
      BY <2>2 DEF NewAckSlowStart
    <3>2. n \in Congestion
      <4>1. c.ssthresh \in Nat /\ Avoidance \in {SlowStart, Avoidance, FastRecovery}
        BY <1>0
      <4> QED BY <1>9, <3>1, <4>1, ResizeStateType
    <3>3. n.cwnd = c.ssthresh /\ n.ssthresh = c.ssthresh /\ n.dup = 0
          /\ n.state = Avoidance
      BY <1>0, <3>1 DEF Congestion
    <3> QED BY <1>0, <2>1, <3>2, <3>3 DEF CongestionOK, Avoidance, FastRecovery
  <2>3. CASE ~(c.cwnd * 2 >= c.ssthresh)
    <3>1. n = [c EXCEPT !.cwnd = c.cwnd * 2, !.dup = 0]
      BY <2>3 DEF NewAckSlowStart
    <3>2. n \in Congestion
      <4>1. c.cwnd * 2 \in Nat
        BY <1>0
      <4> QED BY <1>9, <3>1, <4>1, ResizeType
    <3>3. n.cwnd = c.cwnd * 2 /\ n.ssthresh = c.ssthresh /\ n.dup = 0
          /\ n.state = c.state
      BY <1>0, <3>1 DEF Congestion
    <3> QED BY <1>0, <1>4, <2>1, <3>2, <3>3 DEF CongestionOK, SlowStart, FastRecovery
  <2> QED BY <2>2, <2>3
<1>5. CASE c.prev # arrive /\ c.state = Avoidance
  <2> DEFINE n == NewAckAvoidance(c)
  <2>1. get_cwnd(c, arrive) = n
    BY <1>5 DEF get_cwnd, SlowStart, Avoidance, FastRecovery
  <2>2. n \in Congestion
    <3>1. c.cwnd + 1 \in Nat
      BY <1>0
    <3> QED BY <1>9, <3>1, ResizeType DEF NewAckAvoidance
  <2>3. n.cwnd = c.cwnd + 1 /\ n.ssthresh = c.ssthresh /\ n.dup = 0 /\ n.state = c.state
    BY <1>0, <1>5 DEF Congestion, CongestionOK, NewAckAvoidance
  <2> QED BY <1>0, <1>5, <2>1, <2>2, <2>3 DEF CongestionOK, SlowStart, Avoidance, FastRecovery
<1>6. CASE c.prev # arrive /\ c.state = FastRecovery
  <2> DEFINE n == NewAckRecovery(c)
  <2>1. get_cwnd(c, arrive) = n
    BY <1>6 DEF get_cwnd, SlowStart, Avoidance, FastRecovery
  <2>2. n \in Congestion
    BY <1>0, <1>6 DEF Congestion, SlowStart, Avoidance, FastRecovery, NewAckRecovery
  <2>3. n.cwnd = c.ssthresh /\ n.ssthresh = c.ssthresh /\ n.dup = 0 /\ n.state = Avoidance
    BY <1>0, <1>6 DEF Congestion, CongestionOK, NewAckRecovery
  <2> QED BY <1>0, <1>6, <2>1, <2>2, <2>3 DEF CongestionOK, SlowStart, Avoidance, FastRecovery
<1> QED BY <1>0, <1>1, <1>2, <1>3, <1>4, <1>5, <1>6

\* Remembering the acknowledgement number keeps it sound.
LEMMA SetPrevOK ==
  ASSUME NEW c, CongestionOK(c), NEW arrive \in Int
  PROVE  CongestionOK([c EXCEPT !.prev = arrive])
BY DEF CongestionOK, Congestion

\* So does the timeout branch.
LEMMA OnTimeoutOK ==
  ASSUME NEW c, CongestionOK(c)
  PROVE  CongestionOK(OnTimeout(c))
<1> DEFINE half == HalfOrOne(c.cwnd)
           n == [c EXCEPT !.state = SlowStart, !.ssthresh = half,
                          !.cwnd = 1, !.dup = 0]
<1>1. c \in Congestion /\ half \in Nat /\ half >= 1
  BY HalfOrOnePositive DEF CongestionOK, Congestion
<1>2. OnTimeout(c) = n
  BY DEF OnTimeout
<1> HIDE DEF half
<1>3. n \in Congestion
  BY <1>1 DEF Congestion
<1>4. n.cwnd = 1 /\ n.ssthresh = half /\ n.dup = 0 /\ n.state = SlowStart
  BY <1>1 DEF Congestion
<1> QED BY <1>1, <1>2, <1>3, <1>4 DEF CongestionOK, SlowStart, FastRecovery

\* The initial values of the five variables are sound.
LEMMA InitCongestionOK == CongestionOK(InitCongestion)
BY DEF CongestionOK, InitCongestion, Congestion, SlowStart, Avoidance, FastRecovery

-----------------------------------------------------------------------------
(* Lists, the send window and the wire. *)

\* A non-empty set of naturals has a least element (the head of a sorted list,
\* the first unacknowledged node of the window).
LEMMA LeastNat ==
  ASSUME NEW T \in SUBSET Nat, T # {}
  PROVE  \E x \in T : \A y \in T : x <= y
<1>1. PICK x \in T : \A y \in T : ~ (<<y, x>> \in OpToRel(<, Nat))
  BY WFMin, NatLessThanWellFounded
<1>2. ASSUME NEW y \in T PROVE x <= y
  <2>1. x \in Nat /\ y \in Nat
    OBVIOUS
  <2>2. <<y, x>> \in OpToRel(<, Nat) <=> y < x
    BY <2>1 DEF OpToRel
  <2>3. ~(y < x)
    BY <1>1, <2>2
  <2> QED BY <2>1, <2>3
<1> QED BY <1>2

\* The loop that frees acknowledged nodes leaves a suffix of the list, and
\* everything it frees is acknowledged.
LEMMA PopAckedIsSuffix ==
  ASSUME NEW S \in SUBSET Int, NEW win \in Seq(S), NEW a \in Int
  PROVE  \E f \in 1..(Len(win) + 1) :
           /\ PopAcked(win, a) = SubSeq(win, f, Len(win))
           /\ \A j \in 1..(f - 1) : win[j] <= a
<1> DEFINE Big == {i \in 1..Len(win) : win[i] > a}
<1>0. Len(win) \in Nat /\ \A i \in 1..Len(win) : win[i] \in Int
  BY LenProperties, ElementOfSeq
<1>1. CASE Big = {}
  <2>1. PopAcked(win, a) = <<>>
    BY <1>1 DEF PopAcked
  <2>2. SubSeq(win, Len(win) + 1, Len(win)) = <<>>
    BY <1>0, SubSeqEmpty
  <2>3. Len(win) + 1 \in 1..(Len(win) + 1)
    BY <1>0
  <2> QED BY <1>0, <1>1, <2>1, <2>2, <2>3
<1>2. CASE Big # {}
  <2>1. Big \in SUBSET Nat
    BY <1>0
  <2>2. PICK x \in Big : \A y \in Big : x <= y
    BY <1>2, <2>1, LeastNat
  <2>3. \A j \in 1..(x - 1) : win[j] <= a
    BY <1>0, <2>2
  <2> DEFINE first == CHOOSE i \in 1..Len(win) :
                        win[i] > a /\ \A j \in 1..(i - 1) : win[j] <= a
  <2>4. first \in 1..Len(win) /\ \A j \in 1..(first - 1) : win[j] <= a
    BY <2>2, <2>3
  <2>5. PopAcked(win, a) = SubSeq(win, first, Len(win))
    BY <1>2 DEF PopAcked
  <2>6. first \in 1..(Len(win) + 1)
    BY <1>0, <2>4
  <2> HIDE DEF first
  <2> QED BY <2>4, <2>5, <2>6
<1> QED BY <1>1, <1>2

\* PopAckedIsSuffix, spelled out by index.
LEMMA PoppedWindow ==
  ASSUME NEW S \in SUBSET Int, NEW win \in Seq(S), NEW a \in Int
  PROVE  \E f \in 1..(Len(win) + 1) :
           /\ PopAcked(win, a) \in Seq(S)
           /\ Len(PopAcked(win, a)) = Len(win) - f + 1
           /\ \A i \in 1..Len(PopAcked(win, a)) : PopAcked(win, a)[i] = win[f + i - 1]
           /\ \A j \in 1..(f - 1) : win[j] <= a
<1> DEFINE pop == PopAcked(win, a)
<1>1. PICK f \in 1..(Len(win) + 1) :
        /\ pop = SubSeq(win, f, Len(win))
        /\ \A j \in 1..(f - 1) : win[j] <= a
  BY PopAckedIsSuffix
<1>2. /\ f \in Int /\ Len(win) \in Nat /\ Len(win) \in Int
      /\ \A i \in f..Len(win) : win[i] \in S
  BY LenProperties, ElementOfSeq
<1> HIDE DEF pop
<1>3. /\ pop \in Seq(S)
      /\ Len(pop) = IF f <= Len(win) THEN Len(win) - f + 1 ELSE 0
      /\ \A i \in 1..(Len(win) - f + 1) : pop[i] = win[f + i - 1]
  <2> HIDE <1>1
  <2>1. /\ SubSeq(win, f, Len(win)) \in Seq(S)
        /\ Len(SubSeq(win, f, Len(win))) =
             IF f <= Len(win) THEN Len(win) - f + 1 ELSE 0
        /\ \A i \in 1..(Len(win) - f + 1) :
             SubSeq(win, f, Len(win))[i] = win[f + i - 1]
    BY <1>2, SubSeqProperties, SMTT(30)
  <2> QED BY <1>1, <2>1
<1>4. Len(pop) = Len(win) - f + 1
  BY <1>2, <1>3
<1>5. /\ pop \in Seq(S) /\ Len(pop) = Len(win) - f + 1
      /\ \A i \in 1..Len(pop) : pop[i] = win[f + i - 1]
      /\ \A j \in 1..(f - 1) : win[j] <= a
  BY <1>1, <1>3, <1>4
<1> QED BY <1>5 DEF pop

\* pop is win without its first f - 1 entries, all of them at most a.
Suffix(pop, win, f, a) ==
  /\ Len(pop) = Len(win) - f + 1
  /\ \A i \in 1..Len(pop) : pop[i] = win[f + i - 1]
  /\ \A j \in 1..(f - 1) : win[j] <= a

\* Freeing acknowledged nodes keeps the order of the unacknowledged ones.
LEMMA PopKeepsOrder ==
  ASSUME NEW win \in Seq(Int), NEW pop \in Seq(Int), NEW f \in 1..(Len(win) + 1),
         NEW low \in Int, NEW a \in Int, a <= low,
         Suffix(pop, win, f, a), OrderedAbove(win, low)
  PROVE  OrderedAbove(pop, low)
<1>0. Len(win) \in Nat /\ Len(pop) \in Nat
  BY LenProperties
<1> SUFFICES ASSUME NEW i \in 1..Len(pop), NEW y \in (low + 1)..(pop[i] - 1)
             PROVE  \E j \in 1..(i - 1) : pop[j] = y
  BY DEF OrderedAbove
<1> DEFINE p == f + i - 1
<1>1. p \in 1..Len(win) /\ pop[i] = win[p]
  BY <1>0 DEF Suffix
<1>p. p = f + i - 1
  OBVIOUS
<1> HIDE DEF p
<1>2. PICK k \in 1..(p - 1) : win[k] = y
  BY <1>1 DEF OrderedAbove
<1>3. y \in Int /\ y > a
  OBVIOUS
<1>4. k >= f
  BY <1>2, <1>3 DEF Suffix
<1>5. k - f + 1 \in 1..(i - 1) /\ k - f + 1 \in 1..Len(pop)
  BY <1>0, <1>p, <1>2, <1>4
<1>6. pop[k - f + 1] = win[k]
  <2>1. pop[k - f + 1] = win[f + (k - f + 1) - 1]
    BY <1>5 DEF Suffix
  <2>2. f + (k - f + 1) - 1 = k
    BY <1>2
  <2> QED BY <2>1, <2>2
<1> QED BY <1>2, <1>5, <1>6

\* A send adds at most the datagram sent.
LEMMA SentSubset ==
  ASSUME NEW net, NEW m, NEW max
  PROVE  Sent(net, m, max) \subseteq net \cup {m}
BY DEF Sent

\* The head of a non-empty receive list is one of its nodes.
LEMMA ListHeadInList ==
  ASSUME IInv, recvBuf # {}
  PROVE  ListHead \in recvBuf
<1> DEFINE T == {e.seq : e \in recvBuf}
<1>1. T \in SUBSET Nat /\ T # {}
  BY TransferAssumption DEF IInv, TypeOK
<1>2. PICK x \in T : \A y \in T : x <= y
  BY <1>1, LeastNat
<1>3. \E e \in recvBuf : \A f \in recvBuf : e.seq <= f.seq
  BY <1>2
<1> QED BY <1>3 DEF ListHead

\* A segment that carries the chunk its number says, inside the window, is one
\* that may be on the wire.
LEMMA WireSegment ==
  ASSUME NEW s, NEW w, NEW r \in BOOLEAN,
         \/ w = NotFound /\ ~fileExists
         \/ fileExists /\ w \in 1..NumSegs /\ w <= lastAcked + MaxWindow,
         s = [seq |-> w, data |-> w, eof |-> (w = NumSegs), probe |-> FALSE,
              resent |-> r, lastInIter |-> FALSE]
  PROVE  s \in Segments /\ WireOK(s)
<1>1. w \in SegmentNumbers
  BY DEF SegmentNumbers
<1>2. s \in Segments
  BY <1>1 DEF Segments
<1>3. s.seq = w /\ s.data = w /\ (s.eof <=> w = NumSegs)
  OBVIOUS
<1>4. WireOK(s)
  BY <1>3 DEF WireOK
<1> QED BY <1>2, <1>4
-----------------------------------------------------------------------------
(* The server child. *)

\* Leaving the server's loop keeps the invariant, if success is only reported
\* once everything was printed.
LEMMA ServerExitPart ==
  ASSUME IInv, NEW status, ServerExit(status),
         status = "done" => lastAcked = NumSegs,
         status \in {"done", "failed"},
         UNCHANGED <<fileExists, toClient, clientVars>>
  PROVE  IInv'
<1> USE TransferAssumption DEF IInv, ServerExit, clientVars, mainVars, sharedVars,
        threadVars
<1>0. CongestionOK(cc') /\ cc' \in Congestion
  BY InitCongestionOK DEF CongestionOK
<1>a. sendWin' = <<>> /\ Len(sendWin') = 0
  OBVIOUS
<1>1. TypeOK'
  <2>1. sendWin' \in Seq(SegmentNumbers)
    BY <1>a
  <2> QED BY <1>0, <2>1 DEF TypeOK
<1>2. WindowOK'
  BY <1>a DEF WindowOK
<1>3. WindowOrder'
  BY <1>a DEF WindowOrder, OrderedAbove
<1>4. SenderBounds'
  BY <1>0, <1>a DEF SenderBounds
<1>5. InOrderOutput' /\ SegmentsOK' /\ RequestsOK' /\ MainOK'
  BY DEF InOrderOutput, SegmentsOK, WireOK, RequestsOK, MainOK
<1>6. EofKnown' /\ ListOK' /\ BurstOK' /\ FileKnown'
  BY DEF EofKnown, ListOK, CounterMatchesList, BurstOK, TypeOK, FileKnown
<1>7. DoneMeansPrinted'
  BY DEF DoneMeansPrinted, InOrderOutput
<1> QED BY <1>1, <1>2, <1>3, <1>4, <1>5, <1>6, <1>7 DEF IInv

\* The three ways the child exits: retry limit, select error, completion.
LEMMA ServerExitStep ==
  ASSUME IInv, \/ ServerGiveUp \/ ServerSelectError
               \/ \E m \in toServer : ServerReceiveComplete(m)
  PROVE  IInv'
<1>1. CASE ServerGiveUp
  BY <1>1, ServerExitPart DEF ServerGiveUp
<1>2. CASE ServerSelectError
  BY <1>2, ServerExitPart DEF ServerSelectError
<1>3. ASSUME NEW m \in toServer, ServerReceiveComplete(m) PROVE IInv'
  <2>1. lastAcked = NumSegs
    BY <1>3 DEF ServerReceiveComplete, IInv, RequestsOK
  <2> QED BY <1>3, <2>1, ServerExitPart DEF ServerReceiveComplete
<1> QED BY <1>1, <1>2, <1>3

\* The timeout branch resends a segment the client may receive.
LEMMA ServerTimeoutStep ==
  ASSUME IInv, ServerTimeout
  PROVE  IInv'
<1> USE TransferAssumption DEF IInv, ServerTimeout, serverVars, clientVars, mainVars, sharedVars, threadVars
<1>a. ResentSegment \in Segments /\ WireOK(ResentSegment)
  <2>1. CASE sendWin # <<>>
    <3> DEFINE w == Head(sendWin)
    <3>1. w = sendWin[1] /\ 1 \in 1..Len(sendWin)
      BY <2>1, EmptySeq DEF TypeOK
    <3>2. \/ w = NotFound /\ ~fileExists
          \/ fileExists /\ w \in 1..NumSegs /\ w <= lastAcked + MaxWindow
      BY <3>1 DEF WindowOK
    <3>3. ResentSegment =
            [seq |-> w, data |-> w, eof |-> (w = NumSegs), probe |-> FALSE,
             resent |-> TRUE, lastInIter |-> FALSE]
      BY <2>1 DEF ResentSegment, DataSegment
    <3> HIDE DEF w
    <3> QED BY <3>2, <3>3, WireSegment
  <2>2. CASE sendWin = <<>>
    BY <2>2 DEF ResentSegment, DummySegment, Segments, SegmentNumbers, WireOK,
                NotFound, BurstOK, TypeOK
  <2> QED BY <2>1, <2>2
<1>b. toClient' \subseteq toClient \cup {ResentSegment}
  BY SentSubset
<1>c. CongestionOK(cc')
  BY OnTimeoutOK DEF SenderBounds
<1>1. TypeOK'
  <2>1. toClient' \in SUBSET Segments
    BY <1>a, <1>b DEF TypeOK
  <2>2. cc' \in Congestion /\ conse' \in 0..MaxRexmt
    BY <1>c DEF TypeOK, CongestionOK
  <2> QED BY <2>1, <2>2 DEF TypeOK
<1>2. SegmentsOK'
  <2>1. \A n \in toClient' : WireOK(n)
    BY <1>a, <1>b DEF SegmentsOK
  <2> QED BY <2>1 DEF SegmentsOK, WireOK
<1>3. SenderBounds'
  BY <1>c DEF SenderBounds
<1>4. InOrderOutput' /\ RequestsOK' /\ MainOK' /\ EofKnown'
  BY DEF InOrderOutput, RequestsOK, MainOK, EofKnown
<1>5. ListOK' /\ BurstOK' /\ WindowOK' /\ FileKnown'
  BY DEF ListOK, CounterMatchesList, BurstOK, WindowOK, FileKnown
<1>6. WindowOrder' /\ DoneMeansPrinted'
  BY DEF WindowOrder, OrderedAbove, DoneMeansPrinted
<1> QED BY <1>1, <1>2, <1>3, <1>4, <1>5, <1>6 DEF IInv

\* The arithmetic of a burst: acknowledgement a, window r of at most w.
LEMMA BurstArithmetic ==
  ASSUME NEW a \in Int, NEW l \in Int, NEW n \in Int, NEW r \in Int,
         NEW w \in Int, a <= l + 1, n <= r, r <= w
  PROVE  (a - 1) + n <= l + w
OBVIOUS

\* A request, however old, gives a burst inside the client's window and leaves
\* the send list ordered above the client's last_seg_acked.
LEMMA ServerReceiveStep ==
  ASSUME IInv, NEW m \in toServer, ServerReceive(m)
  PROVE  IInv'
<1> DEFINE c == get_cwnd(cc, m.ack)
           win == PopAcked(sendWin, m.ack - 1)
<1> USE TransferAssumption
<1>a. /\ m.ack \in 1..NumSegs /\ m.rwnd \in 0..MaxWindow
      /\ m.ack <= lastAcked + 1 /\ lastAcked \in 0..NumSegs
  BY DEF IInv, TypeOK, Requests, RequestsOK
<1>b. CongestionOK(c) /\ CongestionOK(cc')
  <2>1. CongestionOK(cc) /\ m.ack \in Int
    BY <1>a DEF IInv, SenderBounds
  <2>2. CongestionOK(c)
    BY <2>1, GetCwndOK
  <2>3. cc' = [c EXCEPT !.prev = m.ack]
    BY DEF ServerReceive
  <2> HIDE DEF c
  <2> QED BY <2>1, <2>2, <2>3, SetPrevOK
<1>c. c.cwnd \in Nat /\ c.cwnd >= 1 /\ cc' \in Congestion
  BY <1>b DEF CongestionOK, Congestion
<1>d. /\ sendWin \in Seq(SegmentNumbers) /\ SegmentNumbers \in SUBSET Int
      /\ Len(sendWin) \in Nat
  BY LenProperties DEF IInv, TypeOK, SegmentNumbers, NotFound
<1>e. PICK f \in 1..(Len(sendWin) + 1) :
        /\ win \in Seq(SegmentNumbers)
        /\ Len(win) = Len(sendWin) - f + 1
        /\ \A i \in 1..Len(win) : win[i] = sendWin[f + i - 1]
        /\ \A j \in 1..(f - 1) : sendWin[j] <= m.ack - 1
  <2>1. m.ack - 1 \in Int
    BY <1>a
  <2> QED BY <1>d, <2>1, PoppedWindow
<1>f. /\ sendWin' = win /\ sAcked' = m.ack - 1 /\ recvRwnd' = m.rwnd
      /\ segToSend' = Smaller(Smaller(m.rwnd, c.cwnd), MaxBuffer - Len(win))
      /\ spc' = "send" /\ conse' = 0 /\ fileExists' = fileExists
      /\ lastAcked' = lastAcked
  BY DEF ServerReceive, clientVars, sharedVars
<1> HIDE DEF c, win
<1>g. Len(win) \in Nat /\ Len(win) <= MaxBuffer
  BY <1>d, <1>e DEF IInv, SenderBounds
<1>h. /\ segToSend' \in Nat /\ segToSend' <= m.rwnd
      /\ Len(win) + segToSend' <= MaxBuffer
  BY <1>a, <1>c, <1>f, <1>g DEF Smaller
<1>1. TypeOK'
  <2>1. toServer' \in SUBSET Requests
    BY DEF IInv, TypeOK, ServerReceive, AfterDelivery
  <2>2. sAcked' \in Nat /\ recvRwnd' \in 0..MaxWindow /\ conse' \in 0..MaxRexmt
    BY <1>a, <1>f
  <2>3. sendWin' \in Seq(SegmentNumbers)
    BY <1>e, <1>f
  <2> QED BY <1>c, <1>f, <1>h, <2>1, <2>2, <2>3
          DEF IInv, TypeOK, ServerReceive, clientVars, mainVars, sharedVars, threadVars
<1>2. BurstOK'
  <2>1. sAcked' <= lastAcked' /\ sAcked' < NumSegs
    BY <1>a, <1>f
  <2>2. sAcked' + segToSend' <= lastAcked' + MaxWindow
    <3>1. sAcked' = m.ack - 1 /\ lastAcked' = lastAcked
      BY <1>f
    <3>2. /\ m.ack \in Int /\ lastAcked \in Int /\ segToSend' \in Int
          /\ m.rwnd \in Int /\ MaxWindow \in Int
          /\ m.ack <= lastAcked + 1 /\ segToSend' <= m.rwnd /\ m.rwnd <= MaxWindow
      BY <1>a, <1>h
    <3>3. (m.ack - 1) + segToSend' <= lastAcked + MaxWindow
      BY <3>2, BurstArithmetic
    <3> QED BY <3>1, <3>3
  <2>3. segToSend' > 0 => recvRwnd' > 0
    BY <1>a, <1>f, <1>h
  <2>4. Len(sendWin') + segToSend' <= MaxBuffer
    BY <1>f, <1>h
  <2> QED BY <2>1, <2>2, <2>3, <2>4 DEF BurstOK
<1>3. WindowOK'
  <2>1. ASSUME NEW i \in 1..Len(win)
        PROVE  \/ ~fileExists /\ win[i] = NotFound
               \/ fileExists /\ win[i] \in 1..NumSegs /\ win[i] <= lastAcked + MaxWindow
    <3>1. f + i - 1 \in 1..Len(sendWin) /\ win[i] = sendWin[f + i - 1]
      BY <1>d, <1>e
    <3> QED BY <3>1 DEF IInv, WindowOK
  <2> QED BY <1>f, <2>1 DEF WindowOK
<1>4. WindowOrder'
  <2>1. OrderedAbove(win, lastAcked)
    <3>1. sendWin \in Seq(Int) /\ win \in Seq(Int)
      BY <1>d, <1>e, SeqMonotonic
    <3>2. m.ack - 1 \in Int /\ lastAcked \in Int /\ m.ack - 1 <= lastAcked
      BY <1>a
    <3>3. OrderedAbove(sendWin, lastAcked)
      BY DEF IInv, WindowOrder
    <3>4. Suffix(win, sendWin, f, m.ack - 1)
      BY <1>e DEF Suffix
    <3> QED BY <3>1, <3>2, <3>3, <3>4, PopKeepsOrder
  <2>2. (lastAcked + 1)..(m.ack - 1) = {}
    BY <1>a
  <2>3. OrderedAbove(sendWin', lastAcked')
    BY <1>f, <2>1
  <2> QED BY <1>f, <2>2, <2>3 DEF WindowOrder
<1>5. SenderBounds'
  BY <1>b, <1>f, <1>g DEF SenderBounds
<1>6. InOrderOutput' /\ SegmentsOK' /\ RequestsOK' /\ MainOK'
  BY DEF IInv, ServerReceive, clientVars, mainVars, sharedVars, threadVars,
         InOrderOutput, SegmentsOK, WireOK, AfterDelivery, RequestsOK, MainOK
<1>7. EofKnown' /\ ListOK' /\ FileKnown' /\ DoneMeansPrinted'
  BY DEF IInv, ServerReceive, clientVars, mainVars, sharedVars, threadVars,
         EofKnown, ListOK, CounterMatchesList, FileKnown, DoneMeansPrinted
<1> QED BY <1>1, <1>2, <1>3, <1>4, <1>5, <1>6, <1>7 DEF IInv

\* One pass of the send loop.
LEMMA ServerSendStep ==
  ASSUME IInv, ServerSend
  PROVE  IInv'
<1> USE TransferAssumption
<1> DEFINE q == BurstNumber
           s == BurstSegment
           Known == \E i \in 1..Len(sendWin) : sendWin[i] = q
<1>a. /\ spc = "send" /\ segToSend \in Nat /\ segToSend > 0 /\ recvRwnd > 0
      /\ sAcked \in Nat /\ sAcked + segToSend <= lastAcked + MaxWindow
      /\ Len(sendWin) + segToSend <= MaxBuffer
      /\ fileExists => sAcked < NumSegs
      /\ lastAcked \in 0..NumSegs /\ fileExists \in BOOLEAN
      /\ recvRwnd \in 0..MaxWindow
  BY DEF IInv, ServerSend, BurstOK, TypeOK
<1>b. /\ fileExists => q = sAcked + 1 /\ q \in 1..NumSegs
      /\ ~fileExists => q = NotFound
      /\ q \in SegmentNumbers
      /\ \/ q = NotFound /\ ~fileExists
         \/ fileExists /\ q \in 1..NumSegs /\ q <= lastAcked + MaxWindow
  BY <1>a DEF BurstNumber, SegmentNumbers, NotFound
<1>c. s = [seq |-> q, data |-> q, eof |-> (q = NumSegs), probe |-> FALSE,
           resent |-> FALSE, lastInIter |-> FALSE]
  <2>1. ~(recvRwnd = 0) /\ ~(segToSend = 0)
    BY <1>a
  <2> HIDE DEF q
  <2>2. (recvRwnd = 0) = FALSE /\ (segToSend = 0) = FALSE
    BY <2>1
  <2> QED BY <2>2 DEF BurstSegment, q
<1>d. s.seq = q /\ (s.eof <=> q = NumSegs) /\ ~s.probe
  BY <1>c
<1>e. s \in Segments /\ WireOK(s)
  BY <1>b, <1>c, WireSegment
<1>f. /\ sAcked' = sAcked + 1 /\ fileExists' = fileExists /\ lastAcked' = lastAcked
      /\ sendWin' = (IF Known THEN sendWin ELSE Append(sendWin, q))
      /\ toClient' \subseteq toClient \cup {s} /\ cc' = cc
  BY <1>d, SentSubset DEF ServerSend, clientVars, sharedVars
<1>g. /\ q = NumSegs => spc' = "select" /\ segToSend' = 0 /\ recvRwnd' = 0
      /\ q # NumSegs => spc' = "send" /\ segToSend' = segToSend - 1
                        /\ recvRwnd' = recvRwnd
  BY <1>a, <1>d DEF ServerSend, EndBurst
<1> HIDE DEF q, s
<1>h. /\ sendWin \in Seq(SegmentNumbers) /\ Len(sendWin) \in Nat
      /\ \A i \in 1..Len(sendWin) : sendWin[i] \in SegmentNumbers
  BY LenProperties, ElementOfSeq DEF IInv, TypeOK
<1>i. /\ sendWin' \in Seq(SegmentNumbers)
      /\ Len(sendWin') = (IF Known THEN Len(sendWin) ELSE Len(sendWin) + 1)
      /\ \A i \in 1..Len(sendWin) : sendWin'[i] = sendWin[i]
      /\ ~Known => sendWin'[Len(sendWin) + 1] = q
  BY <1>b, <1>f, <1>h, AppendProperties
<1>j. \E j \in 1..Len(sendWin') : sendWin'[j] = q
  <2>1. CASE Known
    BY <1>i, <2>1
  <2>2. CASE ~Known
    BY <1>h, <1>i, <2>2
  <2> QED BY <2>1, <2>2
<1> HIDE DEF Known
<1>1. TypeOK'
  <2>1. toClient' \in SUBSET Segments
    BY <1>e, <1>f DEF IInv, TypeOK
  <2>2. sAcked' \in Nat /\ segToSend' \in Nat /\ recvRwnd' \in 0..MaxWindow
        /\ spc' \in {"select", "send"}
    BY <1>a, <1>f, <1>g
  <2> QED BY <1>i, <2>1, <2>2
          DEF IInv, TypeOK, ServerSend, clientVars, mainVars, sharedVars, threadVars
<1>2. SegmentsOK'
  <2>1. \A n \in toClient' : WireOK(n)
    BY <1>e, <1>f DEF IInv, SegmentsOK
  <2> QED BY <2>1 DEF IInv, SegmentsOK, WireOK, ServerSend, clientVars, mainVars,
                      sharedVars, threadVars
<1>3. BurstOK'
  <2>1. sendWin' # <<>>
    BY <1>j
  <2>2. CASE q = NumSegs
    BY <1>g, <2>1, <2>2 DEF BurstOK
  <2>3. CASE q # NumSegs
    <3>1. sAcked' + segToSend' <= lastAcked' + MaxWindow
      BY <1>a, <1>f, <1>g, <2>3
    <3>2. Len(sendWin') + segToSend' <= MaxBuffer
      BY <1>a, <1>g, <1>h, <1>i, <2>3
    <3>3. segToSend' > 0 => recvRwnd' > 0
      BY <1>a, <1>g, <2>3
    <3>4. fileExists' => sAcked' < NumSegs
      BY <1>a, <1>b, <1>f, <2>3
    <3> QED BY <2>1, <3>1, <3>2, <3>3, <3>4 DEF BurstOK
  <2> QED BY <2>2, <2>3
<1>4. WindowOK'
  <2>1. ASSUME NEW i \in 1..Len(sendWin')
        PROVE  \/ ~fileExists /\ sendWin'[i] = NotFound
               \/ /\ fileExists /\ sendWin'[i] \in 1..NumSegs
                  /\ sendWin'[i] <= lastAcked + MaxWindow
    <3>1. CASE i \in 1..Len(sendWin)
      BY <1>i, <3>1 DEF IInv, WindowOK
    <3>2. CASE i \notin 1..Len(sendWin)
      <4>1. sendWin'[i] = q
        BY <1>h, <1>i, <3>2
      <4> QED BY <1>a, <1>b, <4>1 DEF NotFound
    <3> QED BY <3>1, <3>2
  <2> QED BY <1>f, <2>1 DEF WindowOK
<1>5. WindowOrder'
  <2>0. fileExists => \A y \in (lastAcked + 1)..sAcked :
          \E j \in 1..Len(sendWin) : sendWin[j] = y
    BY <1>a DEF IInv, WindowOrder
  <2>1. ASSUME NEW i \in 1..Len(sendWin'), NEW y \in (lastAcked + 1)..(sendWin'[i] - 1)
        PROVE  \E j \in 1..(i - 1) : sendWin'[j] = y
    <3>1. CASE i \in 1..Len(sendWin)
      <4>1. PICK j \in 1..(i - 1) : sendWin[j] = y
        BY <1>i, <3>1 DEF IInv, WindowOrder, OrderedAbove
      <4> QED BY <1>h, <1>i, <3>1, <4>1
    <3>2. CASE i \notin 1..Len(sendWin)
      <4>1. i = Len(sendWin) + 1 /\ sendWin'[i] = q
        BY <1>h, <1>i, <3>2
      <4>2. fileExists /\ q = sAcked + 1
        BY <1>a, <1>b, <4>1 DEF NotFound
      <4>3. y \in (lastAcked + 1)..sAcked
        BY <1>a, <4>1, <4>2
      <4>4. PICK j \in 1..Len(sendWin) : sendWin[j] = y
        BY <2>0, <4>2, <4>3
      <4> QED BY <1>h, <1>i, <4>1, <4>4
    <3> QED BY <3>1, <3>2
  <2>2. OrderedAbove(sendWin', lastAcked')
    BY <1>f, <2>1 DEF OrderedAbove
  <2>3. ASSUME fileExists, NEW y \in (lastAcked + 1)..(sAcked + 1)
        PROVE  \E j \in 1..Len(sendWin') : sendWin'[j] = y
    <3>1. CASE y = sAcked + 1
      BY <1>b, <1>j, <2>3, <3>1
    <3>2. CASE y # sAcked + 1
      <4>1. y \in (lastAcked + 1)..sAcked
        BY <1>a, <3>2
      <4>2. PICK j \in 1..Len(sendWin) : sendWin[j] = y
        BY <2>0, <2>3, <4>1
      <4>3. j \in 1..Len(sendWin')
        BY <1>h, <1>i
      <4> QED BY <1>i, <4>2, <4>3
    <3> QED BY <3>1, <3>2
  <2> QED BY <1>f, <2>2, <2>3 DEF WindowOrder
<1>6. SenderBounds'
  <2>1. Len(sendWin') <= MaxBuffer
    BY <1>a, <1>h, <1>i
  <2> QED BY <1>f, <2>1 DEF IInv, SenderBounds
<1>7. InOrderOutput' /\ RequestsOK' /\ MainOK' /\ EofKnown'
  BY DEF IInv, ServerSend, clientVars, mainVars, sharedVars, threadVars,
         InOrderOutput, RequestsOK, MainOK, EofKnown
<1>8. ListOK' /\ FileKnown' /\ DoneMeansPrinted'
  BY DEF IInv, ServerSend, clientVars, mainVars, sharedVars, threadVars,
         ListOK, CounterMatchesList, FileKnown, EndBurst, DoneMeansPrinted
<1> QED BY <1>1, <1>2, <1>3, <1>4, <1>5, <1>6, <1>7, <1>8 DEF IInv

\* The burst is over.
LEMMA ServerSendDoneStep ==
  ASSUME IInv, ServerSendDone
  PROVE  IInv'
<1> USE TransferAssumption DEF IInv, ServerSendDone, EndBurst, serverVars, clientVars, mainVars, sharedVars, threadVars
<1>1. TypeOK' /\ InOrderOutput' /\ SegmentsOK' /\ RequestsOK'
  BY DEF TypeOK, InOrderOutput, SegmentsOK, WireOK, RequestsOK
<1>2. MainOK' /\ EofKnown' /\ ListOK' /\ BurstOK'
  BY DEF MainOK, EofKnown, ListOK, CounterMatchesList, BurstOK
<1>3. WindowOK' /\ FileKnown' /\ WindowOrder' /\ SenderBounds'
  BY DEF WindowOK, FileKnown, WindowOrder, OrderedAbove, SenderBounds
<1>4. DoneMeansPrinted'
  BY DEF DoneMeansPrinted
<1> QED BY <1>1, <1>2, <1>3, <1>4 DEF IInv
-----------------------------------------------------------------------------
(* The client's main thread. *)

\* The acknowledgement number is read without the mutex.
LEMMA ReadAckStep ==
  ASSUME IInv, ReadAck
  PROVE  IInv'
<1> USE TransferAssumption DEF IInv, ReadAck, serverVars, clientVars, mainVars, sharedVars, threadVars
<1>1. TypeOK' /\ InOrderOutput' /\ SegmentsOK' /\ RequestsOK'
  BY DEF TypeOK, InOrderOutput, SegmentsOK, WireOK, RequestsOK
<1>2. MainOK' /\ EofKnown' /\ ListOK' /\ BurstOK'
  BY DEF MainOK, EofKnown, ListOK, CounterMatchesList, BurstOK
<1>3. WindowOK' /\ FileKnown' /\ WindowOrder' /\ SenderBounds'
  BY DEF WindowOK, FileKnown, WindowOrder, OrderedAbove, SenderBounds
<1>4. DoneMeansPrinted'
  BY DEF DoneMeansPrinted
<1> QED BY <1>1, <1>2, <1>3, <1>4 DEF IInv

\* So is the counter.
LEMMA ReadRwndStep ==
  ASSUME IInv, ReadRwnd
  PROVE  IInv'
<1> USE TransferAssumption DEF IInv, ReadRwnd, serverVars, clientVars, mainVars, sharedVars, threadVars
<1>1. TypeOK' /\ InOrderOutput' /\ SegmentsOK' /\ RequestsOK'
  BY DEF TypeOK, InOrderOutput, SegmentsOK, WireOK, RequestsOK
<1>2. MainOK' /\ EofKnown' /\ ListOK' /\ BurstOK'
  BY DEF MainOK, EofKnown, ListOK, CounterMatchesList, BurstOK
<1>3. WindowOK' /\ FileKnown' /\ WindowOrder' /\ SenderBounds'
  BY DEF WindowOK, FileKnown, WindowOrder, OrderedAbove, SenderBounds
<1>4. DoneMeansPrinted'
  BY DEF DoneMeansPrinted
<1> QED BY <1>1, <1>2, <1>3, <1>4 DEF IInv

\* The request sent reports completion only when all was printed.
LEMMA SendRequestStep ==
  ASSUME IInv, SendRequest
  PROVE  IInv'
<1> USE TransferAssumption DEF IInv, SendRequest, AllPrinted, serverVars, clientVars, mainVars, sharedVars, threadVars
<1> DEFINE r == Request(IF AllPrinted THEN lastInTransfer ELSE ackNum,
                        initRwnd, AllPrinted)
<1>a. AllPrinted => lastInTransfer = NumSegs /\ lastAcked = NumSegs
  BY DEF TypeOK
<1>b. ~AllPrinted => ackNum \in 1..NumSegs /\ ackNum <= lastAcked + 1
  BY DEF TypeOK, RequestsOK, EofKnown
<1>c. r \in Requests
  <2>1. CASE AllPrinted
    BY <1>a, <2>1 DEF TypeOK, Request, Requests
  <2>2. CASE ~AllPrinted
    BY <1>b, <2>2 DEF TypeOK, Request, Requests
  <2> QED BY <2>1, <2>2
<1>d. r.ack <= lastAcked + 1 /\ (r.complete => lastAcked = NumSegs)
  <2>1. r.ack = (IF AllPrinted THEN lastInTransfer ELSE ackNum)
        /\ r.complete = AllPrinted
    BY DEF Request
  <2>2. lastAcked \in Int
    BY DEF TypeOK
  <2>3. CASE AllPrinted
    BY <1>a, <2>1, <2>2, <2>3
  <2>4. CASE ~AllPrinted
    BY <1>b, <2>1, <2>2, <2>4
  <2> QED BY <2>3, <2>4
<1>e. toServer' \subseteq toServer \cup {r}
  BY SentSubset
<1> HIDE DEF r
<1>1. TypeOK'
  <2>1. toServer' \in SUBSET Requests
    BY <1>c, <1>e DEF TypeOK
  <2>2. initRwnd' \in 0..MaxWindow /\ complete' \in BOOLEAN
    BY DEF TypeOK
  <2> QED BY <2>1, <2>2 DEF TypeOK
<1>2. RequestsOK'
  BY <1>d, <1>e DEF RequestsOK
<1>3. MainOK'
  BY <1>a DEF MainOK
<1>4. InOrderOutput' /\ SegmentsOK' /\ EofKnown' /\ ListOK'
  BY DEF InOrderOutput, SegmentsOK, WireOK, EofKnown, ListOK,
         CounterMatchesList
<1>5. BurstOK' /\ WindowOK' /\ FileKnown' /\ WindowOrder'
  BY DEF BurstOK, WindowOK, FileKnown, WindowOrder, OrderedAbove
<1>6. SenderBounds' /\ DoneMeansPrinted'
  BY DEF SenderBounds, DoneMeansPrinted
<1> QED BY <1>1, <1>2, <1>3, <1>4, <1>5, <1>6 DEF IInv

\* The head of the receive loop.
LEMMA ListenStep ==
  ASSUME IInv, Listen
  PROVE  IInv'
<1> USE TransferAssumption DEF IInv, Listen, AllPrinted, serverVars, clientVars, mainVars, sharedVars, threadVars
<1>1. TypeOK'
  <2>1. initRwnd' \in 0..MaxWindow
    BY DEF TypeOK
  <2>2. cpc' \in {"ack", "read", "join"} /\ freed' \in BOOLEAN
    BY DEF TypeOK
  <2> QED BY <2>1, <2>2 DEF TypeOK
<1>2. InOrderOutput' /\ SegmentsOK' /\ RequestsOK' /\ MainOK'
  BY DEF InOrderOutput, SegmentsOK, WireOK, RequestsOK, TypeOK, MainOK
<1>3. EofKnown' /\ ListOK' /\ BurstOK' /\ WindowOK'
  BY DEF EofKnown, ListOK, CounterMatchesList, BurstOK, WindowOK
<1>4. FileKnown' /\ WindowOrder' /\ SenderBounds' /\ DoneMeansPrinted'
  BY DEF FileKnown, WindowOrder, OrderedAbove, SenderBounds, DoneMeansPrinted
<1> QED BY <1>1, <1>2, <1>3, <1>4 DEF IInv

\* A datagram dropped by the simulated loss.
LEMMA ReceiveDropStep ==
  ASSUME IInv, NEW m \in toClient, ReceiveDrop(m)
  PROVE  IInv'
<1> USE TransferAssumption DEF IInv, ReceiveDrop, AfterDelivery, serverVars, clientVars, mainVars, sharedVars, threadVars
<1>1. TypeOK' /\ InOrderOutput' /\ SegmentsOK' /\ RequestsOK'
  BY DEF TypeOK, MainOK, InOrderOutput, SegmentsOK, WireOK, RequestsOK
<1>2. MainOK' /\ EofKnown' /\ ListOK' /\ BurstOK'
  BY DEF MainOK, EofKnown, ListOK, CounterMatchesList, BurstOK
<1>3. WindowOK' /\ FileKnown' /\ WindowOrder' /\ SenderBounds'
  BY DEF WindowOK, FileKnown, WindowOrder, OrderedAbove, SenderBounds
<1>4. DoneMeansPrinted'
  BY DEF DoneMeansPrinted
<1> QED BY <1>1, <1>2, <1>3, <1>4 DEF IInv

\* A datagram is taken for insertion only if it carries file data.
LEMMA ReceiveStep ==
  ASSUME IInv, NEW m \in toClient, Receive(m)
  PROVE  IInv'
<1> USE TransferAssumption DEF IInv, Receive, AfterDelivery, serverVars, clientVars, mainVars, sharedVars, threadVars
<1>1. SegmentsOK'
  <2>1. \A n \in toClient' : WireOK(n)'
    BY DEF SegmentsOK, WireOK
  <2>2. cpc' \in {"insert", "post"} => WireOK(seg)' /\ seg'.seq # NotFound
    BY DEF SegmentsOK, WireOK
  <2>3. cpc' = "insert" => m.seq > lastAcked /\ seg' = m
    OBVIOUS
  <2>4. m \in Segments
    BY DEF TypeOK
  <2>5. cpc' = "insert" => seg'.data # 0
    BY <2>3, <2>4 DEF SegmentsOK, WireOK, TypeOK, Segments, SegmentNumbers, NotFound
  <2> QED BY <2>1, <2>2, <2>5 DEF SegmentsOK
<1>2. TypeOK' /\ InOrderOutput' /\ RequestsOK' /\ MainOK'
  BY DEF TypeOK, InOrderOutput, RequestsOK, MainOK
<1>3. EofKnown' /\ ListOK' /\ BurstOK' /\ WindowOK'
  BY DEF EofKnown, ListOK, CounterMatchesList, BurstOK, WindowOK
<1>4. FileKnown' /\ WindowOrder' /\ SenderBounds' /\ DoneMeansPrinted'
  BY DEF SegmentsOK, WireOK, FileKnown, NotFound, TypeOK, Segments,
         SegmentNumbers, WindowOrder, OrderedAbove, SenderBounds,
         DoneMeansPrinted
<1> QED BY <1>1, <1>2, <1>3, <1>4 DEF IInv

\* The ordered insertion under the mutex.
LEMMA InsertStep ==
  ASSUME IInv, Insert
  PROVE  IInv'
<1> USE TransferAssumption DEF IInv, Insert, serverVars, clientVars, mainVars, sharedVars, threadVars
<1> DEFINE e0 == [seq |-> seg.seq, data |-> seg.data]
           Adds == numInBuf < MaxWindow /\ \A e \in recvBuf : e.seq # seg.seq
<1>a. /\ seg.seq \in 1..NumSegs /\ seg.data = seg.seq
      /\ seg.seq <= lastAcked + MaxWindow /\ (seg.eof <=> seg.seq = NumSegs)
  BY DEF SegmentsOK, WireOK
<1>b. e0 \in [seq : 1..NumSegs, data : 1..NumSegs] /\ e0.seq = seg.seq
      /\ e0.data = seg.data
  BY <1>a
<1>c. recvBuf' = IF Adds THEN recvBuf \cup {e0} ELSE recvBuf
  OBVIOUS
<1>d. numInBuf' = IF Adds THEN numInBuf + 1 ELSE numInBuf
  OBVIOUS
<1>e. Adds => e0 \notin recvBuf
  BY <1>b
<1> HIDE DEF e0
<1>1. TypeOK'
  <2>1. recvBuf' \in SUBSET [seq : 1..NumSegs, data : 1..NumSegs]
    BY <1>b, <1>c DEF TypeOK
  <2>2. numInBuf' \in 0..MaxWindow
    BY <1>d DEF TypeOK
  <2> QED BY <2>1, <2>2 DEF TypeOK
<1>2. EofKnown'
  BY <1>a, <1>b, <1>c DEF EofKnown
<1>3. ListOK'
  <2>1. IsFiniteSet(recvBuf')
    BY <1>c, FS_AddElement DEF ListOK
  <2>2. Adds => Cardinality(recvBuf') = Cardinality(recvBuf) + 1
    BY <1>c, <1>e, FS_AddElement DEF ListOK
  <2>3. Cardinality(recvBuf) \in Nat
    BY FS_CardinalityType DEF ListOK
  <2>4. CounterMatchesList'
    BY <1>c, <1>d, <2>2, <2>3 DEF ListOK, CounterMatchesList, MutexFree
  <2>5. \A e \in recvBuf' : e.data = e.seq /\ e.seq <= lastAcked' + MaxWindow
    BY <1>a, <1>b, <1>c DEF ListOK
  <2> QED BY <2>1, <2>4, <2>5 DEF ListOK
<1>4. InOrderOutput' /\ SegmentsOK' /\ RequestsOK' /\ MainOK'
  BY DEF InOrderOutput, SegmentsOK, WireOK, RequestsOK, MainOK
<1>5. BurstOK' /\ WindowOK' /\ FileKnown' /\ WindowOrder'
  BY DEF BurstOK, WindowOK, SegmentsOK, WireOK, FileKnown, WindowOrder,
         OrderedAbove
<1>6. SenderBounds' /\ DoneMeansPrinted'
  BY DEF SenderBounds, DoneMeansPrinted
<1> QED BY <1>1, <1>2, <1>3, <1>4, <1>5, <1>6 DEF IInv

\* The flags of the segment just handled.
LEMMA PostReceiveStep ==
  ASSUME IInv, PostReceive
  PROVE  IInv'
<1> USE TransferAssumption DEF IInv, PostReceive, serverVars, clientVars, mainVars, sharedVars, threadVars
<1>1. TypeOK'
  <2>1. seg' \in Segments
    BY DEF NoSegment, DummySegment, Segments, SegmentNumbers, NotFound
  <2>2. lastInTransfer' \in {-1, NumSegs}
    BY DEF TypeOK, SegmentsOK, WireOK, NotFound
  <2>3. initRwnd' \in 0..MaxWindow
    BY DEF TypeOK, MainOK
  <2> QED BY <2>1, <2>2, <2>3 DEF TypeOK
<1>2. MainOK'
  <2>1. complete /\ seg.eof => seg.seq = NumSegs
    BY DEF SegmentsOK, WireOK, NotFound
  <2> QED BY <2>1 DEF MainOK
<1>3. EofKnown'
  <2>1. seg.eof => lastInTransfer' = NumSegs
    BY DEF SegmentsOK, WireOK, NotFound
  <2> QED BY <2>1 DEF EofKnown
<1>4. InOrderOutput' /\ SegmentsOK' /\ RequestsOK' /\ ListOK'
  BY DEF InOrderOutput, SegmentsOK, WireOK, RequestsOK, ListOK,
         CounterMatchesList
<1>5. BurstOK' /\ WindowOK' /\ FileKnown' /\ WindowOrder'
  BY DEF BurstOK, WindowOK, FileKnown, WindowOrder, OrderedAbove
<1>6. SenderBounds' /\ DoneMeansPrinted'
  BY DEF SenderBounds, DoneMeansPrinted
<1> QED BY <1>1, <1>2, <1>3, <1>4, <1>5, <1>6 DEF IInv

\* pthread_join.
LEMMA JoinStep ==
  ASSUME IInv, Join
  PROVE  IInv'
<1> USE TransferAssumption DEF IInv, Join, serverVars, clientVars, mainVars, sharedVars, threadVars
<1>1. TypeOK' /\ InOrderOutput' /\ SegmentsOK' /\ RequestsOK'
  BY DEF TypeOK, InOrderOutput, SegmentsOK, WireOK, RequestsOK
<1>2. MainOK' /\ EofKnown' /\ ListOK' /\ BurstOK'
  BY DEF MainOK, EofKnown, ListOK, CounterMatchesList, BurstOK
<1>3. WindowOK' /\ FileKnown' /\ WindowOrder' /\ SenderBounds'
  BY DEF WindowOK, FileKnown, WindowOrder, OrderedAbove, SenderBounds
<1>4. DoneMeansPrinted'
  BY DEF DoneMeansPrinted
<1> QED BY <1>1, <1>2, <1>3, <1>4 DEF IInv

\* In TIME_WAIT only completion is reported.
LEMMA TimeWaitReplyStep ==
  ASSUME IInv, NEW m \in toClient, TimeWaitReply(m)
  PROVE  IInv'
<1> USE TransferAssumption DEF IInv, TimeWaitReply, AfterDelivery, serverVars, clientVars, mainVars, sharedVars, threadVars
<1> DEFINE r == Request(IF AllPrinted THEN lastInTransfer ELSE lastAcked + 1,
                        MaxWindow - numInBuf, AllPrinted)
<1>a. AllPrinted /\ lastAcked = NumSegs /\ lastInTransfer = NumSegs
  BY DEF MainOK, AllPrinted
<1>b. r = Request(NumSegs, MaxWindow - numInBuf, TRUE)
  BY <1>a
<1>c. r \in Requests /\ r.ack = NumSegs
  <2>1. MaxWindow - numInBuf \in 0..MaxWindow /\ NumSegs \in 1..NumSegs
    BY DEF TypeOK
  <2> QED BY <1>b, <2>1 DEF Request, Requests
<1>d. toServer' \subseteq toServer \cup {r}
  BY SentSubset
<1> HIDE DEF r
<1>1. TypeOK'
  BY <1>c, <1>d DEF TypeOK
<1>2. RequestsOK'
  BY <1>a, <1>c, <1>d DEF RequestsOK
<1>3. InOrderOutput' /\ SegmentsOK' /\ MainOK' /\ EofKnown'
  BY DEF InOrderOutput, SegmentsOK, WireOK, MainOK, EofKnown
<1>4. ListOK' /\ BurstOK' /\ WindowOK' /\ FileKnown'
  BY DEF ListOK, CounterMatchesList, BurstOK, WindowOK, FileKnown
<1>5. WindowOrder' /\ SenderBounds' /\ DoneMeansPrinted'
  BY DEF WindowOrder, OrderedAbove, SenderBounds, DoneMeansPrinted
<1> QED BY <1>1, <1>2, <1>3, <1>4, <1>5 DEF IInv

\* The end of TIME_WAIT.
LEMMA TimeWaitAlarmStep ==
  ASSUME IInv, TimeWaitAlarm
  PROVE  IInv'
<1> USE TransferAssumption DEF IInv, TimeWaitAlarm, serverVars, clientVars, mainVars, sharedVars, threadVars
<1>1. TypeOK' /\ InOrderOutput' /\ SegmentsOK' /\ RequestsOK'
  BY DEF TypeOK, InOrderOutput, SegmentsOK, WireOK, RequestsOK
<1>2. MainOK' /\ EofKnown' /\ ListOK' /\ BurstOK'
  BY DEF MainOK, EofKnown, ListOK, CounterMatchesList, BurstOK
<1>3. WindowOK' /\ FileKnown' /\ WindowOrder' /\ SenderBounds'
  BY DEF WindowOK, FileKnown, WindowOrder, OrderedAbove, SenderBounds
<1>4. DoneMeansPrinted'
  BY DEF DoneMeansPrinted
<1> QED BY <1>1, <1>2, <1>3, <1>4 DEF IInv
-----------------------------------------------------------------------------
(* The consumer thread. *)

\* The consumer takes the mutex.
LEMMA WakeUpStep ==
  ASSUME IInv, WakeUp
  PROVE  IInv'
<1> USE TransferAssumption DEF IInv, WakeUp, serverVars, clientVars, mainVars, sharedVars, threadVars
<1>1. TypeOK' /\ InOrderOutput' /\ SegmentsOK' /\ RequestsOK'
  BY DEF TypeOK, InOrderOutput, SegmentsOK, WireOK, RequestsOK
<1>2. MainOK' /\ EofKnown' /\ ListOK' /\ BurstOK'
  BY DEF MainOK, EofKnown, ListOK, CounterMatchesList, BurstOK
<1>3. WindowOK' /\ FileKnown' /\ WindowOrder' /\ SenderBounds'
  BY DEF WindowOK, FileKnown, WindowOrder, OrderedAbove, SenderBounds
<1>4. DoneMeansPrinted'
  BY DEF DoneMeansPrinted
<1> QED BY <1>1, <1>2, <1>3, <1>4 DEF IInv

\* The consumer prints the next chunk.
LEMMA PrintHeadStep ==
  ASSUME IInv, PrintHead
  PROVE  IInv'
<1> USE TransferAssumption DEF IInv, PrintHead, serverVars, clientVars, mainVars, sharedVars, threadVars
<1> DEFINE h == ListHead
<1>a. h \in recvBuf /\ h.seq = lastAcked + 1
  BY ListHeadInList DEF HeadIsNext
<1>b. h.seq \in 1..NumSegs /\ h.data = h.seq
  BY <1>a DEF TypeOK, ListOK
<1>c. /\ lastAcked \in 0..(NumSegs - 1) /\ lastAcked' = lastAcked + 1
      /\ lastAcked' \in 1..NumSegs
  BY <1>a, <1>b DEF TypeOK
<1>d. recvBuf' = recvBuf \ {h} /\ output' = Append(output, h.data)
  OBVIOUS
<1>e. output \in Seq(1..NumSegs) /\ h.data \in 1..NumSegs
  BY <1>b DEF TypeOK
<1> HIDE DEF h
<1>1. TypeOK'
  <2>1. output' \in Seq(1..NumSegs)
    BY <1>d, <1>e, AppendProperties
  <2>2. lastAcked' \in 0..NumSegs
    BY <1>c
  <2> QED BY <1>d, <2>1, <2>2 DEF TypeOK
<1>2. InOrderOutput'
  <2>1. /\ Len(output') = Len(output) + 1
        /\ \A i \in 1..Len(output) : output'[i] = output[i]
        /\ output'[Len(output) + 1] = h.data
    BY <1>d, <1>e, AppendProperties
  <2>2. Len(output) = lastAcked /\ h.data = lastAcked + 1
    BY <1>a, <1>b DEF InOrderOutput
  <2> QED BY <1>c, <2>1, <2>2 DEF InOrderOutput
<1>3. SegmentsOK'
  BY <1>c DEF SegmentsOK, WireOK, TypeOK, Segments, SegmentNumbers, NotFound
<1>4. RequestsOK'
  BY <1>c DEF RequestsOK, TypeOK, Requests
<1>5. MainOK'
  BY <1>c DEF MainOK
<1>6. EofKnown'
  BY <1>a, <1>c, <1>d DEF EofKnown
<1>7. ListOK'
  <2>1. IsFiniteSet(recvBuf') /\ Cardinality(recvBuf') = Cardinality(recvBuf) - 1
    BY <1>a, <1>d, FS_RemoveElement DEF ListOK
  <2>2. Cardinality(recvBuf) \in Nat
    BY FS_CardinalityType DEF ListOK
  <2>3. CounterMatchesList'
    BY <2>1, <2>2 DEF ListOK, CounterMatchesList
  <2>4. \A e \in recvBuf' : e.data = e.seq /\ e.seq <= lastAcked' + MaxWindow
    BY <1>c, <1>d DEF ListOK, TypeOK
  <2> QED BY <2>1, <2>3, <2>4 DEF ListOK
<1>8. BurstOK'
  BY <1>c DEF BurstOK, TypeOK
<1>9. WindowOK'
  <2>1. \A i \in 1..Len(sendWin) : sendWin[i] \in Int
    BY ElementOfSeq DEF TypeOK, SegmentNumbers, NotFound
  <2> QED BY <1>c, <2>1 DEF WindowOK
<1>10. FileKnown'
  BY <1>a, <1>d DEF FileKnown
<1>11. WindowOrder'
  <2>1. \A x : ((lastAcked' + 1)..x) \subseteq ((lastAcked + 1)..x)
    BY <1>c
  <2> QED BY <2>1 DEF WindowOrder, OrderedAbove
<1>12. DoneMeansPrinted'
  BY <1>c DEF DoneMeansPrinted, InOrderOutput
<1>13. SenderBounds'
  BY DEF SenderBounds
<1> QED BY <1>1, <1>2, <1>3, <1>4, <1>5, <1>6, <1>7, <1>8, <1>9, <1>10, <1>11, <1>12, <1>13 DEF IInv

\* The consumer counts a printed node out.
LEMMA CountOutStep ==
  ASSUME IInv, CountOut
  PROVE  IInv'
<1> USE TransferAssumption DEF IInv, CountOut, serverVars, clientVars, mainVars, sharedVars, threadVars
<1>1. TypeOK'
  <2>1. Cardinality(recvBuf) \in Nat
    BY FS_CardinalityType DEF ListOK
  <2> QED BY <2>1 DEF TypeOK, ListOK, CounterMatchesList
<1>2. ListOK'
  <2>1. Cardinality(recvBuf) \in Nat
    BY FS_CardinalityType DEF ListOK
  <2> QED BY <2>1 DEF TypeOK, ListOK, CounterMatchesList
<1>3. InOrderOutput' /\ SegmentsOK' /\ RequestsOK' /\ MainOK'
  BY DEF InOrderOutput, SegmentsOK, WireOK, RequestsOK, MainOK
<1>4. EofKnown' /\ BurstOK' /\ WindowOK' /\ FileKnown'
  BY DEF EofKnown, BurstOK, WindowOK, FileKnown
<1>5. WindowOrder' /\ SenderBounds' /\ DoneMeansPrinted'
  BY DEF WindowOrder, OrderedAbove, SenderBounds, DoneMeansPrinted
<1> QED BY <1>1, <1>2, <1>3, <1>4, <1>5 DEF IInv

\* The consumer releases the mutex.
LEMMA ReleaseStep ==
  ASSUME IInv, Release
  PROVE  IInv'
<1> USE TransferAssumption DEF IInv, Release, serverVars, clientVars, mainVars, sharedVars, threadVars
<1>1. TypeOK' /\ InOrderOutput' /\ SegmentsOK' /\ RequestsOK'
  BY DEF TypeOK, InOrderOutput, SegmentsOK, WireOK, RequestsOK
<1>2. MainOK' /\ EofKnown' /\ ListOK' /\ BurstOK'
  BY DEF MainOK, EofKnown, ListOK, CounterMatchesList, BurstOK
<1>3. WindowOK' /\ FileKnown' /\ WindowOrder' /\ SenderBounds'
  BY DEF WindowOK, FileKnown, WindowOrder, OrderedAbove, SenderBounds
<1>4. DoneMeansPrinted'
  BY DEF DoneMeansPrinted
<1> QED BY <1>1, <1>2, <1>3, <1>4 DEF IInv

\* The consumer tests for the end of the transfer.
LEMMA CheckEndStep ==
  ASSUME IInv, CheckEnd
  PROVE  IInv'
<1> USE TransferAssumption DEF IInv, CheckEnd, serverVars, clientVars, mainVars, sharedVars, threadVars
<1>1. TypeOK' /\ InOrderOutput' /\ SegmentsOK' /\ RequestsOK'
  BY DEF TypeOK, InOrderOutput, SegmentsOK, WireOK, RequestsOK
<1>2. MainOK' /\ EofKnown' /\ ListOK' /\ BurstOK'
  BY DEF MainOK, EofKnown, ListOK, CounterMatchesList, BurstOK
<1>3. WindowOK' /\ FileKnown' /\ WindowOrder' /\ SenderBounds'
  BY DEF WindowOK, FileKnown, WindowOrder, OrderedAbove, SenderBounds
<1>4. DoneMeansPrinted'
  BY DEF DoneMeansPrinted
<1> QED BY <1>1, <1>2, <1>3, <1>4 DEF IInv
-----------------------------------------------------------------------------
(* The network. *)

\* A request is lost.
LEMMA LoseRequestStep ==
  ASSUME IInv, NEW m \in toServer, LoseRequest(m)
  PROVE  IInv'
<1> USE TransferAssumption DEF IInv, LoseRequest, serverVars, clientVars, mainVars, sharedVars, threadVars
<1>1. TypeOK' /\ InOrderOutput' /\ SegmentsOK' /\ RequestsOK'
  BY DEF TypeOK, InOrderOutput, SegmentsOK, WireOK, RequestsOK
<1>2. MainOK' /\ EofKnown' /\ ListOK' /\ BurstOK'
  BY DEF MainOK, EofKnown, ListOK, CounterMatchesList, BurstOK
<1>3. WindowOK' /\ FileKnown' /\ WindowOrder' /\ SenderBounds'
  BY DEF WindowOK, FileKnown, WindowOrder, OrderedAbove, SenderBounds
<1>4. DoneMeansPrinted'
  BY DEF DoneMeansPrinted
<1> QED BY <1>1, <1>2, <1>3, <1>4 DEF IInv

\* A segment is lost.
LEMMA LoseSegmentStep ==
  ASSUME IInv, NEW m \in toClient, LoseSegment(m)
  PROVE  IInv'
<1> USE TransferAssumption DEF IInv, LoseSegment, serverVars, clientVars, mainVars, sharedVars, threadVars
<1>1. TypeOK' /\ InOrderOutput' /\ SegmentsOK' /\ RequestsOK'
  BY DEF TypeOK, InOrderOutput, SegmentsOK, WireOK, RequestsOK
<1>2. MainOK' /\ EofKnown' /\ ListOK' /\ BurstOK'
  BY DEF MainOK, EofKnown, ListOK, CounterMatchesList, BurstOK
<1>3. WindowOK' /\ FileKnown' /\ WindowOrder' /\ SenderBounds'
  BY DEF WindowOK, FileKnown, WindowOrder, OrderedAbove, SenderBounds
<1>4. DoneMeansPrinted'
  BY DEF DoneMeansPrinted
<1> QED BY <1>1, <1>2, <1>3, <1>4 DEF IInv
-----------------------------------------------------------------------------
(* The theorems. *)

\* The initial states satisfy the invariant.
LEMMA InitIInv == Init => IInv
<1> SUFFICES ASSUME Init PROVE IInv
  OBVIOUS
<1> USE TransferAssumption DEF Init
<1>a. sendWin = <<>> /\ Len(sendWin) = 0 /\ Len(output) = 0 /\ output = <<>>
  OBVIOUS
<1>b. CongestionOK(cc) /\ cc \in Congestion
  BY InitCongestionOK DEF CongestionOK
<1>c. IsFiniteSet(recvBuf) /\ Cardinality(recvBuf) = 0
  BY FS_EmptySet
<1>1. TypeOK
  <2>1. seg \in Segments
    BY DEF NoSegment, DummySegment, Segments, SegmentNumbers, NotFound
  <2>2. sendWin \in Seq(SegmentNumbers) /\ output \in Seq(1..NumSegs)
    BY <1>a
  <2>3. toServer \in SUBSET Requests /\ toClient \in SUBSET Segments
        /\ recvBuf \in SUBSET [seq : 1..NumSegs, data : 1..NumSegs]
    OBVIOUS
  <2>4. ackNum \in 0..(NumSegs + 1) /\ initRwnd \in 0..MaxWindow
        /\ lastAcked \in 0..NumSegs /\ numInBuf \in 0..MaxWindow
        /\ conse \in 0..MaxRexmt /\ recvRwnd \in 0..MaxWindow
        /\ sAcked \in Nat /\ segToSend \in Nat
    OBVIOUS
  <2> HIDE DEF NoSegment
  <2> QED BY <1>b, <2>1, <2>2, <2>3, <2>4 DEF TypeOK
<1>2. InOrderOutput /\ SegmentsOK /\ RequestsOK /\ MainOK
  BY <1>a DEF InOrderOutput, SegmentsOK, RequestsOK, MainOK
<1>3. EofKnown /\ ListOK
  BY <1>c DEF EofKnown, ListOK, CounterMatchesList
<1>4. BurstOK /\ WindowOK /\ FileKnown /\ WindowOrder
  BY <1>a DEF BurstOK, WindowOK, FileKnown, WindowOrder, OrderedAbove
<1>5. SenderBounds /\ DoneMeansPrinted
  BY <1>a, <1>b DEF SenderBounds, DoneMeansPrinted
<1> QED BY <1>1, <1>2, <1>3, <1>4, <1>5 DEF IInv

\* So does every state after a step that changes nothing.
LEMMA StutterStep ==
  ASSUME IInv, UNCHANGED vars
  PROVE  IInv'
<1> USE DEF IInv, vars, serverVars, clientVars, mainVars, sharedVars, threadVars
<1>1. TypeOK'
  BY DEF TypeOK
<1>2. InOrderOutput' /\ SegmentsOK' /\ RequestsOK' /\ MainOK'
  BY DEF InOrderOutput, SegmentsOK, WireOK, RequestsOK, MainOK
<1>3. EofKnown' /\ ListOK'
  BY DEF EofKnown, ListOK, CounterMatchesList
<1>4. BurstOK' /\ WindowOK' /\ FileKnown' /\ WindowOrder'
  BY DEF BurstOK, WindowOK, FileKnown, WindowOrder, OrderedAbove
<1>5. SenderBounds' /\ DoneMeansPrinted'
  BY DEF SenderBounds, DoneMeansPrinted
<1> QED BY <1>1, <1>2, <1>3, <1>4, <1>5 DEF IInv

\* Every step keeps the invariant.
LEMMA NextStep ==
  ASSUME IInv, Next
  PROVE  IInv'
<1>1. CASE Server
  BY <1>1, ServerExitStep, ServerTimeoutStep, ServerSendStep,
     ServerSendDoneStep, ServerReceiveStep DEF Server
<1>2. CASE ClientMain
  BY <1>2, ReadAckStep, ReadRwndStep, SendRequestStep, ListenStep, InsertStep,
     PostReceiveStep, JoinStep, TimeWaitAlarmStep, ReceiveDropStep,
     ReceiveStep, TimeWaitReplyStep DEF ClientMain
<1>3. CASE Consumer
  BY <1>3, WakeUpStep, PrintHeadStep, CountOutStep, ReleaseStep, CheckEndStep
     DEF Consumer
<1>4. CASE Network
  BY <1>4, LoseRequestStep, LoseSegmentStep DEF Network
<1> QED BY <1>1, <1>2, <1>3, <1>4 DEF Next

\* The inductive invariant holds in every reachable state of a transfer.
THEOREM Invariance == Spec => []IInv
<1>1. IInv /\ [Next]_vars => IInv'
  BY NextStep, StutterStep
<1> QED BY InitIInv, <1>1, PTL DEF Spec

\* Types: in particular, the server never numbers a segment past the end of
\* the file, and no acknowledgement or window leaves its range.
THEOREM TypeCorrect == Spec => []TypeOK
<1>1. IInv => TypeOK
  BY DEF IInv
<1> QED BY <1>1, Invariance, PTL

\* The consumer prints the file's chunks in order, none missing, none twice.
THEOREM PrintsInOrder == Spec => []InOrderOutput
<1>1. IInv => InOrderOutput
  BY DEF IInv
<1> QED BY <1>1, Invariance, PTL

\* The counter the main thread reads without the mutex is the length of the
\* list, but for the node the consumer has unlinked and not yet counted.
THEOREM CounterIsExact == Spec => []CounterMatchesList
<1>1. IInv => CounterMatchesList
  BY DEF IInv, ListOK
<1> QED BY <1>1, Invariance, PTL

\* Nothing in flight or buffered lies beyond the client's receive window,
\* although acknowledgement and window are read at different times.
THEOREM FlowControl == Spec => []WithinReceiveWindow
<1>1. IInv => WithinReceiveWindow
  <2> SUFFICES ASSUME IInv PROVE WithinReceiveWindow
    OBVIOUS
  <2>1. lastAcked \in 0..NumSegs
    BY DEF IInv, TypeOK
  <2>2. \A m \in toClient : m.seq <= lastAcked + MaxWindow
    BY <2>1, TransferAssumption DEF IInv, SegmentsOK, WireOK, NotFound
  <2> QED BY <2>2 DEF IInv, ListOK, WithinReceiveWindow
<1> QED BY <1>1, Invariance, PTL

\* The segment the timer guards is never beyond the one the client waits for.
THEOREM GuardsFirstUnacked == Spec => []TimerGuardsFirstUnacked
<1>1. IInv => TimerGuardsFirstUnacked
  <2> SUFFICES ASSUME IInv, sendWin # <<>>
               PROVE  Head(sendWin) <= lastAcked + 1
    BY DEF TimerGuardsFirstUnacked
  <2>1. /\ Head(sendWin) = sendWin[1] /\ 1 \in 1..Len(sendWin)
        /\ sendWin[1] \in Int /\ lastAcked \in Int
    BY EmptySeq, ElementOfSeq, TransferAssumption
       DEF IInv, TypeOK, SegmentNumbers, NotFound
  <2>2. \A y \in (lastAcked + 1)..(sendWin[1] - 1) : FALSE
    BY <2>1 DEF IInv, WindowOrder, OrderedAbove
  <2>3. sendWin[1] > lastAcked + 1
          => lastAcked + 1 \in (lastAcked + 1)..(sendWin[1] - 1)
    BY <2>1
  <2> QED BY <2>1, <2>2, <2>3
<1> QED BY <1>1, Invariance, PTL

\* The server child exits with success only when the whole file was printed.
THEOREM SuccessMeansPrinted == Spec => []DoneMeansPrinted
<1>1. IInv => DoneMeansPrinted
  BY DEF IInv
<1> QED BY <1>1, Invariance, PTL

\* The send list stays within maxBufferSize and the congestion state is sound.
THEOREM SenderWithinBounds == Spec => []SenderBounds
<1>1. IInv => SenderBounds
  BY DEF IInv
<1> QED BY <1>1, Invariance, PTL

\* A full receive list holds the next segment in order, so that the consumer
\* can always reopen the window: MaxWindow different numbers fill the window.
THEOREM FullListDrains == Spec => []FullBufferDrains
<1>1. IInv => FullBufferDrains
  <2> SUFFICES ASSUME IInv, Cardinality(recvBuf) = MaxWindow, ~Stale,
                      \A e \in recvBuf : e.seq # lastAcked + 1
               PROVE  FALSE
    BY DEF FullBufferDrains
  <2> DEFINE Free == (lastAcked + 2)..(lastAcked + MaxWindow)
             number == [e \in recvBuf |-> e.seq]
  <2>1. lastAcked \in Nat /\ MaxWindow \in Nat /\ MaxWindow >= 1
    BY TransferAssumption DEF IInv, TypeOK
  <2>2. \A e \in recvBuf : e.seq \in Free
    BY <2>1, TransferAssumption DEF IInv, TypeOK, ListOK, Stale
  <2>3. \A e, f \in recvBuf : e.seq = f.seq => e = f
    BY DEF IInv, TypeOK, ListOK
  <2>4. number \in Injection(recvBuf, Free)
    BY <2>2, <2>3 DEF Injection, IsInjective
  <2>5. /\ IsFiniteSet(Free)
        /\ Cardinality(Free) = IF lastAcked + 2 > lastAcked + MaxWindow
                                 THEN 0
                                 ELSE (lastAcked + MaxWindow) - (lastAcked + 2) + 1
    BY <2>1, FS_Interval
  <2>6. Cardinality(Free) = MaxWindow - 1
    BY <2>1, <2>5
  <2> HIDE DEF Free, number
  <2>7. Cardinality(recvBuf) <= Cardinality(Free)
    BY <2>4, <2>5, FS_Injection
  <2> QED BY <2>1, <2>6, <2>7
<1> QED BY <1>1, Invariance, PTL

\* The transfer implements the abstract delivery of the file: every step is a
\* step of FileDelivery, or changes nothing there.
THEOREM Refinement == Spec => DeliversFile
<1>1. Init => Delivery!Init
  BY DEF Init, Delivery!Init
<1>2. IInv /\ [Next]_vars => [Delivery!Next]_(Delivery!vars)
  <2> SUFFICES ASSUME IInv, [Next]_vars
               PROVE  [Delivery!Next]_(Delivery!vars)
    OBVIOUS
  <2> USE DEF serverVars, clientVars, mainVars, sharedVars, threadVars
  <2>1. CASE UNCHANGED vars
    BY <2>1 DEF vars, Delivery!vars
  <2>2. CASE ServerGiveUp \/ ServerSelectError
    BY <2>2 DEF ServerGiveUp, ServerSelectError, ServerExit, Delivery!Next,
                Delivery!SenderFail
  <2>3. ASSUME NEW m \in toServer, ServerReceiveComplete(m)
        PROVE  Delivery!Next
    <3>1. Len(output) = NumSegs
      BY <2>3 DEF ServerReceiveComplete, IInv, RequestsOK, InOrderOutput
    <3> QED BY <2>3, <3>1 DEF ServerReceiveComplete, ServerExit,
                Delivery!Next, Delivery!SenderDone, Delivery!Whole
  <2>4. CASE ServerTimeout \/ ServerSend \/ ServerSendDone
    BY <2>4 DEF ServerTimeout, ServerSend, ServerSendDone, EndBurst, Delivery!vars
  <2>5. ASSUME NEW m \in toServer, ServerReceive(m)
        PROVE  UNCHANGED Delivery!vars
    BY <2>5 DEF ServerReceive, Delivery!vars
  <2>6. CASE ReadAck \/ ReadRwnd \/ SendRequest \/ Listen \/ Insert
             \/ PostReceive \/ Join
    BY <2>6 DEF ReadAck, ReadRwnd, SendRequest, Listen, Insert, PostReceive,
                Join, Delivery!vars
  <2>7. CASE TimeWaitAlarm
    <3>1. Len(output) = NumSegs
      BY <2>7 DEF TimeWaitAlarm, IInv, MainOK, InOrderOutput
    <3> QED BY <2>7, <3>1 DEF TimeWaitAlarm, Delivery!Next,
                Delivery!ReceiverClose, Delivery!Whole
  <2>8. ASSUME NEW m \in toClient, ReceiveDrop(m) \/ TimeWaitReply(m)
        PROVE  UNCHANGED Delivery!vars
    BY <2>8 DEF ReceiveDrop, TimeWaitReply, Delivery!vars
  <2>9. ASSUME NEW m \in toClient, Receive(m)
        PROVE  [Delivery!Next]_(Delivery!vars)
    <3>1. CASE m.seq = NotFound
      <4>1. ~fileExists
        BY <3>1, TransferAssumption
           DEF IInv, SegmentsOK, WireOK, NotFound, TypeOK
      <4> QED BY <2>9, <3>1, <4>1 DEF Receive, Delivery!Next,
                 Delivery!ReceiverNotFound
    <3>2. CASE m.seq # NotFound
      BY <2>9, <3>2 DEF Receive, Delivery!vars
    <3> QED BY <3>1, <3>2
  <2>10. CASE WakeUp \/ CountOut \/ Release \/ CheckEnd
    BY <2>10 DEF WakeUp, CountOut, Release, CheckEnd, Delivery!vars
  <2>11. CASE PrintHead
    <3> DEFINE h == ListHead
    <3>1. h \in recvBuf /\ h.seq = lastAcked + 1
      BY <2>11, ListHeadInList DEF PrintHead, HeadIsNext
    <3>2. h.data = h.seq /\ h.seq \in 1..NumSegs /\ fileExists
      BY <3>1 DEF IInv, ListOK, TypeOK, FileKnown
    <3>3. output' = Append(output, h.data)
      BY <2>11 DEF PrintHead
    <3> HIDE DEF h
    <3>4. Len(output) = lastAcked /\ lastAcked \in Int
      BY TransferAssumption DEF IInv, InOrderOutput, TypeOK
    <3>5. output' = Append(output, Len(output) + 1) /\ Len(output) < NumSegs
      BY <3>1, <3>2, <3>3, <3>4, TransferAssumption
    <3>6. cpc \notin {"closed", "notfound"} /\ cpc' = cpc
      <4>1. cpc # "closed"
        BY <3>4, <3>5, TransferAssumption DEF IInv, MainOK
      <4> QED BY <2>11, <4>1 DEF PrintHead, ProcessAlive
    <3>7. UNCHANGED <<fileExists, spc>>
      BY <2>11 DEF PrintHead
    <3> QED BY <3>2, <3>5, <3>6, <3>7 DEF Delivery!Next, Delivery!PrintChunk
  <2>12. CASE Network
    BY <2>12 DEF Network, LoseRequest, LoseSegment, Delivery!vars
  <2> QED BY <2>1, <2>2, <2>3, <2>4, <2>5, <2>6, <2>7, <2>8, <2>9, <2>10, <2>11,
             <2>12 DEF Next, Server, ClientMain, Consumer
<1> QED BY <1>1, <1>2, Invariance, PTL DEF Spec, DeliversFile, Delivery!Spec
=============================================================================
