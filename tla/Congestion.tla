----------------------------- MODULE Congestion -----------------------------
(***************************************************************************)
(* The congestion-control state machine of the file-transfer server        *)
(* (udpserv.c, get_cwnd and the timeout branch of the child's loop), as    *)
(* operators on one record.  The code keeps the fields in five local       *)
(* variables of mydg_echo and hands get_cwnd pointers to them.             *)
(***************************************************************************)
EXTENDS Integers

\* congestion_state: the numbers the code uses.
SlowStart == 1
Avoidance == 2
FastRecovery == 3

Congestion == [state : {SlowStart, Avoidance, FastRecovery}, cwnd : Nat,
               ssthresh : Nat, prev : Int, dup : Nat]

InitCongestion ==
  [state |-> SlowStart, cwnd |-> 1, ssthresh |-> 8, prev |-> 0, dup |-> 0]

\* Mutant: a window of 1 is halved to 0.
MutHalf(n) == n \div 2

\* Integer halving that never yields 0 (both the timeout and the third
\* duplicate take the new threshold this way).
HalfOrOne(n) == IF n \div 2 = 0 THEN 1 ELSE n \div 2

\* A duplicate acknowledgement outside fast recovery; the third one halves
\* the window and enters it.
CountDup(c) ==
  IF c.dup + 1 = 3
    THEN [c EXCEPT !.dup = 3, !.state = FastRecovery,
                   !.ssthresh = HalfOrOne(c.cwnd), !.cwnd = HalfOrOne(c.cwnd)]
    ELSE [c EXCEPT !.dup = c.dup + 1]

\* An acknowledgement other than the previous one, by state.
NewAckSlowStart(c) ==
  IF c.cwnd * 2 >= c.ssthresh
    THEN [c EXCEPT !.cwnd = c.ssthresh, !.state = Avoidance, !.dup = 0]
    ELSE [c EXCEPT !.cwnd = c.cwnd * 2, !.dup = 0]

NewAckAvoidance(c) == [c EXCEPT !.cwnd = c.cwnd + 1, !.dup = 0]

NewAckRecovery(c) ==
  [c EXCEPT !.state = Avoidance, !.cwnd = c.ssthresh, !.dup = 0]

\* get_cwnd: the window after an acknowledgement number "arrive" came in.
get_cwnd(c, arrive) ==
  CASE c.prev = arrive /\ c.state = FastRecovery -> [c EXCEPT !.cwnd = c.cwnd + 1]
    [] c.prev = arrive /\ c.state # FastRecovery -> CountDup(c)
    [] c.prev # arrive /\ c.state = SlowStart -> NewAckSlowStart(c)
    [] c.prev # arrive /\ c.state = Avoidance -> NewAckAvoidance(c)
    [] c.prev # arrive /\ c.state = FastRecovery -> NewAckRecovery(c)

\* The retransmission timer went off.
OnTimeout(c) ==
  [c EXCEPT !.state = SlowStart, !.ssthresh = HalfOrOne(c.cwnd),
            !.cwnd = 1, !.dup = 0]

\* What the server's window arithmetic relies on: at least one segment may
\* always be sent, and three duplicates are counted exactly in fast recovery.
CongestionOK(c) ==
  /\ c \in Congestion
  /\ c.cwnd >= 1 /\ c.ssthresh >= 1
  /\ c.dup \in 0..3
  /\ (c.state = FastRecovery) <=> (c.dup = 3)
=============================================================================
