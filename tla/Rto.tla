-------------------------------- MODULE Rto --------------------------------
(***************************************************************************)
(* The retransmission timer of the file-transfer server: the round-trip    *)
(* estimator and the backoff at the head of the child's loop in udpserv.c. *)
(* Times are microseconds in 32-bit ints.  What the loop does with the     *)
(* datagrams is module Transfer.                                           *)
(***************************************************************************)
EXTENDS Integers

CONSTANTS MaxRexmt,   \* RTT_MAXNREXMT
          RTTMIN,     \* milliseconds
          RTTMAX,
          InitRtt,    \* the initial srtt and rttvar
          Samples,    \* times between a segment and the next request
          MaxInt,     \* INT_MAX
          MaxRounds   \* bound: rounds of the loop in which the estimate changes

ASSUME RtoAssumption ==
  /\ MaxRexmt \in Nat /\ RTTMIN \in Nat \ {0} /\ RTTMAX \in Nat
  /\ RTTMIN <= RTTMAX
  /\ InitRtt \in Nat /\ Samples \subseteq Nat /\ MaxInt \in Nat
  /\ MaxRounds \in Nat

\* RTTMAX, in microseconds, times pow(2, n) fits an int in all rounds but the last
\* two (with the code's 3000 ms and 12 retries, up to n = 9).
ASSUME BackoffAssumption ==
  \A n \in 0..MaxRexmt : n < MaxRexmt - 2 => RTTMAX * 1000 * 2^n <= MaxInt

VARIABLES pc,            \* "head", "select", "failed", "aborted"
          srtt, rttvar,  \* the estimator's state, scaled by 8 and 4
          RTO,           \* 0 before the first round
          measuredRTT,
          transTime,     \* trans_time
          lastPacketDrop, updateRtt,
          consePacketDrop,
          rounds         \* not in the code: counts the updates

vars == <<pc, srtt, rttvar, RTO, measuredRTT, transTime, lastPacketDrop,
          updateRtt, consePacketDrop, rounds>>

Init ==
  /\ pc = "head"
  /\ srtt = InitRtt /\ rttvar = InitRtt /\ RTO = 0 /\ measuredRTT = 0
  /\ transTime = 0
  /\ lastPacketDrop = FALSE /\ updateRtt = TRUE
  /\ consePacketDrop = 0 /\ rounds = 0

\* Mutant: the sign is kept.
MutSigned(x) == x

Abs(x) == IF x < 0 THEN -x ELSE x

\* Mutant: the upper limit is forgotten.
MutClipBelow(x) == IF x < RTTMIN * 1000 THEN RTTMIN * 1000 ELSE x

Clip(x) == IF x < RTTMIN * 1000 THEN RTTMIN * 1000
           ELSE IF x > RTTMAX * 1000 THEN RTTMAX * 1000 ELSE x

\* The new estimate from a sample (>> is the floor of the division).
Err(sample) == sample - srtt \div 8
NewSrtt(sample) == srtt + Err(sample)
NewRttvar(sample) == rttvar + Abs(Err(sample)) - rttvar \div 4
NewRTO(sample) == Clip(NewSrtt(sample) \div 8 + NewRttvar(sample))

Overflows(rto, drops) == rto > MaxInt \div 2^drops

\* Mutant: the backoff is not cut at RTTMAX.
MutUncut(rto, drops) == {IF Overflows(rto, drops) THEN -MaxInt - 1 ELSE rto * 2^drops}

\* RTO * pow(2, drops) converted to int, then cut at RTTMAX.  A product that
\* does not fit is undefined: it becomes INT_MIN, or INT_MAX, which is cut.
TransTimes(rto, drops) ==
  IF Overflows(rto, drops)
    THEN {-MaxInt - 1, RTTMAX * 1000}
    ELSE {IF rto * 2^drops > RTTMAX * 1000 THEN RTTMAX * 1000
                                            ELSE rto * 2^drops}

\* The retry limit.
GiveUp ==
  /\ pc = "head" /\ consePacketDrop = MaxRexmt
  /\ pc' = "aborted"
  /\ UNCHANGED <<srtt, rttvar, RTO, measuredRTT, transTime, lastPacketDrop,
                 updateRtt, consePacketDrop, rounds>>

\* The estimate is updated after a request, but for the first one after a
\* timeout; then the timer is set and select called.
SetTimer ==
  /\ pc = "head" /\ consePacketDrop < MaxRexmt
  /\ IF ~lastPacketDrop /\ updateRtt
       THEN /\ rounds < MaxRounds
            /\ rounds' = rounds + 1
            /\ srtt' = NewSrtt(measuredRTT)
            /\ rttvar' = NewRttvar(measuredRTT)
            /\ RTO' = NewRTO(measuredRTT)
       ELSE UNCHANGED <<srtt, rttvar, RTO, rounds>>
  /\ updateRtt' = (updateRtt \/ ~lastPacketDrop)
  /\ transTime' \in TransTimes(RTO', consePacketDrop)
  /\ pc' = "select"
  /\ UNCHANGED <<measuredRTT, lastPacketDrop, consePacketDrop>>

\* select refuses a negative timeout: err_sys.
SelectError ==
  /\ pc = "select" /\ transTime < 0
  /\ pc' = "failed"
  /\ UNCHANGED <<srtt, rttvar, RTO, measuredRTT, transTime, lastPacketDrop,
                 updateRtt, consePacketDrop, rounds>>

Timeout ==
  /\ pc = "select" /\ transTime >= 0
  /\ lastPacketDrop' = TRUE /\ updateRtt' = FALSE
  /\ consePacketDrop' = consePacketDrop + 1
  /\ pc' = "head"
  /\ UNCHANGED <<srtt, rttvar, RTO, measuredRTT, transTime, rounds>>

\* A request: measuredRTT is the time since the last new segment was sent.
Request ==
  /\ pc = "select" /\ transTime >= 0
  /\ measuredRTT' \in Samples
  /\ lastPacketDrop' = FALSE
  /\ consePacketDrop' = 0
  /\ pc' = "head"
  /\ UNCHANGED <<srtt, rttvar, RTO, transTime, updateRtt, rounds>>

Next == GiveUp \/ SetTimer \/ SelectError \/ Timeout \/ Request

Spec == Init /\ [][Next]_vars

-----------------------------------------------------------------------------
TypeOK ==
  /\ pc \in {"head", "select", "failed", "aborted"}
  /\ srtt \in Int /\ rttvar \in Int /\ RTO \in Nat /\ measuredRTT \in Nat
  /\ transTime \in Int
  /\ lastPacketDrop \in BOOLEAN /\ updateRtt \in BOOLEAN
  /\ consePacketDrop \in 0..MaxRexmt /\ rounds \in Nat

\* The estimator's integer arithmetic (subtractions and shifts) never drives
\* an estimate below zero, so the sum before the clipping is no negative time,
\* and no timer is set from the RTO the declaration leaves uninitialized.
EstimateSound ==
  /\ srtt >= 0 /\ rttvar >= 0
  /\ pc = "select" => RTO \in (RTTMIN * 1000)..(RTTMAX * 1000)

\* The product fits an int, and the timer is a time between RTTMIN and RTTMAX,
\* in all rounds but the last two before the retry limit.
TimerSoundBeforeLastTwo ==
  pc = "select" /\ consePacketDrop < MaxRexmt - 2
    => transTime \in (RTTMIN * 1000)..(RTTMAX * 1000)

\* The server gives up for want of an answer only after MaxRexmt timeouts in a
\* row or, the product out of range, in one of the two rounds before them.
GivesUpLate ==
  pc \in {"failed", "aborted"} => consePacketDrop >= MaxRexmt - 2
=============================================================================
