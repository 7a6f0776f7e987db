------------------------------ MODULE RtoProof ------------------------------
(***************************************************************************)
(* The retransmission timer of module Rto, for all samples, all initial    *)
(* estimates and any number of rounds: the estimate and the timer stay in  *)
(* range until the last two rounds before the retry limit.                 *)
(***************************************************************************)
EXTENDS Rto, FiniteSetTheorems, TLAPS

-----------------------------------------------------------------------------
(* The inductive invariant. *)

Low == RTTMIN * 1000
High == RTTMAX * 1000

\* The flags are left to FlagsTyped.
Numbers ==
  /\ pc \in {"head", "select", "failed", "aborted"}
  /\ srtt \in Nat /\ rttvar \in Nat /\ RTO \in Nat /\ measuredRTT \in Nat
  /\ transTime \in Int
  /\ consePacketDrop \in 0..MaxRexmt /\ rounds \in Nat

Flags == lastPacketDrop \in BOOLEAN /\ updateRtt \in BOOLEAN

\* RTO is uninitialized before the first round only, which sets it: no timeout
\* has yet been counted that would skip the update.
RtoSet ==
  \/ RTO \in Low..High
  \/ pc \in {"head", "aborted"} /\ ~lastPacketDrop /\ updateRtt

\* A timer that was set in time is in range, and so the loop is not left.
TimerInRange ==
  /\ pc = "select" => consePacketDrop < MaxRexmt
  /\ TimerSoundBeforeLastTwo /\ GivesUpLate

RInv == Numbers /\ RtoSet /\ TimerInRange

-----------------------------------------------------------------------------
(* Arithmetic. *)

\* The limits of the timer are in order.
LEMMA LowHigh == Low \in Nat \ {0} /\ High \in Nat /\ Low <= High
BY RtoAssumption DEF Low, High

\* The timer is cut to its limits (rtt_minmax).
LEMMA ClipRange ==
  ASSUME NEW x \in Int
  PROVE  Clip(x) \in Low..High
BY RtoAssumption DEF Clip, Low, High

\* A shift takes away no more than there is: the new estimates are not negative.
LEMMA NewEstimates ==
  ASSUME Numbers
  PROVE  /\ NewSrtt(measuredRTT) \in Nat
         /\ NewRttvar(measuredRTT) \in Nat
         /\ NewRTO(measuredRTT) \in Low..High
<1>1. srtt \div 8 \in Nat /\ srtt \div 8 <= srtt
  BY DEF Numbers
<1>2. rttvar \div 4 \in Nat /\ rttvar \div 4 <= rttvar
  BY DEF Numbers
<1>3. Err(measuredRTT) \in Int /\ srtt + Err(measuredRTT) \in Nat
  BY <1>1 DEF Numbers, Err
<1>4. Abs(Err(measuredRTT)) \in Nat
  BY <1>3 DEF Abs
<1>5. NewSrtt(measuredRTT) \in Nat
  BY <1>3 DEF NewSrtt
<1>6. NewRttvar(measuredRTT) \in Nat
  BY <1>2, <1>4 DEF NewRttvar, Numbers
<1>7. NewSrtt(measuredRTT) \div 8 + NewRttvar(measuredRTT) \in Int
  BY <1>5, <1>6
<1> QED BY <1>5, <1>6, <1>7, ClipRange DEF NewRTO

\* Division undoes a multiplication that fits.
LEMMA Quotient ==
  ASSUME NEW a \in Nat, NEW b \in Nat, NEW p \in Nat \ {0}, a * p <= b
  PROVE  a <= b \div p
OBVIOUS

\* A power of two is positive, for it counts the subsets of an interval.
LEMMA PowerIsPositive ==
  ASSUME NEW n \in Nat
  PROVE  2^n \in Nat \ {0}
<1>1. IsFiniteSet(1..n) /\ Cardinality(1..n) = n
  BY FS_Interval
<1>2. IsFiniteSet(SUBSET (1..n)) /\ Cardinality(SUBSET (1..n)) = 2^n
  BY <1>1, FS_SUBSET
<1>3. SUBSET (1..n) # {}
  OBVIOUS
<1>4. Cardinality(SUBSET (1..n)) # 0
  BY <1>2, <1>3, FS_EmptySet
<1>5. Cardinality(SUBSET (1..n)) \in Nat
  BY <1>2, FS_CardinalityType
<1> QED BY <1>2, <1>4, <1>5

\* In the rounds in which the greatest RTO fits, the product does, and is cut to
\* the range.
LEMMA TransTimesInRange ==
  ASSUME NEW rto \in Low..High, NEW n \in 0..MaxRexmt, n < MaxRexmt - 2
  PROVE  TransTimes(rto, n) \subseteq Low..High
<1> DEFINE p == 2^n
<1>1. p \in Nat \ {0} /\ High * p <= MaxInt
  <2>1. n \in Nat
    BY RtoAssumption
  <2>2. p \in Nat \ {0}
    BY <2>1, PowerIsPositive
  <2>3. High * p <= MaxInt
    BY BackoffAssumption DEF High
  <2> QED BY <2>2, <2>3
<1>2. rto \in Nat /\ Low \in Nat /\ High \in Nat /\ MaxInt \in Nat /\ rto <= High /\ Low <= rto
      /\ High * p \in Nat
  BY LowHigh, RtoAssumption, <1>1
<1>d. 2^n = p
  OBVIOUS
<1> HIDE DEF p
<1>3. High <= MaxInt \div p /\ MaxInt \div p \in Nat
  BY <1>1, <1>2, Quotient
<1>4. ~Overflows(rto, n)
  BY <1>1, <1>2, <1>3, <1>d DEF Overflows
<1>5. rto * p \in Nat /\ rto * p >= rto
  BY <1>1, <1>2
<1> QED BY <1>2, <1>4, <1>5, <1>d DEF TransTimes, High

\* A timer is an int in any case.
LEMMA TransTimesType ==
  ASSUME NEW rto \in Low..High, NEW n \in 0..MaxRexmt
  PROVE  TransTimes(rto, n) \subseteq Int
<1> DEFINE p == 2^n
<1>1. p \in Nat /\ rto \in Nat /\ MaxInt \in Nat /\ High \in Nat
  <2>1. n \in Nat
    BY RtoAssumption
  <2>2. p \in Nat
    BY <2>1, PowerIsPositive
  <2> QED BY <2>2, RtoAssumption, LowHigh
<1>d. 2^n = p
  OBVIOUS
<1> HIDE DEF p
<1>2. rto * p \in Int /\ -MaxInt - 1 \in Int
  BY <1>1
<1> QED BY <1>1, <1>2, <1>d DEF TransTimes, High

-----------------------------------------------------------------------------
(* Steps. *)

\* The flags are Booleans in every reachable state.
LEMMA FlagsTyped == Spec => []Flags
<1>1. Init => Flags
  BY DEF Init, Flags
<1>2. Flags /\ [Next]_vars => Flags'
  BY DEF Flags, Next, vars, GiveUp, SetTimer, SelectError, Timeout, Request
<1> QED BY <1>1, <1>2, PTL DEF Spec

\* The invariant holds at the start.
LEMMA InitRInv == Init => RInv
BY RtoAssumption DEF Init, RInv, Numbers, RtoSet, TimerInRange, TimerSoundBeforeLastTwo,
   GivesUpLate

\* A round that measures or backs off and sets the timer keeps the invariant.
LEMMA SetTimerStep == RInv /\ SetTimer => RInv'
<1> SUFFICES ASSUME RInv, SetTimer PROVE RInv'
  OBVIOUS
<1>1. /\ srtt' \in Nat /\ rttvar' \in Nat /\ RTO' \in Low..High /\ rounds' \in Nat
  <2>1. CASE ~lastPacketDrop /\ updateRtt
    BY <2>1, NewEstimates DEF SetTimer, RInv, Numbers
  <2>2. CASE ~(~lastPacketDrop /\ updateRtt)
    BY <2>2 DEF SetTimer, RInv, Numbers, RtoSet
  <2> QED BY <2>1, <2>2
<1>2. /\ pc' = "select" /\ consePacketDrop' = consePacketDrop
      /\ consePacketDrop \in 0..MaxRexmt /\ consePacketDrop < MaxRexmt
      /\ transTime' \in TransTimes(RTO', consePacketDrop)
      /\ measuredRTT' \in Nat
  BY DEF SetTimer, RInv, Numbers
<1>3. transTime' \in Int
  BY <1>1, <1>2, TransTimesType
<1>4. consePacketDrop < MaxRexmt - 2 => transTime' \in Low..High
  BY <1>1, <1>2, TransTimesInRange
<1>5. RTO' \in Nat
  BY <1>1, LowHigh
<1>6. Numbers' /\ RtoSet'
  BY <1>1, <1>2, <1>3, <1>5 DEF Numbers, RtoSet
<1>7. TimerInRange'
  BY <1>2, <1>4 DEF TimerInRange, TimerSoundBeforeLastTwo, GivesUpLate, Low, High
<1> QED BY <1>6, <1>7 DEF RInv

\* select fails on a negative timer only, which is none that was set in time.
LEMMA SelectErrorStep == RInv /\ SelectError => RInv'
<1> SUFFICES ASSUME RInv, SelectError PROVE RInv'
  OBVIOUS
<1>1. consePacketDrop >= MaxRexmt - 2
  BY LowHigh, RtoAssumption DEF SelectError, RInv, Numbers, TimerInRange, TimerSoundBeforeLastTwo,
     Low, High
<1> QED BY <1>1 DEF SelectError, RInv, Numbers, RtoSet, TimerInRange, TimerSoundBeforeLastTwo,
        GivesUpLate

\* The other steps of a round keep it.
LEMMA OtherStep == RInv /\ (GiveUp \/ Timeout \/ Request) => RInv'
<1> SUFFICES ASSUME RInv, GiveUp \/ Timeout \/ Request PROVE RInv'
  OBVIOUS
<1> USE DEF RInv, Numbers, RtoSet, TimerInRange, TimerSoundBeforeLastTwo, GivesUpLate
<1>1. CASE GiveUp
  BY <1>1, RtoAssumption DEF GiveUp
<1>2. CASE Timeout
  BY <1>2, RtoAssumption DEF Timeout
<1>3. CASE Request
  BY <1>3, RtoAssumption DEF Request
<1> QED BY <1>1, <1>2, <1>3

-----------------------------------------------------------------------------
(* Theorems. *)

\* The invariant of the timer: estimates that are no less than 0, an RTO within
\* its limits, and a timer that is sound up to the round in which 2^k overflows.
THEOREM TimerInvariant == Spec => []RInv
<1>1. RInv /\ [Next]_vars => RInv'
  <2>1. RInv /\ UNCHANGED vars => RInv'
    BY DEF vars, RInv, Numbers, RtoSet, TimerInRange, TimerSoundBeforeLastTwo, GivesUpLate
  <2> QED BY <2>1, SetTimerStep, SelectErrorStep, OtherStep DEF Next
<1> QED BY <1>1, InitRInv, PTL DEF Spec

\* All variables of the timer keep their types.
THEOREM TypeCorrect == Spec => []TypeOK
<1>1. RInv /\ Flags => TypeOK
  BY DEF RInv, Numbers, Flags, TypeOK
<1> QED BY <1>1, TimerInvariant, FlagsTyped, PTL

\* EstimateSound: the arithmetic of the estimator never goes below zero, whatever
\* the samples, and no timer is set from the uninitialized RTO.
THEOREM EstimateIsSound == Spec => []EstimateSound
<1>1. RInv => EstimateSound
  BY DEF RInv, Numbers, RtoSet, EstimateSound, Low, High
<1> QED BY <1>1, TimerInvariant, PTL

\* TimerSoundBeforeLastTwo: no overflow and a timer in range, until two rounds
\* before the retry limit.
THEOREM TimerIsSound == Spec => []TimerSoundBeforeLastTwo
BY TimerInvariant, PTL DEF RInv, TimerInRange

\* GivesUpLate: a server that stops for want of an answer has had all its
\* timeouts, or all but two.
THEOREM NoEarlyEnd == Spec => []GivesUpLate
BY TimerInvariant, PTL DEF RInv, TimerInRange
=============================================================================
