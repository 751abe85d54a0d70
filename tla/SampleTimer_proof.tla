--------------------------- MODULE SampleTimer_proof ---------------------------
(***************************************************************************)
(* Proofs about SampleTimer for every period, tick count and bound.        *)
(***************************************************************************)
EXTENDS SampleTimer, TLAPS

\* The counter is as far from PastCountVal as the elapsed time says: exactly so
\* before the first rollover and, up to one cycle, after it.
ClockInv ==
    pc # "sample" =>
        /\ wrapped = 0 => cnt = past + elapsed
        /\ wrapped = 1 => elapsed >= Period + 1 - past + cnt
        /\ wrapped = 1 /\ elapsed <= Period => elapsed = Period + 1 - past + cnt

\* What the two reads of a pass know about the counter.
ReadsInv ==
    /\ pc \in {"test", "flag", "measure"} => rap = Period - past
    /\ pc = "measure" /\ rapFlag = 1 => wrapped = 1
    /\ pc = "measure" /\ rapFlag = 0 /\ torn = 0 => past <= cnt

\* A measurement does not exceed the elapsed time.
MeasureInv ==
    /\ pc \in {"test", "sample"} /\ polls = 1 /\ torn = 0 => check <= elapsed
    /\ pc = "sample" => check >= Count \/ elapsed >= Count

IInv == TypeOK /\ ClockInv /\ ReadsInv /\ MeasureInv /\ MeasuresElapsed

LEMMA InitIInv == Init => IInv
<1> SUFFICES ASSUME Init PROVE IInv
  OBVIOUS
<1> USE SampleTimerAssumption DEF Init
<1>1. TypeOK
  BY DEF TypeOK
<1>2. ClockInv
  BY DEF ClockInv
<1>3. ReadsInv
  BY DEF ReadsInv
<1>4. MeasureInv
  BY DEF MeasureInv
<1>5. MeasuresElapsed
  BY DEF MeasuresElapsed
<1> QED BY <1>1, <1>2, <1>3, <1>4, <1>5 DEF IInv

\* The counter and the clock move together.
LEMMA TickIInv == IInv /\ Tick => IInv'
<1> SUFFICES ASSUME IInv, Tick PROVE IInv'
  OBVIOUS
<1> USE SampleTimerAssumption DEF IInv, Tick, Patience, code
<1>1. TypeOK'
  BY DEF TypeOK
<1>2. ClockInv'
  BY DEF TypeOK, ClockInv
<1>3. ReadsInv'
  BY DEF TypeOK, ReadsInv
<1>4. MeasureInv'
  BY DEF TypeOK, MeasureInv
<1>5. MeasuresElapsed'
  BY DEF TypeOK, MeasuresElapsed
<1> QED BY <1>1, <1>2, <1>3, <1>4, <1>5

\* The measurement of a pass, in terms of the elapsed time.
LEMMA MeasureIInv == IInv /\ Measure => IInv'
<1> SUFFICES ASSUME IInv, Measure PROVE IInv'
  OBVIOUS
<1> USE SampleTimerAssumption DEF IInv, Measure
<1>1. ASSUME rapFlag = 1
      PROVE  /\ check' = Period - past + cnt
             /\ check' < elapsed
             /\ elapsed <= Period => elapsed - check' = 1
  BY <1>1 DEF TypeOK, ClockInv, ReadsInv, Measured, U32
<1>2. ASSUME rapFlag = 0, torn = 0
      PROVE  /\ check' = cnt - past
             /\ check' <= elapsed
             /\ elapsed <= Period => elapsed = check'
  BY <1>2 DEF TypeOK, ClockInv, ReadsInv, Measured, U32
<1>3. TypeOK'
  BY DEF TypeOK, ReadsInv, Measured, U32
<1>4. ClockInv' /\ ReadsInv'
  BY DEF ClockInv, ReadsInv
<1>5. MeasureInv'
  BY <1>1, <1>2, <1>3 DEF TypeOK, MeasureInv
<1>6. MeasuresElapsed'
  BY <1>1, <1>2, <1>3 DEF TypeOK, MeasuresElapsed
<1> QED BY <1>3, <1>4, <1>5, <1>6

LEMMA NextIInv == IInv /\ [Next]_vars => IInv'
<1> SUFFICES ASSUME IInv, [Next]_vars PROVE IInv'
  OBVIOUS
<1> USE SampleTimerAssumption
        DEF IInv, TypeOK, ClockInv, ReadsInv, MeasureInv, MeasuresElapsed, code
<1>1. CASE Tick
  BY <1>1, TickIInv
<1>2. CASE TakePastCountVal
  BY <1>2 DEF TakePastCountVal
<1>3. CASE EnterWait
  BY <1>3 DEF EnterWait
<1>4. CASE Poll
  BY <1>4 DEF Poll, StillShort
<1>5. CASE Return
  BY <1>5 DEF Return, StillShort
<1>6. CASE ReadRapFlag
  BY <1>6 DEF ReadRapFlag
<1>7. CASE Measure
  BY <1>7, MeasureIInv
<1>8. CASE UNCHANGED vars
  BY <1>8 DEF vars
<1> QED BY <1>1, <1>2, <1>3, <1>4, <1>5, <1>6, <1>7, <1>8 DEF Next, Cpu

THEOREM Invariance == Spec => []IInv
BY InitIInv, NextIInv, PTL DEF Spec

\* Every variable keeps its type, whatever the constants.
THEOREM TypeCorrect == Spec => []TypeOK
BY Invariance, PTL DEF IInv

\* EnsureSetRuntime (Timer.c:37-60) returns before the delay is over only if its
\* uninitialised variable let it, or TIM2 rolled over between its two reads.
THEOREM NeverEarlyOtherwise == Spec => []EarlyOnlyIfTorn
<1>1. IInv => EarlyOnlyIfTorn
  BY SampleTimerAssumption DEF IInv, TypeOK, MeasureInv, EarlyOnlyIfTorn
<1> QED BY <1>1, Invariance, PTL

\* Within one counter cycle, what Timer.c:54 and 58 measure is the elapsed time or
\* one tick less.
THEOREM MeasurementAccurate == Spec => []MeasuresElapsed
BY Invariance, PTL DEF IInv

-----------------------------------------------------------------------------
(***************************************************************************)
(* How late a wait can be.  Five steps without a rollover that nobody saw  *)
(* have to fit in a counter cycle.                                         *)
(***************************************************************************)
GapsAreShort == Count + 4 * MaxGap <= Period

\* Each step of a pass adds at most one gap; a pass begins only if the delay was
\* not over when it was measured.
PassInv ==
    /\ pc # "work" => lag <= MaxGap
    /\ pc = "measure" /\ torn = 1 => wrapped = 1
    /\ worked <= Count =>
          /\ pc = "test" => /\ elapsed <= Count + 3 * MaxGap + lag
                            /\ check < Count \/ polls = 0 => elapsed <= Count + lag
          /\ pc = "flag" => elapsed <= Count + MaxGap + lag
          /\ pc = "measure" => elapsed <= Count + 2 * MaxGap + lag

LEMMA InitPassInv == Init => PassInv
BY SampleTimerAssumption DEF Init, PassInv

\* A measurement below Count is one of a time that is not over.
LEMMA ShortMeansShort ==
    ASSUME GapsAreShort, IInv, PassInv, Measure, worked <= Count, check' < Count
    PROVE  elapsed <= Count
<1> USE SampleTimerAssumption DEF IInv, Measure
<1>1. elapsed <= Period
  BY DEF GapsAreShort, PassInv, TypeOK
<1>2. CASE rapFlag = 1
  <2>1. check' = Period - past + cnt /\ elapsed = Period + 1 - past + cnt
    BY <1>1, <1>2 DEF TypeOK, ClockInv, ReadsInv, Measured, U32
  <2> QED BY <2>1 DEF TypeOK
<1>3. CASE rapFlag = 0 /\ torn = 0
  <2>1. check' = cnt - past /\ elapsed = cnt - past
    BY <1>1, <1>3 DEF TypeOK, ClockInv, ReadsInv, Measured, U32
  <2> QED BY <2>1 DEF TypeOK
<1>4. CASE rapFlag = 0 /\ torn = 1
  <2>1. cnt < past
    BY <1>1, <1>4 DEF TypeOK, ClockInv, PassInv
  <2>2. check' = cnt - past + Word
    BY <1>4, <2>1 DEF TypeOK, Measured, U32
  <2> QED BY <2>2 DEF TypeOK
<1> QED BY <1>2, <1>3, <1>4 DEF TypeOK

LEMMA NextPassInv ==
    ASSUME GapsAreShort, IInv, PassInv, [Next]_vars
    PROVE  PassInv'
<1> USE SampleTimerAssumption DEF IInv, TypeOK, PassInv, code
<1>1. CASE Tick
  BY <1>1 DEF Tick, Patience
<1>2. CASE TakePastCountVal
  BY <1>2 DEF TakePastCountVal
<1>3. CASE EnterWait
  BY <1>3 DEF EnterWait
<1>4. CASE Poll
  BY <1>4 DEF Poll, StillShort
<1>5. CASE Return
  BY <1>5 DEF Return, StillShort
<1>6. CASE ReadRapFlag
  BY <1>6 DEF ReadRapFlag
<1>7. CASE Measure
  <2>1. worked <= Count /\ check' < Count => elapsed <= Count
    BY <1>7, ShortMeansShort
  <2> QED BY <1>7, <2>1 DEF Measure
<1>8. CASE UNCHANGED vars
  BY <1>8 DEF vars
<1> QED BY <1>1, <1>2, <1>3, <1>4, <1>5, <1>6, <1>7, <1>8 DEF Next, Cpu

\* When the work fits in the delay and no gap between two steps of the wait is long,
\* EnsureSetRuntime (Timer.c:37-60) comes back at most four gaps late.
THEOREM NeverLate == ASSUME GapsAreShort PROVE Spec => []ReturnsInTime
<1>1. PassInv /\ TypeOK => ReturnsInTime
  BY SampleTimerAssumption DEF PassInv, TypeOK, ReturnsInTime
<1>2. IInv /\ PassInv /\ [Next]_vars => PassInv'
  BY NextPassInv
<1> QED BY <1>1, <1>2, InitPassInv, Invariance, PTL DEF Spec, IInv
=============================================================================
