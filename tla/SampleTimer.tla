----------------------------- MODULE SampleTimer -----------------------------
(***************************************************************************)
(* EnsureSetRuntime of Discovery_board/src/Timer.c, run against the        *)
(* free-running TIM2, with the part of main's loop that uses it: take      *)
(* PastCountVal, do the sampling work, wait until the delay is over.       *)
(*                                                                         *)
(* The processor and TIM2 run concurrently.  Each read of TIM2->CNT is a   *)
(* step of its own, because the source reads the counter twice per pass:   *)
(* once to see whether it rolled over and once to measure.                 *)
(***************************************************************************)
EXTENDS Integers

CONSTANTS Period,    \* TIM_Period: TIM2 counts 0..Period
          Count,     \* ticks required, as computed at Timer.c:42
          Word,      \* number of values of a uint32_t
          Leftover,  \* values a build may leave in the uninitialised `check`
          MaxGap,    \* bound: TIM2 ticks between two steps of the wait
          MaxWork,   \* bound: TIM2 ticks taken by the work between waits
          Horizon    \* bound: the ghost clock stops here

ASSUME SampleTimerAssumption ==
    /\ Period \in Nat /\ Count \in Nat /\ Word \in Nat
    /\ MaxGap \in Nat /\ MaxWork \in Nat /\ Horizon \in Nat
    /\ Count <= Period
    /\ 2 * Period < Word
    /\ Leftover # {} /\ Leftover \subseteq 0..(Word - 1)
    /\ 2 * Period < Horizon

VARIABLES pc,       \* "sample" | "work" | "test" | "flag" | "measure"
          cnt,      \* TIM2->CNT
          past,     \* PastCountVal
          rap,      \* rap_addtion
          rapFlag,  \* RapFlag
          check,    \* check
          \* history variables, never read by the code
          elapsed,  \* ticks since PastCountVal was taken, up to Horizon
          worked,   \* elapsed when the wait was entered
          polls,    \* 1 once check has been measured in this wait
          wrapped,  \* 1 once CNT has rolled over since PastCountVal was taken
          torn,     \* 1 if CNT rolled over between the two reads of the last pass
          lag       \* ticks since the processor's last step

code == <<past, rap, rapFlag, check>>
vars == <<pc, cnt, past, rap, rapFlag, check,
          elapsed, worked, polls, wrapped, torn, lag>>

\* Mutant: signed arithmetic.
U32_signed(x) == x

\* uint32_t arithmetic on a sum or difference of two counter values.
U32(x) == IF x < 0 THEN x + Word ELSE IF x >= Word THEN x - Word ELSE x

Init == /\ pc = "sample"
        /\ cnt = 0
        /\ past = 0 /\ rap = 0 /\ rapFlag = 0 /\ check = 0
        /\ elapsed = Horizon /\ worked = Horizon
        /\ polls = 1 /\ wrapped = 0 /\ torn = 0
        /\ lag = 0

-----------------------------------------------------------------------------
\* The counter

Patience == IF pc = "work" THEN MaxWork ELSE MaxGap

Tick == /\ lag < Patience
        /\ lag' = lag + 1
        /\ cnt' = IF cnt = Period THEN 0 ELSE cnt + 1
        /\ wrapped' = IF cnt = Period THEN 1 ELSE wrapped
        /\ torn' = IF pc = "measure" /\ cnt = Period THEN 1 ELSE torn
        /\ elapsed' = IF elapsed < Horizon THEN elapsed + 1 ELSE Horizon
        /\ UNCHANGED <<pc, worked, polls, code>>

-----------------------------------------------------------------------------
\* The processor

\* main.c:63
TakePastCountVal == /\ pc = "sample"
                    /\ past' = cnt
                    /\ elapsed' = 0
                    /\ wrapped' = 0
                    /\ lag' = 0
                    /\ pc' = "work"
                    /\ UNCHANGED <<cnt, rap, rapFlag, check, worked, polls, torn>>

\* Mutant: the whole period is added after a rollover.
EnterWait_wholePeriod ==
             /\ pc = "work"
             /\ rap' = Period
             /\ check' \in Leftover
             /\ worked' = elapsed
             /\ polls' = 0
             /\ torn' = 0
             /\ lag' = 0
             /\ pc' = "test"
             /\ UNCHANGED <<cnt, past, rapFlag, elapsed, wrapped>>

\* main.c:64-80, then the declarations: check is not initialised.
EnterWait == /\ pc = "work"
             /\ rap' = Period - past
             /\ check' \in Leftover
             /\ worked' = elapsed
             /\ polls' = 0
             /\ torn' = 0
             /\ lag' = 0
             /\ pc' = "test"
             /\ UNCHANGED <<cnt, past, rapFlag, elapsed, wrapped>>

\* Mutant: wait for exactly the count.
StillShort_exact == check # Count

\* Mutant: wait for the whole period of the timer.
StillShort_period == check < Period

StillShort == check < Count

Poll == /\ pc = "test"
        /\ StillShort
        /\ pc' = "flag"
        /\ lag' = 0
        /\ UNCHANGED <<cnt, code, elapsed, worked, polls, wrapped, torn>>

Return == /\ pc = "test"
          /\ ~StillShort
          /\ pc' = "sample"
          /\ lag' = 0
          /\ UNCHANGED <<cnt, code, elapsed, worked, polls, wrapped, torn>>

\* The first read of CNT in a pass.
ReadRapFlag == /\ pc = "flag"
               /\ rapFlag' = IF past > cnt THEN 1 ELSE 0
               /\ torn' = 0
               /\ pc' = "measure"
               /\ lag' = 0
               /\ UNCHANGED <<cnt, past, rap, check, elapsed, worked, polls, wrapped>>

\* Mutant: the rollover is ignored.
Measured_noRap == U32(cnt - past)

\* The second read of CNT in a pass.
Measured == IF rapFlag # 0 THEN U32(rap + cnt) ELSE U32(cnt - past)

Measure == /\ pc = "measure"
           /\ check' = Measured
           /\ polls' = 1
           /\ pc' = "test"
           /\ lag' = 0
           /\ UNCHANGED <<cnt, past, rap, rapFlag, elapsed, worked, wrapped, torn>>

Cpu == TakePastCountVal \/ EnterWait \/ Poll \/ Return \/ ReadRapFlag \/ Measure

Next == Tick \/ Cpu

Spec == Init /\ [][Next]_vars

\* TIM2 is never stopped and main() is the only thread.
FairSpec == Spec /\ WF_vars(Tick) /\ WF_vars(Cpu)

-----------------------------------------------------------------------------

\* Type invariant.
TypeOK == /\ pc \in {"sample", "work", "test", "flag", "measure"}
          /\ cnt \in 0..Period /\ past \in 0..Period /\ rap \in 0..Period
          /\ rapFlag \in 0..1
          /\ check \in 0..(Word - 1)
          /\ elapsed \in 0..Horizon /\ worked \in 0..Horizon
          /\ polls \in 0..1 /\ wrapped \in 0..1 /\ torn \in 0..1
          /\ lag \in 0..(MaxGap + MaxWork)

\* The wait may return before the delay is over only for one of two reasons: it
\* never measured (check was left over from the stack), or TIM2 rolled over
\* between the two reads of a pass (lines 50 and 58).
EarlyOnlyIfTorn == pc = "sample" /\ elapsed < Count => polls = 0 \/ torn = 1

\* A measurement is the time since PastCountVal, or one tick less (after a
\* rollover line 54 forgets the tick from Period to 0), as long as a whole
\* counter cycle has not gone by.
MeasuresElapsed ==
    pc = "test" /\ polls = 1 /\ torn = 0 /\ elapsed <= Period =>
        elapsed - lag - check \in {0, 1}

\* If the work fits in the delay, the wait returns at most one pass of the loop
\* and one forgotten tick late.
ReturnsInTime ==
    pc = "test" /\ worked <= Count => elapsed <= Count + 4 * MaxGap

\* Every wait ends.
WaitEnds == pc = "test" ~> pc = "sample"

\* Timer.h:31: "to ensure a set delay between succive data".  A wait that has
\* measured returns only once the delay is over.
MeasuredDelayEnsured == pc = "sample" /\ polls = 1 => elapsed >= Count
=============================================================================
