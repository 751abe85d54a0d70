------------------------------ MODULE TimerSetup ------------------------------
(***************************************************************************)
(* InitializeTimer of Discovery_board/src/Timer.c: the search for a TIM2   *)
(* prescaler, and the period and tick count computed from what it found.   *)
(*                                                                         *)
(* Clock is the literal 2*84000000 of the source, in timer ticks per two   *)
(* seconds.  All divisions are C's unsigned divisions of non-negative      *)
(* numbers, so \div and % are exact.                                       *)
(***************************************************************************)
EXTENDS Integers

CONSTANTS Clock,     \* 2*84000000
          Freqs,     \* values of DelayFreq a caller passes
          MaxPsc     \* 65535, the bound of the search on a uint16_t

ASSUME TimerSetupAssumption ==
    /\ Clock \in Nat \ {0}
    /\ MaxPsc \in Nat \ {0}
    /\ Freqs \subseteq {f \in Nat \ {0} : 2 * f * (MaxPsc + 1) <= Clock}

VARIABLES pc,        \* "search" | "done"
          freq,      \* DelayFreq
          psc,       \* timerInitStructure->TIM_Prescaler
          period     \* timerInitStructure->TIM_Period

vars == <<pc, freq, psc, period>>

\* The loop's exit test.  The -1 is unsigned, so the test is "remainder = 1".
RemainderIsOne(f, p) == (Clock \div f) % (p + 1) = 1

\* Mutant: the period counts from one.
PeriodOf_noMinusOne(f, p) == Clock \div ((p + 1) * f)

\* TIM_Period: ticks for twice the delay, less one.
PeriodOf(f, p) == Clock \div ((p + 1) * f) - 1

\* Mutant: the tick count is not one less.
CountOf_noMinusOne(f, p) == (Clock \div 2) \div ((p + 1) * f)

\* count of EnsureSetRuntime: ticks for the delay, less one.
CountOf(f, p) == (Clock \div 2) \div ((p + 1) * f) - 1

Init == /\ pc = "search"
        /\ freq \in Freqs
        /\ psc = 0
        /\ period = 0

Finish(p) == /\ pc' = "done"
             /\ psc' = p
             /\ period' = PeriodOf(freq, p)
             /\ UNCHANGED freq

Found == /\ pc = "search"
         /\ RemainderIsOne(freq, psc)
         /\ Finish(psc)

\* Mutant: no range check.
Advance_noRangeCheck == /\ pc = "search"
                        /\ ~RemainderIsOne(freq, psc)
                        /\ psc' = psc + 1
                        /\ UNCHANGED <<pc, freq, period>>

\* The increment, and the range check that follows it.
Advance == /\ pc = "search"
           /\ ~RemainderIsOne(freq, psc)
           /\ psc + 1 < MaxPsc
           /\ psc' = psc + 1
           /\ UNCHANGED <<pc, freq, period>>

\* Mutant: the range check wraps the prescaler and has no break.
OutOfRange_noBreak == /\ pc = "search"
                      /\ ~RemainderIsOne(freq, psc)
                      /\ psc + 1 >= MaxPsc
                      /\ psc' = 0
                      /\ UNCHANGED <<pc, freq, period>>

OutOfRange == /\ pc = "search"
              /\ ~RemainderIsOne(freq, psc)
              /\ psc + 1 >= MaxPsc
              /\ Finish(psc + 1)

Next == Found \/ Advance \/ OutOfRange

Spec == Init /\ [][Next]_vars

\* main() is the only thread and nothing masks it out: the loop keeps running.
FairSpec == Spec /\ WF_vars(Next)

-----------------------------------------------------------------------------

\* Type invariant: the prescaler stays in its 16 bits, the period in range.
TypeOK == /\ pc \in {"search", "done"}
          /\ freq \in Freqs
          /\ psc \in 0..MaxPsc
          /\ period \in 0..Clock

\* A search that ended before the range check left a full counter cycle that is
\* one input tick short of two delays, and no other error.
FoundIsOneTickShort ==
    pc = "done" /\ psc < MaxPsc =>
        Clock \div freq - (period + 1) * (psc + 1) = 1

\* The tick count EnsureSetRuntime waits for is half a counter cycle (rounded
\* down), whatever the search ended with: the wait fits below the period.
WaitIsHalfACycle ==
    pc = "done" => period + 1 - 2 * (CountOf(freq, psc) + 1) \in {0, 1}

\* The search ends for every frequency.
SearchEnds == <>(pc = "done")
=============================================================================
