------------------------------ MODULE Button_proof ------------------------------
(***************************************************************************)
(* Proofs about Button for any number of polls.                            *)
(***************************************************************************)
EXTENDS Button, TLAPS

\* The shared flag is the pin as the last call of either function saw it, and
\* the reports are bounded by, or for a function polled alone equal to, the
\* changes seen.
FlagInv == /\ pressed \in BOOLEAN
           /\ lastSeen \in [{"OnPressed", "OnReleased", "any"} -> BOOLEAN]
           /\ flag = lastSeen["any"]

CountInv == /\ polled \subseteq {"OnPressed", "OnReleased"}
            /\ downs \in Nat /\ ups \in Nat /\ presses \in Nat /\ releases \in Nat
            /\ NoEventInvented
            /\ LoneFunctionMissesNothing

IInv == FlagInv /\ CountInv

LEMMA InitIInv == Init => IInv
<1> SUFFICES ASSUME Init PROVE IInv
  OBVIOUS
<1>1. FlagInv
  BY DEF Init, FlagInv
<1>2. CountInv
  BY DEF Init, CountInv, NoEventInvented, LoneFunctionMissesNothing
<1> QED BY <1>1, <1>2 DEF IInv

\* A call of OnPressed reports exactly the press it counts, and no release.
LEMMA PressedIInv == IInv /\ LED_ButtonOnPressed => IInv'
<1> SUFFICES ASSUME IInv, LED_ButtonOnPressed PROVE IInv'
  OBVIOUS
<1>1. FlagInv'
  BY DEF IInv, FlagInv, LED_ButtonOnPressed, Called
<1>2. /\ polled' = polled /\ "OnPressed" \in polled
      /\ ups' \in {ups, ups + 1} /\ releases' = releases
  BY DEF LED_ButtonOnPressed, Called
<1>3. \/ downs' = downs + 1 /\ presses' = presses + 1
      \/ downs' = downs /\ presses' = presses
  <2>1. CASE pressed /\ ~flag
    BY <2>1 DEF IInv, FlagInv, LED_ButtonOnPressed, Called
  <2>2. CASE ~(pressed /\ ~flag)
    BY <2>2 DEF IInv, FlagInv, LED_ButtonOnPressed, Called
  <2> QED BY <2>1, <2>2
<1>4. CountInv'
  BY <1>2, <1>3 DEF IInv, CountInv, NoEventInvented, LoneFunctionMissesNothing
<1> QED BY <1>1, <1>4 DEF IInv

\* A call of OnReleased reports exactly the release it counts, and no press.
LEMMA ReleasedIInv == IInv /\ LED_ButtonOnReleased => IInv'
<1> SUFFICES ASSUME IInv, LED_ButtonOnReleased PROVE IInv'
  OBVIOUS
<1>1. FlagInv'
  BY DEF IInv, FlagInv, LED_ButtonOnReleased, Called
<1>2. /\ polled' = polled /\ "OnReleased" \in polled
      /\ downs' \in {downs, downs + 1} /\ presses' = presses
  BY DEF LED_ButtonOnReleased, Called
<1>3. \/ ups' = ups + 1 /\ releases' = releases + 1
      \/ ups' = ups /\ releases' = releases
  <2>1. CASE ~pressed /\ flag
    BY <2>1 DEF IInv, FlagInv, LED_ButtonOnReleased, Called
  <2>2. CASE ~(~pressed /\ flag)
    BY <2>2 DEF IInv, FlagInv, LED_ButtonOnReleased, Called
  <2> QED BY <2>1, <2>2
<1>4. CountInv'
  BY <1>2, <1>3 DEF IInv, CountInv, NoEventInvented, LoneFunctionMissesNothing
<1> QED BY <1>1, <1>4 DEF IInv

LEMMA Invariance == Spec => []IInv
<1>1. IInv /\ [Next]_vars => IInv'
  <2> SUFFICES ASSUME IInv, [Next]_vars PROVE IInv'
    OBVIOUS
  <2>1. CASE User
    <3>1. FlagInv'
      BY <2>1 DEF User, IInv, FlagInv
    <3>2. CountInv'
      BY <2>1 DEF User, IInv, CountInv, NoEventInvented, LoneFunctionMissesNothing, count
    <3> QED BY <3>1, <3>2 DEF IInv
  <2>2. CASE UNCHANGED vars
    BY <2>2 DEF vars, IInv, FlagInv, CountInv, NoEventInvented,
       LoneFunctionMissesNothing, count
  <2> QED BY <2>1, <2>2, PressedIInv, ReleasedIInv DEF Next
<1> QED BY InitIInv, <1>1, PTL DEF Spec

\* The two functions, in any mixture, never report more presses or releases than
\* the calls have seen.
THEOREM EventsAreReal == Spec => []NoEventInvented
<1>1. IInv => NoEventInvented
  BY DEF IInv, CountInv
<1> QED BY <1>1, Invariance, PTL

\* A program that polls one of the two functions only gets every event of its
\* kind that a poll could see.
THEOREM AloneIsComplete == Spec => []LoneFunctionMissesNothing
<1>1. IInv => LoneFunctionMissesNothing
  BY DEF IInv, CountInv
<1> QED BY <1>1, Invariance, PTL

-----------------------------------------------------------------------------
\* A call counts at most one change of the button.
BoundInv == /\ ret \in [fn : {"none", "OnPressed", "OnReleased"}, event : BOOLEAN]
            /\ flag \in BOOLEAN
            /\ downs + ups <= MaxChanges

LEMMA NextBoundInv == IInv /\ BoundInv /\ [Next]_vars => BoundInv'
<1> SUFFICES ASSUME IInv, BoundInv, [Next]_vars PROVE BoundInv'
  OBVIOUS
<1> USE ButtonAssumption DEF BoundInv, IInv
<1>1. ASSUME NEW f \in {"OnPressed", "OnReleased"}, NEW e \in BOOLEAN, Called(f, e)
      PROVE  /\ ret' \in [fn : {"none", "OnPressed", "OnReleased"}, event : BOOLEAN]
             /\ downs' + ups' <= MaxChanges
  <2>1. ret' \in [fn : {"none", "OnPressed", "OnReleased"}, event : BOOLEAN]
    BY <1>1 DEF Called
  <2>2. \/ downs' = downs /\ ups' \in {ups, ups + 1}
        \/ downs' = downs + 1 /\ ups' = ups
    BY <1>1 DEF Called
  <2>3. downs + ups < MaxChanges
    BY <1>1 DEF Called
  <2>4. downs \in Nat /\ ups \in Nat /\ MaxChanges \in Nat
    BY DEF CountInv, ButtonAssumption
  <2>5. downs' + ups' <= MaxChanges
    BY <2>2, <2>3, <2>4
  <2> QED BY <2>1, <2>5
<1>2. CASE User
  BY <1>2 DEF User, count
<1>3. CASE LED_ButtonOnPressed
  <2>1. (pressed /\ ~flag) \in BOOLEAN /\ Called("OnPressed", pressed /\ ~flag) /\ flag' = pressed
    BY <1>3 DEF LED_ButtonOnPressed
  <2> QED BY <1>1, <2>1 DEF FlagInv
<1>4. CASE LED_ButtonOnReleased
  <2>1. (~pressed /\ flag) \in BOOLEAN /\ Called("OnReleased", ~pressed /\ flag) /\ flag' = pressed
    BY <1>4 DEF LED_ButtonOnReleased
  <2> QED BY <1>1, <2>1 DEF FlagInv
<1>5. CASE UNCHANGED vars
  BY <1>5 DEF vars, count
<1> QED BY <1>2, <1>3, <1>4, <1>5 DEF Next

\* The variables of the two functions keep their types, whatever the mixture of calls
\* (led.c:19-55).
THEOREM TypeCorrect == Spec => []TypeOK
<1>1. Init => BoundInv
  <2> SUFFICES ASSUME Init PROVE BoundInv
    OBVIOUS
  <2>1. ret \in [fn : {"none", "OnPressed", "OnReleased"}, event : BOOLEAN] /\ flag \in BOOLEAN
    BY DEF Init
  <2>2. downs + ups <= MaxChanges
    BY ButtonAssumption DEF Init, ButtonAssumption
  <2> QED BY <2>1, <2>2 DEF BoundInv
<1>2. IInv /\ BoundInv => TypeOK
  <2> SUFFICES ASSUME IInv, BoundInv PROVE TypeOK
    OBVIOUS
  <2>1. downs \in 0..MaxChanges /\ ups \in 0..MaxChanges
    BY ButtonAssumption DEF IInv, CountInv, BoundInv
  <2>2. presses \in 0..MaxChanges /\ releases \in 0..MaxChanges
    BY <2>1, ButtonAssumption DEF IInv, CountInv, NoEventInvented
  <2> QED BY <2>1, <2>2 DEF IInv, FlagInv, CountInv, BoundInv, TypeOK
<1> QED BY <1>1, <1>2, NextBoundInv, Invariance, PTL DEF Spec
=============================================================================
