--------------------------------- MODULE Button ---------------------------------
(***************************************************************************)
(* LED_ButtonOnPressed and LED_ButtonOnReleased of                         *)
(* Discovery_board/src/led.c.  Both keep the state of the button they last *)
(* saw in one shared flag.  A program polls them in any order while the    *)
(* user presses and releases the button.                                   *)
(***************************************************************************)
EXTENDS Integers

CONSTANT MaxChanges   \* bound on the changes of the button counted

ASSUME ButtonAssumption == MaxChanges \in Nat

VARIABLES polled,    \* which of the two functions the program calls
          pressed,   \* the pin: LED_ButtonPressed()
          flag,      \* INT_LED_ButtonPressed
          ret,       \* the function called last and what it returned
          \* history variables
          lastSeen,  \* the pin as each function saw it when last called
          downs, ups,        \* changes of the pin from one call to the next
          presses, releases  \* events the functions have reported

count == <<downs, ups, presses, releases>>
vars == <<polled, pressed, flag, ret, lastSeen, count>>

Init == /\ polled \in (SUBSET {"OnPressed", "OnReleased"}) \ {{}}
        /\ pressed \in BOOLEAN
        /\ flag = FALSE
        /\ ret = [fn |-> "none", event |-> FALSE]
        /\ lastSeen = [f \in {"OnPressed", "OnReleased", "any"} |-> FALSE]
        /\ downs = 0 /\ ups = 0 /\ presses = 0 /\ releases = 0

User == /\ pressed' = ~pressed
        /\ UNCHANGED <<polled, flag, ret, lastSeen, count>>

\* Bookkeeping of one call of f that returns event.
Called(f, event) ==
    /\ downs + ups < MaxChanges
    /\ ret' = [fn |-> f, event |-> event]
    /\ lastSeen' = [lastSeen EXCEPT ![f] = pressed, !.any = pressed]
    /\ downs' = IF pressed /\ ~lastSeen.any THEN downs + 1 ELSE downs
    /\ ups' = IF ~pressed /\ lastSeen.any THEN ups + 1 ELSE ups
    /\ presses' = IF f = "OnPressed" /\ event THEN presses + 1 ELSE presses
    /\ releases' = IF f = "OnReleased" /\ event THEN releases + 1 ELSE releases
    /\ UNCHANGED <<polled, pressed>>

\* Mutant: a press is reported as long as it lasts.
LED_ButtonOnPressed_level ==
    /\ "OnPressed" \in polled
    /\ Called("OnPressed", pressed)
    /\ flag' = pressed

\* Mutant: the flag is never cleared.
LED_ButtonOnPressed_flagKept ==
    /\ "OnPressed" \in polled
    /\ Called("OnPressed", pressed /\ ~flag)
    /\ flag' = (flag \/ pressed)

LED_ButtonOnPressed == /\ "OnPressed" \in polled
                       /\ Called("OnPressed", pressed /\ ~flag)
                       /\ flag' = pressed

\* Mutant: the release leaves the flag set.
LED_ButtonOnReleased_flagKept ==
    /\ "OnReleased" \in polled
    /\ Called("OnReleased", ~pressed /\ flag)
    /\ flag' = (flag \/ pressed)

LED_ButtonOnReleased == /\ "OnReleased" \in polled
                        /\ Called("OnReleased", ~pressed /\ flag)
                        /\ flag' = pressed

Next == User \/ LED_ButtonOnPressed \/ LED_ButtonOnReleased

Spec == Init /\ [][Next]_vars

-----------------------------------------------------------------------------

\* Type invariant.
TypeOK == /\ polled \subseteq {"OnPressed", "OnReleased"}
          /\ pressed \in BOOLEAN /\ flag \in BOOLEAN
          /\ ret \in [fn : {"none", "OnPressed", "OnReleased"}, event : BOOLEAN]
          /\ lastSeen \in [{"OnPressed", "OnReleased", "any"} -> BOOLEAN]
          /\ downs \in 0..MaxChanges /\ ups \in 0..MaxChanges
          /\ presses \in 0..MaxChanges /\ releases \in 0..MaxChanges

\* However the two functions are mixed, no change of the button is reported
\* twice or invented: every event reported is one that some call saw.
NoEventInvented == presses <= downs /\ releases <= ups

\* A program that only asks for one kind of event misses none that it saw.
LoneFunctionMissesNothing ==
    /\ polled = {"OnPressed"} => presses = downs
    /\ polled = {"OnReleased"} => releases = ups
=============================================================================
