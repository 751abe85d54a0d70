--------------------------- MODULE TimerSetup_proof ---------------------------
(***************************************************************************)
(* Proofs about TimerSetup for every clock, frequency and search bound.    *)
(***************************************************************************)
EXTENDS TimerSetup, TLAPS

-----------------------------------------------------------------------------
(***************************************************************************)
(* Division of natural numbers.                                            *)
(***************************************************************************)
\* Multiplication respects the order.
LEMMA TimesMonotonic ==
    ASSUME NEW a \in Nat, NEW b \in Nat, NEW c \in Nat, a <= b
    PROVE  c * a <= c * b
<1>1. c * (b - a) >= 0
  OBVIOUS
<1>2. c * (b - a) = c * b - c * a
  OBVIOUS
<1> QED BY <1>1, <1>2

LEMMA TimesPositive ==
    ASSUME NEW a \in Nat \ {0}, NEW b \in Nat \ {0}
    PROVE  a * b \in Nat \ {0}
OBVIOUS

\* What \div and % are.
LEMMA DivMod ==
    ASSUME NEW n \in Nat, NEW d \in Nat \ {0}
    PROVE  /\ n \div d \in Nat
           /\ n % d \in 0..d - 1
           /\ n = d * (n \div d) + (n % d)
OBVIOUS

LEMMA DivUnique ==
    ASSUME NEW n \in Nat, NEW d \in Nat \ {0}, NEW q \in Nat,
           d * q <= n, n < d * q + d
    PROVE  n \div d = q
<1> DEFINE r == n \div d
<1>1. r \in Nat /\ d * r <= n /\ n < d * r + d
  BY DivMod
<1>2. ASSUME q + 1 <= r PROVE FALSE
  <2>1. d * (q + 1) <= d * r
    BY <1>1, <1>2, TimesMonotonic
  <2>2. d * (q + 1) = d * q + d
    OBVIOUS
  <2> QED BY <1>1, <2>1, <2>2
<1>3. ASSUME r + 1 <= q PROVE FALSE
  <2>1. d * (r + 1) <= d * q
    BY <1>1, <1>3, TimesMonotonic
  <2>2. d * (r + 1) = d * r + d
    BY <1>1
  <2> QED BY <1>1, <2>1, <2>2
<1> QED BY <1>1, <1>2, <1>3

\* Dividing by a and then by b is dividing by b * a.
LEMMA DivDiv ==
    ASSUME NEW n \in Nat, NEW a \in Nat \ {0}, NEW b \in Nat \ {0}
    PROVE  n \div (b * a) = (n \div a) \div b
<1> DEFINE q == n \div a
           r == q \div b
<1>1. q \in Nat /\ a * q <= n /\ n < a * q + a
  BY DivMod
<1> HIDE DEF q
<1>2. r \in Nat /\ b * r <= q /\ q + 1 <= b * (r + 1)
  <2>1. r \in Nat /\ b * r <= q /\ q < b * r + b
    BY <1>1, DivMod
  <2>2. b * (r + 1) = b * r + b
    BY <2>1
  <2> QED BY <1>1, <2>1, <2>2
<1> HIDE DEF r
<1>3. a * (b * r) <= a * q
  BY <1>1, <1>2, TimesMonotonic
<1>4. a * (q + 1) <= a * (b * (r + 1))
  BY <1>1, <1>2, TimesMonotonic
<1>5. a * (q + 1) = a * q + a
  BY <1>1
<1>6. a * (b * r) = (b * a) * r
  BY <1>2
<1>7. a * (b * (r + 1)) = (b * a) * r + b * a
  BY <1>2
<1>8. b * a \in Nat \ {0}
  BY TimesPositive
<1>9. (b * a) * r <= n /\ n < (b * a) * r + b * a
  BY <1>1, <1>2, <1>3, <1>4, <1>5, <1>6, <1>7, <1>8
<1> QED BY <1>2, <1>8, <1>9, DivUnique DEF q, r

-----------------------------------------------------------------------------
(***************************************************************************)
(* The period and the tick count.                                          *)
(***************************************************************************)
\* A prescaler of the search leaves room for two delays in a counter cycle.
LEMMA PeriodFits ==
    ASSUME NEW f \in Freqs, NEW p \in 0..MaxPsc
    PROVE  /\ f \in Nat \ {0}
           /\ (p + 1) * f \in Nat \ {0}
           /\ PeriodOf(f, p) \in 0..Clock
<1> USE TimerSetupAssumption
<1>1. f \in Nat \ {0} /\ (2 * f) * (MaxPsc + 1) <= Clock
  BY DEF TimerSetupAssumption
<1> DEFINE d == (p + 1) * f
<1>2. d \in Nat \ {0}
  BY <1>1, TimesPositive
<1>3. d <= Clock
  <2>1. f * (p + 1) <= f * (MaxPsc + 1)
    BY <1>1, TimesMonotonic
  <2>2. (2 * f) * (MaxPsc + 1) = 2 * (f * (MaxPsc + 1)) /\ f * (p + 1) = d
    BY <1>1
  <2>3. f * (MaxPsc + 1) \in Nat
    BY <1>1
  <2> QED BY <1>1, <1>2, <2>1, <2>2, <2>3
<1> HIDE DEF d
<1> DEFINE q == Clock \div d
<1>4. q \in Nat /\ d * q <= Clock /\ Clock < d * q + d
  BY <1>2, DivMod
<1> HIDE DEF q
<1>5. q # 0
  BY <1>2, <1>3, <1>4
<1>6. q <= d * q
  <2>1. q * 1 <= q * d
    BY <1>2, <1>4, TimesMonotonic
  <2> QED BY <1>2, <1>4, <2>1
<1>7. q - 1 \in 0..Clock
  BY <1>2, <1>4, <1>5, <1>6
<1>8. PeriodOf(f, p) = q - 1
  BY DEF PeriodOf, q, d
<1> QED BY <1>1, <1>2, <1>7, <1>8 DEF d

-----------------------------------------------------------------------------
(***************************************************************************)
(* The search.                                                             *)
(***************************************************************************)
\* The search looks at prescalers below the bound; what it ends with is the period
\* that belongs to it.
ResultInv ==
    /\ pc = "search" => psc < MaxPsc
    /\ pc = "done" => /\ period = PeriodOf(freq, psc)
                      /\ psc < MaxPsc => RemainderIsOne(freq, psc)

IInv == TypeOK /\ ResultInv

LEMMA InitIInv == Init => IInv
BY TimerSetupAssumption DEF Init, IInv, TypeOK, ResultInv

LEMMA NextIInv == IInv /\ [Next]_vars => IInv'
<1> SUFFICES ASSUME IInv, [Next]_vars PROVE IInv'
  OBVIOUS
<1> USE TimerSetupAssumption DEF IInv
<1>1. CASE Found
  <2>1. psc \in 0..MaxPsc /\ freq \in Freqs /\ psc < MaxPsc
    BY <1>1 DEF Found, TypeOK, ResultInv
  <2>2. PeriodOf(freq, psc) \in 0..Clock
    BY <2>1, PeriodFits
  <2> QED BY <1>1, <2>1, <2>2 DEF Found, Finish, TypeOK, ResultInv
<1>2. CASE Advance
  BY <1>2 DEF Advance, TypeOK, ResultInv
<1>3. CASE OutOfRange
  <2>1. psc + 1 = MaxPsc /\ freq \in Freqs
    BY <1>3 DEF OutOfRange, TypeOK, ResultInv
  <2>2. psc + 1 \in 0..MaxPsc
    BY <2>1
  <2>3. PeriodOf(freq, psc + 1) \in 0..Clock
    BY <2>1, <2>2, PeriodFits
  <2> QED BY <1>3, <2>1, <2>2, <2>3 DEF OutOfRange, Finish, TypeOK, ResultInv
<1>4. CASE UNCHANGED vars
  BY <1>4 DEF vars, TypeOK, ResultInv
<1> QED BY <1>1, <1>2, <1>3, <1>4 DEF Next

LEMMA Invariance == Spec => []IInv
BY InitIInv, NextIInv, PTL DEF Spec

\* The prescaler stays in its 16 bits and the period in range, for every clock and
\* every frequency that leaves two delays in a counter cycle.
THEOREM TypeCorrect == Spec => []TypeOK
BY Invariance, PTL DEF IInv

\* Whatever the clock, a search (Timer.c:11-24) that ended by its test left a counter
\* cycle that is one input tick short of two delays.
THEOREM FoundIsClose == Spec => []FoundIsOneTickShort
<1>1. IInv => FoundIsOneTickShort
  <2> SUFFICES ASSUME IInv, pc = "done", psc < MaxPsc
               PROVE  (Clock \div freq) - (period + 1) * (psc + 1) = 1
    BY DEF FoundIsOneTickShort
  <2> DEFINE q == Clock \div freq
             b == psc + 1
  <2>1. freq \in Freqs /\ psc \in 0..MaxPsc
    BY DEF IInv, TypeOK
  <2>2. freq \in Nat \ {0} /\ b \in Nat \ {0} /\ Clock \in Nat
    BY <2>1, TimerSetupAssumption, PeriodFits
  <2>3. q \in Nat
    BY <2>2, DivMod
  <2>4. q % b = 1
    BY DEF IInv, ResultInv, RemainderIsOne
  <2>5. period + 1 = q \div b
    <3>1. Clock \div (b * freq) = q \div b
      BY <2>2, DivDiv
    <3>2. period = (Clock \div (b * freq)) - 1
      BY DEF IInv, ResultInv, PeriodOf
    <3>3. q \div b \in Nat
      BY <2>2, <2>3, DivMod
    <3> QED BY <3>1, <3>2, <3>3
  <2> HIDE DEF q, b
  <2>6. q = b * (q \div b) + (q % b) /\ q \div b \in Nat
    BY <2>2, <2>3, DivMod
  <2>7. q - (q \div b) * b = 1
    BY <2>2, <2>3, <2>4, <2>6
  <2> QED BY <2>5, <2>7 DEF q, b
<1> QED BY <1>1, Invariance, PTL

\* The tick count of EnsureSetRuntime (Timer.c:42) is half of the counter cycle that
\* InitializeTimer (Timer.c:26) set up, rounded down.
THEOREM HalfACycle == Spec => []WaitIsHalfACycle
<1>1. IInv => WaitIsHalfACycle
  <2> SUFFICES ASSUME IInv, pc = "done"
               PROVE  period + 1 - 2 * (CountOf(freq, psc) + 1) \in {0, 1}
    BY DEF WaitIsHalfACycle
  <2> DEFINE d == (psc + 1) * freq
             q == Clock \div d
  <2>1. freq \in Freqs /\ psc \in 0..MaxPsc
    BY DEF IInv, TypeOK
  <2>2. d \in Nat \ {0} /\ Clock \in Nat
    BY <2>1, TimerSetupAssumption, PeriodFits
  <2>3. period = q - 1
    BY DEF IInv, ResultInv, PeriodOf
  <2>4. CountOf(freq, psc) = ((Clock \div 2) \div d) - 1
    BY DEF CountOf
  <2> HIDE DEF d
  <2>5. q \in Nat
    BY <2>2, DivMod
  <2>6. (Clock \div 2) \div d = q \div 2
    <3>1. (Clock \div 2) \div d = Clock \div (d * 2)
      BY <2>2, DivDiv
    <3>2. (Clock \div d) \div 2 = Clock \div (2 * d)
      BY <2>2, DivDiv
    <3>3. d * 2 = 2 * d
      BY <2>2
    <3> QED BY <3>1, <3>2, <3>3
  <2> HIDE DEF q
  <2>7. q - 2 * (q \div 2) \in {0, 1} /\ q \div 2 \in Nat
    BY <2>5, DivMod
  <2> QED BY <2>3, <2>4, <2>5, <2>6, <2>7
<1> QED BY <1>1, Invariance, PTL
=============================================================================
