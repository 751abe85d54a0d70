----------------------------- MODULE ImuData_proof -----------------------------
(***************************************************************************)
(* Proofs about ImuData, for every six bytes a sensor can send and every   *)
(* place where ImuData lets the write past the axes fall.                  *)
(***************************************************************************)
EXTENDS ImuData, TLAPS

Byte == 0..255

\* convert_2_sgn is two's complement, although its branch for negative numbers is
\* never taken: an int16_t does not reach 0x8000.
THEOREM ConversionIsTwosComplement ==
    \A msb, lsb \in Byte : /\ Concatenate(msb, lsb) < 32768
                           /\ convert_2_sgn(msb, lsb) = TwosComplement(msb, lsb)
<1> SUFFICES ASSUME NEW msb \in Byte, NEW lsb \in Byte
             PROVE  /\ Concatenate(msb, lsb) < 32768
                    /\ convert_2_sgn(msb, lsb) = TwosComplement(msb, lsb)
  OBVIOUS
<1>1. Concatenate(msb, lsb) = TwosComplement(msb, lsb)
  BY DEF Concatenate, Int16, TwosComplement, Byte
<1>2. TwosComplement(msb, lsb) \in Int /\ TwosComplement(msb, lsb) < 32768
  BY DEF TwosComplement, Byte
<1> QED BY <1>1, <1>2 DEF convert_2_sgn

\* Axis a as the six bytes received say it.
AxisOf(a) == LET p == Pair(fn, received, 2 * a) IN TwosComplement(p[1], p[2])

\* Until the fourth pass the indices go together, the raw bytes are those received
\* and the axes converted so far are right; after it the axes are right.
Counting == hit = {} => /\ j \in 0..3 /\ i = 2 * j
                        /\ raw = received
                        /\ \A a \in Axes : a < j => out[a] = AxisOf(a)

Converted == hit # {} => \A a \in Axes : out[a] = AxisOf(a)

IInv == /\ received \in [0..5 -> Byte] /\ DOMAIN out = Axes
        /\ Counting
        /\ Converted

LEMMA InitIInv == Init => IInv
<1> SUFFICES ASSUME Init PROVE IInv
  OBVIOUS
<1>1. received \in [0..5 -> Byte]
  BY ImuDataAssumption DEF Init, ImuDataAssumption, Byte
<1>2. Counting
  BY DEF Init, Counting, Axes
<1> QED BY <1>1, <1>2 DEF Init, IInv, Converted

LEMMA ConvertIInv == IInv /\ Convert => IInv'
<1> SUFFICES ASSUME IInv, Convert PROVE IInv'
  OBVIOUS
<1> DEFINE p == Pair(fn, raw, i)
           v == convert_2_sgn(p[1], p[2])
<1>1. /\ j \in 0..2 /\ i = 2 * j /\ j' = j + 1 /\ i' = i + 2
      /\ received' = received /\ fn' = fn /\ raw' = raw /\ raw = received
      /\ hit = {} /\ hit' = hit
      /\ out' = [out EXCEPT ![j] = v]
  BY DEF IInv, Counting, Convert
<1>2. DOMAIN out' = Axes
  BY <1>1 DEF IInv
<1>3. \A a \in Axes : AxisOf(a)' = AxisOf(a)
  BY <1>1 DEF AxisOf, Pair, HighFirst
<1>4. v = AxisOf(j)
  <2>1. p = Pair(fn, received, 2 * j)
    BY <1>1
  <2>2. p[1] \in Byte /\ p[2] \in Byte
    BY <1>1, <2>1 DEF IInv, Pair
  <2> QED BY <2>1, <2>2, ConversionIsTwosComplement DEF AxisOf
<1>5. \A a \in Axes : a < j' => out'[a] = AxisOf(a)
  <2> SUFFICES ASSUME NEW a \in Axes, a < j' PROVE out'[a] = AxisOf(a)
    OBVIOUS
  <2> HIDE DEF v
  <2>1. CASE a = j
    BY <1>1, <1>4, <2>1 DEF IInv, Axes
  <2>2. CASE a < j
    BY <1>1, <2>2 DEF IInv, Counting, Axes
  <2> QED BY <1>1, <2>1, <2>2 DEF Axes
<1> QED BY <1>1, <1>2, <1>3, <1>5 DEF IInv, Counting, Converted

LEMMA OverrunIInv == IInv /\ Overrun => IInv'
<1> SUFFICES ASSUME IInv, Overrun PROVE IInv'
  OBVIOUS
<1>1. /\ hit = {} /\ i = 6
      /\ out' = out /\ received' = received /\ fn' = fn
      /\ \E at \in Layouts : hit' = {at[0], at[1]}
  BY DEF Overrun
<1>2. hit' # {}
  BY <1>1
<1>3. j = 3
  BY <1>1 DEF IInv, Counting
<1>4. \A a \in Axes : AxisOf(a)' = AxisOf(a)
  BY <1>1 DEF AxisOf, Pair, HighFirst
<1>5. \A a \in Axes : out[a] = AxisOf(a)
  BY <1>1, <1>3 DEF IInv, Counting, Axes
<1> QED BY <1>1, <1>2, <1>4, <1>5 DEF IInv, Counting, Converted

\* A conversion loop that comes to its end (10dof.c:35-39, 68-72, 96-100) leaves the
\* three axes as the sensor sent them, for all bytes sent and found in memory, when
\* the fourth pass fell on padding, the raw bytes or the loop variables.
THEOREM AxesAreRight == Spec => []AxesAsSent
<1>1. IInv /\ [Next]_vars => IInv'
  <2>1. IInv /\ UNCHANGED vars => IInv'
    BY DEF IInv, Counting, Converted, vars, AxisOf, Pair, HighFirst
  <2> QED BY <2>1, ConvertIInv, OverrunIInv DEF Next
<1>2. IInv => AxesAsSent
  BY DEF IInv, Counting, Converted, AxesAsSent, AxisOf, Axes
<1> QED BY InitIInv, <1>1, <1>2, PTL DEF Spec

-----------------------------------------------------------------------------
(***************************************************************************)
(* Types: what an axis holds fits in 16 bits, and its bytes in 8.          *)
(***************************************************************************)
LEMMA Word16Def == \A x \in Int : x \in Word16 <=> Least <= x /\ x <= Greatest
BY SMT DEF Word16

LEMMA ConversionFits == \A msb, lsb \in Byte : convert_2_sgn(msb, lsb) \in Word16
<1> SUFFICES ASSUME NEW msb \in Byte, NEW lsb \in Byte
             PROVE  convert_2_sgn(msb, lsb) \in Word16
  OBVIOUS
<1>1. /\ TwosComplement(msb, lsb) \in Int
      /\ Least <= TwosComplement(msb, lsb) /\ TwosComplement(msb, lsb) <= Greatest
  BY DEF TwosComplement, Byte, Least, Greatest
<1>2. TwosComplement(msb, lsb) \in Word16
  BY <1>1, Word16Def
<1> QED BY <1>2, ConversionIsTwosComplement

LEMMA BytesFit == \A v \in Word16 : Low(v) \in Byte /\ High(v) \in Byte
<1> SUFFICES ASSUME NEW v \in Word16 PROVE Low(v) \in Byte /\ High(v) \in Byte
  OBVIOUS
<1> DEFINE w == v % 65536
           l == v % 256
<1>0. v \in Int
  BY DEF Word16
<1>1. w \in Int /\ 0 <= w /\ w < 65536 /\ l \in Int /\ 0 <= l /\ l < 256
  BY <1>0
<1>2. \E k \in Int : w = 256 * k + l
  <2>1. PICK m \in Int : v = 65536 * m + w
    <3>1. v = 65536 * (v \div 65536) + w /\ v \div 65536 \in Int
      BY <1>0
    <3> QED BY <3>1
  <2>2. PICK n \in Int : v = 256 * n + l
    <3>1. v = 256 * (v \div 256) + l /\ v \div 256 \in Int
      BY <1>0
    <3> QED BY <3>1
  <2>3. w = 256 * (n - 256 * m) + l /\ n - 256 * m \in Int
    BY <1>1, <2>1, <2>2
  <2> HIDE DEF w, l
  <2> QED BY <2>3
<1> HIDE DEF w, l
<1>3. PICK k \in Int : w = 256 * k + l
  BY <1>2
<1>4. 0 <= k /\ k < 256
  BY <1>1, <1>3
<1>5. (w - l) \div 256 = k
  BY <1>1, <1>3
<1>6. High(v) = k /\ Low(v) = l
  BY <1>5 DEF High, Low, w, l
<1> QED BY <1>1, <1>4, <1>6 DEF Byte

\* The three functions keep their variables in range, wherever the compiler put the
\* bytes past the axes (10dof.c:26-116): the loop variables wrap around in a byte.
THEOREM TypeCorrect == Spec => []TypeOK
<1> DEFINE TInv == TypeOK /\ (hit = {} => j \in 0..3 /\ i = 2 * j)
<1>1. Init => TInv
  <2> SUFFICES ASSUME Init PROVE TInv
    OBVIOUS
  <2>1. received \in [0..5 -> Byte] /\ raw = received
    BY ImuDataAssumption DEF Init, ImuDataAssumption, Byte
  <2>2. out \in [Axes -> Word16]
    <3>1. 0 \in Word16
      BY Word16Def DEF Least, Greatest
    <3> QED BY <3>1 DEF Init
  <2> QED BY <2>1, <2>2 DEF Init, TypeOK, Byte
<1>2. ASSUME TInv, Convert PROVE TInv'
  <2> DEFINE p == Pair(fn, raw, i)
             v == convert_2_sgn(p[1], p[2])
  <2>1. /\ j \in 0..2 /\ i = 2 * j /\ j' = j + 1 /\ i' = i + 2
        /\ out' = [out EXCEPT ![j] = v]
        /\ UNCHANGED <<fn, raw, received, hit>> /\ hit = {}
    BY <1>2 DEF Convert
  <2>2. p[1] \in Byte /\ p[2] \in Byte
    BY <1>2, <2>1 DEF TypeOK, Pair, Byte
  <2>3. v \in Word16
    BY <2>2, ConversionFits
  <2> HIDE DEF v
  <2>4. out' \in [Axes -> Word16]
    BY <1>2, <2>1, <2>3 DEF TypeOK
  <2>5. i' \in 0..255 /\ j' \in 0..255 /\ j' \in 0..3 /\ i' = 2 * j'
    BY <2>1
  <2> QED BY <1>2, <2>1, <2>4, <2>5 DEF TypeOK
<1>3. ASSUME TInv, Overrun PROVE TInv'
  <2>1. PICK msb \in Bytes, lsb \in Bytes, at \in Layouts :
          LET v == convert_2_sgn(msb, lsb)
              Now(place, old) == IF at[0] = place THEN Low(v)
                                 ELSE IF at[1] = place THEN High(v) ELSE old
          IN  /\ raw' = [raw EXCEPT ![0] = Now("raw0", raw[0]), ![1] = Now("raw1", raw[1])]
              /\ j' = (Now("j", j) + 1) % 256
              /\ i' = (Now("i", i) + 2) % 256
              /\ hit' = {at[0], at[1]}
    BY <1>3 DEF Overrun
  <2> DEFINE v == convert_2_sgn(msb, lsb)
             Now(place, old) == IF at[0] = place THEN Low(v)
                                ELSE IF at[1] = place THEN High(v) ELSE old
  <2>2. v \in Word16
    <3>1. msb \in Byte /\ lsb \in Byte
      BY ImuDataAssumption DEF ImuDataAssumption, Byte
    <3> QED BY <3>1, ConversionFits
  <2>3. Low(v) \in Byte /\ High(v) \in Byte
    BY <2>2, BytesFit
  <2> HIDE DEF v
  <2>4. ASSUME NEW place \in Places, NEW old \in Byte PROVE Now(place, old) \in Byte
    BY <2>3
  <2>5. /\ raw \in [0..5 -> Byte] /\ i \in Byte /\ j \in Byte
    BY <1>3 DEF TypeOK, Byte
  <2>6. /\ raw' = [raw EXCEPT ![0] = Now("raw0", raw[0]), ![1] = Now("raw1", raw[1])]
        /\ j' = (Now("j", j) + 1) % 256
        /\ i' = (Now("i", i) + 2) % 256
        /\ hit' = {at[0], at[1]}
    BY <2>1 DEF v
  <2>7. /\ Now("raw0", raw[0]) \in Byte /\ Now("raw1", raw[1]) \in Byte
        /\ Now("i", i) \in Byte /\ Now("j", j) \in Byte
    BY <2>4, <2>5 DEF Places
  <2>8. at[0] \in Places /\ at[1] \in Places
    BY DEF Layouts
  <2> HIDE DEF Now
  <2>9. raw' \in [0..5 -> Byte]
    BY <2>5, <2>6, <2>7
  <2>10. i' \in 0..255 /\ j' \in 0..255
    <3>1. \A n \in Byte : (n + 1) % 256 \in 0..255 /\ (n + 2) % 256 \in 0..255
      BY DEF Byte
    <3> QED BY <2>6, <2>7, <3>1
  <2>11. hit' \subseteq Places /\ hit' # {}
    BY <2>6, <2>8
  <2>12. UNCHANGED <<fn, out, received>>
    BY <1>3 DEF Overrun
  <2> QED BY <1>3, <2>9, <2>10, <2>11, <2>12 DEF TypeOK, Byte
<1>4. TInv /\ UNCHANGED vars => TInv'
  BY DEF TypeOK, vars
<1> QED BY <1>1, <1>2, <1>3, <1>4, PTL DEF Spec, Next
=============================================================================
