-------------------------------- MODULE ImuData --------------------------------
(***************************************************************************)
(* ADXL345_data, Gyro_data and Compass_data of 10Dof_Code/src/10dof.c: six *)
(* bytes read from a sensor become three 16-bit axis values.               *)
(*                                                                         *)
(* The conversion loops run to 8: their fourth pass reads a pair of bytes  *)
(* past raw_data and writes one value past the axes.  What lies in either  *)
(* place is the compiler's choice, made here when the pass happens: the    *)
(* bytes read are any bytes, and each byte written falls on padding, on    *)
(* the beginning of raw_data, on i, on j, or on something else (a pointer  *)
(* argument, a saved register, the caller's frame).  An i that is small    *)
(* again makes the loop go on with indices that mean nothing: the model    *)
(* ends there, as the program's behaviour is then beyond it.               *)
(***************************************************************************)
EXTENDS Integers

CONSTANT Bytes       \* byte values a sensor sends and memory holds

ASSUME ImuDataAssumption == Bytes \subseteq 0..255

VARIABLES fn,        \* which of the three functions runs
          raw,       \* raw_data
          out,       \* the axis array
          i, j,      \* loop variables
          received,  \* history: the six bytes I2C_Read_Multi_Reg delivered
          hit        \* history: what the write past the axes fell on

vars == <<fn, raw, out, i, j, received, hit>>

Axes == 0..2

Least == -32768
Greatest == 32767
Word16 == Least..Greatest

\* Keeping the low 16 bits of an int in an int16_t.
Int16(x) == ((x + 32768) % 65536) - 32768

\* convert_2_sgn.  The comparison promotes Concatenate_array to int, where no
\* int16_t reaches 0x8000; x ^ 0xFFFF is 0xFFFF - x on 16 bits.
Concatenate(msb, lsb) == Int16(256 * msb + lsb)

\* Mutant: an unsigned Concatenate_array, and the negation forgotten.
convert_2_sgn_magnitude(msb, lsb) ==
    LET c == 256 * msb + lsb
    IN  IF c >= 32768 THEN (65535 - c) + 1 ELSE c

convert_2_sgn(msb, lsb) ==
    LET c == Concatenate(msb, lsb)
    IN  IF c >= 32768 THEN Int16(-Int16(Int16(65535 - c) + 1)) ELSE c

\* The compass sends its high byte first, the other two their low byte.
HighFirst(f) == f = "Compass_data"

\* The pair of raw bytes at index n, high byte first.
Pair(f, r, n) == IF HighFirst(f) THEN <<r[n], r[n + 1]>> ELSE <<r[n + 1], r[n]>>

\* Bytes of an int16_t in memory, low byte first.
Low(v) == v % 256
High(v) == ((v % 65536) - (v % 256)) \div 256

\* What the two bytes past the axes can be.
Places == {"padding", "raw0", "raw1", "i", "j", "else"}

Layouts == {p \in [{0, 1} -> Places] :
               /\ p[0] = p[1] => p[0] \in {"padding", "else"}
               /\ p[0] # "raw1"
               /\ p[0] = "raw0" <=> p[1] = "raw1"}

Init == /\ fn \in {"ADXL345_data", "Gyro_data", "Compass_data"}
        /\ received \in [0..5 -> Bytes]
        /\ raw = received
        /\ out = [n \in Axes |-> 0]
        /\ i = 0 /\ j = 0
        /\ hit = {}

\* A pass inside the arrays.
Convert == /\ i < 6 /\ hit = {}
           /\ LET p == Pair(fn, raw, i)
              IN  out' = [out EXCEPT ![j] = convert_2_sgn(p[1], p[2])]
           /\ i' = i + 2
           /\ j' = j + 1
           /\ UNCHANGED <<fn, raw, received, hit>>

\* Mutant: the overrun is kept in the array by wrapping the index.
Overrun_wrapped ==
    /\ i = 6 /\ hit = {}
    /\ \E msb, lsb \in Bytes : out' = [out EXCEPT ![j % 3] = convert_2_sgn(msb, lsb)]
    /\ i' = i + 2
    /\ j' = j + 1
    /\ hit' = {"padding"}
    /\ UNCHANGED <<fn, raw, received>>

\* The fourth pass: the write comes before j++ and i += 2, which carry on from the
\* bytes written when these fell on j or i.
Overrun ==
    /\ i = 6 /\ hit = {}
    /\ \E msb, lsb \in Bytes, at \in Layouts :
          LET v == convert_2_sgn(msb, lsb)
              Now(place, old) == IF at[0] = place THEN Low(v)
                                 ELSE IF at[1] = place THEN High(v) ELSE old
          IN  /\ raw' = [raw EXCEPT ![0] = Now("raw0", raw[0]), ![1] = Now("raw1", raw[1])]
              /\ j' = (Now("j", j) + 1) % 256
              /\ i' = (Now("i", i) + 2) % 256
              /\ hit' = {at[0], at[1]}
    /\ UNCHANGED <<fn, out, received>>

Next == Convert \/ Overrun

Spec == Init /\ [][Next]_vars

-----------------------------------------------------------------------------

\* Type invariant.
TypeOK == /\ fn \in {"ADXL345_data", "Gyro_data", "Compass_data"}
          /\ raw \in [0..5 -> 0..255]
          /\ out \in [Axes -> Word16]
          /\ i \in 0..255 /\ j \in 0..255
          /\ received \in [0..5 -> 0..255]
          /\ hit \subseteq Places

\* The value of two bytes in two's complement.
TwosComplement(msb, lsb) == (IF msb >= 128 THEN msb - 256 ELSE msb) * 256 + lsb

\* A loop that comes to its end (10dof.c:35-39, 68-72, 96-100) leaves in the array
\* the three axes as the sensor sent them, if the write past the axes fell on
\* nothing but padding, the raw bytes or the loop variables.  The fourth pass may
\* then spoil an index, but the loop does not end with a wrong axis.
AxesAsSent ==
    i >= 8 /\ "else" \notin hit => \A a \in Axes :
        LET p == Pair(fn, received, 2 * a)
        IN  out[a] = TwosComplement(p[1], p[2])
=============================================================================
