-------------------------------- MODULE I2CBus --------------------------------
(***************************************************************************)
(* The hardware that 10Dof_Code/src/I2C.c drives: the I2C1 peripheral as   *)
(* its only master, and the sensors on the bus.  None of it is in the      *)
(* repository; it is modelled from the registers and flags the driver and  *)
(* the ST library read and write.                                          *)
(*                                                                         *)
(* One step of the bus is one start condition, one byte with its           *)
(* acknowledge bit, or one stop condition.  What a byte says is abstracted *)
(* to who put it on the wire and which register number or value it is, so  *)
(* that a byte that ends up in the wrong place can be told.                *)
(***************************************************************************)
EXTENDS Integers, Sequences

CONSTANTS Devices,    \* addresses the program uses
          Present,    \* those with a sensor that answers
          NRegs,      \* registers of a sensor, numbered 0..NRegs-1
          Values      \* values written to registers

ASSUME I2CBusAssumption == /\ Present \subseteq Devices /\ Devices # {}
                           /\ NRegs \in Nat \ {0}
                           /\ Values \subseteq Nat

VARIABLES cr1,        \* control bits set in CR1
          sr1, sr2,   \* flags set in SR1 and in SR2
          dr,         \* the data register
          shift,      \* the shift register, NoByte when empty
          phase,      \* what the bus is doing
          target,     \* device addressed and direction
          selecting,  \* is the next byte sent a register number?
          nacked,     \* has the byte last received been refused?
          ptr,        \* register pointer of each sensor
          landed      \* history: register writes that took effect in this call

bus == <<cr1, sr1, sr2, dr, shift, phase, target, selecting, nacked, ptr, landed>>

Regs == 0..(NRegs - 1)

\* The directions of I2C_start, and the frames it addresses.
Targets == [dev : Devices, dir : {"tx", "rx"}]

\* from: who drives the byte.  acked: did the master acknowledge it?
Bytes == [from : Devices \cup {"cpu", "wire", "none"}, val : Nat, acked : BOOLEAN]
FromCpu(v) == [from |-> "cpu", val |-> v, acked |-> FALSE]
FromSensor(d, r, a) == [from |-> d, val |-> r, acked |-> a]
NoByte == [from |-> "none", val |-> 0, acked |-> FALSE]
Undriven == [from |-> "wire", val |-> 255, acked |-> FALSE]

BusTypeOK ==
    /\ cr1 \subseteq {"ACK", "START", "STOP"}
    /\ sr1 \subseteq {"SB", "ADDR", "TXE", "BTF", "RXNE", "AF"}
    /\ sr2 \subseteq {"BUSY", "MSL", "TRA"}
    /\ dr \in Bytes /\ shift \in Bytes
    /\ phase \in {"idle", "addr", "acked", "tx", "rx", "refused"}
    /\ target \in Targets
    /\ selecting \in BOOLEAN /\ nacked \in BOOLEAN
    /\ ptr \in [Devices -> Regs]
    /\ landed \in Seq([dev : Devices, reg : Regs, val : Nat])

\* After I2C_Init and I2C_Cmd: acknowledge disabled, bus free.
BusInit == /\ cr1 = {} /\ sr1 = {} /\ sr2 = {}
           /\ dr = NoByte /\ shift = NoByte
           /\ phase = "idle"
           /\ target \in Targets
           /\ selecting = FALSE /\ nacked = FALSE
           /\ ptr \in [Devices -> {0}]
           /\ landed = << >>

-----------------------------------------------------------------------------
\* What the processor's accesses to the registers do.

SetBit(b) == cr1' = cr1 \cup {b}

\* Asking for a stop when the bus is already free has no specified effect: the
\* request may be dropped or wait for the next start.
RequestStop == IF phase = "idle" THEN cr1' \in {cr1, cr1 \cup {"STOP"}}
                                 ELSE SetBit("STOP")

\* Reading SR2 after an SR1 that showed ADDR clears ADDR and lets the clock go.
ClearAddr(seen) ==
    IF "ADDR" \in seen /\ phase = "acked"
    THEN /\ sr1' = sr1 \ {"ADDR"}
         /\ phase' = target.dir
         /\ nacked' = FALSE
    ELSE UNCHANGED <<sr1, phase, nacked>>

\* The address goes out through the shift register, and a byte left there is lost.
WriteAddress(t) == /\ dr' = FromCpu(0)
                   /\ shift' = NoByte
                   /\ sr1' = sr1 \ {"SB", "BTF"}
                   /\ target' = t

\* An empty shift register takes the byte at once, so TXE is not seen to drop.
WriteData(v) == /\ dr' = FromCpu(v)
                /\ shift' = IF phase = "tx" THEN FromCpu(v) ELSE shift
                /\ sr1' = sr1 \ {"BTF"}

\* A byte held back in the shift register moves up and keeps RXNE set.
ReadData == IF shift = NoByte
            THEN /\ sr1' = sr1 \ {"RXNE", "BTF"}
                 /\ UNCHANGED <<dr, shift>>
            ELSE /\ sr1' = sr1 \ {"BTF"}
                 /\ dr' = shift
                 /\ shift' = NoByte

-----------------------------------------------------------------------------
\* Steps of the bus.

SendStart == /\ phase = "idle"
             /\ "START" \in cr1
             /\ cr1' = cr1 \ {"START"}
             /\ sr1' = sr1 \cup {"SB"}
             /\ sr2' = {"BUSY", "MSL"}
             /\ phase' = "addr"
             /\ UNCHANGED <<dr, shift, target, selecting, nacked, ptr, landed>>

\* Only a sensor that is there acknowledges its address.
SendAddress == /\ phase = "addr"
               /\ "SB" \notin sr1
               /\ IF target.dev \in Present
                  THEN /\ sr1' = sr1 \cup {"ADDR"}
                                     \cup (IF target.dir = "tx" THEN {"TXE"} ELSE {})
                       /\ sr2' = sr2 \cup (IF target.dir = "tx" THEN {"TRA"} ELSE {})
                       /\ phase' = "acked"
                  ELSE /\ sr1' = sr1 \cup {"AF"}
                       /\ phase' = "refused"
                       /\ UNCHANGED sr2
               /\ selecting' = TRUE
               /\ UNCHANGED <<cr1, dr, shift, target, nacked, ptr, landed>>

\* The register pointer moves on by itself.
Step(r) == (r + 1) % NRegs

\* The first byte after the address sets the register pointer, the others are
\* stored, and the pointer moves on.
SendByte == /\ phase = "tx"
            /\ shift # NoByte
            /\ shift' = NoByte
            /\ sr1' = sr1 \cup {"BTF"}
            /\ selecting' = FALSE
            /\ LET d == target.dev
               IN  IF selecting
                   THEN /\ ptr' = [ptr EXCEPT ![d] = shift.val % NRegs]
                        /\ UNCHANGED landed
                   ELSE /\ landed' = Append(landed, [dev |-> d, reg |-> ptr[d],
                                                     val |-> shift.val])
                        /\ ptr' = [ptr EXCEPT ![d] = Step(@)]
            /\ UNCHANGED <<cr1, sr2, dr, phase, target, nacked>>

\* The ACK bit as it is when the byte ends decides whether the sensor goes on.
\* With DR still full the byte waits in the shift register and holds the clock.
\* A sensor that was refused leaves the line to itself: the peripheral clocks in
\* nothing, until it is told to stop.
ReceiveByte == /\ phase = "rx"
               /\ shift = NoByte
               /\ nacked => "STOP" \notin cr1
               /\ LET d    == target.dev
                      ack  == "ACK" \in cr1
                      byte == IF nacked THEN Undriven ELSE FromSensor(d, ptr[d], ack)
                  IN  /\ IF "RXNE" \in sr1
                         THEN /\ shift' = byte
                              /\ sr1' = sr1 \cup {"BTF"}
                              /\ UNCHANGED dr
                         ELSE /\ dr' = byte
                              /\ sr1' = sr1 \cup {"RXNE"}
                              /\ UNCHANGED shift
                      /\ ptr' = IF nacked THEN ptr ELSE [ptr EXCEPT ![d] = Step(@)]
                      /\ nacked' = (nacked \/ ~ack)
               /\ UNCHANGED <<cr1, sr2, phase, target, selecting, landed>>

\* A stop waits for the byte under way.
AtByteEnd == \/ phase \in {"addr", "refused"}
             \/ phase = "tx" /\ shift = NoByte
             \/ phase = "rx" /\ (nacked \/ shift # NoByte)

SendStop == /\ "STOP" \in cr1
            /\ AtByteEnd
            /\ cr1' = cr1 \ {"STOP"}
            /\ sr1' = sr1 \ (IF phase = "rx" THEN {} ELSE {"SB", "TXE", "BTF"})
            /\ sr2' = {}
            /\ phase' = "idle"
            /\ UNCHANGED <<dr, shift, target, selecting, nacked, ptr, landed>>

BusStep == SendStart \/ SendAddress \/ SendByte \/ ReceiveByte \/ SendStop
=============================================================================
