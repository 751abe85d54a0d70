---------------------------------- MODULE I2C ----------------------------------
(***************************************************************************)
(* The driver 10Dof_Code/src/I2C.c, running on main's thread against the   *)
(* peripheral and the sensors of I2CBus.                                   *)
(*                                                                         *)
(* One action is one access to the peripheral's registers.  The driver     *)
(* waits by polling, without a timeout.  I2C_CheckEvent of the ST library  *)
(* reads SR1 and then SR2, two steps between which the bus may move.       *)
(*                                                                         *)
(* Time: a byte takes 90 us at 100 kHz and the driver needs well under one *)
(* to go from one register access to the next, so the bus gets no further  *)
(* while the driver has something to do.  It moves while the driver polls  *)
(* for a condition that does not hold, while no call is in progress, and   *)
(* while an interrupt handler (the EXTI handler of the SDCARD build, which *)
(* closes a file) has the processor.                                       *)
(***************************************************************************)
EXTENDS I2CBus

CONSTANTS Calls,      \* the calls a program makes
          MaxIsr      \* bound: long interrupts; 0 in the build without SDCARD

VARIABLES pc,         \* next statement of the driver
          call,       \* the call in progress, or the last one
          stage,      \* "select", "data" or "receive": which I2C_start or I2C_write
          ev,         \* the event a poll waits for
          seen,       \* SR1 as the poll read it
          i, buf,     \* loop variable and bytes read
          isr,        \* is an interrupt handler running?
          isrLeft,    \* interrupts to come
          held        \* history: was this call interrupted?  an earlier one, not healed since?

cpu == <<pc, call, stage, ev, seen, i, buf>>
vars == <<bus, cpu, isr, isrLeft, held>>

\* The driver's entry points.  I2C_Read_Reg does what the loop of
\* I2C_Read_Multi_Reg does for one register.
CallType == [fn : {"I2C_Write_Reg", "I2C_Read_Reg", "I2C_Read_Multi_Reg"},
             dev : Devices, reg : Regs, data : Values, count : Nat \ {0}]

ASSUME I2CAssumption ==
    /\ Calls \subseteq CallType
    /\ \A c \in Calls : c.fn # "I2C_Read_Multi_Reg" => c.count = 1
    /\ MaxIsr \in Nat

\* Mutant: wait for EV8 instead of EV8_2, before the byte is out.
Event_EV8 == [EV5   |-> {"BUSY", "MSL", "SB"},
              EV6T  |-> {"BUSY", "MSL", "TRA", "ADDR", "TXE"},
              EV6R  |-> {"BUSY", "MSL", "ADDR"},
              EV7   |-> {"BUSY", "MSL", "RXNE"},
              EV8_2 |-> {"BUSY", "MSL", "TRA", "TXE"}]

\* The masks of stm32f4xx_i2c.h.
Event == [EV5   |-> {"BUSY", "MSL", "SB"},
          EV6T  |-> {"BUSY", "MSL", "TRA", "ADDR", "TXE"},
          EV6R  |-> {"BUSY", "MSL", "ADDR"},
          EV7   |-> {"BUSY", "MSL", "RXNE"},
          EV8_2 |-> {"BUSY", "MSL", "TRA", "TXE", "BTF"}]

IsWrite == call.fn = "I2C_Write_Reg"
Direction == IF stage = "receive" THEN "rx" ELSE "tx"

\* The driver is in a polling loop whose condition does not hold now.
Spinning == \/ pc = "waitIdle" /\ "BUSY" \in sr2
            \/ pc \in {"sr1", "sr2"} /\ ~(Event[ev] \subseteq sr1 \cup sr2)

Init == /\ BusInit
        /\ pc = "ready"
        /\ call \in Calls
        /\ stage = "select" /\ ev = "EV5" /\ seen = {} /\ i = 0 /\ buf = << >>
        /\ isr = FALSE /\ isrLeft = MaxIsr
        /\ held = [now |-> FALSE, before |-> FALSE]

-----------------------------------------------------------------------------
\* The driver's statements.

Run(label) == pc = label /\ ~isr
Goto(label) == pc' = label /\ UNCHANGED ev
Await(event) == pc' = "sr1" /\ ev' = event

\* The last call was a read of more than one register.
ReadSeveral == stage = "receive" /\ call.count > 1

Invoke(c) == /\ Run("ready")
             /\ call' = c
             /\ stage' = "select" /\ i' = 0 /\ buf' = << >>
             /\ landed' = << >>
             /\ held' = [now |-> FALSE,
                         before |-> held.now \/ (held.before /\ ~ReadSeveral)]
             /\ Goto("waitIdle")
             /\ UNCHANGED <<cr1, sr1, sr2, dr, shift, phase, target, selecting,
                            nacked, ptr, seen>>

WaitIdle == /\ Run("waitIdle")
            /\ "BUSY" \notin sr2
            /\ Goto("start")
            /\ UNCHANGED <<bus, call, stage, seen, i, buf>>

GenerateStart == /\ Run("start")
                 /\ SetBit("START")
                 /\ Await("EV5")
                 /\ UNCHANGED <<sr1, sr2, dr, shift, phase, target, selecting,
                                nacked, ptr, landed, call, stage, seen, i, buf>>

\* Mutant: the register number is passed as the address.
SendAddr7_swapped ==
             /\ Run("address")
             /\ WriteAddress([dev |-> call.reg, dir |-> Direction])
             /\ Await(IF Direction = "tx" THEN "EV6T" ELSE "EV6R")
             /\ UNCHANGED <<cr1, sr2, phase, selecting, nacked, ptr, landed,
                            call, stage, seen, i, buf>>

\* Mutant: wait for transmitter mode in both directions.
SendAddr7_oneEvent ==
             /\ Run("address")
             /\ WriteAddress([dev |-> call.dev, dir |-> Direction])
             /\ Await("EV6T")
             /\ UNCHANGED <<cr1, sr2, phase, selecting, nacked, ptr, landed,
                            call, stage, seen, i, buf>>

SendAddr7 == /\ Run("address")
             /\ WriteAddress([dev |-> call.dev, dir |-> Direction])
             /\ Await(IF Direction = "tx" THEN "EV6T" ELSE "EV6R")
             /\ UNCHANGED <<cr1, sr2, phase, selecting, nacked, ptr, landed,
                            call, stage, seen, i, buf>>

WriteByte == /\ Run("write")
             /\ WriteData(IF stage = "select" THEN call.reg ELSE call.data)
             /\ Await("EV8_2")
             /\ UNCHANGED <<cr1, sr2, phase, target, selecting, nacked, ptr, landed,
                            call, stage, seen, i, buf>>

\* Mutant: a read goes on without the stop between its two halves.
Stop_missing ==
        /\ Run("stop")
        /\ IF IsWrite THEN RequestStop /\ Goto("ready") /\ UNCHANGED stage
                      ELSE Goto("waitIdle") /\ stage' = "receive" /\ UNCHANGED cr1
        /\ UNCHANGED <<sr1, sr2, dr, shift, phase, target, selecting, nacked, ptr,
                       landed, call, seen, i, buf>>

\* I2C_stop after the bytes sent.  A read goes on with its second I2C_start.
Stop == /\ Run("stop")
        /\ RequestStop
        /\ IF IsWrite THEN Goto("ready") /\ UNCHANGED stage
                      ELSE Goto("waitIdle") /\ stage' = "receive"
        /\ UNCHANGED <<sr1, sr2, dr, shift, phase, target, selecting, nacked, ptr,
                       landed, call, seen, i, buf>>

\* The loop of I2C_Read_Multi_Reg: acknowledge on for all bytes but the last.
ReadAck == /\ Run("loop")
           /\ i < call.count - 1
           /\ SetBit("ACK")
           /\ Await("EV7")
           /\ UNCHANGED <<sr1, sr2, dr, shift, phase, target, selecting, nacked, ptr,
                          landed, call, stage, seen, i, buf>>

\* Mutant: the acknowledge stays on for the last byte.
ReadNack_ackKept ==
            /\ Run("loop")
            /\ i = call.count - 1
            /\ Goto("nackStop")
            /\ UNCHANGED <<cr1, sr1, sr2, dr, shift, phase, target, selecting, nacked,
                           ptr, landed, call, stage, seen, i, buf>>

ReadNack == /\ Run("loop")
            /\ i = call.count - 1
            /\ cr1' = cr1 \ {"ACK"}
            /\ Goto("nackStop")
            /\ UNCHANGED <<sr1, sr2, dr, shift, phase, target, selecting, nacked, ptr,
                           landed, call, stage, seen, i, buf>>

NackStop == /\ Run("nackStop")
            /\ RequestStop
            /\ Await("EV7")
            /\ UNCHANGED <<sr1, sr2, dr, shift, phase, target, selecting, nacked, ptr,
                           landed, call, stage, seen, i, buf>>

ReceiveData == /\ Run("receive")
               /\ ReadData
               /\ buf' = Append(buf, dr)
               /\ i' = i + 1
               /\ Goto(IF i < call.count - 1 THEN "loop" ELSE "lastStop")
               /\ UNCHANGED <<cr1, sr2, phase, target, selecting, nacked, ptr, landed,
                              call, stage, seen>>

\* The I2C_stop that follows I2C_read_nack, which has asked for a stop already.
LastStop == /\ Run("lastStop")
            /\ RequestStop
            /\ Goto("ready")
            /\ UNCHANGED <<sr1, sr2, dr, shift, phase, target, selecting, nacked, ptr,
                           landed, call, stage, seen, i, buf>>

\* I2C_CheckEvent, first half.
ReadSR1 == /\ Run("sr1")
           /\ seen' = sr1
           /\ Goto("sr2")
           /\ UNCHANGED <<bus, call, stage, i, buf>>

\* What follows each polling loop.
AfterEvent == CASE ev = "EV5" -> "address"
                [] ev = "EV6T" -> "write"
                [] ev = "EV6R" -> "loop"
                [] ev = "EV7" -> "receive"
                [] ev = "EV8_2" -> IF IsWrite /\ stage = "select" THEN "write"
                                                                  ELSE "stop"

\* I2C_CheckEvent, second half.
Detected == Event[ev] \subseteq seen \cup sr2

ReadSR2 == /\ Run("sr2")
           /\ ClearAddr(seen)
           /\ Goto(IF Detected THEN AfterEvent ELSE "sr1")
           /\ stage' = IF Detected /\ ev = "EV8_2" /\ IsWrite THEN "data" ELSE stage
           /\ UNCHANGED <<cr1, sr2, dr, shift, target, selecting, ptr, landed,
                          call, seen, i, buf>>

Driver ==
       \/ WaitIdle \/ GenerateStart \/ SendAddr7 \/ WriteByte \/ Stop
       \/ ReadAck \/ ReadNack \/ NackStop \/ ReceiveData \/ LastStop
       \/ ReadSR1 \/ ReadSR2

Cpu == Driver /\ UNCHANGED <<isr, isrLeft, held>>

Bus == /\ Spinning \/ pc = "ready" \/ isr
       /\ BusStep
       /\ UNCHANGED <<cpu, isr, isrLeft, held>>

IsrEnter == /\ ~isr /\ isrLeft > 0
            /\ isr' = TRUE
            /\ isrLeft' = isrLeft - 1
            /\ held' = [held EXCEPT !.now = @ \/ pc # "ready"]
            /\ UNCHANGED <<bus, cpu>>

IsrLeave == /\ isr
            /\ isr' = FALSE
            /\ UNCHANGED <<bus, cpu, isrLeft, held>>

Next == \/ Cpu
        \/ \E c \in Calls : Invoke(c) /\ UNCHANGED <<isr, isrLeft>>
        \/ Bus
        \/ IsrEnter \/ IsrLeave

Spec == Init /\ [][Next]_vars

\* Nothing stops the driver's thread but an interrupt handler, and the bus clock
\* runs by itself.  The program need not make another call.
FairSpec == /\ Spec
            /\ WF_vars(Cpu)
            /\ WF_vars(Bus)
            /\ WF_vars(IsrLeave)

-----------------------------------------------------------------------------

\* Type invariant.
TypeOK == /\ BusTypeOK
          /\ pc \in {"ready", "waitIdle", "start", "address", "write", "stop", "loop",
                     "nackStop", "receive", "lastStop", "sr1", "sr2"}
          /\ call \in Calls
          /\ stage \in {"select", "data", "receive"}
          /\ ev \in DOMAIN Event
          /\ seen \subseteq {"SB", "ADDR", "TXE", "BTF", "RXNE", "AF"}
          /\ i \in Nat
          /\ buf \in Seq(Bytes)
          /\ isr \in BOOLEAN
          /\ isrLeft \in 0..MaxIsr
          /\ held \in [now : BOOLEAN, before : BOOLEAN]

Promise == INSTANCE SensorBus WITH
    busy   <- pc # "ready",
    stored <- landed,
    answer <- IF pc = "ready" THEN buf ELSE << >>

\* The driver does what it promises: every call is one register operation.
KeepsPromise == Promise!Spec

\* A call to a sensor that is there returns, in spite of the polling loops
\* without a timeout, as long as no interrupt holds the driver up.
CallsReturn == pc # "ready" /\ call.dev \in Present ~> pc = "ready"

\* Whatever holds the driver up, a call causes no register write but the one it
\* was asked for: right sensor, register and value, and not twice.  A write
\* that returned has been stored.
OnlyTheWriteAskedFor ==
    /\ landed \in {<< >>} \cup (IF IsWrite THEN {Promise!Store(call)} ELSE {})
    /\ pc = "ready" /\ IsWrite /\ stage = "data" => landed # << >>

\* I2C_CheckEvent clears ADDR by reading SR2, whichever event it looks for.  The
\* only poll that does so is one that also detects its event: no poll throws
\* away the address acknowledge that a later one waits for.
AddrIsNotThrownAway ==
    [][ "ADDR" \in sr1 /\ "ADDR" \notin sr1' => pc' \in {"write", "loop"} ]_vars

ReadRight == buf = Promise!Registers(call)

\* An interrupt in the middle of a read may leave a byte in DR, which spoils the
\* reads that follow: single reads, one after the other, each return the byte the
\* one before did not wait for.  A read of several registers is spoilt too but
\* ends in step with the bus, and the reads after it are right again.
SeveralRegistersHeal ==
    pc = "ready" /\ stage = "receive" /\ ~held.now /\ ~held.before => ReadRight

\* I2C.c:124, "wait until one byte has been received", before the only thing
\* I2C_read_nack does with the byte: return it.  Once a byte is received and no
\* interrupt handler is running, the wait is over.
ReceivedByteIsReturned ==
    ev = "EV7" /\ pc \in {"sr1", "sr2"} /\ "RXNE" \in sr1 ~> pc = "receive"
=============================================================================
