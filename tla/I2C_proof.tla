------------------------------- MODULE I2C_proof -------------------------------
(***************************************************************************)
(* Proofs about I2C for every set of sensors and calls and any number of   *)
(* interrupts.                                                             *)
(***************************************************************************)
EXTENDS I2C, TLAPS

Flags1 == {"SB", "ADDR", "TXE", "BTF", "RXNE", "AF"}
Labels == {"ready", "waitIdle", "start", "address", "write", "stop", "loop",
           "nackStop", "receive", "lastStop", "sr1", "sr2"}

-----------------------------------------------------------------------------
(* Types *)

LEMMA RegType == 0 \in Regs /\ \A n \in Nat : n % NRegs \in Regs
BY I2CBusAssumption DEF I2CBusAssumption, Regs

LEMMA StepType == \A r \in Regs : Step(r) \in Regs
BY I2CBusAssumption DEF I2CBusAssumption, Regs, Step

LEMMA CallTyped ==
    ASSUME call \in Calls
    PROVE  /\ call.dev \in Devices /\ call.reg \in Regs /\ call.reg \in Nat
           /\ call.data \in Nat /\ call.count \in Nat \ {0}
<1>1. call \in CallType
  BY I2CAssumption DEF I2CAssumption
<1>2. Values \subseteq Nat
  BY I2CBusAssumption DEF I2CBusAssumption
<1>3. call.dev \in Devices /\ call.reg \in Regs /\ call.data \in Values
      /\ call.count \in Nat \ {0}
  BY <1>1 DEF CallType
<1>4. Regs \subseteq Nat
  BY I2CBusAssumption DEF I2CBusAssumption, Regs
<1> QED BY <1>2, <1>3, <1>4

LEMMA ByteTypes ==
    /\ NoByte \in Bytes /\ Undriven \in Bytes
    /\ \A v \in Nat : FromCpu(v) \in Bytes
    /\ \A d \in Devices, r \in Regs, a \in BOOLEAN : FromSensor(d, r, a) \in Bytes
BY DEF Bytes, NoByte, Undriven, FromCpu, FromSensor, Regs

LEMMA InitType == Init => TypeOK
<1> SUFFICES ASSUME Init PROVE TypeOK
  OBVIOUS
<1>1. ptr \in [Devices -> Regs]
  BY RegType DEF Init, BusInit
<1>2. BusTypeOK
  <2>1. landed \in Seq([dev : Devices, reg : Regs, val : Nat])
    BY DEF Init, BusInit
  <2>2. selecting \in BOOLEAN /\ nacked \in BOOLEAN
    BY DEF Init, BusInit
  <2> QED BY <1>1, <2>1, <2>2, ByteTypes DEF Init, BusInit, BusTypeOK
<1>3. isrLeft \in 0..MaxIsr
  BY I2CAssumption DEF I2CAssumption, Init
<1>4. isr \in BOOLEAN /\ held \in [now : BOOLEAN, before : BOOLEAN]
  BY DEF Init
<1>5. buf \in Seq(Bytes)
  BY DEF Init
<1> QED BY <1>2, <1>3, <1>4, <1>5 DEF Init, TypeOK, Event

LEMMA BusType == TypeOK /\ Bus => TypeOK'
<1> SUFFICES ASSUME TypeOK, Bus PROVE TypeOK'
  OBVIOUS
<1> USE DEF TypeOK, BusTypeOK
<1>1. target.dev \in Devices
  BY DEF Targets
<1>2. CASE SendStart
  BY <1>2 DEF Bus, SendStart, cpu
<1>3. CASE SendAddress
  BY <1>3 DEF Bus, SendAddress, cpu
<1>4. CASE SendByte
  <2>1. shift.val \in Nat
    BY DEF Bytes
  <2>2. ptr' \in [Devices -> Regs]
    BY <1>1, <1>4, <2>1, RegType, StepType DEF SendByte
  <2>3. landed' \in Seq([dev : Devices, reg : Regs, val : Nat])
    <3> DEFINE rec == [dev |-> target.dev, reg |-> ptr[target.dev], val |-> shift.val]
    <3>1. rec \in [dev : Devices, reg : Regs, val : Nat]
      BY <1>1, <2>1
    <3>2. landed' \in {landed, Append(landed, rec)}
      BY <1>4 DEF SendByte
    <3> DEFINE Writes == [dev : Devices, reg : Regs, val : Nat]
    <3>3. landed \in Seq(Writes) /\ rec \in Writes
      BY <3>1
    <3> HIDE DEF rec, Writes
    <3>4. Append(landed, rec) \in Seq(Writes)
      BY <3>3
    <3>5. landed' \in Seq(Writes)
      BY <3>2, <3>3, <3>4
    <3> QED BY <3>5 DEF Writes
  <2>4. shift' \in Bytes
    BY <1>4, ByteTypes DEF SendByte
  <2> QED BY <1>4, <2>2, <2>3, <2>4 DEF Bus, SendByte, cpu
<1>5. CASE ReceiveByte
  <2> DEFINE byte == IF nacked THEN Undriven
                     ELSE FromSensor(target.dev, ptr[target.dev], "ACK" \in cr1)
  <2>1. byte \in Bytes
    <3>1. ("ACK" \in cr1) \in BOOLEAN /\ ptr[target.dev] \in Regs
      BY <1>1
    <3>2. FromSensor(target.dev, ptr[target.dev], "ACK" \in cr1) \in Bytes
      BY <1>1, <3>1, ByteTypes
    <3> QED BY <3>2, ByteTypes
  <2>2. dr' \in Bytes /\ shift' \in Bytes
    BY <1>5, <2>1 DEF ReceiveByte
  <2>3. ptr' \in [Devices -> Regs]
    BY <1>1, <1>5, StepType DEF ReceiveByte
  <2>4. nacked' \in BOOLEAN
    BY <1>5 DEF ReceiveByte
  <2>5. sr1' \subseteq Flags1
    BY <1>5 DEF ReceiveByte, Flags1
  <2> QED BY <1>5, <2>2, <2>3, <2>4, <2>5 DEF Bus, ReceiveByte, cpu, Flags1
<1>6. CASE SendStop
  BY <1>6 DEF Bus, SendStop, cpu
<1> QED BY <1>2, <1>3, <1>4, <1>5, <1>6 DEF Bus, BusStep

LEMMA DriverType == TypeOK /\ Cpu => TypeOK'
<1> SUFFICES ASSUME TypeOK, Cpu PROVE TypeOK'
  OBVIOUS
<1> USE CallTyped DEF TypeOK, BusTypeOK, Event, Goto, Await, Cpu
<1>1. CASE WaitIdle
  BY <1>1 DEF WaitIdle, bus
<1>2. CASE GenerateStart
  BY <1>2 DEF GenerateStart, SetBit
<1>3. CASE SendAddr7
  BY <1>3, ByteTypes DEF SendAddr7, WriteAddress, Direction, Targets
<1>4. CASE WriteByte
  BY <1>4, ByteTypes DEF WriteByte, WriteData
<1>5. CASE Stop
  BY <1>5 DEF Stop, RequestStop, SetBit
<1>6. CASE ReadAck
  BY <1>6 DEF ReadAck, SetBit
<1>7. CASE ReadNack
  BY <1>7 DEF ReadNack
<1>8. CASE NackStop
  BY <1>8 DEF NackStop, RequestStop, SetBit
<1>9. CASE ReceiveData
  <2>1. buf' \in Seq(Bytes) /\ i' \in Nat
    BY <1>9 DEF ReceiveData
  <2>2. dr' \in Bytes /\ shift' \in Bytes /\ sr1' \subseteq Flags1
    BY <1>9, ByteTypes DEF ReceiveData, ReadData, Flags1
  <2>3. pc' \in Labels
    BY <1>9 DEF ReceiveData, Labels
  <2> QED BY <1>9, <2>1, <2>2, <2>3 DEF ReceiveData, Flags1, Labels
<1>10. CASE LastStop
  BY <1>10 DEF LastStop, RequestStop, SetBit
<1>11. CASE ReadSR1
  BY <1>11 DEF ReadSR1, bus
<1>12. CASE ReadSR2
  <2>1. AfterEvent \in Labels
    BY DEF AfterEvent, Labels
  <2>2. phase' \in {"idle", "addr", "acked", "tx", "rx", "refused"}
    BY <1>12 DEF ReadSR2, ClearAddr, Targets
  <2> QED BY <1>12, <2>1, <2>2 DEF ReadSR2, ClearAddr, Labels
<1> QED BY <1>1, <1>2, <1>3, <1>4, <1>5, <1>6, <1>7, <1>8, <1>9, <1>10, <1>11,
           <1>12 DEF Driver

\* Steps that leave the bus and the driver alone.
LEMMA SameType ==
    ASSUME TypeOK, UNCHANGED <<bus, cpu>>, isr' \in BOOLEAN, isrLeft' \in 0..MaxIsr,
           held' \in [now : BOOLEAN, before : BOOLEAN]
    PROVE  TypeOK'
<1>1. BusTypeOK'
  BY DEF TypeOK, BusTypeOK, bus
<1> QED BY <1>1 DEF TypeOK, cpu

LEMMA NextType == TypeOK /\ [Next]_vars => TypeOK'
<1> SUFFICES ASSUME TypeOK, [Next]_vars PROVE TypeOK'
  OBVIOUS
<1>1. CASE Cpu
  BY <1>1, DriverType
<1>2. ASSUME NEW c \in Calls, Invoke(c), UNCHANGED <<isr, isrLeft>> PROVE TypeOK'
  BY <1>2 DEF Invoke, Goto, ReadSeveral, TypeOK, BusTypeOK
<1>3. CASE Bus
  BY <1>3, BusType
<1>4. CASE IsrEnter
  <2>1. isrLeft' \in 0..MaxIsr
    BY <1>4, I2CAssumption DEF IsrEnter, TypeOK, I2CAssumption
  <2>2. isr' \in BOOLEAN /\ held' \in [now : BOOLEAN, before : BOOLEAN]
    BY <1>4 DEF IsrEnter, TypeOK
  <2> QED BY <1>4, <2>1, <2>2, SameType DEF IsrEnter
<1>5. CASE IsrLeave
  <2>1. isr' \in BOOLEAN /\ held' = held /\ isrLeft' = isrLeft
    BY <1>5 DEF IsrLeave
  <2> QED BY <1>5, <2>1, SameType DEF IsrLeave, TypeOK
<1>6. CASE UNCHANGED vars
  BY <1>6 DEF vars, TypeOK, BusTypeOK, bus, cpu
<1> QED BY <1>1, <1>2, <1>3, <1>4, <1>5, <1>6 DEF Next

\* Every variable of the driver and of the bus keeps its type.
THEOREM TypeCorrect == Spec => []TypeOK
BY InitType, NextType, PTL DEF Spec

-----------------------------------------------------------------------------
(* Register writes *)

Polling(e) == pc \in {"sr1", "sr2"} /\ ev = e

\* The flags tell the phase of the bus.  A start is asked for only on a free bus.
FlagInv ==
    /\ "BUSY" \in sr2 <=> phase # "idle"
    /\ "MSL" \in sr2 <=> phase # "idle"
    /\ "ADDR" \in sr1 <=> phase = "acked"
    /\ phase = "acked" /\ target.dir = "tx" => "TXE" \in sr1 /\ "TRA" \in sr2
    /\ "START" \in cr1 => phase = "idle" /\ Polling("EV5")

\* What the SR1 half of a poll has seen still holds at its SR2 half.
SeenInv ==
    /\ pc = "sr2" /\ "ADDR" \in seen =>
           phase = "acked" /\ (target.dir = "tx" => "TXE" \in seen)
    /\ pc = "sr2" /\ ev = "EV8_2" /\ "BTF" \in seen /\ phase = "tx" => shift = NoByte

\* Where the bus can be at each statement of the driver.  It is idle in the middle
\* of a transfer only when an interrupt let a stop through; the poll that follows
\* then never ends.
PhaseInv ==
    /\ pc \in {"ready", "waitIdle"} => phase \in {"idle", "tx", "rx"}
    /\ pc = "start" => phase = "idle"
    /\ pc = "address" \/ Polling("EV5") =>
           phase \in {"idle", "addr"} /\ (phase = "addr" => "SB" \in sr1)
    /\ Polling("EV6T") \/ Polling("EV6R") => phase \in {"idle", "addr", "acked", "refused"}
    /\ pc \in {"write", "stop"} \/ Polling("EV8_2") => phase \in {"idle", "tx"}
    /\ pc \in {"loop", "nackStop", "receive", "lastStop"} \/ Polling("EV7") =>
           phase \in {"idle", "rx"}

\* Which half of a call the driver is in, and whom it talks to.
StageInv ==
    /\ Polling("EV6T") =>
           /\ stage = "select" /\ shift = NoByte
           /\ target = [dev |-> call.dev, dir |-> "tx"]
           /\ phase = "acked" => selecting
    /\ Polling("EV6R") => stage = "receive" /\ target.dir = "rx"
    /\ pc \in {"loop", "nackStop", "receive", "lastStop"} \/ Polling("EV7") =>
           stage = "receive"
    /\ pc \in {"start", "address", "waitIdle"} \/ Polling("EV5") => stage # "data"
    /\ pc \in {"write", "stop"} \/ Polling("EV8_2") =>
           stage # "receive" /\ (phase = "tx" => target = [dev |-> call.dev, dir |-> "tx"])

\* The sensor is ready to take the next byte the driver sends as what it is:
\* first the register's number, then its value.
Expects == /\ landed = << >>
           /\ IF stage = "select" THEN selecting
                                  ELSE ~selecting /\ ptr[call.dev] = call.reg

\* The byte under way.
NextByte == IF stage = "select" THEN call.reg ELSE call.data

\* It has been taken.
Taken == IF stage = "select"
         THEN ~selecting /\ ptr[call.dev] = call.reg /\ landed = << >>
         ELSE landed = Promise!Store(call)

TxInv ==
    /\ phase = "tx" /\ shift # NoByte =>
           Polling("EV8_2") /\ "BTF" \notin sr1 /\ Expects /\ shift.val = NextByte
    /\ pc = "write" /\ phase = "tx" => shift = NoByte /\ Expects
    /\ Polling("EV8_2") /\ phase = "tx" /\ shift = NoByte => Taken

LandedInv ==
    /\ stage # "data" => landed = << >>
    /\ stage = "data" => IsWrite /\ landed \in {<< >>, Promise!Store(call)}
    /\ stage = "receive" => ~IsWrite
    /\ (pc = "stop" /\ IsWrite) \/ (pc = "ready" /\ stage = "data") =>
           stage = "data" /\ landed = Promise!Store(call)

WInv == TypeOK /\ FlagInv /\ SeenInv /\ PhaseInv /\ StageInv /\ TxInv /\ LandedInv

LEMMA DriverW == WInv /\ Cpu => WInv'
<1> SUFFICES ASSUME WInv, Cpu PROVE WInv'
  OBVIOUS
<1> USE DEF WInv, Polling, Goto, Await, Run, Cpu, IsWrite
<1>0. TypeOK'
  BY DriverType DEF Cpu
<1>1. CASE WaitIdle
  <2>1. FlagInv'
    BY <1>1 DEF WaitIdle, bus, FlagInv, PhaseInv
  <2>2. SeenInv'
    BY <1>1 DEF WaitIdle, bus, SeenInv, FlagInv, PhaseInv
  <2>3. PhaseInv'
    BY <1>1 DEF WaitIdle, bus, PhaseInv, FlagInv, SeenInv, StageInv
  <2>4. StageInv'
    BY <1>1 DEF WaitIdle, bus, StageInv, PhaseInv, SeenInv, FlagInv, LandedInv
  <2>5. TxInv'
    BY <1>1 DEF WaitIdle, bus, TxInv, StageInv, PhaseInv, SeenInv, FlagInv, LandedInv, Expects, NextByte, Taken
  <2>6. LandedInv'
    BY <1>1 DEF WaitIdle, bus, LandedInv, StageInv, TxInv, Taken, PhaseInv, FlagInv, SeenInv
  <2> QED BY <1>0, <2>1, <2>2, <2>3, <2>4, <2>5, <2>6
<1>2. CASE GenerateStart
  <2>1. FlagInv'
    BY <1>2 DEF GenerateStart, SetBit, FlagInv, PhaseInv
  <2>2. SeenInv'
    BY <1>2 DEF GenerateStart, SetBit, SeenInv, FlagInv, PhaseInv
  <2>3. PhaseInv'
    BY <1>2 DEF GenerateStart, SetBit, PhaseInv, FlagInv, SeenInv, StageInv
  <2>4. StageInv'
    BY <1>2 DEF GenerateStart, SetBit, StageInv, PhaseInv, SeenInv, FlagInv, LandedInv
  <2>5. TxInv'
    BY <1>2 DEF GenerateStart, SetBit, TxInv, StageInv, PhaseInv, SeenInv, FlagInv, LandedInv, Expects, NextByte, Taken
  <2>6. LandedInv'
    BY <1>2 DEF GenerateStart, SetBit, LandedInv, StageInv, TxInv, Taken, PhaseInv, FlagInv, SeenInv
  <2> QED BY <1>0, <2>1, <2>2, <2>3, <2>4, <2>5, <2>6
<1>3. CASE SendAddr7
  <2>1. FlagInv'
    BY <1>3 DEF SendAddr7, WriteAddress, Direction, FlagInv, PhaseInv
  <2>2. SeenInv'
    BY <1>3 DEF SendAddr7, WriteAddress, Direction, SeenInv, FlagInv, PhaseInv
  <2>3. PhaseInv'
    BY <1>3 DEF SendAddr7, WriteAddress, Direction, PhaseInv, FlagInv, SeenInv, StageInv
  <2>4. StageInv'
    <3>1. stage \in {"select", "receive"} /\ phase \in {"idle", "addr"}
      BY <1>3 DEF SendAddr7, TypeOK, StageInv, PhaseInv
    <3>2. /\ pc' = "sr1" /\ shift' = NoByte /\ phase' = phase /\ stage' = stage
          /\ call' = call /\ target' = [dev |-> call.dev, dir |-> Direction]
          /\ ev' = IF Direction = "tx" THEN "EV6T" ELSE "EV6R"
      BY <1>3 DEF SendAddr7, WriteAddress
    <3> QED BY <3>1, <3>2 DEF StageInv, Direction
  <2>5. TxInv'
    BY <1>3 DEF SendAddr7, WriteAddress, Direction, TxInv, StageInv, PhaseInv, SeenInv, FlagInv, LandedInv, Expects, NextByte, Taken
  <2>6. LandedInv'
    BY <1>3 DEF SendAddr7, WriteAddress, Direction, LandedInv, StageInv, TxInv, Taken, PhaseInv, FlagInv, SeenInv
  <2> QED BY <1>0, <2>1, <2>2, <2>3, <2>4, <2>5, <2>6
<1>4. CASE WriteByte
  <2>1. FlagInv'
    BY <1>4 DEF WriteByte, WriteData, FlagInv, PhaseInv
  <2>2. SeenInv'
    BY <1>4 DEF WriteByte, WriteData, SeenInv, FlagInv, PhaseInv
  <2>3. PhaseInv'
    BY <1>4 DEF WriteByte, WriteData, PhaseInv, FlagInv, SeenInv, StageInv
  <2>4. StageInv'
    BY <1>4 DEF WriteByte, WriteData, StageInv, PhaseInv, SeenInv, FlagInv, LandedInv
  <2>5. TxInv'
    <3>1. /\ pc = "write" /\ pc' = "sr1" /\ ev' = "EV8_2" /\ phase' = phase
          /\ sr1' = sr1 \ {"BTF"} /\ phase \in {"idle", "tx"}
          /\ phase = "tx" => shift' = FromCpu(NextByte) /\ Expects
      BY <1>4 DEF WriteByte, WriteData, NextByte, PhaseInv, TxInv
    <3>2. Expects' = Expects /\ NextByte' = NextByte
      BY <1>4 DEF WriteByte, Expects, NextByte
    <3>3. FromCpu(NextByte) # NoByte /\ FromCpu(NextByte).val = NextByte
      BY DEF FromCpu, NoByte
    <3> QED BY <3>1, <3>2, <3>3 DEF TxInv
  <2>6. LandedInv'
    BY <1>4 DEF WriteByte, WriteData, LandedInv, StageInv, TxInv, Taken, PhaseInv, FlagInv, SeenInv
  <2> QED BY <1>0, <2>1, <2>2, <2>3, <2>4, <2>5, <2>6
<1>5. CASE Stop
  <2>1. FlagInv'
    BY <1>5 DEF Stop, RequestStop, SetBit, FlagInv, PhaseInv
  <2>2. SeenInv'
    BY <1>5 DEF Stop, RequestStop, SetBit, SeenInv, FlagInv, PhaseInv
  <2>3. PhaseInv'
    BY <1>5 DEF Stop, RequestStop, SetBit, PhaseInv, FlagInv, SeenInv, StageInv
  <2>4. StageInv'
    BY <1>5 DEF Stop, RequestStop, SetBit, StageInv, PhaseInv, SeenInv, FlagInv, LandedInv
  <2>5. TxInv'
    BY <1>5 DEF Stop, RequestStop, SetBit, TxInv, StageInv, PhaseInv, SeenInv, FlagInv, LandedInv, Expects, NextByte, Taken
  <2>6. LandedInv'
    BY <1>5 DEF Stop, RequestStop, SetBit, LandedInv, StageInv, TxInv, Taken, PhaseInv, FlagInv, SeenInv
  <2> QED BY <1>0, <2>1, <2>2, <2>3, <2>4, <2>5, <2>6
<1>6. CASE ReadAck
  <2>1. FlagInv'
    BY <1>6 DEF ReadAck, SetBit, FlagInv, PhaseInv
  <2>2. SeenInv'
    BY <1>6 DEF ReadAck, SetBit, SeenInv, FlagInv, PhaseInv
  <2>3. PhaseInv'
    BY <1>6 DEF ReadAck, SetBit, PhaseInv, FlagInv, SeenInv, StageInv
  <2>4. StageInv'
    BY <1>6 DEF ReadAck, SetBit, StageInv, PhaseInv, SeenInv, FlagInv, LandedInv
  <2>5. TxInv'
    BY <1>6 DEF ReadAck, SetBit, TxInv, StageInv, PhaseInv, SeenInv, FlagInv, LandedInv, Expects, NextByte, Taken
  <2>6. LandedInv'
    BY <1>6 DEF ReadAck, SetBit, LandedInv, StageInv, TxInv, Taken, PhaseInv, FlagInv, SeenInv
  <2> QED BY <1>0, <2>1, <2>2, <2>3, <2>4, <2>5, <2>6
<1>7. CASE ReadNack
  <2>1. FlagInv'
    BY <1>7 DEF ReadNack, FlagInv, PhaseInv
  <2>2. SeenInv'
    BY <1>7 DEF ReadNack, SeenInv, FlagInv, PhaseInv
  <2>3. PhaseInv'
    BY <1>7 DEF ReadNack, PhaseInv, FlagInv, SeenInv, StageInv
  <2>4. StageInv'
    BY <1>7 DEF ReadNack, StageInv, PhaseInv, SeenInv, FlagInv, LandedInv
  <2>5. TxInv'
    BY <1>7 DEF ReadNack, TxInv, StageInv, PhaseInv, SeenInv, FlagInv, LandedInv, Expects, NextByte, Taken
  <2>6. LandedInv'
    BY <1>7 DEF ReadNack, LandedInv, StageInv, TxInv, Taken, PhaseInv, FlagInv, SeenInv
  <2> QED BY <1>0, <2>1, <2>2, <2>3, <2>4, <2>5, <2>6
<1>8. CASE NackStop
  <2>1. FlagInv'
    BY <1>8 DEF NackStop, RequestStop, SetBit, FlagInv, PhaseInv
  <2>2. SeenInv'
    BY <1>8 DEF NackStop, RequestStop, SetBit, SeenInv, FlagInv, PhaseInv
  <2>3. PhaseInv'
    BY <1>8 DEF NackStop, RequestStop, SetBit, PhaseInv, FlagInv, SeenInv, StageInv
  <2>4. StageInv'
    BY <1>8 DEF NackStop, RequestStop, SetBit, StageInv, PhaseInv, SeenInv, FlagInv, LandedInv
  <2>5. TxInv'
    BY <1>8 DEF NackStop, RequestStop, SetBit, TxInv, StageInv, PhaseInv, SeenInv, FlagInv, LandedInv, Expects, NextByte, Taken
  <2>6. LandedInv'
    BY <1>8 DEF NackStop, RequestStop, SetBit, LandedInv, StageInv, TxInv, Taken, PhaseInv, FlagInv, SeenInv
  <2> QED BY <1>0, <2>1, <2>2, <2>3, <2>4, <2>5, <2>6
<1>9. CASE ReceiveData
  <2>1. FlagInv'
    BY <1>9 DEF ReceiveData, ReadData, FlagInv, PhaseInv
  <2>2. SeenInv'
    BY <1>9 DEF ReceiveData, ReadData, SeenInv, FlagInv, PhaseInv
  <2>3. PhaseInv'
    BY <1>9 DEF ReceiveData, ReadData, PhaseInv, FlagInv, SeenInv, StageInv
  <2>4. StageInv'
    BY <1>9 DEF ReceiveData, ReadData, StageInv, PhaseInv, SeenInv, FlagInv, LandedInv
  <2>5. TxInv'
    BY <1>9 DEF ReceiveData, ReadData, TxInv, StageInv, PhaseInv, SeenInv, FlagInv, LandedInv, Expects, NextByte, Taken
  <2>6. LandedInv'
    BY <1>9 DEF ReceiveData, ReadData, LandedInv, StageInv, TxInv, Taken, PhaseInv, FlagInv, SeenInv
  <2> QED BY <1>0, <2>1, <2>2, <2>3, <2>4, <2>5, <2>6
<1>10. CASE LastStop
  <2>1. FlagInv'
    BY <1>10 DEF LastStop, RequestStop, SetBit, FlagInv, PhaseInv
  <2>2. SeenInv'
    BY <1>10 DEF LastStop, RequestStop, SetBit, SeenInv, FlagInv, PhaseInv
  <2>3. PhaseInv'
    BY <1>10 DEF LastStop, RequestStop, SetBit, PhaseInv, FlagInv, SeenInv, StageInv
  <2>4. StageInv'
    BY <1>10 DEF LastStop, RequestStop, SetBit, StageInv, PhaseInv, SeenInv, FlagInv, LandedInv
  <2>5. TxInv'
    BY <1>10 DEF LastStop, RequestStop, SetBit, TxInv, StageInv, PhaseInv, SeenInv, FlagInv, LandedInv, Expects, NextByte, Taken
  <2>6. LandedInv'
    BY <1>10 DEF LastStop, RequestStop, SetBit, LandedInv, StageInv, TxInv, Taken, PhaseInv, FlagInv, SeenInv
  <2> QED BY <1>0, <2>1, <2>2, <2>3, <2>4, <2>5, <2>6
<1>11. CASE ReadSR1
  <2>1. FlagInv'
    BY <1>11 DEF ReadSR1, bus, FlagInv, PhaseInv
  <2>2. SeenInv'
    BY <1>11 DEF ReadSR1, bus, SeenInv, FlagInv, TxInv
  <2>3. PhaseInv'
    BY <1>11 DEF ReadSR1, bus, PhaseInv, FlagInv, SeenInv, StageInv
  <2>4. StageInv'
    BY <1>11 DEF ReadSR1, bus, StageInv, PhaseInv, SeenInv, FlagInv, LandedInv
  <2>5. TxInv'
    BY <1>11 DEF ReadSR1, bus, TxInv, StageInv, PhaseInv, SeenInv, FlagInv, LandedInv, Expects, NextByte, Taken
  <2>6. LandedInv'
    BY <1>11 DEF ReadSR1, bus, LandedInv, StageInv, TxInv, Taken, PhaseInv, FlagInv, SeenInv
  <2> QED BY <1>0, <2>1, <2>2, <2>3, <2>4, <2>5, <2>6
<1>12. CASE ReadSR2
  <2> USE <1>12
  <2>1. /\ pc = "sr2" /\ ev' = ev /\ call' = call /\ cr1' = cr1 /\ sr2' = sr2
        /\ shift' = shift /\ target' = target /\ selecting' = selecting
        /\ ptr' = ptr /\ landed' = landed /\ seen' = seen
        /\ ev \in {"EV5", "EV6T", "EV6R", "EV7", "EV8_2"}
        /\ sr2 \subseteq {"BUSY", "MSL", "TRA"}
        /\ stage \in {"select", "data", "receive"}
    BY DEF ReadSR2, TypeOK, BusTypeOK, Event
  <2>2. CASE "ADDR" \in seen
    <3>1. phase = "acked" /\ (target.dir = "tx" => "TXE" \in seen)
      BY <2>1, <2>2 DEF SeenInv
    <3>2. CASE ev = "EV6T"
      <4>1. target = [dev |-> call.dev, dir |-> "tx"] /\ stage = "select"
            /\ shift = NoByte /\ selecting
        BY <2>1, <3>1, <3>2 DEF StageInv
      <4>2. Detected
        BY <3>1, <3>2, <2>2, <4>1 DEF Detected, Event, FlagInv
      <4>3. pc' = "write" /\ phase' = "tx" /\ stage' = "select" /\ sr1' = sr1 \ {"ADDR"}
        BY <3>1, <3>2, <2>2, <4>1, <4>2 DEF ReadSR2, ClearAddr, AfterEvent
      <4>4. FlagInv' /\ SeenInv' /\ PhaseInv' /\ StageInv'
        BY <2>1, <3>1, <3>2, <4>1, <4>3 DEF FlagInv, SeenInv, PhaseInv, StageInv
      <4>5. TxInv' /\ LandedInv'
        BY <2>1, <3>1, <3>2, <4>1, <4>3 DEF TxInv, LandedInv, Expects
      <4> QED BY <1>0, <4>4, <4>5
    <3>3. CASE ev = "EV6R"
      <4>1. target.dir = "rx" /\ stage = "receive"
        BY <2>1, <3>1, <3>3 DEF StageInv
      <4>2. Detected
        BY <3>1, <3>3, <2>2, <4>1 DEF Detected, Event, FlagInv
      <4>3. pc' = "loop" /\ phase' = "rx" /\ stage' = "receive" /\ sr1' = sr1 \ {"ADDR"}
        BY <3>1, <3>3, <2>2, <4>1, <4>2 DEF ReadSR2, ClearAddr, AfterEvent
      <4>4. FlagInv' /\ SeenInv' /\ PhaseInv' /\ StageInv'
        BY <2>1, <3>1, <3>3, <4>1, <4>3 DEF FlagInv, SeenInv, PhaseInv, StageInv
      <4>5. TxInv' /\ LandedInv'
        BY <2>1, <3>1, <3>3, <4>1, <4>3 DEF TxInv, LandedInv
      <4> QED BY <1>0, <4>4, <4>5
    <3>4. ev \in {"EV6T", "EV6R"}
      BY <2>1, <3>1 DEF PhaseInv
    <3> QED BY <3>2, <3>3, <3>4
  <2>3. CASE "ADDR" \notin seen
    <3>1. sr1' = sr1 /\ phase' = phase
      BY <2>3 DEF ReadSR2, ClearAddr
    <3>2. CASE ~Detected
      <4>1. pc' = "sr1" /\ stage' = stage
        BY <3>2 DEF ReadSR2
      <4> QED BY <1>0, <2>1, <3>1, <4>1 DEF FlagInv, SeenInv, PhaseInv, StageInv,
                 TxInv, LandedInv, Expects, NextByte, Taken
    <3>3. CASE Detected
      <4>1. phase # "idle" /\ pc' = AfterEvent /\ ev \in {"EV5", "EV7", "EV8_2"}
        <5>1. "BUSY" \in Event[ev] /\ (ev \in {"EV6T", "EV6R"} => "ADDR" \in Event[ev])
          BY <2>1 DEF Event
        <5>2. seen \subseteq Flags1
          BY DEF TypeOK, Flags1
        <5>3. "BUSY" \in sr2 /\ ev \notin {"EV6T", "EV6R"}
          BY <2>1, <2>3, <3>3, <5>1, <5>2 DEF Detected, Flags1
        <5> QED BY <2>1, <3>3, <5>3 DEF ReadSR2, FlagInv
      <4>2. CASE ev = "EV5"
        <5>1. pc' = "address" /\ stage' = stage /\ phase = "addr"
          BY <2>1, <4>1, <4>2 DEF ReadSR2, AfterEvent, PhaseInv
        <5> QED BY <1>0, <2>1, <3>1, <4>2, <5>1 DEF FlagInv, SeenInv, PhaseInv,
                   StageInv, TxInv, LandedInv
      <4>3. CASE ev = "EV7"
        <5>1. pc' = "receive" /\ stage' = stage /\ phase = "rx"
          BY <2>1, <4>1, <4>3 DEF ReadSR2, AfterEvent, PhaseInv
        <5> QED BY <1>0, <2>1, <3>1, <4>3, <5>1 DEF FlagInv, SeenInv, PhaseInv,
                   StageInv, TxInv, LandedInv
      <4>4. CASE ev = "EV8_2"
        <5>1. phase = "tx" /\ shift = NoByte /\ Taken /\ stage # "receive"
              /\ target = [dev |-> call.dev, dir |-> "tx"]
          BY <2>1, <3>3, <4>1, <4>4 DEF Detected, Event, PhaseInv, SeenInv, TxInv, StageInv
        <5>2. CASE IsWrite /\ stage = "select"
          <6>1. pc' = "write" /\ stage' = "data"
            BY <3>3, <4>1, <4>4, <5>2 DEF ReadSR2, AfterEvent
          <6>2. FlagInv' /\ SeenInv' /\ PhaseInv' /\ StageInv'
            BY <2>1, <3>1, <4>4, <5>1, <6>1 DEF FlagInv, SeenInv, PhaseInv, StageInv
          <6>3. TxInv' /\ LandedInv'
            BY <2>1, <3>1, <4>4, <5>1, <5>2, <6>1 DEF TxInv, LandedInv, Expects, Taken
          <6> QED BY <1>0, <6>2, <6>3
        <5>3. CASE IsWrite /\ stage = "data"
          <6>1. pc' = "stop" /\ stage' = "data"
            BY <3>3, <4>1, <4>4, <5>3 DEF ReadSR2, AfterEvent
          <6>2. FlagInv' /\ SeenInv' /\ PhaseInv' /\ StageInv'
            BY <2>1, <3>1, <4>4, <5>1, <6>1 DEF FlagInv, SeenInv, PhaseInv, StageInv
          <6>3. TxInv' /\ LandedInv'
            BY <2>1, <3>1, <4>4, <5>1, <5>3, <6>1 DEF TxInv, LandedInv, Taken
          <6> QED BY <1>0, <6>2, <6>3
        <5>4. CASE ~IsWrite
          <6>1. pc' = "stop" /\ stage' = "select" /\ stage = "select"
            BY <2>1, <3>3, <4>1, <4>4, <5>1, <5>4 DEF ReadSR2, AfterEvent, LandedInv
          <6>2. FlagInv' /\ SeenInv' /\ PhaseInv' /\ StageInv'
            BY <2>1, <3>1, <4>4, <5>1, <6>1 DEF FlagInv, SeenInv, PhaseInv, StageInv
          <6>3. TxInv' /\ LandedInv'
            BY <2>1, <3>1, <4>4, <5>1, <5>4, <6>1 DEF TxInv, LandedInv
          <6> QED BY <1>0, <6>2, <6>3
        <5> QED BY <2>1, <5>1, <5>2, <5>3, <5>4
      <4> QED BY <4>1, <4>2, <4>3, <4>4
    <3> QED BY <3>2, <3>3
  <2> QED BY <2>2, <2>3
<1> QED BY <1>1, <1>2, <1>3, <1>4, <1>5, <1>6, <1>7, <1>8, <1>9, <1>10, <1>11, <1>12 DEF Driver

LEMMA InitW == Init => WInv
<1> SUFFICES ASSUME Init PROVE WInv
  OBVIOUS
<1>1. TypeOK
  BY InitType
<1>2. /\ pc = "ready" /\ stage = "select" /\ landed = << >>
      /\ cr1 = {} /\ sr1 = {} /\ sr2 = {} /\ phase = "idle"
  BY DEF Init, BusInit
<1> QED BY <1>1, <1>2 DEF WInv, FlagInv, SeenInv, PhaseInv, StageInv, TxInv,
           LandedInv, Polling

LEMMA BusW == WInv /\ Bus => WInv'
<1> SUFFICES ASSUME WInv, Bus PROVE WInv'
  OBVIOUS
<1> USE DEF WInv, Polling
<1>0. TypeOK'
  BY BusType
<1>00. /\ pc' = pc /\ call' = call /\ stage' = stage /\ ev' = ev /\ seen' = seen
       /\ IsWrite' = IsWrite /\ NextByte' = NextByte
  BY DEF Bus, cpu, IsWrite, NextByte
<1>1. CASE SendStart
  <2>1. /\ phase = "idle" /\ phase' = "addr" /\ Polling("EV5")
        /\ sr1' = sr1 \cup {"SB"} /\ sr2' = {"BUSY", "MSL"} /\ cr1' = cr1 \ {"START"}
        /\ landed' = landed
    BY <1>1 DEF SendStart, FlagInv
  <2> QED BY <1>0, <1>00, <2>1 DEF FlagInv, SeenInv, PhaseInv, StageInv, TxInv, LandedInv
<1>2. CASE SendAddress
  <2>1. phase = "addr" /\ "SB" \notin sr1 /\ pc \in {"sr1", "sr2"} /\ ev \in {"EV6T", "EV6R"}
    BY <1>2 DEF SendAddress, PhaseInv, TypeOK, Event
  <2>2. /\ cr1' = cr1 /\ shift' = shift /\ target' = target /\ landed' = landed
        /\ selecting' = TRUE
    BY <1>2 DEF SendAddress
  <2>3. CASE phase' = "refused" /\ sr1' = sr1 \cup {"AF"} /\ sr2' = sr2
    BY <1>0, <1>00, <2>1, <2>2, <2>3 DEF FlagInv, SeenInv, PhaseInv, StageInv, TxInv,
       LandedInv
  <2>4. CASE /\ phase' = "acked"
             /\ sr1' = sr1 \cup {"ADDR"} \cup (IF target.dir = "tx" THEN {"TXE"} ELSE {})
             /\ sr2' = sr2 \cup (IF target.dir = "tx" THEN {"TRA"} ELSE {})
    BY <1>0, <1>00, <2>1, <2>2, <2>4 DEF FlagInv, SeenInv, PhaseInv, StageInv, TxInv,
       LandedInv
  <2> QED BY <1>2, <2>3, <2>4 DEF SendAddress
<1>3. CASE SendByte
  <2> USE <1>3
  <2>1. /\ phase = "tx" /\ shift # NoByte /\ Polling("EV8_2") /\ Expects
        /\ shift.val = NextByte /\ stage \in {"select", "data"}
        /\ target = [dev |-> call.dev, dir |-> "tx"]
    BY DEF SendByte, TxInv, StageInv, TypeOK
  <2>2. /\ shift' = NoByte /\ sr1' = sr1 \cup {"BTF"} /\ selecting' = FALSE
        /\ cr1' = cr1 /\ sr2' = sr2 /\ phase' = phase /\ target' = target
    BY DEF SendByte
  <2>3. call.dev \in Devices /\ call.reg \in Regs /\ ptr \in [Devices -> Regs]
    BY CallTyped DEF TypeOK, BusTypeOK
  <2>4. Taken' /\ (stage = "select" => landed' = << >>)
    <3>1. CASE stage = "select"
      <4>1. selecting /\ landed = << >>
        BY <2>1, <3>1 DEF Expects
      <4>2. call.reg % NRegs = call.reg
        BY <2>3, I2CBusAssumption DEF I2CBusAssumption, Regs
      <4>3. ptr' = [ptr EXCEPT ![call.dev] = call.reg] /\ landed' = landed
        BY <2>1, <3>1, <4>1, <4>2 DEF SendByte, NextByte
      <4>4. ptr'[call.dev] = call.reg
        BY <2>3, <4>3
      <4> QED BY <1>00, <2>2, <3>1, <4>1, <4>3, <4>4 DEF Taken
    <3>2. CASE stage = "data"
      <4>1. ~selecting /\ landed = << >> /\ ptr[call.dev] = call.reg
        BY <2>1, <3>2 DEF Expects
      <4> DEFINE rec == [dev |-> call.dev, reg |-> call.reg, val |-> call.data]
      <4>2. landed' = Append(<< >>, rec)
        BY <2>1, <3>2, <4>1 DEF SendByte, NextByte
      <4>3. Promise!Store(call)' = <<rec>>
        BY <1>00 DEF Promise!Store
      <4> HIDE DEF rec
      <4>4. Append(<< >>, rec) = <<rec>>
        OBVIOUS
      <4> QED BY <1>00, <3>2, <4>2, <4>3, <4>4 DEF Taken
    <3> QED BY <2>1, <3>1, <3>2
  <2>5. FlagInv' /\ SeenInv' /\ PhaseInv' /\ StageInv'
    BY <1>00, <2>1, <2>2 DEF FlagInv, SeenInv, PhaseInv, StageInv
  <2>6. TxInv' /\ LandedInv'
    BY <1>00, <2>1, <2>2, <2>4 DEF TxInv, LandedInv, Taken
  <2> QED BY <1>0, <2>5, <2>6
<1>4. CASE ReceiveByte
  <2>1. /\ phase = "rx" /\ phase' = phase /\ cr1' = cr1 /\ sr2' = sr2
        /\ target' = target /\ landed' = landed
        /\ sr1' \in {sr1 \cup {"BTF"}, sr1 \cup {"RXNE"}}
    BY <1>4 DEF ReceiveByte
  <2>2. FlagInv' /\ SeenInv' /\ PhaseInv' /\ StageInv'
    BY <1>00, <2>1 DEF FlagInv, SeenInv, PhaseInv, StageInv
  <2>3. TxInv' /\ LandedInv'
    BY <1>00, <2>1 DEF TxInv, LandedInv
  <2> QED BY <1>0, <2>2, <2>3
<1>5. CASE SendStop
  <2>1. /\ phase \in {"addr", "refused", "tx", "rx"} /\ phase' = "idle"
        /\ cr1' = cr1 \ {"STOP"} /\ sr2' = {} /\ landed' = landed /\ shift' = shift
        /\ "ADDR" \in sr1' <=> "ADDR" \in sr1
        /\ target' = target
    BY <1>5 DEF SendStop, AtByteEnd
  <2>2. FlagInv' /\ SeenInv' /\ PhaseInv' /\ StageInv'
    BY <1>00, <2>1 DEF FlagInv, SeenInv, PhaseInv, StageInv
  <2>3. TxInv' /\ LandedInv'
    BY <1>00, <2>1 DEF TxInv, LandedInv
  <2> QED BY <1>0, <2>2, <2>3
<1> QED BY <1>1, <1>2, <1>3, <1>4, <1>5 DEF Bus, BusStep

LEMMA NextW == WInv /\ [Next]_vars => WInv'
<1> SUFFICES ASSUME WInv, [Next]_vars PROVE WInv'
  OBVIOUS
<1>1. CASE Cpu
  BY <1>1, DriverW
<1>2. ASSUME NEW c \in Calls, Invoke(c), UNCHANGED <<isr, isrLeft>> PROVE WInv'
  <2>1. TypeOK'
    BY <1>2, NextType DEF WInv, Next
  <2>2. /\ pc = "ready" /\ pc' = "waitIdle" /\ stage' = "select" /\ landed' = << >>
        /\ UNCHANGED <<cr1, sr1, sr2, shift, phase>>
    BY <1>2 DEF Invoke, Run, Goto
  <2> QED BY <2>1, <2>2 DEF WInv, FlagInv, SeenInv, PhaseInv, StageInv, TxInv,
             LandedInv, Polling
<1>3. CASE Bus
  BY <1>3, BusW
<1>4. CASE UNCHANGED <<bus, cpu>>
  <2>1. TypeOK'
    BY NextType DEF WInv
  <2> QED BY <1>4, <2>1 DEF bus, cpu, WInv, FlagInv, SeenInv, PhaseInv, StageInv,
             TxInv, LandedInv, Polling, Expects, NextByte, Taken, IsWrite
<1> QED BY <1>1, <1>2, <1>3, <1>4 DEF Next, IsrEnter, IsrLeave, vars

LEMMA WriteInvariant == Spec => []WInv
BY InitW, NextW, PTL DEF Spec

\* However long and however often interrupts hold the driver up, a call stores
\* nothing but the one value it was asked to store, in the register and the sensor
\* it was asked to store it in.
THEOREM WritesAreRight == Spec => []OnlyTheWriteAskedFor
<1>1. WInv => OnlyTheWriteAskedFor
  <2> SUFFICES ASSUME WInv PROVE OnlyTheWriteAskedFor
    OBVIOUS
  <2>1. Promise!Store(call) # << >>
    BY DEF Promise!Store
  <2>2. landed \in {<< >>} \cup (IF IsWrite THEN {Promise!Store(call)} ELSE {})
    BY DEF WInv, LandedInv
  <2>3. pc = "ready" /\ IsWrite /\ stage = "data" => landed # << >>
    BY <2>1 DEF WInv, LandedInv
  <2> QED BY <2>2, <2>3 DEF OnlyTheWriteAskedFor
<1> QED BY <1>1, WriteInvariant, PTL

\* No poll of I2C_CheckEvent clears ADDR without detecting its own event.
THEOREM AddrIsKept == Spec => AddrIsNotThrownAway
<1> DEFINE Kept == "ADDR" \in sr1 /\ "ADDR" \notin sr1' => pc' \in {"write", "loop"}
<1>1. WInv /\ [Next]_vars => [Kept]_vars
  <2> SUFFICES ASSUME WInv, Next, "ADDR" \in sr1, "ADDR" \notin sr1'
               PROVE  pc' \in {"write", "loop"}
    OBVIOUS
  <2>1. CASE ReadSR2
    <3>1. "ADDR" \in seen /\ phase = "acked" /\ pc = "sr2"
      BY <2>1 DEF ReadSR2, ClearAddr, Run
    <3>2. ev \in {"EV6T", "EV6R"}
      BY <3>1 DEF WInv, PhaseInv, Polling, TypeOK, Event
    <3>3. ev = "EV6T" => "TXE" \in seen /\ "TRA" \in sr2
      BY <3>1 DEF WInv, SeenInv, StageInv, FlagInv, Polling
    <3>4. "BUSY" \in sr2 /\ "MSL" \in sr2
      BY <3>1 DEF WInv, FlagInv
    <3>5. Detected
      BY <3>1, <3>2, <3>3, <3>4 DEF Detected, Event
    <3> QED BY <2>1, <3>2, <3>5 DEF ReadSR2, AfterEvent, Goto
  <2>2. CASE Cpu /\ ~ReadSR2
    BY <2>2 DEF Cpu, Driver, WaitIdle, GenerateStart, SendAddr7, WriteAddress, WriteByte,
       WriteData, Stop, ReadAck, ReadNack, NackStop, ReceiveData, ReadData, LastStop,
       ReadSR1, bus
  <2>3. CASE Bus
    BY <2>3 DEF Bus, BusStep, SendStart, SendAddress, SendByte, ReceiveByte, SendStop
  <2>4. CASE sr1' = sr1
    BY <2>4
  <2> QED BY <2>1, <2>2, <2>3, <2>4 DEF Next, Invoke, IsrEnter, IsrLeave, Cpu, bus
<1> QED BY <1>1, WriteInvariant, PTL DEF Spec, AddrIsNotThrownAway

-----------------------------------------------------------------------------
(***************************************************************************)
(* Reads that no interrupt holds up.                                       *)
(***************************************************************************)
Quiet == ~held.now
\* Nor has an earlier interrupt left anything behind, or the call is one that heals.
Right == Quiet /\ ~held.before
Ends == Quiet /\ (~held.before \/ call.count > 1)

\* The driver is in the loop of I2C_Read_Multi_Reg, or behind it.
Getting == Polling("EV7") \/ pc = "receive"
Looping == pc \in {"loop", "nackStop", "lastStop"} \/ Getting

\* A handler that runs during a call is what makes it an interrupted one, and
\* without one the driver finds the bus as it left it.
QuietInv ==
    /\ isr /\ pc # "ready" => held.now
    /\ pc = "sr2" /\ "RXNE" \in seen => "RXNE" \in sr1
    /\ Quiet /\ (pc \in {"write", "stop"} \/ Looping) => phase # "idle"
    /\ Quiet /\ stage = "receive" /\ pc = "waitIdle" => phase # "rx"
    /\ phase \in {"acked", "tx", "rx"} => target.dev \in Present

\* The bus brings no byte that nobody waits for.
Clean == "RXNE" \notin sr1 /\ (phase = "rx" => nacked /\ "STOP" \in cr1)

\* The sensor's pointer is where the read begins.
SelectInv ==
    /\ stage # "receive" \/ ~(Looping \/ pc = "ready") => buf = << >> /\ i = 0
    /\ Polling("EV6R") => shift = NoByte /\ target = [dev |-> call.dev, dir |-> "rx"]
    /\ Right /\ ~Looping => Clean
    /\ pc = "ready" /\ Quiet /\ ReadSeveral => Clean
    /\ Right /\ ~Looping /\ stage = "receive" /\ pc # "ready" => ptr[call.dev] = call.reg
    /\ Right /\ pc = "stop" /\ ~IsWrite => ptr[call.dev] = call.reg

\* Only the last byte is refused, and the stop has been asked for by then.  A byte that
\* was left behind is gone after the first pass.
LoopInv ==
    /\ Looping => target.dir = "rx" /\ target.dev = call.dev
    /\ Looping /\ pc # "lastStop" => i < call.count
    /\ pc = "nackStop" => i = call.count - 1
    /\ pc = "lastStop" => i = call.count
    /\ Quiet /\ Looping => shift = NoByte
    /\ Quiet /\ pc = "nackStop" => "ACK" \notin cr1
    /\ Quiet /\ Polling("EV7") => ("ACK" \in cr1 <=> i < call.count - 1)
    /\ Quiet /\ (Getting \/ pc = "lastStop") /\ i >= call.count - 1 => "STOP" \in cr1
    /\ Quiet /\ pc = "receive" => "RXNE" \in sr1
    /\ Quiet /\ pc \in {"loop", "nackStop"} => ~nacked
    /\ Quiet /\ Getting /\ nacked => "RXNE" \in sr1 /\ i = call.count - 1
    /\ Ends /\ (Right \/ i > 0) /\ pc \in {"loop", "nackStop"} => "RXNE" \notin sr1
    /\ Ends /\ (Right \/ i > 0) /\ Getting /\ "RXNE" \in sr1 /\ i = call.count - 1 => nacked
    /\ Ends /\ pc = "lastStop" => nacked /\ "RXNE" \notin sr1

\* What has been read so far, and what has arrived.
Arrived == IF "RXNE" \in sr1 THEN i + 1 ELSE i
Byte(k) == FromSensor(call.dev, (call.reg + k) % NRegs, k < call.count - 1)

TextInv ==
    /\ Right /\ (Looping \/ (pc = "ready" /\ stage = "receive")) =>
          Len(buf) = i /\ \A k \in 1..i : buf[k] = Byte(k - 1)
    /\ Right /\ Looping => /\ ptr[call.dev] = (call.reg + Arrived) % NRegs
                           /\ "RXNE" \in sr1 => dr = Byte(i)
    /\ Right /\ pc = "ready" /\ stage = "receive" => i = call.count

ReadInv == QuietInv /\ SelectInv /\ LoopInv /\ TextInv

LEMMA DivMod ==
    ASSUME NEW n \in Nat, NEW d \in Nat \ {0}
    PROVE  n \div d \in Nat /\ n % d \in 0..d - 1 /\ n = d * (n \div d) + (n % d)
OBVIOUS

LEMMA TimesMonotonic ==
    ASSUME NEW a \in Nat, NEW b \in Nat, NEW c \in Nat, a <= b
    PROVE  c * a <= c * b
<1> DEFINE k == b - a
<1>1. k \in Nat /\ b = a + k
  OBVIOUS
<1> HIDE DEF k
<1>2. c * b = c * a + c * k /\ c * k \in Nat /\ c * a \in Nat
  BY <1>1
<1> QED BY <1>2

LEMMA ModUnique ==
    ASSUME NEW d \in Nat \ {0}, NEW q \in Nat, NEW m \in 0..d - 1
    PROVE  (d * q + m) % d = m
<1> DEFINE n == d * q + m
           p == n \div d
           r == n % d
<1>1. n \in Nat
  OBVIOUS
<1>2. p \in Nat /\ r \in 0..d - 1 /\ d * q + m = d * p + r
  BY <1>1, DivMod
<1> HIDE DEF p, r
<1>3. d * (p + 1) = d * p + d /\ d * (q + 1) = d * q + d /\ d * p \in Nat /\ d * q \in Nat
  BY <1>2
<1>4. ~(p + 1 <= q)
  BY <1>2, <1>3, TimesMonotonic
<1>5. ~(q + 1 <= p)
  BY <1>2, <1>3, TimesMonotonic
<1>6. p = q
  BY <1>2, <1>4, <1>5
<1>7. r = m
  BY <1>2, <1>3, <1>6
<1> QED BY <1>7 DEF r

LEMMA RegMod ==
    ASSUME NEW r \in Nat, NEW k \in Nat
    PROVE  /\ (((r + k) % NRegs) + 1) % NRegs = (r + (k + 1)) % NRegs
           /\ (r + k) % NRegs \in Regs
           /\ r \in Regs => (r + 0) % NRegs = r
<1> DEFINE q == (r + k) \div NRegs
           m == (r + k) % NRegs
<1>0. NRegs \in Nat \ {0}
  BY I2CBusAssumption
<1>1. q \in Nat /\ m \in 0..NRegs - 1 /\ r + k = NRegs * q + m
  <2>1. r + k \in Nat
    OBVIOUS
  <2> QED BY <1>0, <2>1, DivMod, Zenon
<1> HIDE DEF q, m
<1>2. (r + (k + 1)) % NRegs = (m + 1) % NRegs
  <2>1. CASE m + 1 < NRegs
    <3>1. r + (k + 1) = NRegs * q + (m + 1) /\ m + 1 \in 0..NRegs - 1
      BY <1>0, <1>1, <2>1
    <3>2. (NRegs * q + (m + 1)) % NRegs = m + 1
      BY <1>0, <1>1, <3>1, ModUnique
    <3>3. (m + 1) % NRegs = m + 1
      BY <1>0, <1>1, <2>1
    <3> QED BY <3>1, <3>2, <3>3
  <2>2. CASE m + 1 = NRegs
    <3>1. r + (k + 1) = NRegs * (q + 1) + 0
      BY <1>0, <1>1, <2>2
    <3>2. (NRegs * (q + 1) + 0) % NRegs = 0
      BY <1>0, <1>1, ModUnique
    <3>3. (m + 1) % NRegs = 0
      BY <1>0, <2>2
    <3> QED BY <3>1, <3>2, <3>3
  <2> QED BY <1>0, <1>1, <2>1, <2>2
<1>3. r \in Regs => (r + 0) % NRegs = r
  BY <1>0 DEF Regs
<1> QED BY <1>0, <1>1, <1>2, <1>3 DEF Regs, m

\* The steps of the driver that leave what it reads alone.
LEMMA SendSteps ==
    ASSUME WInv, ReadInv, Cpu, WaitIdle \/ GenerateStart \/ SendAddr7 \/ WriteByte \/ Stop
    PROVE  ReadInv'
<1> USE DEF WInv, ReadInv, Polling, Goto, Await, Run, Cpu, IsWrite, Quiet, Right, Ends,
            Getting, Looping, Clean
<1>0. held' = held /\ isr' = isr /\ ~isr
  BY DEF WaitIdle, GenerateStart, SendAddr7, WriteByte, Stop
<1>1. CASE WaitIdle
  <2>1. UNCHANGED <<cr1, sr1, sr2, dr, shift, phase, target, nacked, ptr, call, stage, i, buf, ev>>
        /\ pc = "waitIdle" /\ pc' = "start" /\ phase = "idle"
    BY <1>1 DEF WaitIdle, bus, FlagInv
  <2> QED BY <1>0, <2>1 DEF QuietInv, SelectInv, LoopInv, TextInv, ReadSeveral
<1>2. CASE GenerateStart
  <2>1. /\ UNCHANGED <<sr1, sr2, dr, shift, phase, target, nacked, ptr, call, stage, i, buf>>
        /\ pc = "start" /\ pc' = "sr1" /\ ev' = "EV5" /\ phase = "idle"
    BY <1>2 DEF GenerateStart, PhaseInv
  <2> QED BY <1>0, <2>1 DEF QuietInv, SelectInv, LoopInv, TextInv, ReadSeveral
<1>3. CASE SendAddr7
  <2>1. /\ UNCHANGED <<cr1, sr2, phase, nacked, ptr, call, stage, i, buf>>
        /\ pc = "address" /\ pc' = "sr1" /\ ev' \in {"EV6T", "EV6R"}
        /\ ev' = "EV6R" => stage = "receive"
        /\ sr1' = sr1 \ {"SB", "BTF"} /\ shift' = NoByte
        /\ target' = [dev |-> call.dev, dir |-> IF ev' = "EV6R" THEN "rx" ELSE "tx"]
        /\ phase \in {"idle", "addr"}
    BY <1>3 DEF SendAddr7, WriteAddress, Direction, PhaseInv
  <2>2. ("RXNE" \in sr1' <=> "RXNE" \in sr1)
    BY <2>1
  <2> QED BY <1>0, <2>1, <2>2 DEF QuietInv, SelectInv, LoopInv, TextInv, ReadSeveral
<1>4. CASE WriteByte
  <2>1. /\ UNCHANGED <<cr1, sr2, phase, target, nacked, ptr, call, stage, i, buf>>
        /\ pc = "write" /\ pc' = "sr1" /\ ev' = "EV8_2" /\ sr1' = sr1 \ {"BTF"}
        /\ phase \in {"idle", "tx"} /\ stage # "receive"
    BY <1>4 DEF WriteByte, WriteData, PhaseInv, StageInv
  <2>2. ("RXNE" \in sr1' <=> "RXNE" \in sr1)
    BY <2>1
  <2> QED BY <1>0, <2>1, <2>2 DEF QuietInv, SelectInv, LoopInv, TextInv, ReadSeveral
<1>5. CASE Stop
  <2>1. /\ UNCHANGED <<sr1, sr2, dr, shift, phase, target, nacked, ptr, call, i, buf, ev>>
        /\ pc = "stop" /\ phase \in {"idle", "tx"} /\ stage # "receive"
        /\ \/ IsWrite /\ pc' = "ready" /\ stage' = stage
           \/ ~IsWrite /\ pc' = "waitIdle" /\ stage' = "receive"
    BY <1>5 DEF Stop, PhaseInv, StageInv
  <2> QED BY <1>0, <2>1 DEF QuietInv, SelectInv, LoopInv, TextInv, ReadSeveral
<1> QED BY <1>1, <1>2, <1>3, <1>4, <1>5

LEMMA GetSteps ==
    ASSUME WInv, ReadInv, Cpu, ReadAck \/ ReadNack \/ NackStop \/ LastStop
    PROVE  ReadInv'
<1> USE DEF WInv, ReadInv, Polling, Goto, Await, Run, Cpu, IsWrite, Quiet, Right, Ends,
            Getting, Looping, Clean
<1>0. held' = held /\ isr' = isr /\ ~isr /\ i \in Nat /\ call.count \in Nat \ {0}
  BY CallTyped DEF ReadAck, ReadNack, NackStop, LastStop, TypeOK
<1>1. /\ UNCHANGED <<sr1, sr2, dr, shift, phase, target, nacked, ptr, call, stage, i, buf>>
      /\ stage = "receive" /\ phase \in {"idle", "rx"}
  BY DEF ReadAck, ReadNack, NackStop, LastStop, PhaseInv, StageInv
<1>2. Arrived' = Arrived /\ \A k : Byte(k)' = Byte(k)
  BY <1>1 DEF Arrived, Byte
<1>3. CASE ReadAck
  <2>1. /\ pc = "loop" /\ pc' = "sr1" /\ ev' = "EV7" /\ i < call.count - 1
        /\ cr1' = cr1 \cup {"ACK"}
    BY <1>3 DEF ReadAck, SetBit
  <2> QED BY <1>0, <1>1, <1>2, <2>1 DEF QuietInv, SelectInv, LoopInv, TextInv, ReadSeveral
<1>4. CASE ReadNack
  <2>1. /\ pc = "loop" /\ pc' = "nackStop" /\ i = call.count - 1 /\ cr1' = cr1 \ {"ACK"}
        /\ ev' = ev
    BY <1>4 DEF ReadNack
  <2> QED BY <1>0, <1>1, <1>2, <2>1 DEF QuietInv, SelectInv, LoopInv, TextInv, ReadSeveral
<1>5. CASE NackStop
  <2>1. /\ pc = "nackStop" /\ pc' = "sr1" /\ ev' = "EV7" /\ i = call.count - 1
        /\ phase # "idle" => cr1' = cr1 \cup {"STOP"}
    BY <1>5 DEF NackStop, RequestStop, SetBit, LoopInv
  <2> QED BY <1>0, <1>1, <1>2, <2>1 DEF QuietInv, SelectInv, LoopInv, TextInv, ReadSeveral
<1>6. CASE LastStop
  <2>1. /\ pc = "lastStop" /\ pc' = "ready" /\ i = call.count /\ ev' = ev
        /\ phase # "idle" => cr1' = cr1 \cup {"STOP"}
    BY <1>6 DEF LastStop, RequestStop, SetBit, LoopInv
  <2> QED BY <1>0, <1>1, <1>2, <2>1 DEF QuietInv, SelectInv, LoopInv, TextInv, ReadSeveral
<1> QED BY <1>3, <1>4, <1>5, <1>6

LEMMA ReceiveStep ==
    ASSUME WInv, ReadInv, Cpu, ReceiveData
    PROVE  ReadInv'
<1> USE DEF WInv, ReadInv, Polling, Goto, Run, Cpu, IsWrite, Quiet, Right, Ends,
            Getting, Looping, Clean
<1>1. /\ UNCHANGED <<cr1, sr2, phase, target, nacked, ptr, call, stage, ev, held, isr>> /\ ~isr
      /\ pc = "receive" /\ stage = "receive" /\ phase \in {"idle", "rx"}
      /\ i \in Nat /\ call.count \in Nat \ {0} /\ i' = i + 1 /\ i < call.count
      /\ pc' = IF i < call.count - 1 THEN "loop" ELSE "lastStop"
      /\ buf' = Append(buf, dr) /\ buf \in Seq(Bytes) /\ dr \in Bytes
  BY CallTyped DEF ReceiveData, PhaseInv, StageInv, LoopInv, TypeOK, BusTypeOK
<1>2. Quiet => /\ shift' = NoByte /\ "RXNE" \in sr1 /\ "RXNE" \notin sr1'
  BY <1>1 DEF ReceiveData, ReadData, LoopInv
<1>3. \A k : Byte(k)' = Byte(k)
  BY <1>1 DEF Byte
<1>4. QuietInv'
  BY <1>1, <1>2 DEF QuietInv
<1>5. SelectInv'
  BY <1>1, <1>2 DEF SelectInv, ReadSeveral
<1>6. LoopInv'
  BY <1>1, <1>2 DEF LoopInv
<1>7. TextInv'
  <2>1. ASSUME Right PROVE Len(buf') = i' /\ \A k \in 1..i' : buf'[k] = Byte(k - 1)
    <3>1. Len(buf) = i /\ (\A k \in 1..i : buf[k] = Byte(k - 1)) /\ dr = Byte(i)
      BY <1>1, <1>2, <2>1 DEF TextInv
    <3>2. /\ Len(Append(buf, dr)) = Len(buf) + 1
          /\ \A k \in 1..Len(buf) : Append(buf, dr)[k] = buf[k]
          /\ Append(buf, dr)[Len(buf) + 1] = dr
      BY <1>1
    <3>3. (i + 1) - 1 = i
      BY <1>1
    <3>4. ASSUME NEW k \in 1..i + 1 PROVE buf'[k] = Byte(k - 1)
      BY <1>1, <3>1, <3>2, <3>3
    <3> HIDE DEF Right
    <3> QED BY <1>1, <3>1, <3>2, <3>4
  <2>2. Right => ptr[call.dev] = (call.reg + (i + 1)) % NRegs
    BY <1>1, <1>2 DEF TextInv, Arrived
  <2>3. Right' = Right /\ Arrived' = IF "RXNE" \in sr1' THEN i + 2 ELSE i + 1
    BY <1>1 DEF Arrived
  <2>4. Right => Arrived' = i + 1
    BY <1>2, <2>3
  <2> HIDE DEF Right
  <2> QED BY <1>1, <1>2, <1>3, <2>1, <2>2, <2>3, <2>4 DEF TextInv, Right
<1> QED BY <1>4, <1>5, <1>6, <1>7

LEMMA PollSteps ==
    ASSUME WInv, ReadInv, Cpu, ReadSR1 \/ ReadSR2
    PROVE  ReadInv'
<1> USE DEF WInv, ReadInv, Polling, Goto, Run, Cpu, IsWrite, Quiet, Right, Ends,
            Getting, Looping, Clean
<1>1. CASE ReadSR1
  <2>1. /\ UNCHANGED <<cr1, sr1, sr2, dr, shift, phase, target, nacked, ptr, call, stage, ev,
                       i, buf, held, isr>> /\ ~isr
        /\ pc = "sr1" /\ pc' = "sr2" /\ seen' = sr1
    BY <1>1 DEF ReadSR1, bus
  <2>2. Arrived' = Arrived /\ \A k : Byte(k)' = Byte(k)
    BY <2>1 DEF Arrived, Byte
  <2> QED BY <2>1, <2>2 DEF QuietInv, SelectInv, LoopInv, TextInv, ReadSeveral
<1>2. CASE ReadSR2
  <2>1. /\ UNCHANGED <<cr1, sr2, dr, shift, target, ptr, call, ev, i, buf, held, isr, seen>> /\ ~isr
        /\ pc = "sr2" /\ ("RXNE" \in sr1' <=> "RXNE" \in sr1)
        /\ ev \in {"EV5", "EV6T", "EV6R", "EV7", "EV8_2"}
        /\ i \in Nat /\ call.count \in Nat \ {0} /\ call.reg \in Nat /\ call.reg \in Regs
    BY <1>2, CallTyped DEF ReadSR2, ClearAddr, TypeOK, Event
  <2>2. Arrived' = Arrived /\ \A k : Byte(k)' = Byte(k)
    BY <2>1 DEF Arrived, Byte
  <2>3. CASE ~Detected
    <3>1. pc' = "sr1" /\ stage' = stage
      BY <1>2, <2>3 DEF ReadSR2
    <3>2. phase' = phase /\ nacked' = nacked
      <4>1. "ADDR" \in seen => Detected
        <5>1. "ADDR" \in seen => phase = "acked" /\ (target.dir = "tx" => "TXE" \in seen)
          BY <2>1 DEF SeenInv
        <5>2. "ADDR" \in seen => ev \in {"EV6T", "EV6R"} /\ "BUSY" \in sr2 /\ "MSL" \in sr2
          BY <2>1, <5>1 DEF PhaseInv, FlagInv
        <5> QED BY <2>1, <5>1, <5>2 DEF Detected, Event, StageInv, FlagInv
      <4> QED BY <1>2, <2>3, <4>1 DEF ReadSR2, ClearAddr
    <3> QED BY <2>1, <2>2, <3>1, <3>2 DEF QuietInv, SelectInv, LoopInv, TextInv, ReadSeveral
  <2>4. CASE Detected
    <3>1. "BUSY" \in sr2 /\ phase # "idle" /\ pc' = AfterEvent /\ seen \subseteq Flags1
      BY <1>2, <2>1, <2>4 DEF ReadSR2, Detected, Event, FlagInv, TypeOK, Flags1
    <3>2. CASE ev \in {"EV5", "EV7", "EV8_2"}
      <4>1. phase' = phase /\ nacked' = nacked
        <5>1. "ADDR" \notin seen
          BY <2>1, <3>2 DEF SeenInv, PhaseInv
        <5> QED BY <1>2, <5>1 DEF ReadSR2, ClearAddr
      <4>2. CASE ev = "EV5"
        <5>1. pc' = "address" /\ stage' = stage
          BY <1>2, <3>1, <4>2 DEF ReadSR2, AfterEvent
        <5> QED BY <2>1, <2>2, <4>1, <4>2, <5>1 DEF QuietInv, SelectInv, LoopInv, TextInv, ReadSeveral
      <4>3. CASE ev = "EV7"
        <5>1. pc' = "receive" /\ stage' = stage /\ "RXNE" \in sr1
          BY <1>2, <2>1, <2>4, <3>1, <4>3 DEF ReadSR2, AfterEvent, Detected, Event, TypeOK, BusTypeOK, QuietInv
        <5> QED BY <2>1, <2>2, <4>1, <4>3, <5>1 DEF QuietInv, SelectInv, LoopInv, TextInv, ReadSeveral
      <4>4. CASE ev = "EV8_2"
        <5>1. /\ pc' \in {"write", "stop"} /\ stage # "receive" /\ stage' # "receive"
              /\ pc' = "stop" /\ ~IsWrite => ptr[call.dev] = call.reg
          <6>1. phase = "tx" /\ shift = NoByte /\ Taken /\ stage # "receive"
            BY <2>1, <2>4, <3>1, <4>4 DEF Detected, Event, PhaseInv, SeenInv, TxInv, StageInv, TypeOK, BusTypeOK
          <6>2. ~IsWrite => stage = "select"
            BY <6>1 DEF LandedInv, TypeOK
          <6> QED BY <1>2, <3>1, <4>4, <6>1, <6>2 DEF ReadSR2, AfterEvent, Taken
        <5> QED BY <2>1, <2>2, <3>1, <4>1, <4>4, <5>1 DEF QuietInv, SelectInv, LoopInv, TextInv, ReadSeveral
      <4> QED BY <3>2, <4>2, <4>3, <4>4
    <3>3. CASE ev \in {"EV6T", "EV6R"}
      <4>1. /\ phase = "acked" /\ phase' = target.dir /\ nacked' = FALSE /\ stage' = stage
        <5>1. "ADDR" \in seen
          BY <2>1, <2>4, <3>3 DEF Detected, Event, TypeOK, BusTypeOK
        <5>2. phase = "acked"
          BY <2>1, <5>1 DEF SeenInv
        <5> QED BY <1>2, <3>3, <5>1, <5>2 DEF ReadSR2, ClearAddr
      <4>2. CASE ev = "EV6T"
        <5>1. /\ pc' = "write" /\ target.dir = "tx" /\ stage = "select"
          BY <2>1, <3>1, <4>2 DEF AfterEvent, StageInv
        <5> QED BY <2>1, <2>2, <4>1, <4>2, <5>1 DEF QuietInv, SelectInv, LoopInv, TextInv, ReadSeveral
      <4>3. CASE ev = "EV6R"
        <5>1. /\ pc' = "loop" /\ target = [dev |-> call.dev, dir |-> "rx"] /\ shift = NoByte
              /\ stage = "receive" /\ buf = << >> /\ i = 0
          BY <2>1, <3>1, <4>3 DEF AfterEvent, SelectInv, StageInv
        <5>2. Right => "RXNE" \notin sr1 /\ ptr[call.dev] = call.reg
          BY <2>1, <4>3, <5>1 DEF SelectInv
        <5>3. Right => Arrived = 0 /\ (call.reg + 0) % NRegs = call.reg
          BY <2>1, <5>1, <5>2, RegMod DEF Arrived
        <5>4. QuietInv' /\ SelectInv' /\ LoopInv'
          BY <2>1, <4>1, <4>3, <5>1, <5>2 DEF QuietInv, SelectInv, LoopInv, ReadSeveral
        <5>5. TextInv'
          BY <2>1, <2>2, <4>1, <4>3, <5>1, <5>2, <5>3 DEF TextInv
        <5> QED BY <5>4, <5>5
      <4> QED BY <3>3, <4>2, <4>3
    <3> QED BY <2>1, <3>2, <3>3
  <2> QED BY <2>3, <2>4
<1> QED BY <1>1, <1>2

LEMMA BusReads ==
    ASSUME WInv, ReadInv, Bus
    PROVE  ReadInv'
<1> USE DEF WInv, ReadInv, Polling, IsWrite, Quiet, Right, Ends, Getting, Looping, Clean
<1>0. /\ UNCHANGED <<pc, call, stage, ev, seen, i, buf, held, isr>>
      /\ Quiet => Spinning \/ pc = "ready"
      /\ i \in Nat /\ call.count \in Nat \ {0} /\ call.reg \in Nat
      /\ call.dev \in Devices /\ ptr \in [Devices -> Regs]
      /\ \A k : Byte(k)' = Byte(k)
  BY CallTyped DEF Bus, cpu, QuietInv, TypeOK, BusTypeOK, Byte
<1>1. Quiet /\ pc # "ready" =>
         /\ pc \in {"waitIdle", "sr1", "sr2"}
         /\ pc = "waitIdle" => phase # "idle"
         /\ Polling("EV7") => phase = "rx" /\ "RXNE" \notin sr1
  BY <1>0 DEF Spinning, Event, FlagInv, PhaseInv, QuietInv
<1>2. CASE SendStart
  <2>1. /\ phase = "idle" /\ phase' = "addr" /\ Polling("EV5")
        /\ sr1' = sr1 \cup {"SB"} /\ UNCHANGED <<dr, shift, target, nacked, ptr>>
    BY <1>2 DEF SendStart, FlagInv
  <2> QED BY <1>0, <2>1 DEF QuietInv, SelectInv, LoopInv, TextInv, ReadSeveral
<1>3. CASE SendAddress
  <2>1. /\ phase = "addr" /\ phase' \in {"acked", "refused"}
        /\ pc \in {"sr1", "sr2"} /\ ev \in {"EV6T", "EV6R"}
        /\ ("RXNE" \in sr1' <=> "RXNE" \in sr1)
        /\ UNCHANGED <<cr1, dr, shift, target, nacked, ptr>>
        /\ phase' = "acked" => target.dev \in Present
    BY <1>3 DEF SendAddress, PhaseInv, TypeOK, Event
  <2> QED BY <1>0, <2>1 DEF QuietInv, SelectInv, LoopInv, TextInv, ReadSeveral
<1>4. CASE SendByte
  <2>1. /\ phase = "tx" /\ phase' = phase /\ Polling("EV8_2") /\ stage # "receive"
        /\ ("RXNE" \in sr1' <=> "RXNE" \in sr1) /\ UNCHANGED <<cr1, dr, target, nacked>>
    BY <1>4 DEF SendByte, TxInv, StageInv
  <2> QED BY <1>0, <2>1 DEF QuietInv, SelectInv, LoopInv, TextInv, ReadSeveral
<1>5. CASE SendStop
  <2>1. /\ phase' = "idle" /\ phase \in {"addr", "refused", "tx", "rx"}
        /\ ("RXNE" \in sr1' <=> "RXNE" \in sr1)
        /\ UNCHANGED <<dr, shift, target, nacked, ptr>>
        /\ phase = "rx" => nacked \/ shift # NoByte
    BY <1>5 DEF SendStop, AtByteEnd
  <2>2. ~(Quiet /\ Looping)
    <3>1. ASSUME Quiet, Looping PROVE FALSE
      <4>1. pc # "ready" /\ Polling("EV7")
        BY <1>0, <1>1, <3>1
      <4>2. phase = "rx" /\ "RXNE" \notin sr1
        BY <1>1, <3>1, <4>1
      <4>3. shift = NoByte /\ ~nacked
        BY <3>1, <4>1, <4>2 DEF LoopInv
      <4> QED BY <2>1, <4>2, <4>3
    <3> QED BY <3>1
  <2>3. Arrived' = Arrived
    BY <1>0, <2>1 DEF Arrived
  <2>4. ~(Quiet /\ pc \in {"write", "stop"})
    BY <1>0, <1>1
  <2>5. QuietInv'
    BY <1>0, <2>1, <2>2, <2>4 DEF QuietInv
  <2>6. SelectInv'
    BY <1>0, <2>1, <2>2 DEF SelectInv, ReadSeveral
  <2>7. LoopInv'
    BY <1>0, <2>1, <2>2 DEF LoopInv
  <2>8. TextInv'
    BY <1>0, <2>1, <2>2 DEF TextInv
  <2> QED BY <2>5, <2>6, <2>7, <2>8
<1>6. CASE ReceiveByte
  <2>1. /\ phase = "rx" /\ phase' = phase /\ UNCHANGED <<cr1, target>>
        /\ shift = NoByte /\ (nacked => "STOP" \notin cr1)
        /\ pc \in {"ready", "waitIdle"} \/ Looping
        /\ "RXNE" \in sr1 => "RXNE" \in sr1'
    BY <1>6 DEF ReceiveByte, PhaseInv, TypeOK, Event
  <2>2. CASE ~Quiet
    BY <1>0, <2>1, <2>2 DEF QuietInv, SelectInv, LoopInv, TextInv
  <2>3. CASE Quiet /\ ~Looping
    <3>1. ~Right /\ ~(pc = "ready" /\ ReadSeveral)
      BY <2>1, <2>3 DEF SelectInv
    <3> QED BY <1>0, <2>1, <2>3, <3>1 DEF QuietInv, SelectInv, LoopInv, TextInv, ReadSeveral
  <2>4. CASE Quiet /\ Looping
    <3>1. pc \in {"sr1", "sr2"} /\ ev = "EV7" /\ "RXNE" \notin sr1
      BY <1>0, <1>1, <2>4
    <3>2. ~nacked /\ ("ACK" \in cr1 <=> i < call.count - 1) /\ i < call.count
          /\ target.dev = call.dev /\ target.dir = "rx" /\ stage = "receive"
      BY <2>4, <3>1 DEF LoopInv, StageInv
    <3>3. /\ dr' = FromSensor(call.dev, ptr[call.dev], "ACK" \in cr1)
          /\ sr1' = sr1 \cup {"RXNE"} /\ shift' = NoByte
          /\ ptr' = [ptr EXCEPT ![call.dev] = Step(@)]
      BY <1>6, <2>1, <3>1, <3>2 DEF ReceiveByte
    <3>30. nacked' = (i = call.count - 1)
      <4>1. nacked' = (nacked \/ ~("ACK" \in cr1))
        BY <1>6 DEF ReceiveByte
      <4>2. ("ACK" \in cr1) = ~(i = call.count - 1)
        BY <1>0, <3>2
      <4> QED BY <3>2, <4>1, <4>2
    <3>4. QuietInv'
      BY <1>0, <2>1, <2>4, <3>1, <3>2, <3>3 DEF QuietInv
    <3>5. SelectInv'
      BY <1>0, <2>1, <2>4, <3>1, <3>2, <3>3 DEF SelectInv
    <3>6. LoopInv'
      <4>2. "RXNE" \in sr1'
        BY <3>3
      <4>3. Looping' /\ ~(pc' \in {"loop", "nackStop", "lastStop", "receive"})
        BY <1>0, <3>1
      <4> HIDE DEF Byte
      <4> QED BY <1>0, <2>1, <2>4, <3>1, <3>2, <3>3, <3>30, <4>2, <4>3 DEF LoopInv
    <3>7. TextInv'
      <4>1. Right => ptr[call.dev] = (call.reg + i) % NRegs
        BY <2>4, <3>1 DEF TextInv, Arrived
      <4>2. Right => ptr'[call.dev] = (call.reg + (i + 1)) % NRegs
        <5>1. ptr'[call.dev] = (ptr[call.dev] + 1) % NRegs
          BY <1>0, <3>3 DEF Step
        <5> QED BY <1>0, <4>1, <5>1, RegMod
      <4>3. Right => dr' = Byte(i)
        <5>1. ("ACK" \in cr1) = (i < call.count - 1)
          BY <1>0, <3>2
        <5> QED BY <3>3, <4>1, <5>1 DEF Byte
      <4>4. Arrived' = i + 1
        BY <1>0, <3>3 DEF Arrived
      <4> QED BY <1>0, <2>4, <3>1, <4>2, <4>3, <4>4 DEF TextInv
    <3> QED BY <3>4, <3>5, <3>6, <3>7
  <2> QED BY <2>2, <2>3, <2>4
<1> QED BY <1>2, <1>3, <1>4, <1>5, <1>6 DEF Bus, BusStep

LEMMA NextReads == WInv /\ ReadInv /\ [Next]_vars => ReadInv'
<1> SUFFICES ASSUME WInv, ReadInv, [Next]_vars PROVE ReadInv'
  OBVIOUS
<1> USE DEF Polling, IsWrite, Quiet, Right, Ends, Getting, Looping, Clean
<1>1. CASE Cpu
  BY <1>1, SendSteps, GetSteps, ReceiveStep, PollSteps DEF Cpu, Driver
<1>2. ASSUME NEW c \in Calls, Invoke(c), UNCHANGED <<isr, isrLeft>> PROVE ReadInv'
  <2>1. /\ pc = "ready" /\ pc' = "waitIdle" /\ stage' = "select" /\ buf' = << >> /\ i' = 0
        /\ UNCHANGED <<cr1, sr1, shift, phase, target, nacked, ptr>> /\ ~isr' /\ ~isr
        /\ held' = [now |-> FALSE, before |-> held.now \/ (held.before /\ ~ReadSeveral)]
    BY <1>2 DEF Invoke, Run, Goto
  <2>2. held'.now = FALSE /\ (~held'.before => ~held.now /\ (~held.before \/ ReadSeveral))
    BY <2>1
  <2>3. Right' => Clean
    BY <2>1, <2>2 DEF ReadInv, SelectInv
  <2> QED BY <2>1, <2>3 DEF ReadInv, QuietInv, SelectInv, LoopInv, TextInv
<1>3. CASE Bus
  BY <1>3, BusReads
<1>4. CASE UNCHANGED <<bus, cpu>> /\ (held' = held \/ (held'.now /\ pc # "ready"))
           /\ (isr' = isr \/ ~isr' \/ pc = "ready" \/ held'.now)
  <2>1. Arrived' = Arrived /\ \A k : Byte(k)' = Byte(k)
    BY <1>4 DEF bus, cpu, Arrived, Byte
  <2> QED BY <1>4, <2>1 DEF bus, cpu, ReadInv, QuietInv, SelectInv, LoopInv, TextInv, ReadSeveral
<1>5. CASE IsrEnter
  <2>1. held \in [now : BOOLEAN, before : BOOLEAN]
    BY DEF WInv, TypeOK
  <2>2. held'.now = (held.now \/ pc # "ready") /\ held'.before = held.before
        /\ held' \in [now : BOOLEAN, before : BOOLEAN]
    BY <1>5, <2>1 DEF IsrEnter
  <2>3. pc = "ready" => held' = held
    BY <2>1, <2>2
  <2> QED BY <1>4, <1>5, <2>2, <2>3 DEF IsrEnter
<1>6. CASE IsrLeave \/ UNCHANGED vars
  BY <1>4, <1>6 DEF IsrLeave, vars
<1> QED BY <1>1, <1>2, <1>3, <1>5, <1>6 DEF Next

LEMMA InitReads == Init => ReadInv
<1> SUFFICES ASSUME Init PROVE ReadInv
  OBVIOUS
<1>1. /\ pc = "ready" /\ stage = "select" /\ phase = "idle" /\ sr1 = {} /\ ~isr
      /\ buf = << >> /\ i = 0
  BY DEF Init, BusInit
<1> QED BY <1>1 DEF ReadInv, QuietInv, SelectInv, LoopInv, TextInv, Polling, Quiet, Right,
           Ends, Getting, Looping, Clean, ReadSeveral

LEMMA ReadInvariant == Spec => []ReadInv
BY InitReads, NextReads, WriteInvariant, PTL DEF Spec

LEMMA Answered ==
    ASSUME TypeOK, Len(buf) = i, \A k \in 1..i : buf[k] = Byte(k - 1), i = call.count
    PROVE  ReadRight
<1>1. buf \in Seq(Bytes) /\ call.count \in Nat
  BY CallTyped DEF TypeOK
<1>2. buf = [k \in 1..call.count |-> buf[k]]
  BY <1>1
<1>3. ASSUME NEW k \in 1..call.count
      PROVE  buf[k] = [from |-> call.dev, val |-> (call.reg + k - 1) % NRegs,
                       acked |-> k < call.count]
  <2>1. /\ call.reg + (k - 1) = call.reg + k - 1
        /\ (k - 1 < call.count - 1) = (k < call.count)
    BY <1>1, <1>3, CallTyped DEF TypeOK
  <2> QED BY <1>3, <2>1 DEF Byte, FromSensor
<1> QED BY <1>2, <1>3 DEF ReadRight, Promise!Registers

\* A read that no interrupt has held up returns the registers asked for, if no
\* interrupt has held up the calls before it or a read of several registers, itself
\* not held up, has come since: the byte that I2C.c:122-126 left in the data register is
\* gone after it.
THEOREM ReadsHeal == Spec => []SeveralRegistersHeal
<1>1. WInv /\ ReadInv => SeveralRegistersHeal
  BY Answered DEF WInv, ReadInv, TextInv, Quiet, Right, SeveralRegistersHeal
<1> QED BY <1>1, WriteInvariant, ReadInvariant, PTL

-----------------------------------------------------------------------------
(***************************************************************************)
(* Without interrupts the driver keeps the promise of SensorBus.           *)
(***************************************************************************)
Undisturbed == ~isr /\ isrLeft = 0 /\ ~held.now /\ ~held.before

LEMMA StaysUndisturbed ==
    ASSUME MaxIsr = 0
    PROVE  Spec => []Undisturbed
<1>1. Init => Undisturbed
  BY DEF Init, Undisturbed
<1>2. Undisturbed /\ [Next]_vars => Undisturbed'
  <2> SUFFICES ASSUME Undisturbed, [Next]_vars PROVE Undisturbed'
    OBVIOUS
  <2>1. ~IsrEnter
    BY DEF Undisturbed, IsrEnter
  <2>2. CASE UNCHANGED <<isr, isrLeft, held>>
    BY <2>2 DEF Undisturbed
  <2>3. ASSUME NEW c \in Calls, Invoke(c), UNCHANGED <<isr, isrLeft>> PROVE Undisturbed'
    BY <2>3 DEF Undisturbed, Invoke
  <2> QED BY <2>1, <2>2, <2>3 DEF Next, Cpu, Bus, IsrLeave, Undisturbed, vars
<1> QED BY <1>1, <1>2, PTL DEF Spec

LEMMA StepImplements ==
    ASSUME WInv, ReadInv, Undisturbed, [Next]_vars
    PROVE  [Promise!Next]_Promise!vars
<1> USE DEF Polling, IsWrite, Promise!vars, Promise!IsWrite
<1>1. Quiet /\ Right /\ Ends
  BY DEF Undisturbed, Quiet, Right, Ends
<1>2. ASSUME NEW c \in Calls, Invoke(c) PROVE Promise!Next
  <2>1. Promise!Invoke(c)
    BY <1>2 DEF Invoke, Run, Goto, Promise!Invoke
  <2> QED BY <2>1 DEF Promise!Next
<1>3. CASE Stop /\ IsWrite
  <2>1. /\ pc = "stop" /\ pc' = "ready" /\ UNCHANGED <<call, landed, buf>>
        /\ stage = "data" /\ landed = Promise!Store(call) /\ buf = << >>
    BY <1>3 DEF Stop, Run, Goto, WInv, LandedInv, ReadInv, SelectInv
  <2>2. Promise!ReturnWrite
    BY <1>3, <2>1 DEF Promise!ReturnWrite
  <2> QED BY <2>2 DEF Promise!Next
<1>4. CASE LastStop
  <2>1. /\ pc = "lastStop" /\ pc' = "ready" /\ UNCHANGED <<call, landed, buf>>
        /\ stage = "receive" /\ Looping
    BY <1>4 DEF LastStop, Run, Goto, WInv, StageInv, Looping
  <2>2. ~IsWrite /\ phase = "rx" /\ target.dev = call.dev
    BY <1>1, <2>1 DEF WInv, LandedInv, PhaseInv, ReadInv, QuietInv, LoopInv
  <2>3. call.dev \in Present
    BY <2>2 DEF ReadInv, QuietInv
  <2>4. ReadRight
    BY <1>1, <2>1, Answered DEF WInv, ReadInv, TextInv, LoopInv
  <2>5. Promise!ReturnRead
    BY <2>1, <2>2, <2>3, <2>4 DEF Promise!ReturnRead, ReadRight
  <2> QED BY <2>5 DEF Promise!Next
<1>5. CASE Cpu /\ ~LastStop /\ ~(Stop /\ IsWrite)
  <2>1. UNCHANGED <<call, landed>> /\ pc # "ready" /\ pc' # "ready"
    BY <1>5 DEF Cpu, Driver, WaitIdle, GenerateStart, SendAddr7, WriteByte, Stop, ReadAck,
       ReadNack, NackStop, ReceiveData, ReadSR1, ReadSR2, AfterEvent, Run, Goto, Await, bus,
       WInv, TypeOK, Event
  <2> QED BY <2>1
<1>6. CASE Bus /\ ~SendByte
  <2>1. UNCHANGED <<call, landed, pc, buf>>
    BY <1>6 DEF Bus, BusStep, SendStart, SendAddress, ReceiveByte, SendStop, cpu
  <2> QED BY <2>1
<1>7. CASE Bus /\ SendByte
  <2>1. /\ Polling("EV8_2") /\ UNCHANGED <<call, pc, buf>> /\ phase = "tx" /\ Expects
        /\ stage # "receive" /\ target = [dev |-> call.dev, dir |-> "tx"]
        /\ shift.val = NextByte
    BY <1>7 DEF Bus, cpu, SendByte, WInv, TxInv, StageInv
  <2>2. CASE stage = "select"
    <3>1. landed' = landed
      BY <1>7, <2>1, <2>2 DEF SendByte, Expects
    <3> QED BY <2>1, <3>1
  <2>3. CASE stage = "data"
    <3>1. call.dev \in Present /\ IsWrite /\ landed = << >> /\ ptr[call.dev] = call.reg
          /\ ~selecting
      BY <2>1, <2>3 DEF ReadInv, QuietInv, WInv, LandedInv, Expects
    <3> DEFINE rec == [dev |-> call.dev, reg |-> call.reg, val |-> call.data]
    <3>2. landed' = Append(<< >>, rec)
      BY <1>7, <2>1, <2>3, <3>1 DEF SendByte, NextByte
    <3>3. Promise!Store(call) = <<rec>>
      BY DEF Promise!Store
    <3> HIDE DEF rec
    <3>4. landed' = Promise!Store(call)
      BY <3>2, <3>3
    <3>5. Promise!TakeEffect
      BY <2>1, <3>1, <3>4 DEF Promise!TakeEffect
    <3> QED BY <3>5 DEF Promise!Next
  <2> QED BY <2>1, <2>2, <2>3 DEF WInv, TypeOK
<1>8. CASE UNCHANGED <<bus, cpu>>
  BY <1>8 DEF bus, cpu
<1> QED BY <1>2, <1>3, <1>4, <1>5, <1>6, <1>7, <1>8 DEF Next, Cpu, IsrEnter, IsrLeave, vars

\* In the build without the card, which enables no interrupt, each call of I2C.c is one
\* register operation: a write stores its value in its register once, a read returns
\* the registers asked for, in order, and a call to a sensor that is not there does neither.
THEOREM Implements ==
    ASSUME MaxIsr = 0
    PROVE  Spec => KeepsPromise
<1>1. Init => Promise!Init
  BY DEF Init, BusInit, Promise!Init
<1> QED BY <1>1, StepImplements, StaysUndisturbed, WriteInvariant, ReadInvariant, PTL
        DEF Spec, KeepsPromise, Promise!Spec
=============================================================================
