------------------------------- MODULE SensorBus -------------------------------
(***************************************************************************)
(* What I2C.c promises its callers in 10dof.c: each call is one register   *)
(* operation on one sensor.  A write stores its value in its register once *)
(* and a read returns the registers asked for, in order.  A call to a      *)
(* sensor that is not there stores nothing and does not return.            *)
(***************************************************************************)
EXTENDS Integers, Sequences

CONSTANTS Present, NRegs, Calls

VARIABLES busy,      \* is a call in progress?
          call,      \* that call, or the last one
          stored,    \* register writes the call has caused
          answer     \* what it returned

vars == <<busy, call, stored, answer>>

IsWrite(c) == c.fn = "I2C_Write_Reg"

Store(c) == <<[dev |-> c.dev, reg |-> c.reg, val |-> c.data]>>

\* Byte k of a read is register reg + k - 1; the sensor was told to go on after
\* every byte but the last.
Registers(c) == [k \in 1..c.count |-> [from |-> c.dev,
                                       val |-> (c.reg + k - 1) % NRegs,
                                       acked |-> k < c.count]]

Init == /\ busy = FALSE
        /\ call \in Calls
        /\ stored = << >> /\ answer = << >>

Invoke(c) == /\ ~busy
             /\ busy' = TRUE
             /\ call' = c
             /\ stored' = << >> /\ answer' = << >>

TakeEffect == /\ busy /\ IsWrite(call) /\ call.dev \in Present
              /\ stored = << >>
              /\ stored' = Store(call)
              /\ UNCHANGED <<busy, call, answer>>

ReturnWrite == /\ busy /\ IsWrite(call)
               /\ stored = Store(call)
               /\ busy' = FALSE
               /\ UNCHANGED <<call, stored, answer>>

ReturnRead == /\ busy /\ ~IsWrite(call) /\ call.dev \in Present
              /\ busy' = FALSE
              /\ answer' = Registers(call)
              /\ UNCHANGED <<call, stored>>

Next == \/ \E c \in Calls : Invoke(c)
        \/ TakeEffect \/ ReturnWrite \/ ReturnRead

Spec == Init /\ [][Next]_vars
=============================================================================
