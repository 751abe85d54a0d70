------------------------------ MODULE BlockDevice ------------------------------
(***************************************************************************)
(* What the SD card driver promises FatFs: a call of disk_read, disk_write *)
(* or CTRL_SYNC touches nothing but the sectors it names.  A write stores  *)
(* its blocks in order and once each, and may fail half way.  A call that  *)
(* reports success has done all of it.                                     *)
(***************************************************************************)
EXTENDS Integers, Sequences

CONSTANTS Calls,      \* the calls FatFs makes
          Sectors,
          Data        \* contents of a sector

VARIABLES busy,       \* is a call in progress?
          call,       \* that call, or the last one
          mem,        \* contents of the medium
          stored,     \* blocks the call has stored
          programming,  \* is the medium still writing?
          answer      \* result of the last call and data read

vars == <<busy, call, mem, stored, programming, answer>>

None == [result |-> "none", data |-> << >>]

\* The sectors of a call.
Content(c) == [k \in 1..c.count |-> mem[c.sector + k - 1]]

Init == /\ busy = FALSE
        /\ call \in Calls
        /\ mem \in [Sectors -> Data]
        /\ stored = 0 /\ programming \in BOOLEAN
        /\ answer = None

Invoke(c) == /\ ~busy
             /\ busy' = TRUE
             /\ call' = c
             /\ stored' = 0
             /\ answer' = None
             /\ UNCHANGED <<mem, programming>>

StoreBlock == /\ busy /\ call.op = "write" /\ stored < call.count
              /\ mem' = [mem EXCEPT ![call.sector + stored] = call.data[stored + 1]]
              /\ stored' = stored + 1
              /\ programming' = TRUE
              /\ UNCHANGED <<busy, call, answer>>

\* Success of a write means that all is stored, of a read that the data is what
\* the sectors hold, of a sync that the medium has finished.
Honest(a) == /\ call.op = "write" => stored = call.count
             /\ call.op = "read" => a.data = Content(call)
             /\ call.op = "sync" => ~programming

Finish(a) == /\ busy
             /\ a.result = "OK" => Honest(a)
             /\ busy' = FALSE
             /\ answer' = a
             /\ UNCHANGED <<call, mem, stored, programming>>

\* A medium may be busy for other reasons than a write, too.
Program == /\ programming' \in BOOLEAN
           /\ UNCHANGED <<busy, call, mem, stored, answer>>

\* Between two calls the medium may be exchanged for another.
Exchange == /\ ~busy
            /\ mem' \in [Sectors -> Data]
            /\ programming' \in BOOLEAN
            /\ UNCHANGED <<busy, call, stored, answer>>

Next == \/ \E c \in Calls : Invoke(c)
        \/ StoreBlock
        \/ \E r \in {"OK", "ERROR", "NOTRDY"}, n \in 0..call.count :
              \E d \in [1..n -> Data] :
                 Finish([result |-> r, data |-> d])
        \/ Program \/ Exchange

Spec == Init /\ [][Next]_vars
=============================================================================
