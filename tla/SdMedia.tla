-------------------------------- MODULE SdMedia --------------------------------
(***************************************************************************)
(* The card that drivers/fatfs_sd.c talks to over SPI.  It is not in the   *)
(* repository; it is modelled from the commands and tokens the driver      *)
(* sends and the answers it looks at.  The card may be of any kind the     *)
(* driver tells apart, or missing, and may fail in any way a driver can    *)
(* see: leave a command unanswered or refuse it, stay busy, send no data   *)
(* or reject a block.                                                      *)
(***************************************************************************)
EXTENDS Integers, Sequences

CONSTANTS NSectors,   \* capacity
          BlockLen,   \* 512: bytes in a sector
          Data        \* contents of a sector

ASSUME SdMediaAssumption == NSectors \in Nat \ {0} /\ BlockLen \in Nat \ {0, 1}

VARIABLES kind,       \* "sdhc" (block addressed), "sd2", "sd1", "mmc" or "none"
          mode,       \* state of the card
          app,        \* has CMD55 announced an application command?
          busy,       \* is the card holding its output low?
          at,         \* sector the current transfer has come to
          mem,        \* contents
          stored      \* history: blocks stored in the driver's current call

card == <<kind, mode, app, busy, at, mem, stored>>

Sectors == 0..(NSectors - 1)
Kinds == {"sdhc", "sd2", "sd1", "mmc", "none"}
Modes == {"native", "idle", "ready", "sendOne", "sendMany", "recvOne", "recvMany"}

SdMediaTypeOK == /\ kind \in Kinds
                 /\ mode \in Modes
                 /\ app \in BOOLEAN /\ busy \in BOOLEAN
                 /\ at \in 0..NSectors
                 /\ mem \in [Sectors -> Data]
                 /\ stored \in Nat

\* A card that was just put in or given power, with the same data everywhere.
Fresh == [kind : Kinds, mem : {[s \in Sectors |-> d] : d \in Data}, busy : BOOLEAN]

MediaInit == /\ \E f \in Fresh : kind = f.kind /\ mem = f.mem /\ busy = f.busy
             /\ mode = "native" /\ app = FALSE /\ at = 0
             /\ stored = 0

\* The slot has no card-detect contact: another card, or none, may take its place.
Exchange == /\ \E f \in Fresh : kind' = f.kind /\ mem' = f.mem /\ busy' = f.busy
            /\ mode' = "native" /\ app' = FALSE /\ at' = 0
            /\ UNCHANGED stored

-----------------------------------------------------------------------------
\* Commands.  R1 answers: 0 ready, 1 idle, 4 refused, 255 none.

\* A new command ends what the card was sending.
Quiet == IF mode \in {"sendOne", "sendMany"} THEN "ready" ELSE mode
R1 == IF Quiet = "idle" THEN 1 ELSE 0

\* A card that is being written to looks for tokens, not for commands, and one
\* that has not seen CMD0 does not speak SPI.
Listening(c) == /\ kind # "none"
                /\ mode \notin {"recvOne", "recvMany"}
                /\ mode = "native" => c = "CMD0"

\* The sector an address stands for, NSectors if it is none.
Addressed(arg) ==
    IF kind = "sdhc" THEN IF arg \in Sectors THEN arg ELSE NSectors
    ELSE IF arg % BlockLen = 0 /\ arg \div BlockLen \in Sectors THEN arg \div BlockLen
    ELSE NSectors

TransferMode == [CMD17 |-> "sendOne", CMD18 |-> "sendMany",
                 CMD24 |-> "recvOne", CMD25 |-> "recvMany"]

Transfer(c, arg, r) == /\ c \in DOMAIN TransferMode
                       /\ Quiet = "ready" /\ Addressed(arg) # NSectors
                       /\ r = 0
                       /\ mode' = TransferMode[c] /\ at' = Addressed(arg)
                       /\ app' = FALSE

\* Initialisation goes on, or is complete.  A block addressed card waits for a host
\* that says it can address blocks.
OpCond(c, r) == /\ Quiet = "idle"
                /\ \/ c \in {"ACMD41", "ACMD41 HCS"} /\ app /\ kind # "mmc"
                   \/ c = "CMD1" /\ kind = "mmc"
                /\ \/ r = 1 /\ mode' = "idle"
                   \/ r = 0 /\ mode' = "ready" /\ (kind = "sdhc" => c = "ACMD41 HCS")
                /\ app' = FALSE /\ UNCHANGED at

Obeys(c, r) ==
    \/ c = "CMD0" /\ r = 1 /\ mode' = "idle" /\ app' = FALSE /\ UNCHANGED at
    \/ c = "CMD8" /\ kind \in {"sdhc", "sd2"} /\ Quiet = "idle" /\ r = 1
         /\ mode' = Quiet /\ app' = FALSE /\ UNCHANGED at
    \/ c = "CMD55" /\ kind # "mmc" /\ r = R1
         /\ mode' = Quiet /\ app' = TRUE /\ UNCHANGED at
    \/ c \in {"CMD58", "CMD16", "CMD12"} /\ r = R1
         /\ mode' = Quiet /\ app' = FALSE /\ UNCHANGED at
    \/ c = "ACMD23" /\ app /\ r = R1
         /\ mode' = Quiet /\ app' = FALSE /\ UNCHANGED at

\* What the card does with command c and argument arg, and its answer r.
Answer(c, arg, r) ==
    /\ \/ r = 255 /\ UNCHANGED <<mode, app, at>>
       \/ /\ Listening(c)
          /\ \/ Obeys(c, r) \/ OpCond(c, r) \/ Transfer(c, arg, r)
             \/ r = 4 /\ mode' = Quiet /\ app' = FALSE /\ UNCHANGED at
    /\ busy' \in (IF c = "CMD12" /\ kind # "none" THEN BOOLEAN ELSE {busy})
    /\ UNCHANGED <<kind, mem, stored>>

-----------------------------------------------------------------------------
\* Data.

\* A data block comes out, preceded by its token.
CanSend == mode \in {"sendOne", "sendMany"} /\ at \in Sectors

SendBlock == /\ CanSend
             /\ at' = at + 1
             /\ mode' = IF mode = "sendOne" THEN "ready" ELSE mode
             /\ UNCHANGED <<kind, app, busy, mem, stored>>

\* A data block comes in and is stored, or not.  Its acknowledgement may be lost.
TakeBlock(d, ok) ==
    \/ /\ mode \in {"recvOne", "recvMany"} /\ at \in Sectors
       /\ mem' = [mem EXCEPT ![at] = d]
       /\ at' = at + 1
       /\ stored' = stored + 1
       /\ busy' = TRUE
       /\ mode' = IF mode = "recvOne" THEN "ready" ELSE mode
       /\ ok \in BOOLEAN
       /\ UNCHANGED <<kind, app>>
    \/ /\ ok = FALSE
       /\ mode' = IF mode = "recvOne" THEN "ready" ELSE mode
       /\ UNCHANGED <<kind, app, busy, at, mem, stored>>

\* The token that ends a multiple block write.
TakeStop == /\ mode' = IF mode = "recvMany" THEN "ready" ELSE mode
            /\ busy' = (busy \/ mode = "recvMany")
            /\ UNCHANGED <<kind, app, at, mem, stored>>

\* The card has finished.
CardDone == /\ busy
            /\ busy' = FALSE
            /\ UNCHANGED <<kind, mode, app, at, mem, stored>>
=============================================================================
