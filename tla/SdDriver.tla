-------------------------------- MODULE SdDriver --------------------------------
(***************************************************************************)
(* The SD card driver Libraries/fatfs/drivers/fatfs_sd.c, with the         *)
(* millisecond countdown TM_Time2 of tm_stm32f4_delay.c, against the card  *)
(* of SdMedia.  The driver runs on main's thread or, for the EXTI handler  *)
(* of main.c, in an interrupt that keeps SysTick from counting.            *)
(*                                                                         *)
(* One step is one look at the card or at the countdown, one command with  *)
(* its answer, or one data block.  The pins for card detect and write      *)
(* protection are not in use, so TM_FATFS_Detect and TM_FATFS_WriteEnabled *)
(* are always 1 and the tests of them are left out.                        *)
(***************************************************************************)
EXTENDS SdMedia

CONSTANTS Calls,      \* calls of disk_initialize, disk_read, disk_write, CTRL_SYNC
          InitTime,   \* 1000 ms: SetTime2 of disk_initialize
          CmdTime,    \* 500 ms: wait_ready
          DataTime    \* 200 ms: rcvr_datablock

VARIABLES stat,       \* FALSE: STA_NOINIT is set in TM_FATFS_SD_Stat
          cardType,   \* TM_FATFS_SD_CardType, "none" for 0
          time2,      \* TM_Time2
          masked,     \* is the call made from the EXTI handler?
          call, pc,   \* the call in progress or the last one, and its next statement
          cmd, pre,   \* send_cmd: command, and is its CMD55 still to be sent?
          ret, res,   \* where send_cmd returns to, and what
          waiter,     \* the caller of wait_ready
          ty,         \* ty of disk_initialize
          token,      \* token of xmit_datablock
          left, buf,  \* count and buff of disk_read and disk_write
          answer      \* result of the last call and data read

drive == <<stat, cardType>>
sending == <<cmd, pre, ret, res>>
transfer == <<token, left, buf>>
caller == <<masked, call, answer>>
vars == <<card, drive, time2, pc, sending, waiter, ty, transfer, caller>>

ASSUME SdDriverAssumption ==
    /\ \A c \in Calls : /\ c.op \in {"initialize", "read", "write", "sync"}
                        /\ c.count \in 0..NSectors
                        /\ c.op \in {"read", "write"} =>
                              c.count \in 1..NSectors /\ c.sector \in 0..(NSectors - c.count)
                        /\ c.op = "write" => c.data \in [1..c.count -> Data]
    /\ InitTime \in Nat \ {0} /\ CmdTime \in Nat \ {0} /\ DataTime \in Nat \ {0}

CardTypes == {"none", "sdhc", "sd2", "sd1", "mmc"}
NoAnswer == [result |-> "none", data |-> << >>]

Init == /\ MediaInit
        /\ stat = FALSE /\ cardType = "none"
        /\ time2 = 0 /\ masked = FALSE
        /\ call \in Calls /\ pc = "ready"
        /\ cmd = "CMD0" /\ pre = FALSE /\ ret = "CMD0" /\ res = 255
        /\ waiter = "send_cmd" /\ ty = "none" /\ token = "FE"
        /\ left = 0 /\ buf = << >>
        /\ answer = NoAnswer

-----------------------------------------------------------------------------
\* wait_ready, called by w: the countdown is set and the card looked at.
WaitReady(w) == waiter' = w /\ time2' = CmdTime /\ pc' = "poll"

\* send_cmd(c), which returns to label l.  The stop of a read does not wait.
SendCmd(c, l) == /\ cmd' = c /\ ret' = l
                 /\ pre' = (c \in {"ACMD41", "ACMD41 HCS", "ACMD23"})
                 /\ IF c = "CMD12" THEN pc' = "send_cmd" /\ UNCHANGED <<time2, waiter>>
                    ELSE WaitReady("send_cmd")
                 /\ UNCHANGED res

\* The statement at label l sends no command.
Plain == UNCHANGED <<time2, waiter, sending>>

\* A call returns r, and its local variables are gone.
Reply(r) == /\ pc' = "ready"
            /\ answer' = [result |-> r, data |-> buf]
            /\ cmd' = "CMD0" /\ pre' = FALSE /\ ret' = "CMD0" /\ res' = 255
            /\ waiter' = "send_cmd" /\ ty' = "none" /\ token' = "FE"
            /\ left' = 0 /\ buf' = << >>
            /\ UNCHANGED <<time2, masked, call>>

\* Mutant: a block that is not accepted does not end the loop of lines 437-442.
Xmitted_noBreak(ok) ==
    /\ left' = IF token = "FD" THEN left ELSE left - 1
    /\ IF token = "FC"
       THEN token' = (IF left > 1 THEN "FC" ELSE "FD") /\ WaitReady("xmit")
       ELSE pc' = "return" /\ UNCHANGED <<token, time2, waiter>>
    /\ UNCHANGED <<drive, sending, ty, buf, caller>>

\* xmit_datablock has come back.  A block sent with FC has more to follow or, like a
\* failure, is followed by the stop token FD.
Xmitted(ok) ==
    /\ CASE token = "FE" -> /\ left' = IF ok THEN 0 ELSE left
                            /\ pc' = "return" /\ UNCHANGED <<token, time2, waiter>>
         [] token = "FC" -> /\ left' = IF ok THEN left - 1 ELSE left
                            /\ token' = IF ok /\ left > 1 THEN "FC" ELSE "FD"
                            /\ WaitReady("xmit")
         [] token = "FD" -> /\ left' = IF ok THEN left ELSE 1
                            /\ pc' = "return" /\ UNCHANGED <<token, time2, waiter>>
    /\ UNCHANGED <<drive, sending, ty, buf, caller>>

\* Mutant: the loop of lines 384-389 ends with "while (count--)".
Received_postfix(ok) ==
    /\ left' = IF ok THEN left - 1 ELSE left
    /\ IF call.count = 1 THEN pc' = "return" /\ Plain
       ELSE IF ok /\ left > 0 THEN pc' = "token" /\ time2' = DataTime /\ UNCHANGED <<sending, waiter>>
       ELSE SendCmd("CMD12", "return")
    /\ UNCHANGED <<drive, ty, token, caller>>

\* rcvr_datablock has come back.  Several sectors are read until one fails, and then the
\* card is stopped.
Received(ok) ==
    /\ left' = IF ok THEN left - 1 ELSE left
    /\ IF call.count = 1 THEN pc' = "return" /\ Plain
       ELSE IF ok /\ left > 1 THEN pc' = "token" /\ time2' = DataTime /\ UNCHANGED <<sending, waiter>>
       ELSE SendCmd("CMD12", "return")
    /\ UNCHANGED <<drive, ty, token, caller>>

\* Sector numbers go to block addressed cards, byte addresses to the others.
Address == call.sector * (IF cardType = "sdhc" THEN 1 ELSE BlockLen)

-----------------------------------------------------------------------------
\* wait_ready.

Poll == /\ pc = "poll"
        /\ IF ~busy /\ waiter = "ioctl" THEN Reply("OK")
           ELSE /\ pc' = IF busy THEN "pollTime" ELSE waiter
                /\ Plain /\ UNCHANGED <<ty, transfer, caller>>
        /\ UNCHANGED <<card, drive>>

\* Mutant: the countdown is set again in each pass of the loop of lines 87-89.
PollTime_rearmed == /\ pc = "pollTime" /\ WaitReady(waiter)
                    /\ UNCHANGED <<card, drive, sending, ty, transfer, caller>>

PollTime ==
    /\ pc = "pollTime"
    /\ \/ /\ time2 > 0
          /\ pc' = "poll"
          /\ Plain /\ UNCHANGED <<drive, ty, transfer, caller>>
       \/ /\ time2 = 0 /\ waiter = "send_cmd"
          /\ pc' = ret /\ res' = 255
          /\ UNCHANGED <<drive, time2, waiter, cmd, pre, ret, ty, transfer, caller>>
       \/ time2 = 0 /\ waiter = "xmit" /\ Xmitted(FALSE)
       \/ time2 = 0 /\ waiter = "ioctl" /\ Reply("ERROR") /\ UNCHANGED drive
    /\ UNCHANGED card

\* send_cmd: the packet and its answer.  An ACMD is announced by a CMD55.
Packet ==
    /\ pc = "send_cmd"
    /\ \E r \in {0, 1, 4, 255} :
          /\ Answer(IF pre THEN "CMD55" ELSE cmd, Address, r)
          /\ IF pre /\ r <= 1
             THEN WaitReady("send_cmd") /\ pre' = FALSE /\ UNCHANGED res
             ELSE res' = r /\ pc' = ret /\ UNCHANGED <<pre, time2, waiter>>
    /\ UNCHANGED <<drive, cmd, ret, ty, transfer, caller>>

-----------------------------------------------------------------------------
\* A call.  The EXTI handler of main.c closes the file, which does not initialise.

Invoke(c) == /\ pc = "ready"
             /\ call' = c
             /\ masked' \in BOOLEAN /\ (c.op = "initialize" => ~masked')
             /\ pc' = "begin"
             /\ stored' = 0 /\ left' = c.count /\ answer' = NoAnswer
             /\ UNCHANGED <<kind, mode, app, busy, at, mem, drive, ty, token, buf>> /\ Plain

NotReady == pc = "begin" /\ call.op # "initialize" /\ ~stat
                /\ Reply("NOTRDY") /\ UNCHANGED <<card, drive>>

Begin ==
    /\ pc = "begin"
    /\ \/ call.op = "initialize" /\ SendCmd("CMD0", "CMD0")
       \/ /\ call.op = "read" /\ stat
          /\ SendCmd(IF call.count = 1 THEN "CMD17" ELSE "CMD18", "reading")
       \/ /\ call.op = "write" /\ stat
          /\ IF call.count = 1 THEN SendCmd("CMD24", "writing")
             ELSE IF cardType = "mmc" THEN SendCmd("CMD25", "writing")
             ELSE SendCmd("ACMD23", "erased")
       \/ call.op = "sync" /\ stat /\ WaitReady("ioctl") /\ UNCHANGED sending
    /\ UNCHANGED <<card, drive, ty, transfer, caller>>

-----------------------------------------------------------------------------
\* disk_initialize.  A label is the command that has come back.

Identify ==
    /\ \/ /\ pc = "CMD0" /\ res = 1
          /\ time2' = InitTime /\ pc' = "timed" /\ UNCHANGED <<sending, waiter, ty>>
       \/ pc = "timed" /\ SendCmd("CMD8", "CMD8") /\ UNCHANGED ty
       \/ \* SDv2; it may not work at this voltage
          /\ pc = "CMD8" /\ res = 1
          /\ pc' \in {"ACMD41 HCS", "typed"} /\ Plain /\ UNCHANGED ty
       \/ pc = "CMD8" /\ res # 1 /\ SendCmd("ACMD41", "ACMD41") /\ UNCHANGED ty
       \/ pc = "CMD0" /\ res # 1 /\ pc' = "typed" /\ Plain /\ UNCHANGED ty
    /\ UNCHANGED <<card, drive, transfer, caller>>

\* SDv2: repeat ACMD41 until the card is ready, then ask how it is addressed.
InitV2 ==
    /\ \/ /\ pc = "ACMD41 HCS" /\ time2 > 0
          /\ IF res # 0 THEN SendCmd("ACMD41 HCS", "ACMD41 HCS") ELSE SendCmd("CMD58", "CMD58")
          /\ UNCHANGED ty
       \/ pc = "ACMD41 HCS" /\ time2 = 0 /\ pc' = "typed" /\ Plain /\ UNCHANGED ty
       \/ /\ pc = "CMD58"
          /\ ty' = IF res # 0 THEN ty ELSE IF kind = "sdhc" THEN "sdhc" ELSE "sd2"
          /\ pc' = "typed" /\ Plain
    /\ UNCHANGED <<card, drive, transfer, caller>>

\* SDv1 or MMC: repeat ACMD41 or CMD1 until the card is ready.  The test of line 311
\* takes time left over as a failure.
RepeatUntilReady(t) == SendCmd(IF t = "sd1" THEN "ACMD41" ELSE "CMD1", "loop")
SetBlockLength == SendCmd("CMD16", "CMD16")

InitOld ==
    /\ \/ /\ pc = "ACMD41"
          /\ ty' = IF res <= 1 THEN "sd1" ELSE "mmc"
          /\ IF time2 > 0 THEN RepeatUntilReady(ty') ELSE SetBlockLength
       \/ pc = "loop" /\ time2 > 0 /\ res # 0 /\ RepeatUntilReady(ty) /\ UNCHANGED ty
       \/ pc = "loop" /\ time2 > 0 /\ res = 0 /\ ty' = "none" /\ pc' = "typed" /\ Plain
       \/ pc = "loop" /\ time2 = 0 /\ SetBlockLength /\ UNCHANGED ty
       \/ pc = "CMD16" /\ ty' = (IF res # 0 THEN "none" ELSE ty) /\ pc' = "typed" /\ Plain
    /\ UNCHANGED <<card, drive, transfer, caller>>

\* Mutant: a failure does not set STA_NOINIT again (line 322).
InitDone_statKept == /\ pc = "typed"
                     /\ cardType' = ty
                     /\ stat' = (stat \/ ty # "none")
                     /\ Reply(IF ty # "none" THEN "OK" ELSE "NOTRDY")
                     /\ UNCHANGED card

InitDone == /\ pc = "typed"
            /\ cardType' = ty
            /\ stat' = (ty # "none")
            /\ Reply(IF ty # "none" THEN "OK" ELSE "NOTRDY")
            /\ UNCHANGED card

-----------------------------------------------------------------------------
\* disk_read and rcvr_datablock.

Reading == /\ pc = "reading"
           /\ IF res = 0 THEN pc' = "token" /\ time2' = DataTime ELSE pc' = "return" /\ UNCHANGED time2
           /\ UNCHANGED <<card, drive, sending, waiter, ty, transfer, caller>>

\* The token is there, with the data behind it, or is another, or nothing has come.
Token == /\ pc = "token"
         /\ \/ SendBlock /\ buf' = Append(buf, mem[at]) /\ Received(TRUE)
            \/ UNCHANGED <<card, buf>> /\ Received(FALSE)
            \/ /\ pc' = "tokenTime" /\ Plain
               /\ UNCHANGED <<card, drive, ty, transfer, caller>>

TokenTime == /\ pc = "tokenTime"
             /\ \/ /\ time2 > 0 /\ pc' = "token" /\ Plain
                   /\ UNCHANGED <<drive, ty, transfer, caller>>
                \/ time2 = 0 /\ Received(FALSE) /\ UNCHANGED buf
             /\ UNCHANGED card

-----------------------------------------------------------------------------
\* disk_write and xmit_datablock.

\* The number of blocks is announced to SD cards, whether they understand or not.
Erased == /\ pc = "erased"
          /\ SendCmd("CMD25", "writing")
          /\ UNCHANGED <<card, drive, ty, transfer, caller>>

Writing == /\ pc = "writing"
           /\ \/ res = 0 /\ token' = (IF call.count = 1 THEN "FE" ELSE "FC") /\ WaitReady("xmit")
              \/ res # 0 /\ pc' = "return" /\ UNCHANGED <<token, time2, waiter>>
           /\ UNCHANGED <<card, drive, sending, ty, left, buf, caller>>

Block == call.data[call.count - left + 1]

Xmit == /\ pc = "xmit"
        /\ \/ token = "FD" /\ TakeStop /\ Xmitted(TRUE)
           \/ token # "FD" /\ \E ok \in BOOLEAN : TakeBlock(Block, ok) /\ Xmitted(ok)

Return == /\ pc = "return"
          /\ Reply(IF left = 0 THEN "OK" ELSE "ERROR")
          /\ UNCHANGED <<card, drive>>

-----------------------------------------------------------------------------
\* SysTick, which the EXTI handler holds up.
Tick == /\ time2 > 0 /\ ~masked
        /\ time2' = time2 - 1
        /\ UNCHANGED <<card, drive, pc, sending, waiter, ty, transfer, caller>>

Driver == \/ NotReady \/ Begin \/ Poll \/ PollTime \/ Packet
          \/ Identify \/ InitV2 \/ InitOld \/ InitDone
          \/ Reading \/ Token \/ TokenTime
          \/ Erased \/ Writing \/ Xmit \/ Return

CardStep == /\ CardDone \/ (pc = "ready" /\ Exchange)
            /\ UNCHANGED <<drive, time2, pc, sending, waiter, ty, transfer, caller>>

Next == \/ \E c \in Calls : Invoke(c)
        \/ Driver \/ Tick \/ CardStep

Spec == Init /\ [][Next]_vars /\ WF_vars(Driver) /\ WF_vars(Tick)
-----------------------------------------------------------------------------
\* Types.  A transfer never has more blocks left, or more data read, than it was
\* called for (the counts of disk_read and disk_write, lines 378-395 and 430-450).
TypeOK ==
    /\ SdMediaTypeOK
    /\ stat \in BOOLEAN /\ cardType \in CardTypes /\ ty \in CardTypes
    /\ time2 \in 0..(InitTime + CmdTime + DataTime)
    /\ masked \in BOOLEAN /\ call \in Calls
    /\ pc \in {"ready", "begin", "poll", "pollTime", "send_cmd", "xmit", "CMD0", "timed", "CMD8",
               "ACMD41 HCS", "CMD58", "ACMD41", "loop", "CMD16", "typed", "reading", "token",
               "tokenTime", "erased", "writing", "return"}
    /\ pre \in BOOLEAN /\ res \in {0, 1, 4, 255}
    /\ waiter \in {"send_cmd", "xmit", "ioctl"} /\ token \in {"FC", "FD", "FE"}
    /\ left \in 0..NSectors
    /\ buf \in Seq(Data) /\ Len(buf) + left <= NSectors
    /\ answer.result \in {"none", "OK", "ERROR", "NOTRDY"} /\ answer.data \in Seq(Data)

\* A drive that disk_initialize has found ready is addressed the way its card counts:
\* by block if and only if the card is SDHC (lines 297-301, 374, 426).  A card that
\* has taken its place since then does not listen before it is initialised.
ReadyMeansReady ==
    pc = "ready" /\ stat /\ mode # "native" =>
       mode # "idle" /\ (cardType = "sdhc" <=> kind = "sdhc")

\* What the driver promises FatFs (BlockDevice), whatever the card answers or does not
\* answer: a call touches the sectors it names and no others, in order, and RES_OK
\* means that all of it is done.
Device == INSTANCE BlockDevice WITH busy <- pc # "ready", programming <- busy
KeepsPromise == Device!Spec

\* Each call of disk_read, disk_write and CTRL_SYNC from the main thread comes back,
\* whatever the card does, because SysTick counts TM_Time2 down in each of its loops
\* (lines 87-89, 147-150).
CallsEnd == (pc # "ready" /\ ~masked /\ call.op # "initialize") ~> (pc = "ready")

\* The comment of line 290, "Initialization timeout = 1 sec": disk_initialize comes
\* back whatever the card does.
InitTimesOut == (pc = "begin" /\ call.op = "initialize") ~> (pc = "ready")

\* The comment of line 311, "Set block length: 512": disk_initialize does not give up a
\* card that has become ready in the loop of line 310 without setting its block length.
BlockLengthIsSet == [][pc = "loop" /\ res = 0 /\ pc' # pc => cmd' = "CMD16"]_vars
=============================================================================
