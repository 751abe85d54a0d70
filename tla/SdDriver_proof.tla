---------------------------- MODULE SdDriver_proof ----------------------------
(***************************************************************************)
(* Proofs about SdDriver for every capacity, set of calls and length of    *)
(* the timeouts, and for cards of every kind that fail in every way        *)
(* SdMedia allows.                                                         *)
(***************************************************************************)
EXTENDS SdDriver, TLAPS

-----------------------------------------------------------------------------
(***************************************************************************)
(* Control: where the call in progress is.                                 *)
(***************************************************************************)
Sending == pc = "send_cmd" \/ (pc \in {"poll", "pollTime"} /\ waiter = "send_cmd")

\* The label of disk_initialize, disk_read, disk_write or the ioctl that is reached
\* or will be when send_cmd or wait_ready has come back.
goal == IF Sending THEN ret ELSE IF pc \in {"poll", "pollTime"} THEN waiter ELSE pc

InitGoals == {"CMD0", "timed", "CMD8", "ACMD41 HCS", "CMD58", "ACMD41", "loop", "CMD16", "typed"}
ReadGoals == {"reading", "token", "tokenTime", "return"}
WriteGoals == {"erased", "writing", "xmit", "return"}
Labels == InitGoals \cup ReadGoals \cup WriteGoals \cup {"ready", "begin"}

Legal(op, g) == \/ g \in {"ready", "begin"}
                \/ op = "initialize" /\ g \in InitGoals
                \/ op = "read" /\ g \in ReadGoals
                \/ op = "write" /\ g \in WriteGoals
                \/ op = "sync" /\ g = "ioctl"

Acmds == {"ACMD41 HCS", "ACMD41", "ACMD23"}

\* The labels send_cmd returns to, each with the command it sends.
Sends(l, c) ==
    \/ l \in {"CMD0", "CMD8", "ACMD41 HCS", "CMD58", "ACMD41", "CMD16"} /\ c = l
    \/ l = "loop" /\ c \in {"ACMD41", "CMD1"}
    \/ l = "reading" /\ c \in {"CMD17", "CMD18"}
    \/ l = "return" /\ c = "CMD12"
    \/ l = "erased" /\ c = "ACMD23"
    \/ l = "writing" /\ c \in {"CMD24", "CMD25"}

CtrlInv ==
    /\ call \in Calls
    /\ pc \in Labels \cup {"poll", "pollTime", "send_cmd"}
    /\ waiter \in {"send_cmd", "xmit", "ioctl"}
    /\ pre \in BOOLEAN /\ res \in {0, 1, 4, 255}
    /\ Legal(call.op, goal)
    /\ Sending => Sends(ret, cmd) /\ (pre => cmd \in Acmds)
    /\ goal \in {"xmit", "erased", "writing"} => call.op = "write"
    /\ Sending /\ ret = "return" => call.op = "read"

\* The four ways a step may go on.
LEMMA SendCtrl ==
    ASSUME CtrlInv, NEW c, NEW l, SendCmd(c, l), call' = call,
           Sends(l, c), Legal(call.op, l), l = "return" => call.op = "read"
    PROVE  CtrlInv' /\ Sending' /\ goal' = l /\ res' = res
<1>1. /\ ret' = l /\ cmd' = c /\ res' = res
      /\ pc' \in {"poll", "send_cmd"} /\ waiter' \in {waiter, "send_cmd"}
      /\ pc' = "poll" => waiter' = "send_cmd"
  <2>1. CASE c = "CMD12"
    BY <2>1 DEF SendCmd
  <2>2. CASE c # "CMD12"
    BY <2>2 DEF SendCmd, WaitReady
  <2> QED BY <2>1, <2>2
<1>2. pre' = (c \in Acmds)
  BY DEF SendCmd, Acmds
<1>3. pre' \in BOOLEAN /\ (pre' => cmd' \in Acmds)
  <2>1. CASE c \in Acmds
    BY <1>1, <1>2, <2>1, Zenon
  <2>2. CASE ~(c \in Acmds)
    <3>1. (c \in Acmds) = FALSE
      BY <2>2, SMT
    <3>2. pre' = FALSE
      BY <1>2, <3>1, Zenon
    <3> QED BY <3>2, Zenon
  <2> QED BY <2>1, <2>2
<1>4. Sending' /\ goal' = l
  BY <1>1 DEF Sending, goal
<1>5. l \in {"xmit", "erased", "writing"} => call.op = "write"
  BY DEF Legal, InitGoals, ReadGoals, WriteGoals
<1>6. Sends(l, c)' = Sends(l, c)
  BY DEF Sends
<1> QED BY <1>1, <1>3, <1>4, <1>5, <1>6 DEF CtrlInv, Sends

LEMMA WaitCtrl ==
    ASSUME CtrlInv, NEW w \in {"xmit", "ioctl"}, WaitReady(w), call' = call,
           pre' = pre, res' = res, Legal(call.op, w)
    PROVE  CtrlInv' /\ ~Sending' /\ goal' = w
<1>1. ~Sending' /\ goal' = w
  BY DEF WaitReady, Sending, goal
<1>2. w = "xmit" => call.op = "write"
  BY DEF Legal, InitGoals, ReadGoals, WriteGoals
<1> QED BY <1>1, <1>2 DEF CtrlInv, WaitReady

LEMMA PlainCtrl ==
    ASSUME CtrlInv, NEW l \in Labels, pc' = l, waiter' = waiter, call' = call,
           pre' = pre, res' \in {0, 1, 4, 255}, Legal(call.op, l)
    PROVE  CtrlInv' /\ ~Sending' /\ goal' = l
<1>1. ~Sending' /\ goal' = l
  <2>1. l \notin {"poll", "pollTime", "send_cmd"}
    BY DEF Labels, InitGoals, ReadGoals, WriteGoals
  <2> QED BY <2>1 DEF Sending, goal
<1>2. l \in {"xmit", "erased", "writing"} => call.op = "write"
  BY DEF Legal, InitGoals, ReadGoals, WriteGoals
<1> QED BY <1>1, <1>2 DEF CtrlInv

LEMMA ReplyCtrl ==
    ASSUME CtrlInv, NEW r, Reply(r)
    PROVE  CtrlInv' /\ ~Sending' /\ goal' = "ready"
<1>1. pc' = "ready" /\ waiter' = "send_cmd" /\ pre' = FALSE /\ res' = 255 /\ call' = call
  BY DEF Reply
<1>2. ~Sending' /\ goal' = "ready"
  BY <1>1 DEF Sending, goal
<1> QED BY <1>1, <1>2 DEF CtrlInv, Legal, Labels

LEMMA InitCtrlInv == Init => CtrlInv
BY DEF Init, CtrlInv, Sending, goal, Labels, Legal

LEMMA InvokeCtrlInv == ASSUME CtrlInv, NEW c \in Calls, Invoke(c) PROVE CtrlInv'
BY DEF CtrlInv, Invoke, Sending, goal, Plain, sending, Labels, Legal

LEMMA NotReadyCtrlInv == CtrlInv /\ NotReady => CtrlInv'
BY ReplyCtrl DEF NotReady

LEMMA BeginCtrlInv ==
    ASSUME CtrlInv, Begin
    PROVE  CtrlInv' /\ goal' \in {"CMD0", "reading", "erased", "writing", "ioctl"}
<1>1. call' = call
  BY DEF Begin, caller
<1>2. CASE call.op = "initialize" /\ SendCmd("CMD0", "CMD0")
  BY <1>1, <1>2, SendCtrl DEF Sends, Legal, InitGoals
<1>3. CASE call.op = "read" /\ SendCmd(IF call.count = 1 THEN "CMD17" ELSE "CMD18", "reading")
  BY <1>1, <1>3, SendCtrl DEF Sends, Legal, ReadGoals
<1>4. CASE call.op = "write" /\ SendCmd("CMD24", "writing")
  BY <1>1, <1>4, SendCtrl DEF Sends, Legal, WriteGoals
<1>5. CASE call.op = "write" /\ SendCmd("CMD25", "writing")
  BY <1>1, <1>5, SendCtrl DEF Sends, Legal, WriteGoals
<1>6. CASE call.op = "write" /\ SendCmd("ACMD23", "erased")
  BY <1>1, <1>6, SendCtrl DEF Sends, Legal, WriteGoals
<1>7. CASE call.op = "sync" /\ WaitReady("ioctl") /\ UNCHANGED sending
  BY <1>1, <1>7, WaitCtrl DEF Legal, sending
<1> QED BY <1>2, <1>3, <1>4, <1>5, <1>6, <1>7 DEF Begin

LEMMA XmittedCtrl ==
    ASSUME CtrlInv, goal = "xmit", token \in {"FC", "FD", "FE"}, NEW ok, Xmitted(ok)
    PROVE  CtrlInv' /\ goal' \in {"xmit", "return"} /\ call' = call
<1>1. call.op = "write" /\ Legal(call.op, "return") /\ Legal(call.op, "xmit")
  BY DEF CtrlInv, Legal, WriteGoals
<1>2. call' = call /\ UNCHANGED sending
  BY DEF Xmitted, caller
<1>3. \/ WaitReady("xmit")
      \/ pc' = "return" /\ UNCHANGED waiter
  BY DEF Xmitted
<1>4. CASE WaitReady("xmit")
  BY <1>1, <1>2, <1>4, WaitCtrl DEF sending
<1>5. CASE pc' = "return" /\ UNCHANGED waiter
  <2>1. res' \in {0, 1, 4, 255} /\ "return" \in Labels
    BY <1>2 DEF CtrlInv, sending, Labels, ReadGoals
  <2> QED BY <1>1, <1>2, <1>5, <2>1, PlainCtrl DEF sending
<1> QED BY <1>2, <1>3, <1>4, <1>5

LEMMA ReceivedCtrl ==
    ASSUME CtrlInv, goal \in {"token", "tokenTime"}, NEW ok, Received(ok)
    PROVE  CtrlInv' /\ goal' \in {"token", "return"} /\ call' = call
<1>1. call.op = "read" /\ Legal(call.op, "return") /\ Legal(call.op, "token")
  BY DEF CtrlInv, Legal, InitGoals, ReadGoals, WriteGoals
<1>2. call' = call
  BY DEF Received, caller
<1>3. \/ SendCmd("CMD12", "return")
      \/ pc' \in {"return", "token"} /\ UNCHANGED <<sending, waiter>>
  BY DEF Received, Plain
<1>4. CASE SendCmd("CMD12", "return")
  BY <1>1, <1>2, <1>4, SendCtrl DEF Sends
<1>5. CASE pc' \in {"return", "token"} /\ UNCHANGED <<sending, waiter>>
  <2>1. res' \in {0, 1, 4, 255} /\ "return" \in Labels /\ "token" \in Labels
    BY <1>5 DEF CtrlInv, sending, Labels, ReadGoals
  <2> QED BY <1>1, <1>2, <1>5, <2>1, PlainCtrl DEF sending
<1> QED BY <1>2, <1>3, <1>4, <1>5

\* The steps of wait_ready and send_cmd do not change where they return to.
LEMMA PollCtrlInv == CtrlInv /\ Poll => CtrlInv' /\ goal' \in {goal, "ready"}
<1> SUFFICES ASSUME CtrlInv, Poll PROVE CtrlInv' /\ goal' \in {goal, "ready"}
  OBVIOUS
<1>1. CASE ~busy /\ waiter = "ioctl"
  BY <1>1, ReplyCtrl DEF Poll
<1>2. CASE ~(~busy /\ waiter = "ioctl")
  <2>1. /\ pc = "poll" /\ pc' = (IF busy THEN "pollTime" ELSE waiter)
        /\ UNCHANGED <<waiter, cmd, pre, ret, res, call>>
    BY <1>2 DEF Poll, Plain, sending, caller
  <2>2. Sending' = Sending /\ goal' = goal
    BY <1>2, <2>1 DEF CtrlInv, Sending, goal
  <2>3. pc' \in Labels \cup {"poll", "pollTime", "send_cmd"}
    BY <1>2, <2>1 DEF CtrlInv, Labels, WriteGoals
  <2> QED BY <2>1, <2>2, <2>3 DEF CtrlInv, Sends
<1> QED BY <1>1, <1>2

LEMMA PollTimeCtrlInv ==
    ASSUME CtrlInv, token \in {"FC", "FD", "FE"}, PollTime
    PROVE  CtrlInv' /\ goal' \in {goal, "ready", "xmit", "return"}
<1>1. CASE pc' = "poll" /\ Plain /\ UNCHANGED caller
  <2>1. pc = "pollTime" /\ UNCHANGED <<waiter, cmd, pre, ret, res, call>>
    BY <1>1 DEF PollTime, Plain, sending, caller
  <2>2. Sending' = Sending /\ goal' = goal
    BY <1>1, <2>1 DEF Sending, goal
  <2> QED BY <1>1, <2>1, <2>2 DEF CtrlInv, Sends
<1>2. CASE waiter = "send_cmd" /\ pc' = ret /\ res' = 255 /\ UNCHANGED <<waiter, pre, caller>>
  <2>1. Sending /\ goal = ret
    BY <1>2 DEF PollTime, Sending, goal
  <2>2. ret \in Labels
    BY <2>1 DEF CtrlInv, Sends, Labels, InitGoals, ReadGoals, WriteGoals
  <2> QED BY <1>2, <2>1, <2>2, PlainCtrl DEF CtrlInv, caller
<1>3. CASE waiter = "xmit" /\ Xmitted(FALSE)
  <2>1. goal = "xmit"
    BY <1>3 DEF PollTime, Sending, goal
  <2> QED BY <1>3, <2>1, XmittedCtrl
<1>4. CASE Reply("ERROR")
  BY <1>4, ReplyCtrl
<1> QED BY <1>1, <1>2, <1>3, <1>4 DEF PollTime

LEMMA PacketCtrlInv ==
    ASSUME CtrlInv, Packet
    PROVE  /\ CtrlInv' /\ goal' = goal /\ goal = ret /\ call' = call
           /\ Sends(ret, cmd) /\ (pre => cmd \in Acmds)
<1>1. /\ pc = "send_cmd" /\ UNCHANGED <<cmd, ret, call>>
      /\ Sending /\ goal = ret
  BY DEF Packet, Sending, goal, caller
<1>2. /\ ret \in Labels /\ Sends(ret, cmd) /\ (pre => cmd \in Acmds)
      /\ Legal(call.op, ret)
  BY <1>1 DEF CtrlInv, Sends, Labels, InitGoals, ReadGoals, WriteGoals
<1>3. CASE WaitReady("send_cmd") /\ pre' = FALSE /\ UNCHANGED res
  <2>1. Sending' /\ goal' = ret
    BY <1>1, <1>3 DEF WaitReady, Sending, goal
  <2>2. Sends(ret, cmd)' = Sends(ret, cmd)
    BY <1>1 DEF Sends
  <2> QED BY <1>1, <1>2, <1>3, <2>1, <2>2 DEF CtrlInv, WaitReady
<1>4. CASE \E r \in {0, 1, 4, 255} : res' = r /\ pc' = ret /\ UNCHANGED <<pre, waiter>>
  BY <1>1, <1>2, <1>4, PlainCtrl
<1>5. \/ WaitReady("send_cmd") /\ pre' = FALSE /\ UNCHANGED res
      \/ \E r \in {0, 1, 4, 255} : res' = r /\ pc' = ret /\ UNCHANGED <<pre, waiter>>
  BY DEF Packet
<1> HIDE DEF goal, Sending
<1> QED BY <1>1, <1>2, <1>3, <1>4, <1>5

\* The labels that send a command or go on at once.
LEMMA IdentifyCtrlInv ==
    ASSUME CtrlInv, Identify
    PROVE  CtrlInv' /\ goal' \in InitGoals /\ call.op = "initialize"
<1>1. call' = call /\ call.op = "initialize" /\ Legal("initialize", pc)
  <2>1. pc \in {"CMD0", "timed", "CMD8"} /\ goal = pc
    BY DEF Identify, Sending, goal
  <2> QED BY <2>1 DEF Identify, caller, CtrlInv, Legal, InitGoals, ReadGoals, WriteGoals
<1>2. CASE pc' \in {"timed", "ACMD41 HCS", "typed"} /\ UNCHANGED <<sending, waiter>>
  <2>1. Legal(call.op, pc') /\ pc' \in Labels /\ res' \in {0, 1, 4, 255}
    BY <1>1, <1>2 DEF Legal, InitGoals, Labels, sending, CtrlInv
  <2> QED BY <1>1, <1>2, <2>1, PlainCtrl DEF InitGoals, sending
<1>3. CASE SendCmd("CMD8", "CMD8")
  BY <1>1, <1>3, SendCtrl DEF Sends, Legal, InitGoals
<1>4. CASE SendCmd("ACMD41", "ACMD41")
  BY <1>1, <1>4, SendCtrl DEF Sends, Legal, InitGoals
<1> QED BY <1>1, <1>2, <1>3, <1>4 DEF Identify, Plain

LEMMA InitV2CtrlInv ==
    ASSUME CtrlInv, InitV2
    PROVE  CtrlInv' /\ goal' \in InitGoals /\ call.op = "initialize"
<1>1. call' = call /\ call.op = "initialize"
  <2>1. pc \in {"ACMD41 HCS", "CMD58"} /\ goal = pc
    BY DEF InitV2, Sending, goal
  <2> QED BY <2>1 DEF InitV2, caller, CtrlInv, Legal, InitGoals, ReadGoals, WriteGoals
<1>2. CASE pc' = "typed" /\ Plain
  <2>1. /\ Legal("initialize", "typed") /\ "typed" \in Labels /\ "typed" \in InitGoals
        /\ res' \in {0, 1, 4, 255} /\ waiter' = waiter /\ pre' = pre
    BY <1>2 DEF Legal, InitGoals, Labels, Plain, sending, CtrlInv
  <2> QED BY <1>1, <1>2, <2>1, PlainCtrl
<1>3. CASE SendCmd("ACMD41 HCS", "ACMD41 HCS")
  BY <1>1, <1>3, SendCtrl DEF Sends, Legal, InitGoals
<1>4. CASE SendCmd("CMD58", "CMD58")
  BY <1>1, <1>4, SendCtrl DEF Sends, Legal, InitGoals
<1> QED BY <1>1, <1>2, <1>3, <1>4 DEF InitV2

LEMMA InitOldCtrlInv ==
    ASSUME CtrlInv, InitOld
    PROVE  CtrlInv' /\ goal' \in InitGoals /\ call.op = "initialize"
<1>1. call' = call /\ call.op = "initialize"
  <2>1. pc \in {"ACMD41", "loop", "CMD16"} /\ goal = pc
    BY DEF InitOld, Sending, goal
  <2> QED BY <2>1 DEF InitOld, caller, CtrlInv, Legal, InitGoals, ReadGoals, WriteGoals
<1>2. CASE pc' = "typed" /\ Plain
  <2>1. /\ Legal("initialize", "typed") /\ "typed" \in Labels /\ "typed" \in InitGoals
        /\ res' \in {0, 1, 4, 255} /\ waiter' = waiter /\ pre' = pre
    BY <1>2 DEF Legal, InitGoals, Labels, Plain, sending, CtrlInv
  <2> QED BY <1>1, <1>2, <2>1, PlainCtrl
<1>3. ASSUME NEW t, RepeatUntilReady(t) PROVE CtrlInv' /\ goal' \in InitGoals
  <2>1. SendCmd("ACMD41", "loop") \/ SendCmd("CMD1", "loop")
    BY <1>3 DEF RepeatUntilReady
  <2>2. Sends("loop", "ACMD41") /\ Sends("loop", "CMD1") /\ Legal("initialize", "loop")
    BY DEF Sends, Legal, InitGoals
  <2> QED BY <1>1, <2>1, <2>2, SendCtrl DEF InitGoals
<1>4. CASE SetBlockLength
  BY <1>1, <1>4, SendCtrl DEF SetBlockLength, Sends, Legal, InitGoals
<1> QED BY <1>1, <1>2, <1>3, <1>4 DEF InitOld

LEMMA InitDoneCtrlInv == CtrlInv /\ InitDone => CtrlInv'
BY ReplyCtrl DEF InitDone

LEMMA ReturnCtrlInv == CtrlInv /\ Return => CtrlInv'
BY ReplyCtrl DEF Return

LEMMA ReadingCtrlInv ==
    ASSUME CtrlInv, Reading
    PROVE  CtrlInv' /\ goal' \in {"token", "return"}
<1>1. call.op = "read"
  <2>1. goal = "reading"
    BY DEF Reading, Sending, goal
  <2> QED BY <2>1 DEF CtrlInv, Legal, InitGoals, ReadGoals, WriteGoals
<1>2. /\ pc' \in {"token", "return"} /\ waiter' = waiter /\ call' = call
      /\ pre' = pre /\ res' = res
  BY DEF Reading, sending, caller
<1>3. Legal(call.op, pc') /\ pc' \in Labels /\ res \in {0, 1, 4, 255}
  BY <1>1, <1>2 DEF Legal, ReadGoals, Labels, CtrlInv
<1> QED BY <1>2, <1>3, PlainCtrl

LEMMA TokenCtrlInv ==
    ASSUME CtrlInv, Token \/ TokenTime
    PROVE  CtrlInv' /\ goal' \in {"token", "tokenTime", "return"} /\ call.op = "read"
<1>1. goal \in {"token", "tokenTime"}
  BY DEF Token, TokenTime, Sending, goal
<1>2. call.op = "read" /\ Legal(call.op, "token") /\ Legal(call.op, "tokenTime")
  BY <1>1 DEF CtrlInv, Legal, InitGoals, ReadGoals, WriteGoals
<1>3. ASSUME NEW ok, Received(ok) PROVE CtrlInv' /\ goal' \in {"token", "return"}
  BY <1>1, <1>3, ReceivedCtrl
<1>4. CASE pc' \in {"token", "tokenTime"} /\ Plain /\ UNCHANGED caller
  <2>1. /\ pc' \in Labels /\ res' \in {0, 1, 4, 255} /\ Legal(call.op, pc')
        /\ waiter' = waiter /\ pre' = pre /\ call' = call
    BY <1>2, <1>4 DEF CtrlInv, Labels, ReadGoals, Plain, sending, caller
  <2>2. CtrlInv' /\ goal' = pc'
    BY <2>1, PlainCtrl
  <2> QED BY <1>2, <1>4, <2>2
<1> QED BY <1>2, <1>3, <1>4 DEF Token, TokenTime

LEMMA ErasedCtrlInv ==
    ASSUME CtrlInv, Erased
    PROVE  CtrlInv' /\ goal' \in {"writing"}
<1>1. call.op = "write" /\ call' = call
  BY DEF Erased, caller, CtrlInv, Sending, goal
<1> QED BY <1>1, SendCtrl DEF Erased, Sends, Legal, WriteGoals

LEMMA WritingCtrlInv ==
    ASSUME CtrlInv, Writing
    PROVE  CtrlInv' /\ goal' \in {"xmit", "return"}
<1>1. call.op = "write" /\ call' = call /\ UNCHANGED sending
  BY DEF Writing, caller, CtrlInv, Sending, goal
<1>2. CASE WaitReady("xmit")
  BY <1>1, <1>2, WaitCtrl DEF Legal, WriteGoals, sending
<1>3. CASE pc' = "return" /\ UNCHANGED waiter
  <2>1. Legal(call.op, "return") /\ "return" \in Labels /\ res' \in {0, 1, 4, 255}
    BY <1>1 DEF Legal, WriteGoals, Labels, CtrlInv, sending
  <2> QED BY <1>1, <1>3, <2>1, PlainCtrl DEF sending
<1> QED BY <1>2, <1>3 DEF Writing

LEMMA XmitCtrlInv ==
    ASSUME CtrlInv, token \in {"FC", "FD", "FE"}, Xmit
    PROVE  CtrlInv'
<1>1. goal = "xmit"
  BY DEF Xmit, Sending, goal
<1> QED BY <1>1, XmittedCtrl DEF Xmit

\* The clock and the card leave the control alone.
LEMMA OtherCtrlInv ==
    ASSUME CtrlInv, UNCHANGED <<pc, sending, waiter, call>>
    PROVE  CtrlInv' /\ goal' = goal
<1>1. UNCHANGED <<pc, cmd, pre, ret, res, waiter, call>>
  BY DEF sending
<1>2. Sending' = Sending /\ goal' = goal
  BY <1>1 DEF Sending, goal
<1>3. Sends(ret, cmd)' = Sends(ret, cmd)
  BY <1>1 DEF Sends
<1> QED BY <1>1, <1>2, <1>3 DEF CtrlInv

-----------------------------------------------------------------------------
(***************************************************************************)
(* Types: the card, and how much of a transfer is left.                    *)
(***************************************************************************)
CountInv ==
    /\ left \in 0..call.count
    /\ goal \in {"begin", "reading", "erased", "writing"} => left = call.count
    /\ goal \in {"token", "tokenTime"} => left >= 1
    /\ goal = "xmit" /\ token \in {"FC", "FE"} => left >= 1
    /\ Len(buf) + left <= call.count
    /\ goal \in {"ready", "begin"} \/ call.op = "write" => buf = << >>

MaxTime == InitTime + CmdTime + DataTime

DataTypes ==
    /\ SdMediaTypeOK
    /\ stat \in BOOLEAN /\ cardType \in CardTypes /\ ty \in CardTypes
    /\ time2 \in 0..MaxTime /\ masked \in BOOLEAN /\ token \in {"FC", "FD", "FE"}
    /\ buf \in Seq(Data)
    /\ answer.result \in {"none", "OK", "ERROR", "NOTRDY"} /\ answer.data \in Seq(Data)

TypeInv == DataTypes /\ CtrlInv /\ CountInv

LEMMA CallCount ==
    ASSUME NEW c \in Calls
    PROVE  /\ c.count \in Nat /\ c.count <= NSectors
           /\ c.op \in {"read", "write"} => c.count >= 1
           /\ c.op = "write" => c.data \in [1..c.count -> Data]
BY SdDriverAssumption, SdMediaAssumption

LEMMA AddressedType == ASSUME NEW arg PROVE Addressed(arg) \in 0..NSectors
BY SdMediaAssumption DEF Addressed, Sectors

LEMMA AnswerType ==
    ASSUME SdMediaTypeOK, NEW c, NEW arg, NEW r, Answer(c, arg, r)
    PROVE  SdMediaTypeOK'
<1>1. UNCHANGED <<kind, mem, stored>> /\ busy' \in BOOLEAN
  BY DEF Answer, SdMediaTypeOK
<1>2. Quiet \in Modes
  BY DEF Quiet, SdMediaTypeOK, Modes
<1>3. CASE r = 255 /\ UNCHANGED <<mode, app, at>>
  BY <1>1, <1>3 DEF SdMediaTypeOK
<1>4. CASE Obeys(c, r)
  BY <1>1, <1>2, <1>4 DEF SdMediaTypeOK, Obeys, Modes
<1>5. CASE OpCond(c, r)
  BY <1>1, <1>5 DEF SdMediaTypeOK, OpCond, Modes
<1>6. CASE Transfer(c, arg, r)
  <2>1. mode' \in Modes
    BY <1>6 DEF Transfer, TransferMode, Modes
  <2> QED BY <1>1, <1>6, <2>1, AddressedType DEF SdMediaTypeOK, Transfer
<1>7. CASE mode' = Quiet /\ app' = FALSE /\ UNCHANGED at
  BY <1>1, <1>2, <1>7 DEF SdMediaTypeOK
<1> QED BY <1>3, <1>4, <1>5, <1>6, <1>7 DEF Answer

LEMMA SendBlockType == SdMediaTypeOK /\ SendBlock => SdMediaTypeOK' /\ mem[at] \in Data
BY SdMediaAssumption DEF SdMediaTypeOK, SendBlock, CanSend, Modes, Sectors

LEMMA TakeBlockType ==
    ASSUME SdMediaTypeOK, NEW d \in Data, NEW ok, TakeBlock(d, ok)
    PROVE  SdMediaTypeOK'
<1>1. UNCHANGED <<kind, app>> /\ busy' \in BOOLEAN /\ mode' \in Modes
  BY DEF SdMediaTypeOK, TakeBlock, Modes
<1>2. at' \in 0..NSectors /\ stored' \in Nat
  BY SdMediaAssumption DEF SdMediaTypeOK, TakeBlock, Sectors
<1>3. mem' \in [Sectors -> Data]
  <2>1. mem' = mem \/ mem' = [mem EXCEPT ![at] = d]
    BY DEF TakeBlock
  <2> QED BY <2>1 DEF SdMediaTypeOK
<1> QED BY <1>1, <1>2, <1>3 DEF SdMediaTypeOK

LEMMA TakeStopType == SdMediaTypeOK /\ TakeStop => SdMediaTypeOK'
<1> SUFFICES ASSUME SdMediaTypeOK, TakeStop PROVE SdMediaTypeOK'
  OBVIOUS
<1>1. busy' \in BOOLEAN
  BY DEF TakeStop, SdMediaTypeOK
<1> QED BY <1>1 DEF TakeStop, SdMediaTypeOK, Modes

LEMMA FreshType ==
    ASSUME NEW f \in Fresh
    PROVE  f.kind \in Kinds /\ f.mem \in [Sectors -> Data] /\ f.busy \in BOOLEAN
BY DEF Fresh

LEMMA CardStepType == SdMediaTypeOK /\ CardStep => SdMediaTypeOK'
<1> SUFFICES ASSUME SdMediaTypeOK, CardStep PROVE SdMediaTypeOK'
  OBVIOUS
<1>1. CASE CardDone
  BY <1>1 DEF CardDone, SdMediaTypeOK
<1>2. CASE Exchange
  <2>1. PICK f \in Fresh : kind' = f.kind /\ mem' = f.mem /\ busy' = f.busy
    BY <1>2 DEF Exchange
  <2>2. kind' \in Kinds /\ mem' \in [Sectors -> Data] /\ busy' \in BOOLEAN
    BY <2>1, FreshType
  <2>3. mode' = "native" /\ app' = FALSE /\ at' = 0 /\ UNCHANGED stored
    BY <1>2 DEF Exchange
  <2>4. "native" \in Modes /\ 0 \in 0..NSectors
    BY SdMediaAssumption DEF Modes
  <2> QED BY <2>2, <2>3, <2>4 DEF SdMediaTypeOK
<1> QED BY <1>1, <1>2 DEF CardStep

LEMMA Times == /\ MaxTime \in Nat
               /\ CmdTime \in 0..MaxTime /\ DataTime \in 0..MaxTime /\ InitTime \in 0..MaxTime
BY SdDriverAssumption DEF MaxTime

LEMMA SendTime ==
    ASSUME TypeInv, NEW c, NEW l, SendCmd(c, l)
    PROVE  time2' \in 0..MaxTime
BY Times DEF TypeInv, DataTypes, SendCmd, WaitReady

\* A step that moves no data.
LEMMA MoveType ==
    ASSUME TypeInv, CtrlInv', SdMediaTypeOK', UNCHANGED <<drive, left, buf, caller>>,
           token' \in {"FC", "FD", "FE"}, ty' \in CardTypes, time2' \in 0..MaxTime,
           \/ goal' = goal /\ token' = token
           \/ goal' \in InitGoals \cup {"return", "ioctl"}
           \/ left = call.count /\ call.count >= 1 /\ goal' \notin {"ready", "begin"}
    PROVE  TypeInv'
<1>1. UNCHANGED <<stat, cardType, left, buf, masked, call, answer>>
  BY DEF drive, caller
<1>2. call.count \in Nat
  BY CallCount DEF TypeInv, CtrlInv
<1>3. CountInv'
  BY <1>1, <1>2 DEF TypeInv, CountInv, InitGoals
<1>4. DataTypes'
  BY <1>1 DEF TypeInv, DataTypes
<1> QED BY <1>3, <1>4 DEF TypeInv

\* A call comes back.
LEMMA ReplyType ==
    ASSUME TypeInv, NEW r \in {"OK", "ERROR", "NOTRDY"}, Reply(r), UNCHANGED card,
           stat' \in BOOLEAN, cardType' \in CardTypes
    PROVE  TypeInv'
<1>1. CtrlInv' /\ goal' = "ready"
  BY ReplyCtrl DEF TypeInv
<1>2. UNCHANGED <<kind, mode, app, busy, at, mem, stored>>
  BY DEF card
<1>3. SdMediaTypeOK'
  BY <1>2 DEF TypeInv, DataTypes, SdMediaTypeOK
<1>4. /\ call' = call /\ left' = 0 /\ buf' = << >> /\ time2' = time2 /\ masked' = masked
      /\ ty' = "none" /\ token' = "FE" /\ answer' = [result |-> r, data |-> buf]
  BY DEF Reply
<1>5. call.count \in Nat
  BY CallCount DEF TypeInv, CtrlInv
<1>6. CountInv'
  BY <1>1, <1>4, <1>5 DEF CountInv
<1>7. answer'.result = r /\ answer'.data = buf /\ NSectors \in Nat
  BY <1>4, SdMediaAssumption
<1>8. DataTypes'
  BY <1>1, <1>3, <1>4, <1>7
  DEF TypeInv, DataTypes, CardTypes
<1> QED BY <1>1, <1>6, <1>8 DEF TypeInv

\* A block has been read, or not.
LEMMA ReceivedType ==
    ASSUME TypeInv, goal \in {"token", "tokenTime"}, SdMediaTypeOK',
           NEW ok \in BOOLEAN, Received(ok),
           \/ ok /\ \E d \in Data : buf' = Append(buf, d)
           \/ ~ok /\ UNCHANGED buf
    PROVE  TypeInv'
<1>1. CtrlInv' /\ goal' \in {"token", "return"}
  BY ReceivedCtrl DEF TypeInv
<1>2. call.op = "read"
  BY DEF TypeInv, CtrlInv, Legal, InitGoals, ReadGoals, WriteGoals
<1>3. call.count \in Nat /\ call.count <= NSectors /\ left >= 1 /\ left \in Nat /\ left <= call.count
      /\ NSectors \in Nat
  BY CallCount, SdMediaAssumption DEF TypeInv, CtrlInv, CountInv
<1>4. /\ UNCHANGED <<stat, cardType, ty, token, masked, call, answer>>
      /\ left' = IF ok THEN left - 1 ELSE left
  BY DEF Received, drive, caller
<1>5. time2' \in 0..MaxTime
  BY SendTime, Times DEF Received, Plain, TypeInv, DataTypes
<1>6. buf' \in Seq(Data) /\ Len(buf') + left' <= call.count
  <2>1. buf \in Seq(Data) /\ Len(buf) + left <= call.count
    BY DEF TypeInv, DataTypes, CountInv
  <2> QED BY <1>3, <1>4, <2>1
<1>7. goal' = "token" => left' >= 1
  <2>1. CASE ok /\ left > 1
    BY <1>3, <1>4, <2>1
  <2>2. CASE ~ok \/ call.count = 1 \/ ~(left > 1)
    <3>1. SendCmd("CMD12", "return") \/ pc' = "return"
      BY <1>3, <2>2 DEF Received
    <3>2. CASE SendCmd("CMD12", "return")
      <4>1. CtrlInv /\ Sends("return", "CMD12") /\ Legal(call.op, "return")
        BY <1>2 DEF TypeInv, Sends, Legal, ReadGoals
      <4> QED BY <1>2, <1>4, <3>2, <4>1, SendCtrl
    <3>3. CASE pc' = "return"
      BY <3>3 DEF goal, Sending
    <3> QED BY <3>1, <3>2, <3>3
  <2> QED BY <2>1, <2>2
<1>8. CountInv'
  BY <1>1, <1>2, <1>3, <1>4, <1>6, <1>7 DEF CountInv
<1>9. DataTypes'
  BY <1>1, <1>3, <1>4, <1>5, <1>6
  DEF TypeInv, DataTypes
<1> QED BY <1>1, <1>8, <1>9 DEF TypeInv

\* A block or the stop token has been sent, or not.
LEMMA XmittedType ==
    ASSUME TypeInv, goal = "xmit", SdMediaTypeOK', NEW ok \in BOOLEAN, Xmitted(ok)
    PROVE  TypeInv'
<1>1. CtrlInv' /\ goal' \in {"xmit", "return"}
  BY XmittedCtrl DEF TypeInv, DataTypes
<1>2. call.op = "write" /\ call.count \in Nat /\ call.count >= 1 /\ call.count <= NSectors
      /\ NSectors \in Nat
  BY CallCount, SdMediaAssumption DEF TypeInv, CtrlInv
<1>3. UNCHANGED <<stat, cardType, ty, masked, call, answer, buf>> /\ buf = << >>
  BY <1>2 DEF Xmitted, drive, caller, TypeInv, CountInv
<1>4. left \in 0..call.count /\ token \in {"FC", "FD", "FE"} /\ (token \in {"FC", "FE"} => left >= 1)
  BY DEF TypeInv, DataTypes, CountInv
<1>5. /\ left' \in 0..call.count
      /\ token' \in {"FC", "FD", "FE"}
      /\ goal' = "xmit" /\ token' \in {"FC", "FE"} => left' >= 1
      /\ time2' \in 0..MaxTime
  <2>1. CASE token = "FE"
    <3>1. /\ left' = IF ok THEN 0 ELSE left
          /\ pc' = "return" /\ UNCHANGED <<token, time2>>
      BY <2>1 DEF Xmitted
    <3>2. goal' = "return"
      BY <3>1 DEF goal, Sending
    <3> QED BY <1>2, <1>4, <3>1, <3>2 DEF TypeInv, DataTypes
  <2>2. CASE token = "FC"
    <3>1. /\ left' = IF ok THEN left - 1 ELSE left
          /\ token' = IF ok /\ left > 1 THEN "FC" ELSE "FD"
          /\ time2' = CmdTime
      BY <2>2 DEF Xmitted, WaitReady
    <3> QED BY <1>2, <1>4, <2>2, <3>1, Times
  <2>3. CASE token = "FD"
    <3>1. /\ left' = IF ok THEN left ELSE 1
          /\ UNCHANGED <<token, time2>>
      BY <2>3 DEF Xmitted
    <3> QED BY <1>2, <1>4, <2>3, <3>1 DEF TypeInv, DataTypes
  <2> QED BY <1>4, <2>1, <2>2, <2>3
<1>6. CountInv'
  BY <1>1, <1>2, <1>3, <1>5 DEF CountInv
<1>7. DataTypes'
  BY <1>1, <1>2, <1>3, <1>5
  DEF TypeInv, DataTypes
<1> QED BY <1>1, <1>6, <1>7 DEF TypeInv

LEMMA InitTypeInv == Init => TypeInv
<1> SUFFICES ASSUME Init PROVE TypeInv
  OBVIOUS
<1>1. call \in Calls /\ pc = "ready"
  BY DEF Init
<1>2. SdMediaTypeOK
  <2>1. PICK f \in Fresh : kind = f.kind /\ mem = f.mem /\ busy = f.busy
    BY DEF Init, MediaInit
  <2>2. kind \in Kinds /\ mem \in [Sectors -> Data] /\ busy \in BOOLEAN
    BY <2>1, FreshType
  <2>3. mode = "native" /\ app = FALSE /\ at = 0 /\ stored = 0
    BY DEF Init, MediaInit
  <2>4. "native" \in Modes /\ 0 \in 0..NSectors
    BY SdMediaAssumption DEF Modes
  <2> QED BY <2>2, <2>3, <2>4 DEF SdMediaTypeOK
<1>3. 0 \in 0..MaxTime
  BY SdDriverAssumption DEF MaxTime
<1>4. DataTypes
  <2>1. answer.result = "none" /\ answer.data = << >>
    BY DEF Init, NoAnswer
  <2>2. /\ stat = FALSE /\ cardType = "none" /\ ty = "none" /\ time2 = 0 /\ masked = FALSE
        /\ token = "FE" /\ buf = << >>
    BY DEF Init
  <2>3. buf \in Seq(Data) /\ answer.data \in Seq(Data)
    BY <2>1, <2>2
  <2>4. cardType \in CardTypes /\ ty \in CardTypes
    BY <2>2 DEF CardTypes
  <2> QED BY <1>2, <1>3, <2>1, <2>2, <2>3, <2>4 DEF DataTypes
<1>5. CountInv
  BY <1>1, CallCount DEF Init, CountInv, goal, Sending
<1> QED BY <1>4, <1>5, InitCtrlInv DEF TypeInv

LEMMA InvokeTypeInv == ASSUME TypeInv, NEW c \in Calls, Invoke(c) PROVE TypeInv'
<1>1. CtrlInv'
  BY InvokeCtrlInv DEF TypeInv
<1>2. /\ pc = "ready" /\ pc' = "begin" /\ call' = c /\ left' = c.count /\ masked' \in BOOLEAN
      /\ stored' = 0 /\ answer' = NoAnswer
      /\ UNCHANGED <<kind, mode, app, busy, at, mem, stat, cardType, ty, token, buf, time2>>
  BY DEF Invoke, Plain, drive
<1>3. DataTypes'
  BY <1>2 DEF TypeInv, DataTypes, SdMediaTypeOK, NoAnswer
<1>4. CountInv'
  BY <1>2, CallCount DEF TypeInv, CountInv, goal, Sending
<1> QED BY <1>1, <1>3, <1>4 DEF TypeInv

LEMMA ReplyStepTypeInv == ASSUME TypeInv, NotReady \/ InitDone \/ Return PROVE TypeInv'
<1>1. PICK r \in {"OK", "ERROR", "NOTRDY"} : Reply(r)
  BY DEF NotReady, InitDone, Return
<1>2. UNCHANGED card
  BY DEF NotReady, InitDone, Return
<1>3. stat' \in BOOLEAN /\ cardType' \in CardTypes
  <2>1. CASE UNCHANGED drive
    BY <2>1 DEF drive, TypeInv, DataTypes
  <2>2. CASE InitDone
    BY <2>2 DEF InitDone, TypeInv, DataTypes
  <2> QED BY <2>1, <2>2 DEF NotReady, Return
<1> QED BY <1>1, <1>2, <1>3, ReplyType

LEMMA CardSame == SdMediaTypeOK /\ UNCHANGED card => SdMediaTypeOK'
BY DEF SdMediaTypeOK, card

LEMMA BeginTypeInv == TypeInv /\ Begin => TypeInv'
<1> SUFFICES ASSUME TypeInv, Begin PROVE TypeInv'
  OBVIOUS
<1>1. /\ CtrlInv' /\ goal' \in {"CMD0", "reading", "erased", "writing", "ioctl"}
      /\ goal' \in {"reading", "erased", "writing"} => call.op \in {"read", "write"}
  <2>1. CtrlInv' /\ goal' \in {"CMD0", "reading", "erased", "writing", "ioctl"}
    BY BeginCtrlInv DEF TypeInv
  <2>2. call' = call
    BY DEF Begin, caller
  <2> QED BY <2>1, <2>2 DEF CtrlInv, Legal, InitGoals, ReadGoals, WriteGoals
<1>2. time2' \in 0..MaxTime
  BY SendTime, Times DEF Begin, WaitReady
<1>3. UNCHANGED <<card, drive, ty, token, left, buf, caller>>
  BY DEF Begin, transfer
<1>4. SdMediaTypeOK' /\ token' \in {"FC", "FD", "FE"} /\ ty' \in CardTypes
  BY <1>3, CardSame DEF TypeInv, DataTypes
<1>5. pc = "begin"
  BY DEF Begin
<1>6. left = call.count
  BY <1>5 DEF TypeInv, CountInv, goal, Sending
<1>7. \/ goal' \in InitGoals \cup {"return", "ioctl"}
      \/ left = call.count /\ call.count >= 1 /\ goal' \notin {"ready", "begin"}
  BY <1>1, <1>6, CallCount DEF TypeInv, CtrlInv, InitGoals
<1> QED BY <1>1, <1>2, <1>3, <1>4, <1>7, MoveType

\* wait_ready and send_cmd.
LEMMA PollTypeInv == TypeInv /\ Poll => TypeInv'
<1> SUFFICES ASSUME TypeInv, Poll PROVE TypeInv'
  OBVIOUS
<1>1. CASE ~busy /\ waiter = "ioctl"
  BY <1>1, ReplyType DEF Poll, drive, TypeInv, DataTypes
<1>2. CASE ~(~busy /\ waiter = "ioctl")
  <2>1. /\ pc = "poll" /\ pc' = (IF busy THEN "pollTime" ELSE waiter)
        /\ UNCHANGED <<card, drive, waiter, cmd, pre, ret, res, ty, token, left, buf, caller, time2>>
    BY <1>2 DEF Poll, Plain, sending, transfer
  <2>2. CtrlInv'
    BY PollCtrlInv DEF TypeInv
  <2>3. goal' = goal
    BY <1>2, <2>1 DEF TypeInv, CtrlInv, Sending, goal
  <2>4. SdMediaTypeOK' /\ token' \in {"FC", "FD", "FE"} /\ ty' \in CardTypes /\ time2' \in 0..MaxTime
    BY <2>1, CardSame DEF TypeInv, DataTypes
  <2> QED BY <2>1, <2>2, <2>3, <2>4, MoveType
<1> QED BY <1>1, <1>2

LEMMA PollTimeTypeInv == TypeInv /\ PollTime => TypeInv'
<1> SUFFICES ASSUME TypeInv, PollTime PROVE TypeInv'
  OBVIOUS
<1>1. UNCHANGED card /\ SdMediaTypeOK'
  BY CardSame DEF PollTime, TypeInv, DataTypes
<1>2. CtrlInv'
  BY PollTimeCtrlInv DEF TypeInv, DataTypes
<1>3. CASE waiter = "xmit" /\ Xmitted(FALSE)
  <2>1. goal = "xmit"
    BY <1>3 DEF PollTime, Sending, goal
  <2> QED BY <1>1, <1>3, <2>1, XmittedType
<1>4. CASE Reply("ERROR") /\ UNCHANGED drive
  BY <1>1, <1>4, ReplyType DEF drive, TypeInv, DataTypes
<1>5. CASE pc' = "poll" /\ Plain /\ UNCHANGED <<drive, ty, transfer, caller>>
  <2>1. /\ pc = "pollTime"
        /\ UNCHANGED <<waiter, cmd, pre, ret, res, time2, drive, ty, token, left, buf, caller>>
    BY <1>5 DEF PollTime, Plain, sending, transfer
  <2>2. goal' = goal
    BY <1>5, <2>1 DEF Sending, goal
  <2>3. token' \in {"FC", "FD", "FE"} /\ ty' \in CardTypes /\ time2' \in 0..MaxTime
    BY <2>1 DEF TypeInv, DataTypes
  <2> QED BY <1>1, <1>2, <2>1, <2>2, <2>3, MoveType
<1>6. CASE /\ waiter = "send_cmd" /\ pc' = ret /\ res' = 255
           /\ UNCHANGED <<drive, time2, waiter, cmd, pre, ret, ty, transfer, caller>>
  <2>1. Sending /\ goal = ret
    BY <1>6 DEF PollTime, Sending, goal
  <2>2. ret \in Labels
    BY <2>1 DEF TypeInv, CtrlInv, Sends, Labels, InitGoals, ReadGoals, WriteGoals
  <2>3. goal' = goal
    BY <1>6, <2>1, <2>2 DEF Sending, goal, Labels, InitGoals, ReadGoals, WriteGoals
  <2>4. /\ token' \in {"FC", "FD", "FE"} /\ ty' \in CardTypes /\ time2' \in 0..MaxTime
        /\ UNCHANGED <<drive, token, left, buf, caller>>
    BY <1>6 DEF TypeInv, DataTypes, transfer
  <2> QED BY <1>1, <1>2, <2>3, <2>4, MoveType
<1> QED BY <1>3, <1>4, <1>5, <1>6 DEF PollTime

LEMMA PacketTypeInv == TypeInv /\ Packet => TypeInv'
<1> SUFFICES ASSUME TypeInv, Packet PROVE TypeInv'
  OBVIOUS
<1>1. CtrlInv' /\ goal' = goal
  BY PacketCtrlInv DEF TypeInv
<1>2. SdMediaTypeOK'
  BY AnswerType DEF Packet, TypeInv, DataTypes
<1>3. time2' \in 0..MaxTime
  BY Times DEF Packet, WaitReady, TypeInv, DataTypes
<1>4. /\ UNCHANGED <<drive, ty, token, left, buf, caller>>
      /\ token' \in {"FC", "FD", "FE"} /\ ty' \in CardTypes
  BY DEF Packet, transfer, TypeInv, DataTypes
<1> QED BY <1>1, <1>2, <1>3, <1>4, MoveType

LEMMA InitTypes == TypeInv /\ (Identify \/ InitV2 \/ InitOld) => TypeInv'
<1> SUFFICES ASSUME TypeInv, Identify \/ InitV2 \/ InitOld PROVE TypeInv'
  OBVIOUS
<1>1. CtrlInv' /\ goal' \in InitGoals
  BY IdentifyCtrlInv, InitV2CtrlInv, InitOldCtrlInv DEF TypeInv
<1>2. UNCHANGED <<card, drive, token, left, buf, caller>>
  BY DEF Identify, InitV2, InitOld, transfer
<1>3. ty' \in CardTypes
  BY DEF Identify, InitV2, InitOld, TypeInv, DataTypes, CardTypes
<1>4. time2' \in 0..MaxTime
  BY SendTime, Times DEF Identify, InitV2, InitOld, RepeatUntilReady, SetBlockLength, Plain,
                         TypeInv, DataTypes
<1>5. SdMediaTypeOK' /\ token' \in {"FC", "FD", "FE"}
  BY <1>2, CardSame DEF TypeInv, DataTypes
<1> QED BY <1>1, <1>2, <1>3, <1>4, <1>5, MoveType

LEMMA TransferTypes == TypeInv /\ (Reading \/ Erased \/ Writing) => TypeInv'
<1> SUFFICES ASSUME TypeInv, Reading \/ Erased \/ Writing PROVE TypeInv'
  OBVIOUS
<1>1. CtrlInv' /\ goal' \in {"token", "writing", "xmit", "return"}
  BY ReadingCtrlInv, ErasedCtrlInv, WritingCtrlInv DEF TypeInv
<1>2. goal = pc /\ pc \in {"reading", "erased", "writing"}
  BY DEF Reading, Erased, Writing, goal, Sending
<1>3. left = call.count /\ call.count >= 1
  <2>1. call.op \in {"read", "write"}
    BY <1>2 DEF TypeInv, CtrlInv, Legal, InitGoals, ReadGoals, WriteGoals
  <2> QED BY <1>2, <2>1, CallCount DEF TypeInv, CtrlInv, CountInv
<1>4. /\ UNCHANGED <<card, drive, ty, left, buf, caller>>
      /\ token' \in {"FC", "FD", "FE"}
  BY DEF Reading, Erased, Writing, transfer, TypeInv, DataTypes
<1>5. time2' \in 0..MaxTime
  BY SendTime, Times DEF Reading, Erased, Writing, WaitReady, TypeInv, DataTypes
<1>6. SdMediaTypeOK' /\ ty' \in CardTypes
  BY <1>4, CardSame DEF TypeInv, DataTypes
<1> QED BY <1>1, <1>3, <1>4, <1>5, <1>6, MoveType

LEMMA TokenTypeInv == TypeInv /\ (Token \/ TokenTime) => TypeInv'
<1> SUFFICES ASSUME TypeInv, Token \/ TokenTime PROVE TypeInv'
  OBVIOUS
<1>1. CtrlInv' /\ goal' \in {"token", "tokenTime", "return"}
  BY TokenCtrlInv DEF TypeInv
<1>2. goal \in {"token", "tokenTime"}
  BY DEF Token, TokenTime, goal, Sending
<1>3. CASE SendBlock /\ buf' = Append(buf, mem[at]) /\ Received(TRUE)
  <2>1. SdMediaTypeOK' /\ mem[at] \in Data
    BY <1>3, SendBlockType DEF TypeInv, DataTypes
  <2> QED BY <1>2, <1>3, <2>1, ReceivedType
<1>4. CASE UNCHANGED <<card, buf>> /\ Received(FALSE)
  <2>1. SdMediaTypeOK'
    BY <1>4, CardSame DEF TypeInv, DataTypes
  <2> QED BY <1>2, <1>4, <2>1, ReceivedType
<1>5. CASE pc' \in {"token", "tokenTime"} /\ Plain /\ UNCHANGED <<card, drive, ty, transfer, caller>>
  <2>1. goal' \in {"token", "tokenTime"}
    BY <1>5 DEF goal, Sending
  <2>2. UNCHANGED <<card, stat, cardType, ty, token, left, buf, masked, call, answer, time2>>
    BY <1>5 DEF drive, transfer, caller, Plain
  <2>3. SdMediaTypeOK'
    BY <2>2, CardSame DEF TypeInv, DataTypes
  <2>4. CountInv' /\ DataTypes'
    BY <1>2, <2>1, <2>2, <2>3 DEF TypeInv, CountInv, DataTypes
  <2> QED BY <1>1, <2>4 DEF TypeInv
<1> QED BY <1>3, <1>4, <1>5 DEF Token, TokenTime

LEMMA XmitTypeInv == TypeInv /\ Xmit => TypeInv'
<1> SUFFICES ASSUME TypeInv, Xmit PROVE TypeInv'
  OBVIOUS
<1>1. goal = "xmit" /\ call.op = "write"
  BY DEF Xmit, goal, Sending, TypeInv, CtrlInv
<1>2. CASE TakeStop /\ Xmitted(TRUE)
  BY <1>1, <1>2, TakeStopType, XmittedType DEF TypeInv, DataTypes
<1>3. ASSUME token # "FD", NEW ok \in BOOLEAN, TakeBlock(Block, ok), Xmitted(ok)
      PROVE  TypeInv'
  <2>1. left \in 1..call.count /\ call.count \in Nat
    BY <1>1, <1>3, CallCount DEF TypeInv, DataTypes, CtrlInv, CountInv
  <2>2. call.count - left + 1 \in 1..call.count
    BY <2>1
  <2>3. Block \in Data
    BY <1>1, <2>2, CallCount DEF Block, TypeInv, CtrlInv
  <2> QED BY <1>1, <1>3, <2>3, TakeBlockType, XmittedType DEF TypeInv, DataTypes
<1> QED BY <1>2, <1>3 DEF Xmit

LEMMA EnvironmentTypeInv == TypeInv /\ (Tick \/ CardStep) => TypeInv'
<1> SUFFICES ASSUME TypeInv, Tick \/ CardStep PROVE TypeInv'
  OBVIOUS
<1>1. UNCHANGED <<pc, sending, waiter, drive, ty, token, left, buf, caller, call>>
  BY DEF Tick, CardStep, transfer, caller
<1>2. CtrlInv' /\ goal' = goal
  BY <1>1, OtherCtrlInv DEF TypeInv
<1>3. SdMediaTypeOK'
  BY CardSame, CardStepType DEF Tick, TypeInv, DataTypes
<1>4. token' \in {"FC", "FD", "FE"} /\ ty' \in CardTypes
  BY <1>1 DEF TypeInv, DataTypes
<1>5. time2' \in 0..MaxTime
  <2>1. time2 \in 0..MaxTime /\ (time2' = time2 \/ (time2 > 0 /\ time2' = time2 - 1))
    BY DEF Tick, CardStep, TypeInv, DataTypes
  <2> QED BY <2>1, Times
<1> QED BY <1>1, <1>2, <1>3, <1>4, <1>5, MoveType

LEMMA StutterTypeInv == TypeInv /\ UNCHANGED vars => TypeInv'
<1> SUFFICES ASSUME TypeInv, UNCHANGED vars PROVE TypeInv'
  OBVIOUS
<1>1. UNCHANGED <<card, pc, sending, waiter, drive, ty, token, left, buf, caller, call, time2>>
  BY DEF vars, transfer, caller
<1>2. CtrlInv' /\ goal' = goal
  BY <1>1, OtherCtrlInv DEF TypeInv
<1>3. /\ SdMediaTypeOK' /\ token' \in {"FC", "FD", "FE"} /\ ty' \in CardTypes
      /\ time2' \in 0..MaxTime
  BY <1>1, CardSame DEF TypeInv, DataTypes
<1> QED BY <1>1, <1>2, <1>3, MoveType

LEMMA NextTypeInv == TypeInv /\ [Next]_vars => TypeInv'
BY InvokeTypeInv, ReplyStepTypeInv, BeginTypeInv, PollTypeInv, PollTimeTypeInv, PacketTypeInv,
   InitTypes, TransferTypes, TokenTypeInv, XmitTypeInv, EnvironmentTypeInv, StutterTypeInv
   DEF Next, Driver

LEMMA Typed == Spec => []TypeInv
BY InitTypeInv, NextTypeInv, PTL DEF Spec

LEMMA TypeInvType == TypeInv => TypeOK
<1> SUFFICES ASSUME TypeInv PROVE TypeOK
  OBVIOUS
<1>1. /\ call \in Calls /\ waiter \in {"send_cmd", "xmit", "ioctl"} /\ pre \in BOOLEAN
      /\ res \in {0, 1, 4, 255}
      /\ pc \in Labels \cup {"poll", "pollTime", "send_cmd"}
  BY DEF TypeInv, CtrlInv
<1>2. left \in 0..NSectors /\ Len(buf) + left <= NSectors
  <2>1. /\ left \in 0..call.count /\ Len(buf) + left <= call.count
        /\ buf \in Seq(Data)
    BY DEF TypeInv, CountInv, DataTypes
  <2> QED BY <1>1, <2>1, CallCount, SdMediaAssumption
<1> QED BY <1>1, <1>2
        DEF TypeInv, DataTypes, TypeOK, MaxTime, Labels, InitGoals, ReadGoals, WriteGoals

\* A transfer never has more blocks left, or more data read, than it was called for:
\* the counts of disk_read and disk_write (fatfs_sd.c, lines 378-395 and 430-450) stay
\* in their range for every capacity, whatever the card answers.
THEOREM TypeCorrect == Spec => []TypeOK
BY Typed, TypeInvType, PTL

-----------------------------------------------------------------------------
(***************************************************************************)
(* What disk_initialize has found out of the card, at each of its labels,  *)
(* and what the drive remembers of it afterwards.                          *)
(***************************************************************************)
Known == cardType = "sdhc" <=> kind = "sdhc"

ModeInv ==
    /\ ty # "none" => goal \in {"loop", "CMD16", "typed"}
    /\ pc = "CMD0" /\ res = 1 => mode = "idle"
    /\ goal \in {"timed", "CMD8"} => mode = "idle"
    /\ pc = "CMD8" /\ res = 1 => kind \in {"sdhc", "sd2"}
    /\ goal \in {"ACMD41 HCS", "CMD58"} =>
          kind \in {"sdhc", "sd2"} /\ mode \in {"idle", "ready"}
    /\ goal = "CMD58" \/ (pc = "ACMD41 HCS" /\ res = 0) => mode = "ready"
    /\ goal \in {"ACMD41", "loop", "CMD16"} =>
          mode \in {"idle", "ready"} /\ (kind = "sdhc" => mode = "idle") /\ ty # "sdhc"
    /\ pc = "CMD16" /\ res = 0 => mode = "ready"
    /\ pc = "typed" /\ ty # "none" => mode = "ready" /\ (ty = "sdhc" <=> kind = "sdhc")
    /\ (call.op # "initialize" \/ goal \in {"ready", "begin"}) =>
          (stat /\ mode # "native" => mode # "idle" /\ Known)

\* No command but CMD0 takes a card into the idle state or out of its native one.
LEMMA AnswerMode ==
    ASSUME NEW c, c # "CMD0", NEW arg, NEW r, Answer(c, arg, r)
    PROVE  /\ UNCHANGED kind
           /\ mode' = "native" <=> mode = "native"
           /\ mode' = "idle" => mode = "idle"
<1>1. CASE UNCHANGED mode
  BY <1>1 DEF Answer
<1>2. CASE Listening(c) /\ mode' = Quiet
  BY <1>2 DEF Answer, Listening, Quiet
<1>3. CASE Listening(c) /\ OpCond(c, r)
  BY <1>3 DEF Answer, Listening, OpCond, Quiet
<1>4. CASE Listening(c) /\ Transfer(c, arg, r)
  <2>1. mode # "native" /\ UNCHANGED kind
    BY <1>4 DEF Answer, Listening
  <2>2. mode' \in {"sendOne", "sendMany", "recvOne", "recvMany"}
    BY <1>4 DEF Transfer, TransferMode
  <2> QED BY <2>1, <2>2
<1> QED BY <1>1, <1>2, <1>3, <1>4 DEF Answer, Obeys

LEMMA AnswerReset == ASSUME NEW arg, Answer("CMD0", arg, 1) PROVE mode' = "idle"
BY DEF Answer, Obeys, OpCond, Transfer

LEMMA Codes == 1 # 0 /\ 4 # 0 /\ 4 # 1 /\ 255 # 0 /\ 255 # 1
OBVIOUS

InitCmds == {"CMD1", "CMD8", "CMD16", "CMD55", "CMD58", "ACMD41", "ACMD41 HCS"}

\* The answers of a card that is being initialised.
InitReply(c, r) ==
    /\ UNCHANGED kind /\ mode' \in {"idle", "ready"}
    /\ mode = "ready" => mode' = "ready"
    /\ c \in {"CMD8", "CMD16", "CMD55", "CMD58"} => mode' = mode
    /\ c \in {"CMD16", "ACMD41 HCS"} /\ r = 0 => mode' = "ready"
    /\ c = "CMD8" /\ r = 1 => kind \in {"sdhc", "sd2"}
    /\ c \in {"ACMD41", "CMD1"} /\ kind = "sdhc" => mode' = mode

LEMMA InitAnswer ==
    ASSUME mode \in {"idle", "ready"},
           NEW c \in InitCmds,
           NEW arg, NEW r \in {0, 1, 4, 255}, Answer(c, arg, r)
    PROVE  InitReply(c, r)
<1> USE DEF InitReply
<1>1. Quiet = mode /\ R1 = IF mode = "idle" THEN 1 ELSE 0
  BY DEF Quiet, R1
<1>2. ~Transfer(c, arg, r)
  BY DEF Transfer, TransferMode, InitCmds
<1>3. UNCHANGED kind
  BY DEF Answer
<1>4. CASE mode' = mode /\ r \notin {0, 1}
  BY <1>3, <1>4
<1>5. CASE Obeys(c, r)
  <2>1. mode' = mode /\ c # "ACMD41 HCS"
    BY <1>1, <1>5 DEF Obeys, InitCmds
  <2>2. c = "CMD16" /\ r = 0 => mode = "ready"
    BY <1>1, <1>5 DEF Obeys
  <2>3. c = "CMD8" => kind \in {"sdhc", "sd2"}
    BY <1>5 DEF Obeys
  <2> QED BY <1>3, <2>1, <2>2, <2>3
<1>6. CASE OpCond(c, r)
  <2>1. mode = "idle" /\ c \in {"ACMD41", "ACMD41 HCS", "CMD1"}
    BY <1>1, <1>6 DEF OpCond
  <2>2. (r = 1 /\ mode' = "idle") \/ (r = 0 /\ mode' = "ready")
    BY <1>6 DEF OpCond
  <2>3. c # "ACMD41 HCS" /\ kind = "sdhc" => mode' = "idle"
    BY <1>6 DEF OpCond
  <2>4. r = 0 => mode' = "ready"
    BY <2>2, Codes, Zenon
  <2> QED BY <1>3, <2>1, <2>2, <2>3, <2>4
<1>7. (r \in {4, 255} /\ mode' = mode) \/ Obeys(c, r) \/ OpCond(c, r)
  BY <1>1, <1>2 DEF Answer
<1>8. CASE r \in {4, 255} /\ mode' = mode
  <2>1. r \notin {0, 1}
    BY <1>8, Codes, Zenon
  <2> QED BY <1>4, <1>8, <2>1
<1> QED BY <1>5, <1>6, <1>7, <1>8

\* A call other than disk_initialize.
LEMMA OpMode ==
    ASSUME CtrlInv, CtrlInv', ModeInv, call.op # "initialize", call' = call,
           UNCHANGED <<kind, stat, cardType>>, ty' \in {ty, "none"},
           mode' = "native" <=> mode = "native", mode' = "idle" => mode = "idle"
    PROVE  ModeInv'
<1>1. goal \notin InitGoals /\ goal' \notin InitGoals
  BY DEF CtrlInv, Legal, InitGoals, ReadGoals, WriteGoals
<1>2. pc' \in InitGoals => goal' = pc'
  BY DEF goal, Sending, InitGoals
<1>3. ty' = "none"
  BY <1>1 DEF ModeInv, InitGoals
<1>4. Known' = Known
  BY DEF Known
<1> QED BY <1>1, <1>2, <1>3, <1>4 DEF ModeInv, InitGoals

LEMMA InvokeMode == ASSUME TypeInv, ModeInv, NEW c \in Calls, Invoke(c) PROVE ModeInv'
<1>1. /\ pc = "ready" /\ pc' = "begin" /\ UNCHANGED <<kind, mode, stat, cardType, ty>>
  BY DEF Invoke, drive
<1>2. goal = "ready" /\ goal' = "begin"
  BY <1>1 DEF goal, Sending
<1> QED BY <1>1, <1>2 DEF ModeInv, Known

\* The steps of disk_read, disk_write and the ioctl.
LEMMA TransferMoves ==
    ASSUME TypeInv, TypeInv', ModeInv, call.op # "initialize",
           \/ NotReady \/ Begin \/ Poll \/ PollTime \/ Packet
           \/ Reading \/ Token \/ TokenTime \/ Erased \/ Writing \/ Xmit \/ Return
    PROVE  ModeInv'
<1>1. call' = call /\ UNCHANGED <<stat, cardType>> /\ ty' \in {ty, "none"}
  BY DEF NotReady, Begin, Poll, PollTime, Packet, Reading, Token, TokenTime, Erased, Writing,
         Xmit, Return, Reply, Received, Xmitted, caller, drive
<1>2. /\ UNCHANGED kind /\ (mode' = "native" <=> mode = "native")
      /\ mode' = "idle" => mode = "idle"
  <2>1. CASE Packet
    <3>1. (IF pre THEN "CMD55" ELSE cmd) # "CMD0"
      <4>1. CtrlInv /\ ret = goal /\ Sends(ret, cmd)
        BY <2>1, PacketCtrlInv DEF TypeInv
      <4> QED BY <4>1 DEF CtrlInv, Legal, Sends, ReadGoals, WriteGoals
    <3> QED BY <2>1, <3>1, AnswerMode DEF Packet
  <2>2. CASE Token \/ TokenTime
    BY <2>2 DEF Token, TokenTime, SendBlock, CanSend, card
  <2>3. CASE Xmit
    <3>1. \/ TakeStop
          \/ \E ok \in BOOLEAN : TakeBlock(Block, ok)
      BY <2>3 DEF Xmit
    <3> QED BY <3>1 DEF TakeStop, TakeBlock
  <2>4. CASE UNCHANGED card
    BY <2>4 DEF card
  <2> QED BY <2>1, <2>2, <2>3, <2>4
          DEF NotReady, Begin, Poll, PollTime, Reading, Erased, Writing, Return
<1> QED BY <1>1, <1>2, OpMode DEF TypeInv

\* disk_initialize sends a command.
LEMMA SendMode ==
    ASSUME CtrlInv, ModeInv, NEW c, NEW l, SendCmd(c, l), UNCHANGED <<kind, mode, call>>,
           call.op = "initialize", Sends(l, c), Legal("initialize", l),
           l \in {"CMD0", "CMD8", "ACMD41 HCS", "CMD58", "ACMD41", "loop", "CMD16"},
           ty' # "none" => l \in {"loop", "CMD16"},
           l = "CMD8" => mode = "idle",
           l \in {"ACMD41 HCS", "CMD58"} => kind \in {"sdhc", "sd2"} /\ mode \in {"idle", "ready"},
           l = "CMD58" => mode = "ready",
           l \in {"ACMD41", "loop", "CMD16"} =>
              mode \in {"idle", "ready"} /\ (kind = "sdhc" => mode = "idle") /\ ty' # "sdhc"
    PROVE  ModeInv'
<1>1. goal' = l
  BY SendCtrl
<1>2. pc' \in {"poll", "send_cmd"}
  BY DEF SendCmd, WaitReady
<1> QED BY <1>1, <1>2 DEF ModeInv

\* disk_initialize goes on to a label.
LEMMA PlainGoal == ASSUME pc' \in InitGoals PROVE goal' = pc'
BY DEF goal, Sending, InitGoals

LEMMA IdentifyMode == ASSUME TypeInv, ModeInv, Identify PROVE ModeInv'
<1>1. /\ call.op = "initialize" /\ CtrlInv /\ CtrlInv' /\ goal' \in InitGoals
      /\ UNCHANGED <<kind, mode, call, ty>>
  BY IdentifyCtrlInv DEF TypeInv, Identify, card, caller
<1>2. goal = pc /\ pc \in {"CMD0", "timed", "CMD8"}
  BY DEF Identify, goal, Sending
<1>3. ty = "none"
  BY <1>2 DEF ModeInv
<1>4. CASE pc = "CMD0" /\ pc' = "timed" /\ res = 1
  BY <1>1, <1>3, <1>4, PlainGoal DEF ModeInv, InitGoals
<1>5. CASE pc = "CMD0" /\ pc' = "typed"
  BY <1>1, <1>3, <1>5, PlainGoal DEF ModeInv, InitGoals
<1>6. CASE pc = "CMD8" /\ res = 1 /\ pc' \in {"ACMD41 HCS", "typed"} /\ UNCHANGED sending
  <2>1. res' = 1 /\ goal' = pc' /\ ty' = "none" /\ call'.op = "initialize"
    BY <1>1, <1>3, <1>6, PlainGoal DEF sending, InitGoals
  <2>2. res' # 0
    BY <2>1
  <2>3. kind' \in {"sdhc", "sd2"} /\ mode' = "idle"
    BY <1>1, <1>2, <1>6 DEF ModeInv
  <2> QED BY <1>6, <2>1, <2>2, <2>3 DEF ModeInv
<1>7. CASE pc = "timed" /\ SendCmd("CMD8", "CMD8")
  <2>1. mode = "idle"
    BY <1>2, <1>7 DEF ModeInv
  <2> QED BY <1>1, <1>3, <1>7, <2>1, SendMode DEF Sends, Legal, InitGoals
<1>8. CASE pc = "CMD8" /\ SendCmd("ACMD41", "ACMD41")
  <2>1. mode = "idle"
    BY <1>2, <1>8 DEF ModeInv
  <2> QED BY <1>1, <1>3, <1>8, <2>1, SendMode DEF Sends, Legal, InitGoals
<1> QED BY <1>4, <1>5, <1>6, <1>7, <1>8 DEF Identify, Plain

LEMMA InitV2Mode == ASSUME TypeInv, ModeInv, InitV2 PROVE ModeInv'
<1>1. /\ call.op = "initialize" /\ CtrlInv /\ CtrlInv' /\ goal' \in InitGoals
      /\ UNCHANGED <<kind, mode, call>>
  BY InitV2CtrlInv DEF TypeInv, InitV2, card, caller
<1>2. goal = pc /\ pc \in {"ACMD41 HCS", "CMD58"}
  BY DEF InitV2, goal, Sending
<1>3. ty = "none" /\ kind \in {"sdhc", "sd2"} /\ mode \in {"idle", "ready"}
  BY <1>2 DEF ModeInv
<1>4. CASE pc = "ACMD41 HCS" /\ pc' = "typed" /\ UNCHANGED ty
  BY <1>1, <1>3, <1>4, PlainGoal DEF ModeInv, InitGoals
<1>5. CASE pc = "CMD58" /\ pc' = "typed"
            /\ ty' = IF res # 0 THEN ty ELSE IF kind = "sdhc" THEN "sdhc" ELSE "sd2"
  <2>1. mode = "ready"
    BY <1>2, <1>5 DEF ModeInv
  <2>2. goal' = "typed"
    BY <1>5, PlainGoal DEF InitGoals
  <2> QED BY <1>1, <1>3, <1>5, <2>1, <2>2 DEF ModeInv
<1>6. CASE SendCmd("ACMD41 HCS", "ACMD41 HCS") /\ UNCHANGED ty
  BY <1>1, <1>3, <1>6, SendMode DEF Sends, Legal, InitGoals
<1>7. CASE pc = "ACMD41 HCS" /\ res = 0 /\ SendCmd("CMD58", "CMD58") /\ UNCHANGED ty
  <2>1. mode = "ready"
    BY <1>7 DEF ModeInv
  <2> QED BY <1>1, <1>3, <1>7, <2>1, SendMode DEF Sends, Legal, InitGoals
<1> QED BY <1>4, <1>5, <1>6, <1>7 DEF InitV2

LEMMA InitOldMode == ASSUME TypeInv, ModeInv, InitOld PROVE ModeInv'
<1>1. /\ call.op = "initialize" /\ CtrlInv /\ CtrlInv' /\ goal' \in InitGoals
      /\ UNCHANGED <<kind, mode, call>>
  BY InitOldCtrlInv DEF TypeInv, InitOld, card, caller
<1>2. goal = pc /\ pc \in {"ACMD41", "loop", "CMD16"}
  BY DEF InitOld, goal, Sending
<1>3. mode \in {"idle", "ready"} /\ (kind = "sdhc" => mode = "idle") /\ ty # "sdhc"
  BY <1>2 DEF ModeInv
<1>4. CASE pc = "loop" /\ ty' = "none" /\ pc' = "typed"
  BY <1>1, <1>4, PlainGoal DEF ModeInv, InitGoals
<1>5. CASE pc = "CMD16" /\ ty' = (IF res # 0 THEN "none" ELSE ty) /\ pc' = "typed"
  <2>1. res = 0 => mode = "ready"
    BY <1>5 DEF ModeInv
  <2>2. goal' = "typed"
    BY <1>5, PlainGoal DEF InitGoals
  <2> QED BY <1>1, <1>3, <1>5, <2>1, <2>2 DEF ModeInv
<1>6. ASSUME ty' # "sdhc", NEW t, RepeatUntilReady(t) PROVE ModeInv'
  <2>1. PICK c \in {"ACMD41", "CMD1"} : SendCmd(c, "loop")
    BY <1>6 DEF RepeatUntilReady
  <2> QED BY <1>1, <1>3, <1>6, <2>1, SendMode DEF Sends, Legal, InitGoals
<1>7. CASE ty' # "sdhc" /\ SetBlockLength
  BY <1>1, <1>3, <1>7, SendMode DEF SetBlockLength, Sends, Legal, InitGoals
<1> QED BY <1>3, <1>4, <1>5, <1>6, <1>7 DEF InitOld

LEMMA InitDoneMode == ASSUME TypeInv, ModeInv, InitDone PROVE ModeInv'
<1>1. /\ pc = "typed" /\ pc' = "ready" /\ ty' = "none" /\ UNCHANGED <<kind, mode, call>>
      /\ cardType' = ty /\ stat' = (ty # "none")
  BY DEF InitDone, Reply, card
<1>2. goal' = "ready"
  BY <1>1 DEF goal, Sending
<1>3. stat' => mode' # "idle" /\ Known'
  BY <1>1 DEF ModeInv, Known
<1> QED BY <1>1, <1>2, <1>3 DEF ModeInv

LEMMA InitPacketMode ==
    ASSUME TypeInv, ModeInv, Packet, call.op = "initialize" PROVE ModeInv'
<1>1. /\ CtrlInv' /\ goal' = goal /\ goal = ret /\ call' = call
      /\ Sends(ret, cmd) /\ (pre => cmd \in Acmds)
  BY PacketCtrlInv DEF TypeInv
<1>2. pc = "send_cmd" /\ UNCHANGED ty
  BY DEF Packet
<1>3. goal \in InitGoals
  BY <1>1, <1>2 DEF TypeInv, CtrlInv, Legal, Sends, ReadGoals, WriteGoals
<1>4. goal' \notin {"ready", "begin"} /\ call'.op = "initialize"
  BY <1>1, <1>3 DEF InitGoals
<1>5. PICK r \in {0, 1, 4, 255} :
        /\ Answer(IF pre THEN "CMD55" ELSE cmd, Address, r)
        /\ IF pre /\ r <= 1
           THEN WaitReady("send_cmd") /\ pre' = FALSE /\ UNCHANGED res
           ELSE res' = r /\ pc' = ret /\ UNCHANGED <<pre, time2, waiter>>
  BY DEF Packet
<1>6. pc' = "poll" \/ (~(pre /\ r <= 1) /\ pc' = ret /\ res' = r)
  BY <1>5 DEF WaitReady
<1>10. ~(r <= 1) => r \in {4, 255}
  OBVIOUS
<1>7. pc' \in {"poll", goal}
  BY <1>1, <1>6
<1>8. CASE ret = "CMD0"
  <2>1. cmd = "CMD0" /\ pre # TRUE
    BY <1>1, <1>8 DEF Sends, Acmds, TypeInv, CtrlInv
  <2>2. pc' = "CMD0" /\ res' = 1 => mode' = "idle"
    BY <1>5, <1>6, <2>1, AnswerReset DEF TypeInv, CtrlInv
  <2> QED BY <1>1, <1>2, <1>4, <1>7, <1>8, <2>2 DEF ModeInv
<1>9. CASE ret # "CMD0"
  <2>1. mode \in {"idle", "ready"}
    BY <1>1, <1>3, <1>9 DEF Sends, ModeInv, InitGoals
  <2>2. PICK c \in InitCmds : c = IF pre THEN "CMD55" ELSE cmd
    BY <1>1, <1>3, <1>9 DEF Sends, InitGoals, InitCmds
  <2>3. PICK arg : Answer(c, arg, r)
    BY <1>5, <2>2
  <2>4. pre => pc' = "poll" \/ res' \in {4, 255}
    BY <1>6, <1>10
  <2>5. InitReply(c, r)
    BY <2>1, <2>3, InitAnswer
  <2>6. CASE ret = "CMD8"
    <3>1. c = "CMD8"
      BY <1>1, <2>2, <2>6 DEF Sends, Acmds, TypeInv, CtrlInv
    <3> QED BY <1>1, <1>2, <1>4, <1>6, <1>7, <2>5, <2>6, <3>1 DEF ModeInv, InitReply
  <2>7. CASE ret = "CMD58"
    <3>1. c = "CMD58"
      BY <1>1, <2>2, <2>7 DEF Sends, Acmds, TypeInv, CtrlInv
    <3> QED BY <1>1, <1>2, <1>4, <1>7, <2>5, <2>7, <3>1 DEF ModeInv, InitReply
  <2>8. CASE ret = "ACMD41 HCS"
    <3>1. c \in {"CMD55", "ACMD41 HCS"} /\ (c = "CMD55" => pre)
      BY <1>1, <2>2, <2>8 DEF Sends
    <3>2. pc' = "ACMD41 HCS" /\ res' = 0 => mode' = "ready"
      <4>1. CASE pre
        BY <1>6, <2>4, <4>1, <1>7, Codes, <1>1, <1>2, Zenon
      <4>2. CASE ~pre
        BY <1>6, <2>5, <3>1, <4>2 DEF InitReply
      <4> QED BY <4>1, <4>2
    <3> QED BY <1>1, <1>2, <1>4, <1>7, <2>5, <2>8, <3>2 DEF ModeInv, InitReply
  <2>9. CASE ret \in {"ACMD41", "loop"}
    <3>1. c \in {"CMD55", "ACMD41", "CMD1"}
      BY <1>1, <2>2, <2>9 DEF Sends
    <3> QED BY <1>1, <1>2, <1>4, <1>7, <2>5, <2>9, <3>1 DEF ModeInv, InitReply
  <2>10. CASE ret = "CMD16"
    <3>1. c = "CMD16"
      BY <1>1, <2>2, <2>10 DEF Sends, Acmds, TypeInv, CtrlInv
    <3> QED BY <1>1, <1>2, <1>4, <1>6, <1>7, <2>5, <2>10, <3>1 DEF ModeInv, InitReply
  <2> QED BY <1>1, <1>3, <1>9, <2>6, <2>7, <2>8, <2>9, <2>10 DEF Sends, InitGoals
<1> QED BY <1>8, <1>9

LEMMA InitWaitMode ==
    ASSUME TypeInv, TypeInv', ModeInv, Poll \/ PollTime, call.op = "initialize" PROVE ModeInv'
<1>1. waiter = "send_cmd" /\ goal = ret /\ pc \in {"poll", "pollTime"}
  BY DEF Poll, PollTime, goal, Sending, TypeInv, CtrlInv, Legal, InitGoals
<1>2. UNCHANGED <<kind, mode, stat, cardType, ty, call>>
  BY <1>1 DEF Poll, PollTime, card, drive, caller
<1>3. goal \in Labels
  BY <1>1 DEF TypeInv, CtrlInv, Sending, Sends, Labels, InitGoals, ReadGoals, WriteGoals
<1>4. /\ UNCHANGED <<waiter, ret>>
      /\ pc' \in {"poll", "pollTime", "send_cmd"} \/ (pc' = ret /\ res' = 255)
  BY <1>1 DEF Poll, PollTime, Plain, sending
<1>5. goal' = goal
  <2>1. CASE pc' \in {"poll", "pollTime", "send_cmd"}
    BY <1>1, <1>4, <2>1 DEF goal, Sending
  <2>2. CASE pc' = ret
    <3>1. ret \notin {"poll", "pollTime", "send_cmd"}
      BY <1>1, <1>3 DEF Labels, InitGoals, ReadGoals, WriteGoals
    <3>2. goal' = pc'
      BY <2>2, <3>1 DEF goal, Sending
    <3> QED BY <1>1, <2>2, <3>2
  <2> QED BY <1>4, <2>1, <2>2
<1>6. pc' \in {"poll", "pollTime", "send_cmd"} \/ (res' # 0 /\ res' # 1 /\ pc' # "typed")
  BY <1>1, <1>4, Codes DEF TypeInv, CtrlInv, Sending, Sends
<1> QED BY <1>2, <1>5, <1>6 DEF ModeInv, Known

LEMMA InitBeginMode == ASSUME TypeInv, ModeInv, Begin, call.op = "initialize" PROVE ModeInv'
<1>1. SendCmd("CMD0", "CMD0") /\ UNCHANGED <<kind, mode, ty, call>> /\ goal = "begin"
  BY DEF Begin, card, caller, goal, Sending
<1>2. ty = "none"
  BY <1>1 DEF ModeInv
<1> QED BY <1>1, <1>2, SendMode DEF Sends, Legal, InitGoals, TypeInv

LEMMA DriverMode == ASSUME TypeInv, TypeInv', ModeInv, Driver PROVE ModeInv'
<1>1. CASE call.op # "initialize"
  <2>1. ~(Identify \/ InitV2 \/ InitOld \/ InitDone)
    <3>1. CASE InitDone
      <4>1. goal = "typed"
        BY <3>1 DEF InitDone, goal, Sending
      <4> QED BY <1>1, <4>1 DEF TypeInv, CtrlInv, Legal, InitGoals, ReadGoals, WriteGoals
    <3>2. CASE Identify \/ InitV2 \/ InitOld
      BY <1>1, <3>2, IdentifyCtrlInv, InitV2CtrlInv, InitOldCtrlInv DEF TypeInv
    <3> QED BY <3>1, <3>2
  <2> QED BY <1>1, <2>1, TransferMoves DEF Driver
<1>2. CASE call.op = "initialize"
  <2>1. ~(NotReady \/ Reading \/ Token \/ TokenTime \/ Erased \/ Writing \/ Xmit \/ Return)
    <3>1. NotReady => call.op # "initialize"
      BY DEF NotReady
    <3>2. ASSUME Reading \/ Token \/ TokenTime \/ Erased \/ Writing \/ Xmit \/ Return PROVE FALSE
      <4>1. goal \in ReadGoals \cup WriteGoals
        BY <3>2 DEF Reading, Token, TokenTime, Erased, Writing, Xmit, Return, goal, Sending,
                    ReadGoals, WriteGoals
      <4> QED BY <1>2, <4>1 DEF TypeInv, CtrlInv, Legal, InitGoals, ReadGoals, WriteGoals
    <3> QED BY <1>2, <3>1, <3>2
  <2> QED BY <1>2, <2>1, InitBeginMode, InitWaitMode, InitPacketMode, IdentifyMode, InitV2Mode,
             InitOldMode, InitDoneMode DEF Driver
<1> QED BY <1>1, <1>2

LEMMA EnvironmentMode == ASSUME TypeInv, ModeInv, Tick \/ CardStep \/ UNCHANGED vars PROVE ModeInv'
<1>1. UNCHANGED <<pc, sending, waiter, stat, cardType, ty, call, res>>
  BY DEF Tick, CardStep, vars, caller, drive, sending
<1>2. goal' = goal
  BY <1>1, OtherCtrlInv DEF TypeInv
<1>3. CASE UNCHANGED <<kind, mode>>
  BY <1>1, <1>2, <1>3 DEF ModeInv, Known
<1>4. CASE pc = "ready" /\ Exchange
  <2>1. goal = "ready" /\ mode' = "native"
    BY <1>4 DEF Exchange, goal, Sending
  <2> QED BY <1>1, <1>2, <1>4, <2>1 DEF ModeInv
<1> QED BY <1>3, <1>4 DEF Tick, CardStep, CardDone, vars, card

LEMMA InitMode == Init => ModeInv
<1> SUFFICES ASSUME Init PROVE ModeInv
  OBVIOUS
<1>1. pc = "ready" /\ stat = FALSE /\ ty = "none" /\ goal = "ready"
  BY DEF Init, goal, Sending
<1> QED BY <1>1 DEF ModeInv

LEMMA NextMode == TypeInv /\ TypeInv' /\ ModeInv /\ [Next]_vars => ModeInv'
BY InvokeMode, DriverMode, EnvironmentMode DEF Next

LEMMA ModeReady == ModeInv => ReadyMeansReady
<1> SUFFICES ASSUME ModeInv, pc = "ready" PROVE ReadyMeansReady
  BY DEF ReadyMeansReady
<1>1. goal = "ready"
  BY DEF goal, Sending
<1> QED BY <1>1 DEF ModeInv, ReadyMeansReady, Known

\* A drive that disk_initialize has found ready is addressed the way its card counts, by
\* block if and only if it is SDHC (fatfs_sd.c, lines 297-301, 374, 426), for every card,
\* length of the timeouts and sequence of calls.
THEOREM ReadyIsReady == Spec => []ReadyMeansReady
<1>1. Spec => []ModeInv
  BY InitMode, Typed, NextMode, PTL DEF Spec
<1> QED BY <1>1, ModeReady, PTL

-----------------------------------------------------------------------------
(***************************************************************************)
(* The SD card driver keeps the promise of BlockDevice: every step of      *)
(* SdDriver is a step of BlockDevice or none of its business, for every    *)
(* capacity, set of calls and length of the timeouts.                      *)
(***************************************************************************)

(***************************************************************************)
(* How far a transfer has come: the driver's count, the card's position    *)
(* and the blocks moved agree.                                             *)
(***************************************************************************)
Sends1 == mode \in {"sendOne", "sendMany"}
Takes1 == mode \in {"recvOne", "recvMany"}

ReadInv ==
    /\ call.op = "read" /\ goal # "ready" =>
          /\ Len(buf) + left = call.count
          /\ \A k \in 1..Len(buf) : buf[k] = mem[call.sector + k - 1]
    /\ (pc = "reading" /\ res = 0) \/ goal \in {"token", "tokenTime"} =>
          (Sends1 => at = call.sector + Len(buf))

WriteInv ==
    /\ goal \in {"begin", "erased", "writing"} => stored = 0
    /\ pc = "writing" /\ res = 0 => (Takes1 => at = call.sector)
    /\ goal = "xmit" /\ token \in {"FC", "FE"} =>
          stored + left = call.count /\ (Takes1 => at = call.sector + stored)
    /\ goal = "xmit" /\ token = "FE" => call.count = 1
    /\ call.op = "write" /\ left = 0 /\ (goal = "return" \/ (goal = "xmit" /\ token = "FD")) =>
          stored = call.count

PromiseInv ==
    /\ call.op \in {"read", "write"} /\ goal \notin {"ready", "begin"} => stat
    /\ ReadInv /\ WriteInv

-----------------------------------------------------------------------------
\* The sector a command names is the sector of the call.
LEMMA DivTimes ==
    ASSUME NEW s \in Nat, NEW b \in Nat \ {0}
    PROVE  (s * b) % b = 0 /\ (s * b) \div b = s
<1> DEFINE n == s * b
           q == n \div b
           r == n % b
<1>1. n \in Nat /\ q \in Nat /\ r \in 0..b - 1 /\ n = b * q + r
  OBVIOUS
<1>2. n = b * s
  OBVIOUS
<1> HIDE DEF n, q, r
<1>3. ASSUME q + 1 <= s PROVE FALSE
  <2>1. b * (s - q - 1) >= 0
    BY <1>1, <1>3
  <2>2. b * (s - q - 1) = b * s - b * q - b
    BY <1>1
  <2> QED BY <1>1, <1>2, <2>1, <2>2
<1>4. ASSUME s + 1 <= q PROVE FALSE
  <2>1. b * (q - s - 1) >= 0
    BY <1>1, <1>4
  <2>2. b * (q - s - 1) = b * q - b * s - b
    BY <1>1
  <2> QED BY <1>1, <1>2, <2>1, <2>2
<1>5. q = s
  BY <1>1, <1>3, <1>4
<1>6. r = 0
  BY <1>1, <1>2, <1>5
<1> QED BY <1>5, <1>6 DEF n, q, r

LEMMA CallSectors ==
    ASSUME NEW c \in Calls, c.op \in {"read", "write"}
    PROVE  /\ c.count \in Nat /\ c.count >= 1 /\ c.sector \in Nat
           /\ c.sector + c.count <= NSectors
BY SdDriverAssumption, SdMediaAssumption

LEMMA AddressRight ==
    ASSUME call \in Calls, call.op \in {"read", "write"}, Known
    PROVE  Addressed(Address) = call.sector
<1>1. call.sector \in Sectors /\ call.sector \in Nat
  BY CallSectors, SdMediaAssumption DEF Sectors
<1>2. CASE kind = "sdhc"
  <2>1. Address = call.sector
    BY <1>1, <1>2 DEF Known, Address
  <2> QED BY <1>1, <1>2, <2>1 DEF Addressed
<1>3. CASE kind # "sdhc"
  <2>1. Address = call.sector * BlockLen
    BY <1>3 DEF Known, Address
  <2>2. Address % BlockLen = 0 /\ Address \div BlockLen = call.sector
    BY <1>1, <2>1, DivTimes, SdMediaAssumption
  <2> QED BY <1>1, <1>3, <2>2 DEF Addressed
<1> QED BY <1>2, <1>3

\* A command that starts a transfer and is answered with 0 has started it there.
LEMMA StartsThere ==
    ASSUME NEW c \in {"CMD17", "CMD18", "CMD24", "CMD25"}, NEW arg, Answer(c, arg, 0)
    PROVE  mode # "native" /\ at' = Addressed(arg)
<1>1. Listening(c) /\ (Obeys(c, 0) \/ OpCond(c, 0) \/ Transfer(c, arg, 0))
  BY DEF Answer
<1>2. ~Obeys(c, 0) /\ ~OpCond(c, 0)
  BY DEF Obeys, OpCond
<1> QED BY <1>1, <1>2 DEF Listening, Transfer

-----------------------------------------------------------------------------
\* PromiseInv says nothing of a drive at rest or of a call that moves no data.
LEMMA IdlePromise ==
    ASSUME CtrlInv', goal' # "begin",
           goal' = "ready" \/ call'.op \notin {"read", "write"}
    PROVE  PromiseInv'
<1>1. goal' \notin {"token", "tokenTime", "erased", "writing", "xmit"}
  BY DEF CtrlInv, Legal, InitGoals, ReadGoals, WriteGoals
<1>2. pc' # "reading" /\ pc' # "writing"
  <2>1. pc' \in {"reading", "writing"} => goal' = pc'
    BY DEF goal, Sending
  <2> QED BY <2>1 DEF CtrlInv, Legal, InitGoals, ReadGoals, WriteGoals
<1>3. ReadInv'
  BY <1>1, <1>2 DEF ReadInv
<1>4. WriteInv'
  BY <1>1, <1>2 DEF WriteInv
<1> QED BY <1>3, <1>4 DEF PromiseInv

\* A step that moves no data and goes to no label that an answer is looked at.
LEMMA SamePromise ==
    ASSUME PromiseInv, UNCHANGED <<stat, call, left, buf, token, mem, stored, mode, at>>,
           goal' = goal,
           \/ pc' \notin {"reading", "writing"}
           \/ pc' = pc /\ res' = res
           \/ res' # 0
    PROVE  PromiseInv'
<1>1. ReadInv'
  BY DEF PromiseInv, ReadInv, Sends1
<1>2. WriteInv'
  BY DEF PromiseInv, WriteInv, Takes1
<1> QED BY <1>1, <1>2 DEF PromiseInv

LEMMA InvokePromise == ASSUME TypeInv, TypeInv', NEW c \in Calls, Invoke(c) PROVE PromiseInv'
<1>1. /\ pc = "ready" /\ pc' = "begin" /\ call' = c /\ stored' = 0 /\ left' = c.count
      /\ UNCHANGED buf
  BY DEF Invoke
<1>2. goal = "ready" /\ goal' = "begin"
  BY <1>1 DEF goal, Sending
<1>3. buf' = << >> /\ Len(buf') = 0 /\ c.count \in Nat
  BY <1>1, <1>2, CallCount DEF TypeInv, CountInv
<1>4. ReadInv'
  BY <1>1, <1>2, <1>3 DEF ReadInv
<1>5. WriteInv'
  BY <1>1, <1>2 DEF WriteInv
<1> QED BY <1>2, <1>4, <1>5 DEF PromiseInv

LEMMA ReplyPromise == ASSUME TypeInv, NEW r, Reply(r) PROVE PromiseInv'
BY ReplyCtrl, IdlePromise DEF TypeInv

LEMMA BeginPromise == ASSUME TypeInv, TypeInv', PromiseInv, Begin PROVE PromiseInv'
<1>1. /\ goal' \in {"CMD0", "reading", "erased", "writing", "ioctl"}
      /\ UNCHANGED <<stat, call, left, buf, mem, stored>>
  BY BeginCtrlInv DEF TypeInv, Begin, transfer, caller, card, drive
<1>2. pc = "begin" /\ goal = "begin"
  BY DEF Begin, goal, Sending
<1>3. CASE call.op \notin {"read", "write"}
  BY <1>1, <1>3, IdlePromise DEF TypeInv
<1>4. CASE call.op \in {"read", "write"}
  <2>1. stat /\ pc' \in {"poll", "send_cmd"}
    BY <1>4 DEF Begin, SendCmd, WaitReady
  <2>2. goal' \in {"reading", "erased", "writing"}
    <3>1. Legal(call.op, goal')
      BY <1>1 DEF TypeInv, CtrlInv
    <3>2. goal' \notin {"CMD0", "ioctl"}
      BY <1>4, <3>1 DEF Legal, ReadGoals, WriteGoals
    <3> QED BY <1>1, <3>2
  <2>3. ReadInv'
    BY <1>1, <1>2, <2>1, <2>2 DEF PromiseInv, ReadInv
  <2>4. WriteInv'
    BY <1>1, <1>2, <2>1, <2>2 DEF PromiseInv, WriteInv
  <2> QED BY <1>1, <2>1, <2>3, <2>4 DEF PromiseInv
<1> QED BY <1>3, <1>4

\* wait_ready and send_cmd.
LEMMA XmittedPromise ==
    ASSUME TypeInv, TypeInv', PromiseInv, goal = "xmit", goal' \in {"xmit", "return"},
           NEW ok \in BOOLEAN, Xmitted(ok), stat' = stat, call' = call,
           /\ token = "FE" /\ ok => stored' = call.count
           /\ token = "FC" /\ ok => /\ stored' + left = call.count + 1
                                    /\ Takes1' => at' = call.sector + stored'
           /\ token = "FD" => UNCHANGED stored
    PROVE  PromiseInv'
<1>1. call.op = "write" /\ call.count \in Nat /\ call.count >= 1
  BY CallCount DEF TypeInv, CtrlInv
<1>2. left \in 0..call.count /\ token \in {"FC", "FD", "FE"} /\ (token \in {"FC", "FE"} => left >= 1)
  BY DEF TypeInv, DataTypes, CountInv
<1>3. pc' \in {"poll", "return"} /\ stored' \in Nat
  BY <1>2 DEF Xmitted, WaitReady, TypeInv, DataTypes, SdMediaTypeOK
<1>4. ReadInv'
  BY <1>1, <1>3 DEF ReadInv
<1>5. CASE token = "FE"
  <2>1. left' = (IF ok THEN 0 ELSE left) /\ pc' = "return"
    BY <1>5 DEF Xmitted
  <2>2. goal' = "return"
    BY <2>1 DEF goal, Sending
  <2> QED BY <1>1, <1>2, <1>3, <1>4, <1>5, <2>1, <2>2 DEF PromiseInv, WriteInv
<1>6. CASE token = "FC"
  <2>1. /\ left' = IF ok THEN left - 1 ELSE left
        /\ token' = IF ok /\ left > 1 THEN "FC" ELSE "FD"
        /\ pc' = "poll" /\ waiter' = "xmit"
    BY <1>6 DEF Xmitted, WaitReady
  <2>2. goal' = "xmit"
    BY <2>1 DEF goal, Sending
  <2>3. CASE ok /\ left > 1
    <3>1. stored' + left' = call.count
      BY <1>1, <1>2, <1>3, <1>6, <2>1, <2>3
    <3> QED BY <1>1, <1>2, <1>3, <1>4, <1>6, <2>1, <2>2, <2>3, <3>1 DEF PromiseInv, WriteInv
  <2>4. CASE ~(ok /\ left > 1)
    <3>1. token' = "FD"
      BY <2>1, <2>4
    <3>2. left' = 0 => stored' = call.count
      BY <1>1, <1>2, <1>3, <1>6, <2>1, <2>4
    <3> QED BY <1>3, <1>4, <1>1, <2>2, <3>1, <3>2 DEF PromiseInv, WriteInv
  <2> QED BY <2>3, <2>4
<1>7. CASE token = "FD"
  <2>1. left' = (IF ok THEN left ELSE 1) /\ pc' = "return"
    BY <1>7 DEF Xmitted
  <2>2. goal' = "return"
    BY <2>1 DEF goal, Sending
  <2> QED BY <1>1, <1>2, <1>3, <1>4, <1>7, <2>1, <2>2 DEF PromiseInv, WriteInv
<1> QED BY <1>2, <1>5, <1>6, <1>7

LEMMA PollPromise == ASSUME TypeInv, TypeInv', PromiseInv, Poll PROVE PromiseInv'
<1>1. CASE Reply("OK")
  BY <1>1, ReplyPromise
<1>2. CASE ~(~busy /\ waiter = "ioctl")
  <2>1. /\ pc = "poll" /\ pc' = (IF busy THEN "pollTime" ELSE waiter)
        /\ UNCHANGED <<waiter, cmd, pre, ret, res>>
        /\ UNCHANGED <<stat, call, left, buf, token, mem, stored, mode, at>>
    BY <1>2 DEF Poll, Plain, sending, caller, transfer, card, drive
  <2>2. goal' = goal
    BY <1>2, <2>1 DEF TypeInv, CtrlInv, Sending, goal
  <2>3. pc' \notin {"reading", "writing"}
    BY <2>1 DEF TypeInv, CtrlInv
  <2> QED BY <2>1, <2>2, <2>3, SamePromise
<1> QED BY <1>1, <1>2 DEF Poll

LEMMA PollTimePromise == ASSUME TypeInv, TypeInv', PromiseInv, PollTime PROVE PromiseInv'
<1>1. pc = "pollTime" /\ UNCHANGED card
  BY DEF PollTime
<1>2. CASE Reply("ERROR")
  BY <1>2, ReplyPromise
<1>3. CASE pc' = "poll" /\ Plain /\ UNCHANGED <<drive, transfer, caller>>
  <2>1. /\ UNCHANGED <<waiter, cmd, pre, ret, res>>
        /\ UNCHANGED <<stat, call, left, buf, token, mem, stored, mode, at>>
    BY <1>1, <1>3 DEF Plain, sending, caller, transfer, card, drive
  <2>2. goal' = goal
    BY <1>1, <1>3, <2>1 DEF Sending, goal
  <2> QED BY <1>3, <2>1, <2>2, SamePromise
<1>4. CASE waiter = "send_cmd" /\ pc' = ret /\ res' = 255 /\ UNCHANGED <<drive, transfer, caller>>
  <2>1. Sending /\ goal = ret
    BY <1>1, <1>4 DEF Sending, goal
  <2>2. ret \notin {"poll", "pollTime", "send_cmd"}
    BY <2>1 DEF TypeInv, CtrlInv, Sends
  <2>3. goal' = goal
    BY <1>4, <2>1, <2>2 DEF Sending, goal
  <2>4. res' # 0 /\ UNCHANGED <<stat, call, left, buf, token, mem, stored, mode, at>>
    BY <1>1, <1>4, Codes DEF caller, transfer, card, drive
  <2> QED BY <2>3, <2>4, SamePromise
<1>5. CASE waiter = "xmit" /\ Xmitted(FALSE)
  <2>1. goal = "xmit" /\ goal' \in {"xmit", "return"}
    <3>1. goal = "xmit"
      BY <1>1, <1>5 DEF Sending, goal
    <3> QED BY <1>5, <3>1, XmittedCtrl DEF TypeInv, DataTypes
  <2>2. stat' = stat /\ call' = call /\ UNCHANGED stored
    BY <1>1, <1>5 DEF Xmitted, drive, caller, card
  <2> QED BY <1>5, <2>1, <2>2, XmittedPromise
<1> QED BY <1>2, <1>3, <1>4, <1>5 DEF PollTime

LEMMA PacketPromise == ASSUME TypeInv, TypeInv', ModeInv, PromiseInv, Packet PROVE PromiseInv'
<1>1. /\ CtrlInv' /\ goal' = goal /\ goal = ret /\ call' = call
      /\ Sends(ret, cmd) /\ (pre => cmd \in Acmds)
  BY PacketCtrlInv DEF TypeInv
<1>2. UNCHANGED <<stat, left, buf, token, mem, stored>>
  BY DEF Packet, Answer, drive, transfer
<1>3. goal \notin {"begin", "ready", "token", "tokenTime", "xmit"}
  BY <1>1 DEF Sends
<1>4. CASE call.op \notin {"read", "write"}
  BY <1>1, <1>3, <1>4, IdlePromise
<1>5. CASE call.op \in {"read", "write"}
  <2>1. stat /\ (Known \/ mode = "native")
    BY <1>3, <1>5 DEF PromiseInv, ModeInv
  <2>2. pc' \in {"reading", "writing"} /\ res' = 0 => at' = call.sector
    <3> SUFFICES ASSUME pc' \in {"reading", "writing"}, res' = 0 PROVE at' = call.sector
      OBVIOUS
    <3>1. goal = pc' /\ ret \in {"reading", "writing"}
      <4>1. goal' = pc'
        BY DEF goal, Sending
      <4> QED BY <1>1, <4>1
    <3>2. cmd \in {"CMD17", "CMD18", "CMD24", "CMD25"} /\ ~(cmd \in Acmds)
      BY <1>1, <3>1 DEF Sends, Acmds
    <3>3. Answer(cmd, Address, 0)
      <4>1. pre = FALSE
        BY <1>1, <3>2 DEF TypeInv, CtrlInv
      <4>2. PICK r \in {0, 1, 4, 255} :
               Answer(cmd, Address, r) /\ (res' = r \/ pc' = "poll")
        BY <4>1 DEF Packet, WaitReady
      <4> QED BY <4>2
    <3>4. PICK c \in {"CMD17", "CMD18", "CMD24", "CMD25"} : \E arg : c = cmd /\ arg = Address
      BY <3>2
    <3>5. PICK arg : c = cmd /\ arg = Address
      BY <3>4
    <3>6. mode # "native" /\ at' = Addressed(arg)
      BY <3>3, <3>4, <3>5, StartsThere
    <3> QED BY <1>5, <2>1, <3>5, <3>6, AddressRight DEF TypeInv, CtrlInv
  <2>3. call.count \in Nat /\ call.sector \in Nat
    BY <1>5, CallSectors DEF TypeInv, CtrlInv
  <2>4. ReadInv'
    <3>1. goal = "reading" /\ call.op = "read" => Len(buf) = 0
      BY <2>3 DEF TypeInv, DataTypes, CountInv, PromiseInv, ReadInv
    <3>2. pc' = "reading" => goal = "reading" /\ call.op = "read"
      <4>1. pc' = "reading" => goal' = "reading"
        BY DEF goal, Sending
      <4> QED BY <1>1, <4>1 DEF TypeInv, CtrlInv, Legal, InitGoals, ReadGoals, WriteGoals
    <3> QED BY <1>1, <1>2, <1>3, <2>2, <2>3, <3>1, <3>2 DEF PromiseInv, ReadInv
  <2>5. WriteInv'
    BY <1>1, <1>2, <1>3, <2>2 DEF PromiseInv, WriteInv
  <2> QED BY <1>1, <1>2, <2>4, <2>5 DEF PromiseInv
<1> QED BY <1>4, <1>5

LEMMA InitPromiseStep ==
    ASSUME TypeInv, PromiseInv, Identify \/ InitV2 \/ InitOld PROVE PromiseInv'
<1>1. CtrlInv' /\ goal' \in InitGoals /\ call.op = "initialize"
  BY IdentifyCtrlInv, InitV2CtrlInv, InitOldCtrlInv DEF TypeInv
<1>2. call' = call
  BY DEF Identify, InitV2, InitOld, caller
<1> QED BY <1>1, <1>2, IdlePromise DEF InitGoals

\* disk_read.
LEMMA ReadingPromise == ASSUME TypeInv, PromiseInv, Reading PROVE PromiseInv'
<1>1. /\ CtrlInv' /\ goal' \in {"token", "return"}
      /\ UNCHANGED <<stat, call, left, buf, token, mem, stored, mode, at>>
      /\ pc = "reading" /\ pc' \in {"token", "return"} /\ (pc' = "token" => res = 0)
  BY ReadingCtrlInv DEF TypeInv, Reading, card, drive, transfer, caller
<1>2. goal = "reading" /\ goal' = pc' /\ call.op = "read"
  <2>1. goal = "reading" /\ goal' = pc'
    BY <1>1 DEF goal, Sending
  <2> QED BY <2>1 DEF TypeInv, CtrlInv, Legal, InitGoals, ReadGoals, WriteGoals
<1>3. ReadInv'
  BY <1>1, <1>2 DEF PromiseInv, ReadInv, Sends1
<1>4. WriteInv'
  BY <1>1, <1>2 DEF WriteInv
<1> QED BY <1>1, <1>2, <1>3, <1>4 DEF PromiseInv

LEMMA TokenPromise == ASSUME TypeInv, TypeInv', PromiseInv, Token \/ TokenTime PROVE PromiseInv'
<1>1. CtrlInv' /\ goal' \in {"token", "tokenTime", "return"} /\ call.op = "read"
  BY TokenCtrlInv DEF TypeInv
<1>2. goal \in {"token", "tokenTime"}
  BY DEF Token, TokenTime, goal, Sending
<1>3. /\ call' = call /\ UNCHANGED <<stat, mem, stored>>
  BY DEF Token, TokenTime, Received, SendBlock, card, drive, caller
<1>4. pc' \notin {"reading", "writing"}
  BY DEF Token, TokenTime, Received, SendCmd, WaitReady
<1>5. /\ Len(buf) + left = call.count /\ call.count \in Nat /\ call.sector \in Nat
      /\ buf \in Seq(Data) /\ Len(buf) \in Nat /\ left \in Nat
      /\ \A k \in 1..Len(buf) : buf[k] = mem[call.sector + k - 1]
      /\ Sends1 => at = call.sector + Len(buf)
  BY <1>1, <1>2, CallSectors DEF PromiseInv, ReadInv, TypeInv, CtrlInv, DataTypes, CountInv
<1>6. ReadInv'
  <2>1. CASE SendBlock /\ buf' = Append(buf, mem[at]) /\ Received(TRUE)
    <3>1. at = call.sector + Len(buf) /\ at' = at + 1 /\ left' = left - 1
      BY <1>5, <2>1 DEF SendBlock, CanSend, Received, Sends1
    <3>2. Len(buf') = Len(buf) + 1 /\ buf'[Len(buf) + 1] = mem[at]
          /\ \A k \in 1..Len(buf) : buf'[k] = buf[k]
      BY <1>5, <2>1
    <3>3. \A k \in 1..Len(buf') : buf'[k] = mem[call.sector + k - 1]
      <4> SUFFICES ASSUME NEW k \in 1..Len(buf') PROVE buf'[k] = mem[call.sector + k - 1]
        OBVIOUS
      <4>1. CASE k \in 1..Len(buf)
        BY <1>5, <3>2, <4>1
      <4>2. CASE k = Len(buf) + 1
        <5>1. call.sector + k - 1 = at
          BY <1>5, <3>1, <4>2
        <5> QED BY <3>2, <4>2, <5>1
      <4> QED BY <1>5, <3>2, <4>1, <4>2
    <3>4. Len(buf') + left' = call.count /\ at' = call.sector + Len(buf')
      BY <1>5, <3>1, <3>2
    <3> QED BY <1>3, <3>3, <3>4 DEF ReadInv
  <2>2. CASE UNCHANGED <<card, buf, left>>
    BY <1>3, <1>5, <2>2 DEF ReadInv, Sends1, card
  <2> QED BY <2>1, <2>2 DEF Token, TokenTime, Received, transfer
<1>7. WriteInv'
  BY <1>1, <1>3, <1>4 DEF WriteInv
<1>8. stat'
  BY <1>1, <1>2, <1>3 DEF PromiseInv
<1> QED BY <1>6, <1>7, <1>8 DEF PromiseInv

\* disk_write.
LEMMA ErasedPromise == ASSUME TypeInv, PromiseInv, Erased \/ Writing PROVE PromiseInv'
<1>1. goal = pc /\ pc \in {"erased", "writing"}
  BY DEF Erased, Writing, goal, Sending
<1>2. call.op = "write" /\ stored = 0 /\ left = call.count /\ call.count \in Nat
      /\ call.count >= 1 /\ call.sector \in Nat
  BY <1>1, CallSectors DEF TypeInv, CtrlInv, CountInv, PromiseInv, WriteInv
<1>3. UNCHANGED <<stat, call, left, buf, mem, stored, mode, at>>
  BY DEF Erased, Writing, card, drive, transfer, caller
<1>4. goal' \in {"writing", "xmit", "return"} /\ pc' \notin {"reading", "writing"}
  BY ErasedCtrlInv, WritingCtrlInv DEF TypeInv, Erased, Writing, SendCmd, WaitReady
<1>5. ReadInv'
  BY <1>2, <1>3, <1>4 DEF ReadInv
<1>6. /\ goal' = "xmit" => /\ token' = IF call.count = 1 THEN "FE" ELSE "FC"
                           /\ pc = "writing" /\ res = 0
  <2>1. CASE Erased
    BY <2>1, ErasedCtrlInv DEF TypeInv
  <2>2. CASE Writing /\ pc' = "return"
    BY <2>2 DEF goal, Sending
  <2>3. CASE Writing /\ res = 0 /\ token' = (IF call.count = 1 THEN "FE" ELSE "FC")
    BY <2>3 DEF Writing
  <2> QED BY <2>1, <2>2, <2>3 DEF Writing
<1>7. goal' = "xmit" => (Takes1' => at' = call.sector + stored)
  BY <1>2, <1>3, <1>6 DEF PromiseInv, WriteInv, Takes1
<1>8. WriteInv'
  BY <1>2, <1>3, <1>4, <1>6, <1>7 DEF WriteInv
<1>9. stat'
  BY <1>1, <1>2, <1>3 DEF PromiseInv
<1> QED BY <1>5, <1>8, <1>9 DEF PromiseInv

LEMMA XmitPromise == ASSUME TypeInv, TypeInv', PromiseInv, Xmit PROVE PromiseInv'
<1>1. goal = "xmit" /\ call.op = "write" /\ call.count \in Nat /\ call.sector \in Nat
  BY CallSectors DEF Xmit, goal, Sending, TypeInv, CtrlInv
<1>2. CASE token = "FD" /\ TakeStop /\ Xmitted(TRUE)
  <2>1. goal' \in {"xmit", "return"}
    BY <1>1, <1>2, XmittedCtrl DEF TypeInv, DataTypes
  <2>2. stat' = stat /\ call' = call /\ UNCHANGED stored
    BY <1>2 DEF Xmitted, drive, caller, TakeStop
  <2> QED BY <1>1, <1>2, <2>1, <2>2, XmittedPromise
<1>3. ASSUME NEW ok \in BOOLEAN, token # "FD", TakeBlock(Block, ok), Xmitted(ok)
      PROVE  PromiseInv'
  <2>1. goal' \in {"xmit", "return"}
    BY <1>1, <1>3, XmittedCtrl DEF TypeInv, DataTypes
  <2>2. stat' = stat /\ call' = call
    BY <1>3 DEF Xmitted, drive, caller
  <2>3. /\ token \in {"FC", "FE"} /\ left \in 1..call.count /\ stored \in Nat
        /\ stored + left = call.count /\ (Takes1 => at = call.sector + stored)
        /\ token = "FE" => call.count = 1
    BY <1>1, <1>3 DEF PromiseInv, WriteInv, TypeInv, DataTypes, SdMediaTypeOK, CountInv
  <2>4. ok => Takes1 /\ stored' = stored + 1 /\ at' = at + 1
    BY <1>3 DEF TakeBlock, Takes1
  <2>5. token = "FE" /\ ok => stored' = call.count
    BY <1>1, <2>3, <2>4
  <2>6. token = "FC" /\ ok => /\ stored' + left = call.count + 1
                              /\ Takes1' => at' = call.sector + stored'
    BY <1>1, <2>3, <2>4
  <2> QED BY <1>1, <1>3, <2>1, <2>2, <2>5, <2>6, XmittedPromise
<1> QED BY <1>2, <1>3 DEF Xmit

LEMMA OtherPromise ==
    ASSUME TypeInv, TypeInv', PromiseInv, Tick \/ CardStep \/ UNCHANGED vars PROVE PromiseInv'
<1>1. UNCHANGED <<pc, sending, waiter, stat, call, left, buf, token, res>>
  BY DEF Tick, CardStep, vars, caller, drive, sending, transfer
<1>2. goal' = goal
  BY <1>1, OtherCtrlInv DEF TypeInv
<1>3. CASE UNCHANGED <<mem, stored, mode, at>>
  BY <1>1, <1>2, <1>3, SamePromise
<1>4. CASE pc = "ready"
  <2>1. goal = "ready"
    BY <1>4 DEF goal, Sending
  <2> QED BY <1>2, <2>1, IdlePromise DEF TypeInv
<1> QED BY <1>3, <1>4 DEF Tick, CardStep, CardDone, vars, card

LEMMA NextPromise == TypeInv /\ TypeInv' /\ ModeInv /\ PromiseInv /\ [Next]_vars => PromiseInv'
<1> SUFFICES ASSUME TypeInv, TypeInv', ModeInv, PromiseInv, [Next]_vars PROVE PromiseInv'
  OBVIOUS
<1>1. CASE NotReady \/ InitDone \/ Return
  BY <1>1, ReplyPromise DEF NotReady, InitDone, Return
<1> QED BY <1>1, InvokePromise, BeginPromise, PollPromise, PollTimePromise, PacketPromise,
           InitPromiseStep, ReadingPromise, TokenPromise, ErasedPromise, XmitPromise, OtherPromise
        DEF Next, Driver

LEMMA InitPromise == Init => PromiseInv
<1> SUFFICES ASSUME Init PROVE PromiseInv
  OBVIOUS
<1>1. pc = "ready" /\ goal = "ready"
  BY DEF Init, goal, Sending
<1> QED BY <1>1 DEF PromiseInv, ReadInv, WriteInv

-----------------------------------------------------------------------------
(***************************************************************************)
(* The steps of the driver as steps of the device.                         *)
(***************************************************************************)
\* What goes on within a call and stores nothing.
LEMMA WithinCall ==
    ASSUME pc # "ready", pc' # "ready", UNCHANGED <<call, mem, stored, answer>>,
           busy' \in BOOLEAN
    PROVE  Device!Next
<1>1. (pc' # "ready") = (pc # "ready")
  OBVIOUS
<1>2. Device!Program
  BY <1>1 DEF Device!Program
<1> QED BY <1>2 DEF Device!Next

LEMMA ReplyRefines ==
    ASSUME TypeInv, NEW r \in {"OK", "ERROR", "NOTRDY"}, Reply(r), pc # "ready",
           UNCHANGED <<mem, stored, busy>>,
           r = "OK" => /\ call.op = "write" => stored = call.count
                       /\ call.op = "read" => left = 0 /\ goal # "ready" /\ PromiseInv
                       /\ call.op = "sync" => ~busy
    PROVE  Device!Next
<1>1. /\ pc' = "ready" /\ answer' = [result |-> r, data |-> buf] /\ call' = call
  BY DEF Reply
<1>2. buf \in Seq(Data) /\ Len(buf) \in Nat /\ Len(buf) <= call.count /\ call.count \in Nat
  BY CallCount DEF TypeInv, DataTypes, CountInv, CtrlInv
<1>3. Len(buf) \in 0..call.count /\ buf \in [1..Len(buf) -> Data]
  BY <1>2
<1>4. r = "OK" /\ call.op = "read" => buf = Device!Content(call)
  <2> SUFFICES ASSUME r = "OK", call.op = "read" PROVE buf = Device!Content(call)
    OBVIOUS
  <2>1. Len(buf) = call.count /\ \A k \in 1..Len(buf) : buf[k] = mem[call.sector + k - 1]
    BY <1>2 DEF PromiseInv, ReadInv
  <2>2. buf = [k \in 1..call.count |-> mem[call.sector + k - 1]]
    BY <1>3, <2>1
  <2> QED BY <2>2 DEF Device!Content
<1> DEFINE a == [result |-> r, data |-> buf]
<1>5. a.result = r /\ a.data = buf
  OBVIOUS
<1> HIDE DEF a
<1>6. a.result = "OK" => Device!Honest(a)
  BY <1>4, <1>5 DEF Device!Honest
<1>7. Device!Finish(a)
  <2>1. (pc # "ready") /\ (pc' # "ready") = FALSE
    BY <1>1
  <2>2. answer' = a
    BY <1>1 DEF a
  <2> QED BY <1>1, <1>6, <2>1, <2>2 DEF Device!Finish
<1>8. \E n \in 0..call.count : \E d \in [1..n -> Data] :
         Device!Finish([result |-> r, data |-> d])
  BY <1>3, <1>7 DEF a
<1> QED BY <1>8 DEF Device!Next

LEMMA InvokeRefines == ASSUME NEW c \in Calls, Invoke(c) PROVE Device!Next
<1>1. /\ (pc # "ready") = FALSE /\ (pc' # "ready") = TRUE
      /\ call' = c /\ stored' = 0 /\ answer' = NoAnswer /\ UNCHANGED <<mem, busy>>
  BY DEF Invoke
<1>2. Device!Invoke(c)
  BY <1>1 DEF Device!Invoke, Device!None, NoAnswer
<1> QED BY <1>2 DEF Device!Next

LEMMA StoreRefines ==
    ASSUME TypeInv, PromiseInv, goal = "xmit", token # "FD", pc # "ready", pc' # "ready",
           Takes1, UNCHANGED <<call, answer>>, busy' = TRUE, stored' = stored + 1,
           mem' = [mem EXCEPT ![at] = Block]
    PROVE  Device!Next
<1>1. call.op = "write" /\ call.count \in Nat
  BY CallCount DEF TypeInv, CtrlInv
<1>2. /\ left \in 1..call.count /\ stored \in Nat /\ stored + left = call.count
      /\ at = call.sector + stored
  BY DEF PromiseInv, WriteInv, TypeInv, DataTypes, SdMediaTypeOK, CountInv
<1>3. stored < call.count /\ call.count - left + 1 = stored + 1
  BY <1>1, <1>2
<1>4. mem' = [mem EXCEPT ![call.sector + stored] = call.data[stored + 1]]
  BY <1>2, <1>3 DEF Block
<1>5. (pc' # "ready") = (pc # "ready")
  OBVIOUS
<1>6. Device!StoreBlock
  BY <1>1, <1>3, <1>4, <1>5 DEF Device!StoreBlock
<1> QED BY <1>6 DEF Device!Next

\* A step that goes on to one of these goals does not end the call.
LEMMA GoesOn == ASSUME CtrlInv', goal' # "ready" PROVE pc' # "ready"
BY DEF goal, Sending

LEMMA XmittedGoesOn ==
    ASSUME TypeInv, goal = "xmit", NEW ok, Xmitted(ok)
    PROVE  pc' # "ready" /\ UNCHANGED <<call, answer>>
<1>1. goal' \in {"xmit", "return"} /\ CtrlInv'
  BY XmittedCtrl DEF TypeInv, DataTypes
<1>2. pc' # "ready"
  BY <1>1, GoesOn
<1>3. UNCHANGED <<call, answer>>
  BY DEF Xmitted, caller
<1> QED BY <1>2, <1>3

LEMMA XmitRefines == ASSUME TypeInv, TypeInv', PromiseInv, Xmit PROVE Device!Next
<1>1. goal = "xmit" /\ pc = "xmit" /\ busy' \in BOOLEAN
  BY DEF Xmit, goal, Sending, TypeInv, DataTypes, SdMediaTypeOK
<1>2. CASE TakeStop /\ Xmitted(TRUE)
  <2>1. UNCHANGED <<mem, stored>>
    BY <1>2 DEF TakeStop
  <2> QED BY <1>1, <1>2, <2>1, XmittedGoesOn, WithinCall
<1>3. ASSUME NEW ok \in BOOLEAN, token # "FD", TakeBlock(Block, ok), Xmitted(ok)
      PROVE  Device!Next
  <2>1. pc' # "ready" /\ UNCHANGED <<call, answer>>
    BY <1>1, <1>3, XmittedGoesOn
  <2>2. CASE UNCHANGED <<mem, stored>>
    BY <1>1, <2>1, <2>2, WithinCall
  <2>3. CASE Takes1 /\ mem' = [mem EXCEPT ![at] = Block] /\ stored' = stored + 1 /\ busy' = TRUE
    BY <1>1, <1>3, <2>1, <2>3, StoreRefines
  <2> QED BY <1>3, <2>2, <2>3 DEF TakeBlock, Takes1
<1> QED BY <1>2, <1>3 DEF Xmit

LEMMA ReplyStepRefines ==
    ASSUME TypeInv, PromiseInv, NotReady \/ InitDone \/ Return PROVE Device!Next
<1>1. UNCHANGED <<mem, stored, busy>>
  BY DEF NotReady, InitDone, Return, card
<1>2. CASE NotReady
  BY <1>1, <1>2, ReplyRefines DEF NotReady
<1>3. CASE InitDone
  <2>1. goal = "typed"
    BY <1>3 DEF InitDone, goal, Sending
  <2>2. call.op = "initialize" /\ pc # "ready"
    BY <1>3, <2>1 DEF InitDone, TypeInv, CtrlInv, Legal, ReadGoals, WriteGoals
  <2> QED BY <1>1, <1>3, <2>2, ReplyRefines DEF InitDone
<1>4. CASE Return
  <2>1. goal = "return" /\ pc = "return"
    BY <1>4 DEF Return, goal, Sending
  <2>2. call.op \in {"read", "write"}
    BY <2>1 DEF TypeInv, CtrlInv, Legal, InitGoals, ReadGoals, WriteGoals
  <2>3. CASE left = 0
    <3>1. Reply("OK")
      BY <1>4, <2>3 DEF Return
    <3>2. call.op = "write" => stored = call.count
      BY <2>1, <2>3 DEF PromiseInv, WriteInv
    <3> QED BY <1>1, <2>1, <2>2, <2>3, <3>1, <3>2, ReplyRefines
  <2>4. CASE left # 0
    BY <1>1, <1>4, <2>1, <2>4, ReplyRefines DEF Return
  <2> QED BY <2>3, <2>4
<1> QED BY <1>2, <1>3, <1>4

LEMMA PollRefines == ASSUME TypeInv, TypeInv', Poll \/ PollTime PROVE Device!Next
<1>1. pc \in {"poll", "pollTime"} /\ UNCHANGED <<mem, stored, busy>> /\ busy' \in BOOLEAN
  BY DEF Poll, PollTime, card, TypeInv, DataTypes, SdMediaTypeOK
<1>2. CASE Reply("OK") /\ ~busy /\ waiter = "ioctl"
  <2>1. call.op = "sync"
    BY <1>1, <1>2 DEF goal, Sending, TypeInv, CtrlInv, Legal, InitGoals, ReadGoals, WriteGoals
  <2> QED BY <1>1, <1>2, <2>1, ReplyRefines
<1>3. CASE Reply("ERROR")
  BY <1>1, <1>3, ReplyRefines
<1>4. CASE waiter = "xmit" /\ Xmitted(FALSE)
  <2>1. goal = "xmit"
    BY <1>1, <1>4 DEF goal, Sending
  <2> QED BY <1>1, <1>4, <2>1, XmittedGoesOn, WithinCall
<1>5. CASE /\ pc' \in {"poll", "pollTime", waiter} \/ (waiter = "send_cmd" /\ pc' = ret)
           /\ UNCHANGED caller
  <2>1. waiter = "send_cmd" => ret # "ready"
    BY <1>1 DEF TypeInv, CtrlInv, Sending, Sends
  <2>2. pc' # "ready"
    BY <1>5, <2>1 DEF TypeInv, CtrlInv
  <2> QED BY <1>1, <1>5, <2>2, WithinCall DEF caller
<1> QED BY <1>1, <1>2, <1>3, <1>4, <1>5 DEF Poll, PollTime

LEMMA GoalRefines ==
    ASSUME TypeInv, TypeInv', goal' # "ready", pc # "ready",
           UNCHANGED <<call, mem, stored, answer>>
    PROVE  Device!Next
<1>1. busy' \in BOOLEAN /\ pc' # "ready"
  BY GoesOn DEF TypeInv, DataTypes, SdMediaTypeOK
<1> QED BY <1>1, WithinCall

LEMMA DriverRefines == ASSUME TypeInv, TypeInv', PromiseInv, Driver PROVE Device!Next
<1>1. CASE Begin
  <2>1. goal' # "ready" /\ pc # "ready"
    BY <1>1, BeginCtrlInv DEF TypeInv, Begin
  <2>2. UNCHANGED <<call, mem, stored, answer>>
    BY <1>1 DEF Begin, card, caller
  <2> QED BY <2>1, <2>2, GoalRefines
<1>2. CASE Packet
  <2>1. goal' = ret /\ Sends(ret, cmd)
    BY <1>2, PacketCtrlInv DEF TypeInv
  <2>2. goal' # "ready" /\ pc # "ready"
    BY <1>2, <2>1 DEF Sends, Packet
  <2>3. UNCHANGED <<call, mem, stored, answer>>
    BY <1>2 DEF Packet, Answer, caller
  <2> QED BY <2>2, <2>3, GoalRefines
<1>3. CASE Identify \/ InitV2 \/ InitOld
  <2>1. goal' # "ready" /\ pc # "ready"
    BY <1>3, IdentifyCtrlInv, InitV2CtrlInv, InitOldCtrlInv
       DEF TypeInv, InitGoals, Identify, InitV2, InitOld
  <2>2. UNCHANGED <<call, mem, stored, answer>>
    BY <1>3 DEF Identify, InitV2, InitOld, card, caller
  <2> QED BY <2>1, <2>2, GoalRefines
<1>4. CASE Reading \/ Erased \/ Writing
  <2>1. goal' # "ready" /\ pc # "ready"
    BY <1>4, ReadingCtrlInv, ErasedCtrlInv, WritingCtrlInv DEF TypeInv, Reading, Erased, Writing
  <2>2. UNCHANGED <<call, mem, stored, answer>>
    BY <1>4 DEF Reading, Erased, Writing, card, caller
  <2> QED BY <2>1, <2>2, GoalRefines
<1>5. CASE Token \/ TokenTime
  <2>1. goal' # "ready" /\ pc # "ready"
    BY <1>5, TokenCtrlInv DEF TypeInv, Token, TokenTime
  <2>2. UNCHANGED <<call, mem, stored, answer>>
    BY <1>5 DEF Token, TokenTime, Received, SendBlock, card, caller
  <2> QED BY <2>1, <2>2, GoalRefines
<1> QED BY <1>1, <1>2, <1>3, <1>4, <1>5, PollRefines, XmitRefines, ReplyStepRefines DEF Driver

LEMMA CardRefines ==
    ASSUME TypeInv, TypeInv', Tick \/ CardStep \/ UNCHANGED vars
    PROVE  [Device!Next]_(Device!vars)
<1>1. UNCHANGED <<pc, call, answer>> /\ busy' \in BOOLEAN
  BY DEF Tick, CardStep, vars, caller, TypeInv, DataTypes, SdMediaTypeOK
<1>2. (pc' # "ready") = (pc # "ready")
  BY <1>1
<1>3. CASE UNCHANGED <<mem, stored>>
  BY <1>1, <1>2, <1>3 DEF Device!Next, Device!Program
<1>4. CASE pc = "ready" /\ Exchange
  <2>1. mem' \in [Sectors -> Data] /\ UNCHANGED stored
    BY <1>4 DEF Exchange, TypeInv, DataTypes, SdMediaTypeOK
  <2> QED BY <1>1, <1>2, <1>4, <2>1 DEF Device!Next, Device!Exchange
<1> QED BY <1>3, <1>4 DEF Tick, CardStep, CardDone, vars, card

LEMMA StepRefines ==
    TypeInv /\ TypeInv' /\ PromiseInv /\ [Next]_vars => [Device!Next]_(Device!vars)
BY InvokeRefines, DriverRefines, CardRefines DEF Next

LEMMA InitRefines == Init => Device!Init
<1> SUFFICES ASSUME Init PROVE Device!Init
  OBVIOUS
<1>1. SdMediaTypeOK
  BY InitTypeInv DEF TypeInv, DataTypes
<1>2. (pc # "ready") = FALSE /\ call \in Calls /\ stored = 0 /\ answer = NoAnswer
  BY DEF Init, MediaInit
<1> QED BY <1>1, <1>2 DEF Device!Init, Device!None, NoAnswer, SdMediaTypeOK

\* The driver implements the device FatFs is written for: whatever the card answers or
\* does not answer, a call touches the sectors it names and no others, in order, and
\* RES_OK means that all of it is done (disk_read, disk_write and CTRL_SYNC of
\* fatfs_sd.c, lines 366-460).
THEOREM Implements == Spec => KeepsPromise
<1>1. Spec => []ModeInv
  BY InitMode, Typed, NextMode, PTL DEF Spec
<1>2. Spec => []PromiseInv
  BY <1>1, InitPromise, Typed, NextPromise, PTL DEF Spec
<1>3. Init => Device!Init
  BY InitRefines
<1> QED BY <1>2, <1>3, Typed, StepRefines, PTL DEF Spec, KeepsPromise, Device!Spec
=============================================================================
