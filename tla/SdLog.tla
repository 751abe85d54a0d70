--------------------------------- MODULE SdLog ---------------------------------
(***************************************************************************)
(* The SDCARD build of main.c: main mounts the card, opens the log file    *)
(* and puts a line into it each time round its loop; the EXTI handler of   *)
(* the user button closes the file, unmounts the card and clears           *)
(* Sdmounted.  FatFs (ff.c, not re-entrant in this configuration) runs in  *)
(* both, on one volume object and one file object.                         *)
(*                                                                         *)
(* main's steps are the accesses to what it shares with the handler.       *)
(* Accesses are one step only where a press between them has the effect of *)
(* one before or after them: put_fat's store and its wflag, the write of   *)
(* the file's buffer and the flag cleared after it, the copy of a line,    *)
(* what create_chain notes at its end, and the fields of an object that is *)
(* not valid yet.  The handler cannot be interrupted by main; its steps    *)
(* are the sectors it writes, so that every state of the card is one a     *)
(* loss of power leaves.                                                   *)
(* The disk is BlockDevice for calls of one sector: a call that succeeds   *)
(* has done its work, one that fails may or may not have.                  *)
(***************************************************************************)
EXTENDS FatVolume

CONSTANTS Volumes,      \* the volumes main may find: sectors per cluster, FAT32 or FAT16,
                        \* clusters of other files, cluster of an old log (or 0), and the
                        \* cluster that FSInfo says was allocated last
          LineSize,     \* units of text in a line
          MaxLines,     \* bound on the lines that are written
          MaxPresses    \* bound on the presses of the button

Volume == [csize : Nat \ {0}, fat32 : BOOLEAN, others : SUBSET Cluster,
           old : {0} \cup Cluster, hint : 0..NFat]

ASSUME SdLogAssumption == /\ Volumes \subseteq Volume
                          /\ \A v \in Volumes : v.old \notin v.others
                          /\ LineSize \in 1..SectorSize
                          /\ MaxLines \in Nat /\ MaxPresses \in Nat

VARIABLES geo,        \* the volume
          card,       \* contents of the sectors
          reg,        \* FatFs[0] # NULL
          fs,         \* the volume object FatFs
          win,        \* fs->win
          fil,        \* the file object
          buf,        \* fil.buf
          sdmounted,  \* Sdmounted
          pc, loc,    \* main's place, and locals of f_write and create_chain
          pending,    \* EXTI->PR, line 0
          isr,        \* place in the handler, "off" when it does not run
          torn,       \* has the handler used the disk in the middle of a call of main's?
          \* history variables
          lines, presses, handled,  \* lines put, presses of the button, runs of the handler
          opened,     \* has f_open succeeded?
          closed,     \* has f_close succeeded?
          reported,   \* units of text that f_puts has reported as put
          hit         \* where in main the handler came

volume == <<reg, fs, win>>
file == <<fil, buf>>
button == <<pending, presses, torn, isr, handled, closed, hit, sdmounted, geo>>
history == <<lines, opened, reported>>
vars == <<card, volume, file, pc, loc, button, history>>

Starting == {"attach", "mount", "find", "status", "init", "open", "entry",
             "rm_get", "rm_put", "rm_back", "opened"}
Moving == {"mw", "mw_write", "mw_clear", "mw_read", "mw_set"}   \* places in move_window

NoLocals == [btw |-> 0, clst |-> 0, scl |-> 0, ncl |-> 0,
             target |-> NoSec, wsect |-> NoSec, ret |-> "none"]

Formatted(v) ==
    LET entry == [c \in Cluster |-> IF c \in v.others \cup {v.old} THEN NFat ELSE 0]
        owner(c) == IF c = v.old THEN "old" ELSE IF c \in v.others THEN "other" ELSE "none"
    IN [s \in Sector(v.csize) |->
          CASE s[1] = "fat" -> FatOf(s[2], entry)
            [] s = DirSec -> DirOf("old", v.old, IF v.old = 0 THEN 0 ELSE SectorSize)
            [] s[1] = "data" -> DataOf(owner(s[2] \div v.csize), s[2] % v.csize, SectorSize)
            [] OTHER -> Info]

Init == /\ geo \in Volumes
        /\ card = Formatted(geo)
        /\ reg = FALSE
        /\ fs = [mounted |-> FALSE, wflag |-> FALSE, fsi |-> FALSE, last |-> 0, winsect |-> NoSec]
        /\ win = Junk
        /\ fil = [fs |-> FALSE, dirty |-> FALSE, written |-> FALSE, err |-> FALSE,
                  fptr |-> 0, fsize |-> 0, sclust |-> 0, clust |-> 0, dsect |-> NoSec]
        /\ buf = DataOf("none", 0, 0)
        /\ sdmounted = TRUE
        /\ pc = "attach"
        /\ loc = NoLocals
        /\ pending = FALSE /\ isr = "off" /\ torn = FALSE
        /\ lines = 0 /\ presses = 0 /\ handled = 0
        /\ opened = FALSE /\ closed = FALSE /\ reported = 0 /\ hit = {}

-----------------------------------------------------------------------------
(***************************************************************************)
(* Disk calls.  The handler's call in the middle of one of main's reaches  *)
(* the card as data of that one: from then on nothing is certain.          *)
(***************************************************************************)
disk_write(s, content, ok) ==
    \E c \in {card[s], content} \cup (IF torn THEN {Junk} ELSE {}) :
       /\ ok /\ ~torn => c = content
       /\ card' = [card EXCEPT ![s] = c]

disk_read(s, ok) == /\ win' \in {card[s]} \cup (IF ok /\ ~torn THEN {} ELSE {Junk})
                    /\ UNCHANGED card

-----------------------------------------------------------------------------
(* main runs while the handler does not.  validate(fp) *)

validate == fil.fs /\ fs.mounted

At(place) == pc = place /\ isr = "off" /\ ~pending /\ UNCHANGED button
Goto(place) == pc' = place

(***************************************************************************)
(* move_window(fs, target), with sync_window, then on to ret.  A failure   *)
(* ends f_open, or aborts f_write.  The window and what says which sector  *)
(* it holds are not changed together: wflag is cleared after the window is *)
(* on the card, winsect is set after another sector is in the window.      *)
(***************************************************************************)
Move(target, ret) == /\ loc' = [loc EXCEPT !.target = target, !.ret = ret]
                     /\ Goto("mw")

Failed == Goto(IF loc.ret \in Starting THEN "loop" ELSE "abort")

MoveWindow ==
    /\ At("mw")
    /\ Goto(IF loc.target = fs.winsect THEN loc.ret ELSE IF fs.wflag THEN "mw_write" ELSE "mw_read")
    /\ loc' = [loc EXCEPT !.wsect = IF fs.wflag THEN fs.winsect ELSE NoSec]
    /\ UNCHANGED <<card, volume, file, history>>

SyncWindow ==
    /\ At("mw_write")
    /\ \E ok \in BOOLEAN : /\ disk_write(loc.wsect, win, ok)
                          /\ IF ok THEN Goto("mw_clear") ELSE Failed
    /\ UNCHANGED <<volume, file, loc, history>>

\* The copies of the FAT are written here, too; the volume of this model has none.
ClearFlag ==
    /\ At("mw_clear") /\ Goto("mw_read")
    /\ fs' = [fs EXCEPT !.wflag = FALSE]
    /\ UNCHANGED <<card, reg, win, file, loc, history>>

ReadWindow ==
    /\ At("mw_read") /\ Goto("mw_set")
    /\ \E ok \in BOOLEAN : /\ disk_read(loc.target, ok)
                          /\ loc' = [loc EXCEPT !.target = IF ok THEN loc.target ELSE NoSec]
    /\ UNCHANGED <<reg, fs, file, history>>

SetSector ==
    /\ At("mw_set")
    /\ fs' = [fs EXCEPT !.winsect = loc.target]
    /\ IF loc.target = NoSec THEN Failed ELSE Goto(loc.ret)
    /\ UNCHANGED <<card, reg, win, file, loc, history>>

-----------------------------------------------------------------------------
(***************************************************************************)
(* Start-up: TM_EXTI_Attach, f_mount, f_open.                              *)
(***************************************************************************)
Attach == /\ At("attach") /\ Goto("mount")
          /\ UNCHANGED <<card, volume, file, loc, history>>

f_mount == /\ At("mount") /\ Goto("find")
           /\ fs' = [fs EXCEPT !.mounted = FALSE]
           /\ reg' = TRUE
           /\ loc' = [loc EXCEPT !.ret = "open"]
           /\ UNCHANGED <<card, win, file, history>>

f_open == /\ At("open") /\ Goto("find")
          /\ fil' = [fil EXCEPT !.fs = FALSE]
          /\ loc' = [loc EXCEPT !.ret = "entry"]
          /\ UNCHANGED <<card, volume, buf, history>>

\* find_volume takes the pointer to the volume object, looks whether it is mounted,
\* and mounts it if not, also when the handler has just unmounted it.
FindVolume == /\ At("find")
              /\ Goto(IF reg THEN "status" ELSE "loop")
              /\ UNCHANGED <<card, volume, file, loc, history>>

VolumeStatus == /\ At("status")
                /\ Goto(IF fs.mounted THEN loc.ret ELSE "init")
                /\ UNCHANGED <<card, volume, file, loc, history>>

InitVolume ==
    /\ At("init")
    /\ \/ /\ Goto("loop")
          /\ fs' = [fs EXCEPT !.mounted = FALSE, !.wflag = FALSE, !.winsect = NoSec]
          /\ win' = Junk
       \/ /\ Goto(loc.ret)
          /\ fs' = [mounted |-> TRUE, wflag |-> FALSE, fsi |-> FALSE,
                    last |-> IF geo.fat32 THEN geo.hint ELSE NFat, winsect |-> InfoSec]
          /\ win' = card[InfoSec]
    /\ UNCHANGED <<card, reg, file, loc, history>>

\* The entry is found or made, and made empty (FA_CREATE_ALWAYS).
MakeEntry ==
    /\ At("entry")
    /\ \/ /\ Goto(IF card[DirSec].start = 0 THEN "opened" ELSE "rm_get")
          /\ win' = DirOf("log", 0, 0)
          /\ fs' = [fs EXCEPT !.winsect = DirSec, !.wflag = TRUE]
          /\ loc' = [loc EXCEPT !.clst = card[DirSec].start, !.scl = card[DirSec].start]
       \/ /\ Goto("loop")
          /\ win' = Junk
          /\ fs' = [fs EXCEPT !.winsect = NoSec]
          /\ UNCHANGED loc
    /\ UNCHANGED <<card, reg, file, history>>

\* get_fat and put_fat refuse a volume that is not mounted any more.
Get(place, ret, unmounted) ==
    /\ At(place)
    /\ IF fs.mounted THEN Move(FatSec(loc.clst), ret)
                     ELSE Goto(unmounted) /\ UNCHANGED loc
    /\ UNCHANGED <<card, volume, file, history>>

\* remove_chain
RemoveGet == Get("rm_get", "rm_put", "loop")

RemovePut ==
    /\ At("rm_put")
    /\ \E nxt \in Entry(win, loc.clst) :
          IF nxt = 0 THEN Goto("rm_back") /\ UNCHANGED <<win, fs, loc>>
          ELSE IF nxt = 1 \/ ~fs.mounted THEN Goto("loop") /\ UNCHANGED <<win, fs, loc>>
          ELSE /\ win' = WithEntry(win, loc.clst, 0)
               /\ fs' = [fs EXCEPT !.wflag = TRUE, !.fsi = TRUE]
               /\ loc' = [loc EXCEPT !.clst = nxt]
               /\ Goto(IF ChainEnd(nxt) THEN "rm_back" ELSE "rm_get")
    /\ UNCHANGED <<card, reg, file, history>>

RemoveBack == /\ At("rm_back")
              /\ fs' = [fs EXCEPT !.last = loc.scl - 1]
              /\ Move(DirSec, "opened")
              /\ UNCHANGED <<card, reg, win, file, history>>

Opened == /\ At("opened") /\ Goto("loop")
          /\ fil' = [fs |-> TRUE, dirty |-> FALSE, written |-> TRUE, err |-> FALSE,
                     fptr |-> 0, fsize |-> 0, sclust |-> 0, clust |-> 0, dsect |-> NoSec]
          /\ loc' = NoLocals
          /\ opened' = TRUE
          /\ UNCHANGED <<card, volume, buf, lines, reported>>

-----------------------------------------------------------------------------
(***************************************************************************)
(* The loop: f_puts, which hands a line to f_write.                        *)
(***************************************************************************)
\* Mutant: Sdmounted is not looked at.
TestSdmounted_noFlag == /\ At("loop") /\ lines < MaxLines
                        /\ Goto("puts")
                        /\ UNCHANGED <<card, volume, file, loc, history>>

TestSdmounted == /\ At("loop") /\ sdmounted /\ lines < MaxLines
                 /\ Goto("puts")
                 /\ UNCHANGED <<card, volume, file, loc, history>>

f_puts == /\ At("puts")
          /\ IF validate /\ ~fil.err
             THEN Goto("chunk") /\ loc' = [loc EXCEPT !.btw = LineSize]
             ELSE Goto("loop") /\ UNCHANGED loc
          /\ UNCHANGED <<card, volume, file, history>>

Chunk == /\ At("chunk")
         /\ Goto(IF loc.btw = 0 THEN "done"
                 ELSE IF fil.fptr % SectorSize = 0 THEN "bound" ELSE "copy")
         /\ UNCHANGED <<card, volume, file, loc, history>>

csect == (fil.fptr \div SectorSize) % geo.csize

\* The first sector of a cluster needs the cluster: the first one of the file, the
\* one that follows, or a new one.  When the handler has closed the file, fp->fs is
\* NULL, or the copy of it in a register that of an unmounted volume: csize and
\* n_fatent may be anything, but no type of FAT is found there.
Boundary ==
    /\ At("bound")
    /\ IF ~fil.fs
       THEN \/ Goto("abort") /\ UNCHANGED loc
            \/ Goto("flush") /\ UNCHANGED loc
            \/ fil.fptr = 0 /\ Goto("done") /\ UNCHANGED loc
       ELSE IF csect # 0 \/ (fil.fptr = 0 /\ fil.sclust # 0)
       THEN Goto("flush") /\ UNCHANGED loc
       ELSE IF fil.fptr = 0
       THEN LET scl == IF fs.last = 0 \/ fs.last >= NFat THEN 1 ELSE fs.last
            IN Goto("c_next") /\ loc' = [loc EXCEPT !.clst = 0, !.scl = scl, !.ncl = scl]
       ELSE Goto("c_get") /\ loc' = [loc EXCEPT !.clst = fil.clust]
    /\ fil' = IF fil.fs /\ fil.fptr = 0 THEN [fil EXCEPT !.clust = fil.sclust] ELSE fil
    /\ UNCHANGED <<card, volume, buf, history>>

\* create_chain: the entry of the last cluster, ...
CreateGet == Get("c_get", "c_got", "abort")

CreateGot ==
    /\ At("c_got")
    /\ \E cs \in Entry(win, loc.clst) :
          IF cs < 2 THEN Goto("abort") /\ UNCHANGED <<loc, fil>>
          ELSE IF cs < NFat
          THEN Goto("flush") /\ fil' = [fil EXCEPT !.clust = cs] /\ UNCHANGED loc
          ELSE /\ Goto("c_next")
               /\ loc' = [loc EXCEPT !.scl = loc.clst, !.ncl = loc.clst]
               /\ UNCHANGED fil
    /\ UNCHANGED <<card, volume, buf, history>>

\* ... the search for a free one, ...
CreateNext ==
    LET ncl == IF loc.ncl + 1 >= NFat THEN 2 ELSE loc.ncl + 1
    IN /\ At("c_next")
       /\ IF ncl < loc.ncl + 1 /\ ncl > loc.scl THEN Goto("done") /\ UNCHANGED loc
          ELSE IF ~fs.mounted THEN Goto("abort") /\ UNCHANGED loc
          ELSE /\ loc' = [loc EXCEPT !.ncl = ncl, !.target = FatSec(ncl), !.ret = "c_try"]
               /\ Goto("mw")
       /\ UNCHANGED <<card, volume, file, history>>

CreateTry ==
    /\ At("c_try")
    /\ \E cs \in Entry(win, loc.ncl) :
          Goto(IF cs = 0 THEN "c_mark" ELSE IF cs = 1 THEN "abort"
               ELSE IF loc.ncl = loc.scl THEN "done" ELSE "c_next")
    /\ UNCHANGED <<card, volume, file, loc, history>>

\* ... its mark as the last one, and the link to it.
Put(place, c, ret) ==
    /\ At(place)
    /\ IF fs.mounted THEN Move(FatSec(c), ret) ELSE Goto("abort") /\ UNCHANGED loc
    /\ UNCHANGED <<card, volume, file, history>>

CreateMark == Put("c_mark", loc.ncl, "c_marked")
CreateLink == Put("c_link", loc.clst, "c_linked")

CreateMarked ==
    /\ At("c_marked")
    /\ win' = WithEntry(win, loc.ncl, NFat)
    /\ fs' = [fs EXCEPT !.wflag = TRUE]
    /\ Goto(IF loc.clst # 0 THEN "c_link" ELSE "c_end")
    /\ UNCHANGED <<card, reg, file, loc, history>>

CreateLinked ==
    /\ At("c_linked")
    /\ win' = WithEntry(win, loc.clst, loc.ncl)
    /\ fs' = [fs EXCEPT !.wflag = TRUE]
    /\ Goto("c_end")
    /\ UNCHANGED <<card, reg, file, loc, history>>

CreateEnd ==
    /\ At("c_end")
    /\ fs' = [fs EXCEPT !.last = loc.ncl, !.fsi = TRUE]
    /\ fil' = [fil EXCEPT !.clust = loc.ncl,
                          !.sclust = IF fil.sclust = 0 THEN loc.ncl ELSE fil.sclust]
    /\ Goto("flush")
    /\ UNCHANGED <<card, reg, win, buf, loc, history>>

\* The sector in the file's buffer is written back, ...
Flush ==
    /\ At("flush")
    /\ IF fil.dirty
       THEN \E ok \in BOOLEAN : /\ disk_write(fil.dsect, buf, ok)
                                /\ fil' = [fil EXCEPT !.dirty = ~ok]
                                /\ Goto(IF ok THEN "sector" ELSE "abort")
       ELSE Goto("sector") /\ UNCHANGED <<card, fil>>
    /\ UNCHANGED <<volume, buf, loc, history>>

\* ... the buffer taken for the next one, ...
NextSector ==
    /\ At("sector")
    /\ \/ /\ fil.clust \in Cluster
          /\ fil' = [fil EXCEPT !.dsect = DataSec(fil.clust, csect, geo.csize)]
          /\ Goto("copy")
       \/ ~fil.fs /\ fil' = [fil EXCEPT !.dsect = NoSec] /\ Goto("copy")
       \/ ~fil.fs /\ fil' = fil /\ Goto("abort")
    /\ UNCHANGED <<card, volume, buf, loc, history>>

\* Mutant: the line is not clipped at the end of the sector.
wcnt_unclipped == loc.btw

\* ... and as much of the line as fits is copied into it.
wcnt == LET room == SectorSize - (fil.fptr % SectorSize)
        IN IF room > loc.btw THEN loc.btw ELSE room

Copy == /\ At("copy") /\ Goto("mark")
        /\ buf' = DataOf("log", fil.fptr \div SectorSize, (fil.fptr % SectorSize) + wcnt)
        /\ UNCHANGED <<card, volume, fil, loc, history>>

MarkDirty == /\ At("mark") /\ Goto("next")
             /\ fil' = [fil EXCEPT !.dirty = TRUE]
             /\ UNCHANGED <<card, volume, buf, loc, history>>

Advance == /\ At("next") /\ Goto("chunk")
           /\ fil' = [fil EXCEPT !.fptr = @ + wcnt]
           /\ loc' = [loc EXCEPT !.btw = @ - wcnt]
           /\ UNCHANGED <<card, volume, buf, history>>

\* Mutant: the size is not brought up to date.
Grown_notUpdated == fil.fsize

Grown == IF fil.fptr > fil.fsize THEN fil.fptr ELSE fil.fsize

Done == /\ At("done") /\ Goto("loop")
        /\ fil' = [fil EXCEPT !.fsize = Grown, !.written = TRUE]
        /\ reported' = IF loc.btw = 0 THEN reported + LineSize ELSE reported
        /\ lines' = lines + 1
        /\ loc' = NoLocals
        /\ UNCHANGED <<card, volume, buf, opened>>

\* ABORT(fs, res)
Abort == /\ At("abort") /\ Goto("loop")
         /\ fil' = [fil EXCEPT !.err = TRUE]
         /\ lines' = lines + 1
         /\ loc' = NoLocals
         /\ UNCHANGED <<card, volume, buf, opened, reported>>

Main == \/ MoveWindow \/ SyncWindow \/ ClearFlag \/ ReadWindow \/ SetSector
        \/ Attach \/ f_mount \/ FindVolume \/ VolumeStatus \/ InitVolume
        \/ f_open \/ MakeEntry \/ RemoveGet \/ RemovePut \/ RemoveBack \/ Opened
        \/ TestSdmounted \/ f_puts \/ Chunk \/ Boundary
        \/ CreateGet \/ CreateGot \/ CreateNext \/ CreateTry \/ CreateMark
        \/ CreateMarked \/ CreateLink \/ CreateLinked \/ CreateEnd
        \/ Flush \/ NextSector \/ Copy \/ MarkDirty \/ Advance \/ Done \/ Abort

-----------------------------------------------------------------------------
(***************************************************************************)
(* The button, and EXTI0_IRQHandler with TM_EXTI_Handler.  The request is  *)
(* cleared before the handler runs: a press meanwhile runs it once more.   *)
(***************************************************************************)
\* What main is about: move_window belongs to f_open or to f_write.
here == IF pc \in Starting \/ (pc \in Moving /\ loc.ret \in Starting) THEN "start"
        ELSE IF pc \in {"loop", "puts"} THEN "idle"
        ELSE IF pc \in {"mw_write", "mw_clear"} THEN "sync_window"
        ELSE IF pc = "mw_set" /\ fs.winsect = DirSec THEN "stale_window" ELSE "f_write"

Press == /\ pc # "attach" /\ ~pending /\ presses < MaxPresses
         /\ pending' = TRUE
         /\ presses' = presses + 1
         /\ UNCHANGED <<card, volume, file, pc, loc, history, torn, isr, handled,
                        closed, hit, sdmounted, geo>>

Interrupt ==
    /\ isr = "off" /\ pending
    /\ pending' = FALSE
    /\ isr' = "validate"
    /\ torn' \in {torn} \cup (IF validate /\ pc \in {"flush", "mw_write", "mw_clear", "mw_read"}
                               THEN {TRUE} ELSE {})
    /\ hit' = hit \cup {here}
    /\ UNCHANGED <<card, volume, file, pc, loc, history, presses, handled, closed,
                   sdmounted, geo>>

In(place) == /\ isr = place
             /\ UNCHANGED <<pc, loc, history, pending, presses, torn, hit, geo>>
Then(place) == isr' = place

\* f_close: f_sync, ...
SyncValidate == /\ In("validate")
                /\ Then(IF ~validate THEN "unmount" ELSE IF fil.written THEN "data" ELSE "close")
                /\ UNCHANGED <<card, volume, file, handled, closed, sdmounted>>

\* Mutant: the directory is brought up to date, the buffer is not written.
SyncData_notFlushed == /\ In("data") /\ Then("window")
                       /\ UNCHANGED <<card, volume, file, handled, closed, sdmounted>>

SyncData ==
    /\ In("data")
    /\ IF fil.dirty
       THEN \E ok \in BOOLEAN : /\ disk_write(fil.dsect, buf, ok)
                                /\ fil' = [fil EXCEPT !.dirty = ~ok]
                                /\ Then(IF ok THEN "window" ELSE "unmount")
       ELSE Then("window") /\ UNCHANGED <<card, fil>>
    /\ UNCHANGED <<volume, buf, handled, closed, sdmounted>>

SyncMoveWindow ==
    /\ In("window")
    /\ IF fs.winsect = DirSec THEN Then("entry") /\ UNCHANGED <<card, fs>>
       ELSE IF ~fs.wflag THEN Then("read") /\ UNCHANGED <<card, fs>>
       ELSE \E ok \in BOOLEAN : /\ disk_write(fs.winsect, win, ok)
                                /\ fs' = [fs EXCEPT !.wflag = ~ok]
                                /\ Then(IF ok THEN "read" ELSE "unmount")
    /\ UNCHANGED <<reg, win, file, handled, closed, sdmounted>>

SyncReadWindow ==
    /\ In("read")
    /\ \E ok \in BOOLEAN : /\ disk_read(DirSec, ok)
                           /\ fs' = [fs EXCEPT !.winsect = IF ok THEN DirSec ELSE NoSec]
                           /\ Then(IF ok THEN "entry" ELSE "unmount")
    /\ UNCHANGED <<reg, file, handled, closed, sdmounted>>

SyncEntry ==
    /\ In("entry") /\ Then("sync")
    /\ win' = IF win.kind = "dir" THEN DirOf("log", fil.sclust, fil.fsize) ELSE Junk
    /\ fil' = [fil EXCEPT !.written = FALSE]
    /\ fs' = [fs EXCEPT !.wflag = TRUE]
    /\ UNCHANGED <<card, reg, buf, handled, closed, sdmounted>>

SyncFs == /\ In("sync")
          /\ \E ok \in BOOLEAN : /\ disk_write(fs.winsect, win, ok)
                                 /\ fs' = [fs EXCEPT !.wflag = ~ok]
                                 /\ Then(IF ok THEN "fsinfo" ELSE "unmount")
          /\ UNCHANGED <<reg, win, file, handled, closed, sdmounted>>

\* The result of the write of FSInfo is not looked at, that of CTRL_SYNC is.
SyncFsInfo ==
    /\ In("fsinfo")
    /\ IF geo.fat32 /\ fs.fsi
       THEN /\ \E ok \in BOOLEAN : disk_write(InfoSec, Info, ok)
            /\ win' = Info
            /\ fs' = [fs EXCEPT !.winsect = InfoSec, !.fsi = FALSE]
       ELSE UNCHANGED <<card, win, fs>>
    /\ isr' \in {"close", "unmount"}
    /\ UNCHANGED <<reg, file, handled, closed, sdmounted>>

\* ... and the file object is made invalid.
f_close == /\ In("close") /\ Then("unmount")
           /\ fil' = [fil EXCEPT !.fs = FALSE]
           /\ closed' = TRUE
           /\ UNCHANGED <<card, volume, buf, handled, sdmounted>>

\* Mutant: Sdmounted is left as it is.
Unmount_flagKept == /\ In("unmount") /\ Then("off")
                    /\ fs' = [fs EXCEPT !.mounted = fs.mounted /\ ~reg]
                    /\ reg' = FALSE
                             /\ handled' = handled + 1
                    /\ UNCHANGED <<card, win, file, closed, sdmounted>>

\* f_mount(0, "0:", 1), Sdmounted = 0
Unmount == /\ In("unmount") /\ Then("off")
           /\ fs' = [fs EXCEPT !.mounted = fs.mounted /\ ~reg]
           /\ reg' = FALSE
           /\ sdmounted' = FALSE
           /\ handled' = handled + 1
           /\ UNCHANGED <<card, win, file, closed>>

Handler == \/ Interrupt \/ SyncValidate \/ SyncData \/ SyncMoveWindow \/ SyncReadWindow
           \/ SyncEntry \/ SyncFs \/ SyncFsInfo \/ f_close \/ Unmount

Next == Main \/ Press \/ Handler

\* The processor goes on, and the disk answers.
Spec == Init /\ [][Next]_vars /\ WF_vars(Main) /\ WF_vars(Handler)

-----------------------------------------------------------------------------
\* Type invariant.
TypeOK ==
    /\ DOMAIN card = Sector(geo.csize)
    /\ fs.last \in 0..NFat /\ fs.winsect \in Sector(geo.csize)
    /\ fil.fptr \in 0..(MaxLines + 1) * LineSize /\ fil.fsize \in 0..fil.fptr
    /\ fil.sclust \in {0} \cup Cluster /\ fil.dsect \in Sector(geo.csize)
    /\ loc.btw \in 0..LineSize /\ buf.n \in 0..SectorSize
    /\ reported \in 0..MaxLines * LineSize

\* The card can be taken out, or lose power, at any moment: the directory never
\* claims text that is not there, and other files are what they were.  Presses that
\* come to three places of main's are left out, and the cards they ruin: one in the
\* middle of a disk call; one in sync_window, after which main writes the window that
\* the handler has moved over a sector of the FAT; and one while the window holds a
\* new sector and winsect still says that it is the directory's, when the handler
\* writes that sector over the directory.
OtherFilesIntact ==
    \A c \in geo.others :
       /\ card[FatSec(c)].entry[c] = NFat
       /\ \A off \in 0..geo.csize - 1 : card[DataSec(c, off, geo.csize)].of = "other"

CardIsConsistent == \/ torn \/ hit \cap {"sync_window", "stale_window"} # {}
                    \/ WellFormed(card) /\ Covered(card, geo.csize) /\ OtherFilesIntact

\* When the handler has closed the file, the directory holds every line that f_puts
\* has reported, but for the one it came into; unless it came in the middle of a disk
\* call, or took the window for the directory when it was not.  Presses at start-up are
\* left out, too: nothing is recorded after them, and when one makes f_open mount the
\* volume again, Unmount does not end it; then f_close succeeds on the second call
\* where it failed on the first (fil.written is FALSE), and no entry is on the card.
ClosedFileIsComplete ==
    closed /\ ~torn /\ hit \cap {"start", "stale_window"} = {} =>
       /\ card[DirSec].of = "log"
       /\ reported <= card[DirSec].size + (IF hit \subseteq {"idle"} THEN 0 ELSE LineSize)

\* Once the handler has run, main's loop writes nothing to the card, unless the
\* handler came into f_write; and it never does when the file could not be opened.
NoWriteWhenStopped ==
    [][ /\ here # "start" /\ isr = "off"
        /\ \/ handled > 0 /\ hit \subseteq {"start", "idle"}
           \/ ~opened
        => card' = card ]_vars

\* After a press the program stops recording for good.
Stops == (handled > 0) ~> [](pc = "loop")
=============================================================================
