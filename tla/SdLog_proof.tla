------------------------------ MODULE SdLog_proof ------------------------------
(***************************************************************************)
(* Proofs about SdLog for every set of volumes, size of a sector and of a  *)
(* line, number of lines and of presses of the button.                     *)
(***************************************************************************)
EXTENDS SdLog, TLAPS

-----------------------------------------------------------------------------
(***************************************************************************)
(* Types.                                                                  *)
(***************************************************************************)
Dirs == [kind : {"dir"}, of : {"old", "log"}, start : {0} \cup Cluster, size : Nat]
Texts == [kind : {"data"}, of : {"none", "other", "old", "log"}, nr : Nat, n : 0..SectorSize]
Fats == UNION {[kind : {"fat"}, nr : {k}, entry : [{d \in Cluster : FatNr(d) = k} -> 0..NFat]] :
                 k \in Nat}
Content == {Junk, Info} \cup Dirs \cup Texts \cup Fats

Creating == {"c_get", "c_got", "c_next", "c_try", "c_mark", "c_marked", "c_link", "c_linked",
             "c_end"}
Writing == {"chunk", "bound", "flush", "sector", "copy", "mark", "next", "done", "abort"}
              \cup Creating
Resting == {"loop", "puts"}
Returns == {"rm_put", "opened", "c_got", "c_try", "c_marked", "c_linked"}
Beginning == {"attach", "mount", "find", "status", "init", "open", "entry"}
Finding == {"find", "status", "init"}

\* The place that is reached when move_window is back.
goal == IF pc \in Moving THEN loc.ret ELSE pc

Entries == {0} \cup Cluster
Here == Sector(geo.csize)

FsType == fs \in [mounted : BOOLEAN, wflag : BOOLEAN, fsi : BOOLEAN, last : 0..NFat, winsect : Here]
FilType == fil \in [fs : BOOLEAN, dirty : BOOLEAN, written : BOOLEAN, err : BOOLEAN,
                    fptr : Nat, fsize : Nat, sclust : Entries, clust : Entries, dsect : Here]
LocType == loc \in [btw : 0..LineSize, clst : 0..NFat, scl : 0..NFat, ncl : 0..NFat,
                    target : Here, wsect : Here, ret : Returns \cup {"none", "open", "entry"}]
PlaceType == /\ pc \in Starting \cup Writing \cup Resting \cup Moving
             /\ pc \in Moving => loc.ret \in Returns
             /\ pc \in Finding => loc.ret \in {"open", "entry"}
DiskType == card \in [Here -> Content] /\ win \in Content /\ buf \in Texts
FlagType == /\ geo \in Volumes /\ geo \in Volume
            /\ reg \in BOOLEAN /\ sdmounted \in BOOLEAN /\ torn \in BOOLEAN
            /\ opened \in BOOLEAN /\ closed \in BOOLEAN
            /\ lines \in Nat /\ handled \in Nat /\ reported \in Nat

Types == FsType /\ FilType /\ LocType /\ PlaceType /\ DiskType /\ FlagType

\* The clusters that are looked up are clusters.
ClusterInv ==
    /\ goal \in {"rm_get", "rm_put", "c_get", "c_got", "c_link", "c_linked"} =>
          loc.clst \in Cluster
    /\ goal \in Creating => loc.clst \in Entries
    /\ goal \in {"rm_get", "rm_put", "rm_back"} => loc.scl \in Cluster
    /\ goal \in {"c_try", "c_mark", "c_marked", "c_link", "c_linked", "c_end"} =>
          loc.ncl \in Cluster
    /\ goal = "c_next" => loc.ncl \in 1..NFat - 1
    /\ fil.fs /\ (fil.fptr > 0 \/ goal \in {"flush", "sector", "copy", "mark", "next"}) =>
          fil.clust \in Cluster

\* How much text there is.
Units(n) == n * LineSize   \* the text of n lines

CountInv ==
    /\ lines <= MaxLines
    /\ goal \in Writing \cup {"puts"} => lines < MaxLines
    /\ goal \in Writing => fil.fptr + loc.btw <= Units(lines + 1)
    /\ goal \notin Writing => fil.fptr <= Units(lines)
    /\ fil.fsize <= fil.fptr
    /\ reported <= Units(lines)

\* Until f_open has succeeded there is nothing the handler could close, and the
\* directory is left alone but for the entry of the file.
StartInv ==
    /\ goal \in Starting => ~opened
    /\ ~opened => /\ ~fil.fs /\ goal \in Starting \cup Resting
                  /\ isr \in {"off", "validate", "unmount"} /\ ~torn
                  /\ card[DirSec].kind = "dir"
                  /\ fs.winsect = DirSec /\ pc # "mw_set" => win.kind = "dir"
                  /\ pc = "mw_set" /\ loc.target = DirSec => win.kind = "dir"
                  /\ pc = "mw_write" => loc.wsect = fs.winsect
    /\ pc = "rm_put" => fs.winsect = FatSec(loc.clst)
    /\ pc \in Moving /\ loc.ret = "rm_put" =>
          loc.target = FatSec(loc.clst) \/ (pc = "mw_set" /\ loc.target = NoSec)

Inv == Types /\ ClusterInv /\ CountInv /\ StartInv

-----------------------------------------------------------------------------
(***************************************************************************)
(* Sectors and their contents.                                             *)
(***************************************************************************)
LEMMA Numbers == /\ NFat \in Nat /\ NFat >= 3 /\ Cluster = 2..NFat - 1
                 /\ SectorSize \in Nat \ {0} /\ LineSize \in 1..SectorSize
                 /\ PerFat \in Nat \ {0} /\ MaxLines \in Nat
BY VolumeAssumption, SdLogAssumption DEF NFat, Cluster

LEMMA FatNrType == ASSUME NEW c \in Cluster PROVE FatNr(c) \in Nat
BY Numbers DEF FatNr

LEMMA SectorsAre ==
    ASSUME NEW s \in Nat \ {0}
    PROVE  /\ \A c \in Cluster : FatSec(c) \in Sector(s)
           /\ DirSec \in Sector(s) /\ InfoSec \in Sector(s) /\ NoSec \in Sector(s)
           /\ \A c \in Cluster, off \in 0..s - 1 : DataSec(c, off, s) \in Sector(s)
BY DEF Sector

LEMMA SectorsDiffer == /\ InfoSec # DirSec /\ NoSec # DirSec
                       /\ \A c : FatSec(c) # DirSec
BY DEF InfoSec, DirSec, NoSec, FatSec

LEMMA Contents ==
    /\ Junk \in Content /\ Info \in Content
    /\ \A of \in {"old", "log"}, start \in Entries, size \in Nat :
          DirOf(of, start, size) \in Content
    /\ \A of \in {"none", "other", "old", "log"}, nr \in Nat, n \in 0..SectorSize :
          DataOf(of, nr, n) \in Texts /\ DataOf(of, nr, n) \in Content
BY DEF Content, Dirs, Texts, DirOf, DataOf, Entries

LEMMA FatsHas ==
    ASSUME NEW k \in Nat, NEW w,
           w \in [kind : {"fat"}, nr : {k}, entry : [{d \in Cluster : FatNr(d) = k} -> 0..NFat]]
    PROVE  w \in Fats
BY DEF Fats

LEMMA Kinds ==
    ASSUME NEW w \in Content
    PROVE  /\ w.kind = "fat" => w \in Fats
           /\ w.kind = "dir" => w \in Dirs
<1>1. CASE w = Junk \/ w = Info
  <2>1. Junk.kind = "junk" /\ Info.kind = "info"
    BY DEF Junk, Info
  <2> QED BY <1>1, <2>1
<1>2. CASE w \in Dirs
  BY <1>2 DEF Dirs
<1>3. CASE w \in Texts
  BY <1>3 DEF Texts
<1>4. CASE w \in Fats
  <2>1. PICK k \in Nat :
          w \in [kind : {"fat"}, nr : {k}, entry : [{d \in Cluster : FatNr(d) = k} -> 0..NFat]]
    BY <1>4 DEF Fats
  <2>2. w.kind = "fat"
    BY <2>1
  <2> QED BY <1>4, <2>2
<1> QED BY <1>1, <1>2, <1>3, <1>4 DEF Content

LEMMA FatContent ==
    ASSUME NEW w \in Content, w.kind = "fat"
    PROVE  w.nr \in Nat
           /\ w \in [kind : {"fat"}, nr : {w.nr},
                     entry : [{d \in Cluster : FatNr(d) = w.nr} -> 0..NFat]]
<1>1. PICK k \in Nat :
        w \in [kind : {"fat"}, nr : {k}, entry : [{d \in Cluster : FatNr(d) = k} -> 0..NFat]]
  BY Kinds DEF Fats
<1>2. w.nr = k
  BY <1>1
<1> QED BY <1>1, <1>2

LEMMA EntryType == ASSUME NEW w \in Content, NEW c \in Cluster PROVE Entry(w, c) \subseteq 0..NFat
<1>1. CASE w.kind = "fat" /\ w.nr = FatNr(c)
  <2>1. w.entry \in [{d \in Cluster : FatNr(d) = w.nr} -> 0..NFat]
    BY <1>1, FatContent
  <2>2. c \in {d \in Cluster : FatNr(d) = w.nr}
    BY <1>1
  <2>3. w.entry[c] \in 0..NFat
    BY <2>1, <2>2
  <2> QED BY <1>1, <2>3 DEF Entry
<1>2. CASE ~(w.kind = "fat" /\ w.nr = FatNr(c))
  BY <1>2 DEF Entry
<1> QED BY <1>1, <1>2

LEMMA WithEntryType ==
    ASSUME NEW w \in Content, NEW c \in Cluster, NEW v \in 0..NFat
    PROVE  WithEntry(w, c, v) \in Content
<1>1. CASE w.kind = "fat" /\ w.nr = FatNr(c)
  <2>1. [w EXCEPT !.entry[c] = v]
          \in [kind : {"fat"}, nr : {w.nr}, entry : [{d \in Cluster : FatNr(d) = w.nr} -> 0..NFat]]
    BY <1>1, FatContent
  <2>2. [w EXCEPT !.entry[c] = v] \in Fats
    <3>1. w.nr \in Nat
      BY <1>1, FatContent
    <3> QED BY <2>1, <3>1, FatsHas
  <2> QED BY <1>1, <2>2 DEF WithEntry, Content
<1>2. CASE ~(w.kind = "fat" /\ w.nr = FatNr(c))
  BY <1>2, Contents DEF WithEntry
<1> QED BY <1>1, <1>2

LEMMA WriteType ==
    ASSUME DiskType, NEW s \in Here, NEW content \in Content, NEW ok \in BOOLEAN,
           disk_write(s, content, ok), geo' = geo
    PROVE  card' \in [Here' -> Content] /\ \A t \in Here \ {s} : card'[t] = card[t]
<1>1. PICK c \in {card[s], content} \cup (IF torn THEN {Junk} ELSE {}) :
         card' = [card EXCEPT ![s] = c]
  BY DEF disk_write
<1>2. c \in Content
  BY <1>1, Contents DEF DiskType
<1> QED BY <1>1, <1>2 DEF DiskType, Here

LEMMA ReadType ==
    ASSUME DiskType, NEW s \in Here, NEW ok \in BOOLEAN, disk_read(s, ok)
    PROVE  win' \in Content /\ card' = card
BY Contents DEF DiskType, disk_read

-----------------------------------------------------------------------------
(***************************************************************************)
(* Types are kept.                                                         *)
(***************************************************************************)
LEMMA GeoStays == [Next]_vars => geo' = geo
BY DEF Next, Main, Handler, Press, vars, button, At, In, Get, Put,
       MoveWindow, SyncWindow, ClearFlag, ReadWindow, SetSector, Attach, f_mount, FindVolume,
       VolumeStatus, InitVolume,
       f_open, MakeEntry, RemoveGet, RemovePut, RemoveBack, Opened, TestSdmounted, f_puts,
       Chunk, Boundary, CreateGet, CreateGot, CreateNext, CreateTry, CreateMark,
       CreateMarked, CreateLink, CreateLinked, CreateEnd, Flush, NextSector, Copy,
       MarkDirty, Advance, Done, Abort, Interrupt, SyncValidate, SyncData, SyncMoveWindow,
       SyncReadWindow, SyncEntry, SyncFs, SyncFsInfo, f_close, Unmount

LEMMA HereHas ==
    ASSUME FlagType
    PROVE  /\ \A c \in Cluster : FatSec(c) \in Here
           /\ DirSec \in Here /\ InfoSec \in Here /\ NoSec \in Here
           /\ \A c \in Cluster, off \in 0..geo.csize - 1 : DataSec(c, off, geo.csize) \in Here
           /\ geo.csize \in Nat \ {0} /\ geo.hint \in 0..NFat
<1>1. geo.csize \in Nat \ {0} /\ geo.hint \in 0..NFat
  BY DEF FlagType, Volume
<1> QED BY <1>1, SectorsAre DEF Here

\* How much of the line goes into the sector.
LEMMA Chunks ==
    ASSUME FilType, LocType, FlagType
    PROVE  /\ wcnt \in 0..loc.btw
           /\ (fil.fptr % SectorSize) + wcnt \in 0..SectorSize
           /\ fil.fptr \div SectorSize \in Nat
           /\ csect \in 0..geo.csize - 1
<1>1. fil.fptr \in Nat /\ loc.btw \in Nat /\ geo.csize \in Nat \ {0}
  BY HereHas, Numbers DEF FilType, LocType
<1>2. fil.fptr % SectorSize \in 0..SectorSize - 1 /\ fil.fptr \div SectorSize \in Nat
  BY <1>1, Numbers
<1>3. csect \in 0..geo.csize - 1
  BY <1>1, <1>2 DEF csect
<1> DEFINE r == fil.fptr % SectorSize
           room == SectorSize - r
<1>4. room \in Nat /\ r + room = SectorSize
  BY <1>2, Numbers
<1>5. wcnt = IF room > loc.btw THEN loc.btw ELSE room
  BY DEF wcnt
<1> HIDE DEF room, r
<1>6. wcnt \in 0..loc.btw /\ wcnt <= room
  BY <1>1, <1>4, <1>5
<1>7. r \in Nat /\ r + wcnt \in 0..SectorSize
  <2>1. r \in Nat /\ wcnt \in Nat
    BY <1>1, <1>2, <1>6 DEF r
  <2> QED BY <1>4, <1>6, <2>1, Numbers
<1> QED BY <1>2, <1>3, <1>6, <1>7 DEF r

LEMMA FilTypeStep ==
    ASSUME Inv, [Next]_vars, geo' = geo
    PROVE  FilType'
<1> USE Numbers DEF Inv, Types, FilType, At, Goto, In, Then, file, Here, Entries
<1>1. CASE f_open
  BY <1>1 DEF f_open
<1>2. CASE Opened
  BY <1>2, HereHas DEF Opened
<1>3. CASE Boundary
  BY <1>3 DEF Boundary
<1>4. CASE CreateGot
  <2>1. loc.clst \in Cluster
    BY <1>4 DEF CreateGot, ClusterInv, goal, Moving
  <2>2. Entry(win, loc.clst) \subseteq 0..NFat
    BY <2>1, EntryType DEF DiskType
  <2>3. fil' = fil \/ \E cs \in 2..NFat - 1 : fil' = [fil EXCEPT !.clust = cs]
    BY <1>4, <2>2 DEF CreateGot
  <2> QED BY <2>3
<1>5. CASE CreateEnd
  <2>1. loc.ncl \in Cluster
    BY <1>5 DEF CreateEnd, ClusterInv, goal, Moving
  <2> QED BY <1>5, <2>1 DEF CreateEnd
<1>6. CASE Flush
  BY <1>6 DEF Flush
<1>7. CASE NextSector
  <2>1. NoSec \in Here /\ \A c \in Cluster : DataSec(c, csect, geo.csize) \in Here
    BY HereHas, Chunks
  <2>2. fil' = fil \/ \E s \in Here : fil' = [fil EXCEPT !.dsect = s]
    BY <1>7, <2>1 DEF NextSector
  <2> QED BY <2>2
<1>8. CASE MarkDirty
  BY <1>8 DEF MarkDirty
<1>9. CASE Advance
  <2>1. fil.fptr + wcnt \in Nat
    <3>1. wcnt \in Nat
      BY Chunks DEF LocType
    <3> QED BY <3>1
  <2> QED BY <1>9, <2>1 DEF Advance
<1>10. CASE Done
  BY <1>10 DEF Done, Grown
<1>11. CASE Abort
  BY <1>11 DEF Abort
<1>12. CASE SyncData
  BY <1>12 DEF SyncData
<1>13. CASE SyncEntry
  BY <1>13 DEF SyncEntry
<1>14. CASE f_close
  BY <1>14 DEF f_close
<1>15. CASE UNCHANGED fil
  BY <1>15
<1> QED
    BY <1>1, <1>2, <1>3, <1>4, <1>5, <1>6, <1>7, <1>8, <1>9, <1>10, <1>11, <1>12, <1>13, <1>14,
      <1>15 DEF Next, Main, Handler, Press, vars, Get, Put, MoveWindow, SyncWindow, ClearFlag,
      ReadWindow, SetSector,
      Attach, f_mount, FindVolume, VolumeStatus, InitVolume, MakeEntry, RemoveGet, RemovePut,
      RemoveBack,
      TestSdmounted, f_puts, Chunk, CreateGet, CreateNext, CreateTry, CreateMark, CreateMarked,
      CreateLink, CreateLinked, Copy, Interrupt, SyncValidate, SyncMoveWindow, SyncReadWindow,
      SyncFs, SyncFsInfo, Unmount

LEMMA MoveType ==
    ASSUME LocType, FlagType, geo' = geo, NEW t \in Here, NEW r \in Returns, Move(t, r)
    PROVE  LocType'
BY DEF LocType, Move, Here

LEMMA NoLocalsType == ASSUME FlagType, geo' = geo, loc' = NoLocals PROVE LocType'
<1>1. NoSec \in Here
  BY HereHas
<1> QED BY <1>1, Numbers DEF NoLocals, LocType, Here

\* The entry of the file as f_open finds it.
LEMMA FoundEntry == ASSUME Inv, pc = "entry" PROVE card[DirSec].start \in Entries
<1>1. card[DirSec].kind = "dir"
  BY DEF Inv, StartInv, goal, Moving, Starting
<1>2. card[DirSec] \in Content
  BY HereHas DEF Inv, Types, DiskType
<1> QED BY <1>1, <1>2, Kinds DEF Dirs, Entries

LEMMA LocTypeStep ==
    ASSUME Inv, [Next]_vars, geo' = geo
    PROVE  LocType'
<1> USE Numbers DEF Inv, Types, LocType, At, Goto, In, Then, Get, Put, Here, Entries, Returns, file
<1>1. CASE MoveWindow
  <2>1. NoSec \in Here /\ fs.winsect \in Here
    BY HereHas DEF FsType
  <2> QED BY <1>1, <2>1 DEF MoveWindow
<1>2. CASE MakeEntry
  <2>1. card[DirSec].start \in 0..NFat
    BY <1>2, FoundEntry DEF MakeEntry, Cluster
  <2> QED BY <1>2, <2>1 DEF MakeEntry
<1>3. CASE RemoveGet
  <2>1. FatSec(loc.clst) \in Here
    BY <1>3, HereHas DEF RemoveGet, ClusterInv, goal, Moving
  <2> QED BY <1>3, <2>1, MoveType DEF RemoveGet
<1>4. CASE RemovePut
  <2>1. Entry(win, loc.clst) \subseteq 0..NFat
    BY <1>4, EntryType DEF RemovePut, ClusterInv, goal, Moving, DiskType
  <2> QED BY <1>4, <2>1 DEF RemovePut
<1>5. CASE RemoveBack
  BY <1>5, HereHas, MoveType DEF RemoveBack
<1>6. CASE Opened
  BY <1>6, NoLocalsType DEF Opened
<1>7. CASE f_puts
  BY <1>7 DEF f_puts
<1>8. CASE Boundary
  <2>1. fs.last \in 0..NFat /\ fil.clust \in 0..NFat
    BY DEF FsType, FilType, Cluster
  <2> DEFINE scl == IF fs.last = 0 \/ fs.last >= NFat THEN 1 ELSE fs.last
  <2>2. scl \in 0..NFat
    BY <2>1
  <2>3. \/ UNCHANGED loc
        \/ loc' = [loc EXCEPT !.clst = 0, !.scl = scl, !.ncl = scl]
        \/ loc' = [loc EXCEPT !.clst = fil.clust]
    BY <1>8 DEF Boundary
  <2> HIDE DEF scl
  <2>4. CASE UNCHANGED loc
    BY <2>4
  <2>5. CASE loc' = [loc EXCEPT !.clst = 0, !.scl = scl, !.ncl = scl]
    <3>1. 0 \in 0..NFat
      OBVIOUS
    <3> QED BY <2>2, <2>5, <3>1
  <2>6. CASE loc' = [loc EXCEPT !.clst = fil.clust]
    BY <2>1, <2>6
  <2> QED BY <2>3, <2>4, <2>5, <2>6
<1>9. CASE CreateGet
  <2>1. FatSec(loc.clst) \in Here
    BY <1>9, HereHas DEF CreateGet, ClusterInv, goal, Moving
  <2> QED BY <1>9, <2>1, MoveType DEF CreateGet
<1>10. CASE CreateGot
  BY <1>10 DEF CreateGot
<1>11. CASE CreateNext
  <2> DEFINE ncl == IF loc.ncl + 1 >= NFat THEN 2 ELSE loc.ncl + 1
  <2>1. ncl \in Cluster
    BY <1>11 DEF CreateNext, ClusterInv, goal, Moving, Creating
  <2>2. FatSec(ncl) \in Here /\ ncl \in 0..NFat
    BY <2>1, HereHas DEF Cluster
  <2> HIDE DEF ncl
  <2>3. \/ UNCHANGED loc
        \/ loc' = [loc EXCEPT !.ncl = ncl, !.target = FatSec(ncl), !.ret = "c_try"]
    BY <1>11 DEF CreateNext, ncl
  <2> QED BY <2>2, <2>3
<1>12. CASE CreateMark
  <2>1. FatSec(loc.ncl) \in Here
    BY <1>12, HereHas DEF CreateMark, ClusterInv, goal, Moving
  <2> QED BY <1>12, <2>1, MoveType DEF CreateMark
<1>13. CASE CreateLink
  <2>1. FatSec(loc.clst) \in Here
    BY <1>13, HereHas DEF CreateLink, ClusterInv, goal, Moving
  <2> QED BY <1>13, <2>1, MoveType DEF CreateLink
<1>14. CASE Advance
  <2>1. wcnt \in 0..loc.btw
    BY Chunks
  <2>2. loc' = [loc EXCEPT !.btw = loc.btw - wcnt]
    BY <1>14 DEF Advance
  <2>3. loc.btw \in 0..LineSize
    OBVIOUS
  <2>4. loc.btw - wcnt \in 0..LineSize
    BY <2>1, <2>3
  <2> QED BY <2>2, <2>4
<1>15. CASE Done
  BY <1>15, NoLocalsType DEF Done
<1>16. CASE Abort
  BY <1>16, NoLocalsType DEF Abort
<1>17. CASE f_mount
  BY <1>17 DEF f_mount
<1>18. CASE f_open
  BY <1>18 DEF f_open
<1>19. CASE ReadWindow
  <2>1. NoSec \in Here
    BY HereHas
  <2> QED BY <1>19, <2>1 DEF ReadWindow
<1>20. CASE UNCHANGED loc
  BY <1>20
<1> QED
    BY <1>1, <1>2, <1>3, <1>4, <1>5, <1>6, <1>7, <1>8, <1>9, <1>10, <1>11, <1>12, <1>13, <1>14,
      <1>15, <1>16, <1>17, <1>18, <1>19, <1>20
    DEF Next, Main, Handler, Press, vars, Move, SyncWindow, ClearFlag, SetSector, Attach,
      FindVolume, VolumeStatus, InitVolume, TestSdmounted, Chunk, CreateTry, CreateMarked,
      CreateLinked, CreateEnd, Flush, NextSector, Copy, MarkDirty, Interrupt, SyncValidate,
      SyncData, SyncMoveWindow, SyncReadWindow, SyncEntry, SyncFs, SyncFsInfo, f_close, Unmount

LEMMA FsTypeStep ==
    ASSUME Inv, [Next]_vars, geo' = geo
    PROVE  FsType'
<1> USE Numbers DEF Inv, Types, FsType, At, Goto, In, Then, Here, Failed
<1>1. CASE ClearFlag
  BY <1>1 DEF ClearFlag
<1>2. CASE SetSector
  <2>1. loc.target \in Here
    BY DEF LocType
  <2> QED BY <1>2, <2>1 DEF SetSector
<1>3. CASE f_mount
  BY <1>3 DEF f_mount
<1>4. CASE InitVolume
  <2>1. NoSec \in Here /\ InfoSec \in Here /\ geo.hint \in 0..NFat
    BY HereHas
  <2>2. CASE fs' = [fs EXCEPT !.mounted = FALSE, !.wflag = FALSE, !.winsect = NoSec]
    BY <2>1, <2>2
  <2>3. CASE fs' = [mounted |-> TRUE, wflag |-> FALSE, fsi |-> FALSE,
                    last |-> IF geo.fat32 THEN geo.hint ELSE NFat, winsect |-> InfoSec]
    BY <2>1, <2>3
  <2> QED BY <1>4, <2>2, <2>3 DEF InitVolume
<1>5. CASE MakeEntry
  BY <1>5, HereHas DEF MakeEntry
<1>6. CASE RemovePut
  BY <1>6 DEF RemovePut
<1>7. CASE RemoveBack
  <2>1. loc.scl - 1 \in 0..NFat
    BY <1>7 DEF RemoveBack, ClusterInv, goal, Moving
  <2> QED BY <1>7, <2>1 DEF RemoveBack
<1>8. CASE CreateMarked
  BY <1>8 DEF CreateMarked
<1>9. CASE CreateLinked
  BY <1>9 DEF CreateLinked
<1>10. CASE CreateEnd
  BY <1>10 DEF CreateEnd, LocType
<1>11. CASE SyncMoveWindow
  BY <1>11 DEF SyncMoveWindow
<1>12. CASE SyncReadWindow
  BY <1>12, HereHas DEF SyncReadWindow
<1>13. CASE SyncEntry
  BY <1>13 DEF SyncEntry
<1>14. CASE SyncFs
  BY <1>14 DEF SyncFs
<1>15. CASE SyncFsInfo
  BY <1>15, HereHas DEF SyncFsInfo
<1>16. CASE Unmount
  BY <1>16 DEF Unmount
<1>17. CASE UNCHANGED fs
  BY <1>17
<1> QED
    BY <1>1, <1>2, <1>3, <1>4, <1>5, <1>6, <1>7, <1>8, <1>9, <1>10, <1>11, <1>12, <1>13, <1>14,
      <1>15, <1>16, <1>17
    DEF Next, Main, Handler, Press, vars, Get, Put, volume, button, MoveWindow, SyncWindow,
      ReadWindow, Attach, FindVolume, VolumeStatus, f_open, RemoveGet, Opened, TestSdmounted,
      f_puts, Chunk, Boundary, CreateGet,
      CreateGot, CreateNext, CreateTry, CreateMark, CreateLink, Flush, NextSector, Copy,
      MarkDirty, Advance, Done, Abort, Interrupt, SyncValidate, SyncData, f_close

LEMMA DiskTypeStep ==
    ASSUME Inv, [Next]_vars, geo' = geo
    PROVE  DiskType'
<1> USE Numbers DEF Inv, Types, At, Goto, In, Then, volume, file
<1>1. CASE SyncWindow
  <2>1. PICK ok \in BOOLEAN : disk_write(loc.wsect, win, ok)
    BY <1>1 DEF SyncWindow
  <2>2. loc.wsect \in Here
    BY DEF LocType
  <2> QED BY <1>1, <2>1, <2>2, WriteType DEF SyncWindow, DiskType
<1>2. CASE ReadWindow
  <2>1. PICK ok \in BOOLEAN : disk_read(loc.target, ok)
    BY <1>2 DEF ReadWindow
  <2>2. loc.target \in Here
    BY DEF LocType
  <2> QED BY <1>2, <2>1, <2>2, ReadType DEF ReadWindow, DiskType, Here
<1>3. CASE InitVolume
  BY <1>3, HereHas, Contents DEF InitVolume, DiskType, Here
<1>4. CASE MakeEntry
  BY <1>4, Contents DEF MakeEntry, DiskType, Here, Entries
<1>5. CASE RemovePut
  <2>1. loc.clst \in Cluster
    BY <1>5 DEF RemovePut, ClusterInv, goal, Moving
  <2>2. WithEntry(win, loc.clst, 0) \in Content
    BY <2>1, WithEntryType DEF DiskType
  <2> QED BY <1>5, <2>2 DEF RemovePut, DiskType, Here
<1>6. CASE CreateMarked
  <2>1. loc.ncl \in Cluster
    BY <1>6 DEF CreateMarked, ClusterInv, goal, Moving
  <2>2. WithEntry(win, loc.ncl, NFat) \in Content
    BY <2>1, WithEntryType DEF DiskType
  <2> QED BY <1>6, <2>2 DEF CreateMarked, DiskType, Here
<1>7. CASE CreateLinked
  <2>1. loc.clst \in Cluster /\ loc.ncl \in 0..NFat
    BY <1>7 DEF CreateLinked, ClusterInv, goal, Moving, LocType
  <2>2. WithEntry(win, loc.clst, loc.ncl) \in Content
    BY <2>1, WithEntryType DEF DiskType
  <2> QED BY <1>7, <2>2 DEF CreateLinked, DiskType, Here
<1>8. CASE Flush
  <2>1. CASE \E ok \in BOOLEAN : disk_write(fil.dsect, buf, ok)
    <3>1. fil.dsect \in Here
      BY DEF FilType
    <3> QED BY <1>8, <2>1, <3>1, WriteType, Contents DEF Flush, DiskType, Content
  <2>2. CASE card' = card
    BY <1>8, <2>2, Contents DEF Flush, DiskType, Here
  <2> QED BY <1>8, <2>1, <2>2 DEF Flush
<1>9. CASE Copy
  <2>1. buf' \in Texts
    BY <1>9, Chunks, Contents DEF Copy
  <2> QED BY <1>9, <2>1 DEF Copy, DiskType, Here
<1>10. CASE SyncData
  <2>1. CASE \E ok \in BOOLEAN : disk_write(fil.dsect, buf, ok)
    <3>1. fil.dsect \in Here
      BY DEF FilType
    <3> QED BY <1>10, <2>1, <3>1, WriteType, Contents DEF SyncData, DiskType, Content
  <2>2. CASE card' = card
    BY <1>10, <2>2, Contents DEF SyncData, DiskType, Here
  <2> QED BY <1>10, <2>1, <2>2 DEF SyncData
<1>11. CASE SyncMoveWindow
  <2>1. CASE \E ok \in BOOLEAN : disk_write(fs.winsect, win, ok)
    <3>1. fs.winsect \in Here
      BY DEF FsType
    <3> QED BY <1>11, <2>1, <3>1, WriteType, Contents DEF SyncMoveWindow, DiskType
  <2>2. CASE card' = card
    BY <1>11, <2>2, Contents DEF SyncMoveWindow, DiskType, Here
  <2> QED BY <1>11, <2>1, <2>2 DEF SyncMoveWindow
<1>12. CASE SyncReadWindow
  <2>1. PICK ok \in BOOLEAN : disk_read(DirSec, ok)
    BY <1>12 DEF SyncReadWindow
  <2>2. DirSec \in Here
    BY HereHas
  <2> QED BY <1>12, <2>1, <2>2, ReadType DEF SyncReadWindow, DiskType, Here
<1>13. CASE SyncEntry
  <2>1. fil.sclust \in Entries /\ fil.fsize \in Nat
    BY DEF FilType
  <2> QED BY <1>13, <2>1, Contents DEF SyncEntry, DiskType, Here
<1>14. CASE SyncFs
  <2>1. PICK ok \in BOOLEAN : disk_write(fs.winsect, win, ok)
    BY <1>14 DEF SyncFs
  <2>2. fs.winsect \in Here
    BY DEF FsType
  <2> QED BY <1>14, <2>1, <2>2, WriteType DEF SyncFs, DiskType
<1>15. CASE SyncFsInfo
  <2>1. CASE \E ok \in BOOLEAN : disk_write(InfoSec, Info, ok)
    <3>1. InfoSec \in Here
      BY HereHas
    <3> QED BY <1>15, <2>1, <3>1, WriteType, Contents DEF SyncFsInfo, DiskType
  <2>2. CASE card' = card
    BY <1>15, <2>2, Contents DEF SyncFsInfo, DiskType, Here
  <2> QED BY <1>15, <2>1, <2>2 DEF SyncFsInfo
<1>16. CASE UNCHANGED <<card, win, buf>>
  BY <1>16 DEF DiskType, Here
<1> QED
    BY <1>1, <1>2, <1>3, <1>4, <1>5, <1>6, <1>7, <1>8, <1>9, <1>10, <1>11, <1>12, <1>13, <1>14,
      <1>15, <1>16
    DEF Next, Main, Handler, Press, vars, Get, Put, MoveWindow, ClearFlag, SetSector, Attach,
      f_mount, FindVolume, VolumeStatus,
      f_open, RemoveGet, RemoveBack, Opened, TestSdmounted, f_puts, Chunk, Boundary, CreateGet,
      CreateGot, CreateNext, CreateTry, CreateMark, CreateLink, CreateEnd, NextSector,
      MarkDirty, Advance, Done, Abort, Interrupt, SyncValidate, f_close, Unmount

LEMMA FlagTypeStep ==
    ASSUME Inv, [Next]_vars, geo' = geo
    PROVE  FlagType'
<1> USE Numbers DEF Inv, Types, FlagType, At, Goto, In, Then, Failed, Get, Put, button, history,
    volume
<1>1. CASE f_mount
  BY <1>1 DEF f_mount
<1>2. CASE Opened
  BY <1>2 DEF Opened
<1>3. CASE Done
  BY <1>3 DEF Done
<1>4. CASE Abort
  BY <1>4 DEF Abort
<1>5. CASE Interrupt
  BY <1>5 DEF Interrupt
<1>6. CASE f_close
  BY <1>6 DEF f_close
<1>7. CASE Unmount
  <2>1. /\ reg' = FALSE /\ sdmounted' = FALSE /\ handled' = handled + 1
        /\ UNCHANGED <<torn, opened, closed, lines, reported>>
    BY <1>7 DEF Unmount
  <2>2. handled' \in Nat
    BY <2>1
  <2> QED BY <2>1, <2>2, Zenon
<1>8. CASE UNCHANGED <<reg, sdmounted, torn, opened, closed, lines, handled, reported>>
  BY <1>8
<1> QED
  BY <1>1, <1>2, <1>3, <1>4, <1>5, <1>6, <1>7, <1>8
    DEF Next, Main, Handler, Press, vars, MoveWindow, SyncWindow, ClearFlag, ReadWindow, SetSector,
      Attach, FindVolume, VolumeStatus, InitVolume, f_open, MakeEntry, RemoveGet, RemovePut,
      RemoveBack,
      TestSdmounted, f_puts, Chunk, Boundary, CreateGet, CreateGot, CreateNext, CreateTry,
      CreateMark, CreateMarked, CreateLink, CreateLinked, CreateEnd, Flush, NextSector, Copy,
      MarkDirty, Advance, SyncValidate, SyncData, SyncMoveWindow, SyncReadWindow, SyncEntry,
      SyncFs, SyncFsInfo

LEMMA PlaceTypeStep ==
    ASSUME Inv, [Next]_vars, geo' = geo
    PROVE  PlaceType'
<1> USE DEF Inv, Types, PlaceType, LocType, At, Goto, Get, Put, Move, Failed, Starting, Writing,
    Creating, Resting, Moving, Returns, Finding
<1>1. CASE MoveWindow
  BY <1>1 DEF MoveWindow
<1>2. CASE SyncWindow
  BY <1>2 DEF SyncWindow
<1>3. CASE ReadWindow
  BY <1>3 DEF ReadWindow
<1>4. CASE Attach
  BY <1>4 DEF Attach
<1>5. CASE f_mount
  BY <1>5 DEF f_mount
<1>6. CASE FindVolume
  BY <1>6 DEF FindVolume
<1>7. CASE InitVolume
  BY <1>7 DEF InitVolume
<1>8. CASE f_open
  BY <1>8 DEF f_open
<1>9. CASE MakeEntry
  BY <1>9 DEF MakeEntry
<1>10. CASE RemoveGet
  BY <1>10 DEF RemoveGet
<1>11. CASE RemovePut
  BY <1>11 DEF RemovePut
<1>12. CASE RemoveBack
  BY <1>12 DEF RemoveBack
<1>13. CASE Opened
  BY <1>13 DEF Opened
<1>14. CASE TestSdmounted
  BY <1>14 DEF TestSdmounted
<1>15. CASE f_puts
  BY <1>15 DEF f_puts
<1>16. CASE Chunk
  BY <1>16 DEF Chunk
<1>17. CASE Boundary
  BY <1>17 DEF Boundary
<1>18. CASE CreateGet
  BY <1>18 DEF CreateGet
<1>19. CASE CreateGot
  BY <1>19 DEF CreateGot
<1>20. CASE CreateNext
  BY <1>20 DEF CreateNext
<1>21. CASE CreateTry
  BY <1>21 DEF CreateTry
<1>22. CASE CreateMark
  BY <1>22 DEF CreateMark
<1>23. CASE CreateMarked
  BY <1>23 DEF CreateMarked
<1>24. CASE CreateLink
  BY <1>24 DEF CreateLink
<1>25. CASE CreateLinked
  BY <1>25 DEF CreateLinked
<1>26. CASE CreateEnd
  BY <1>26 DEF CreateEnd
<1>27. CASE Flush
  BY <1>27 DEF Flush
<1>28. CASE NextSector
  BY <1>28 DEF NextSector
<1>29. CASE Copy
  BY <1>29 DEF Copy
<1>30. CASE MarkDirty
  BY <1>30 DEF MarkDirty
<1>31. CASE Advance
  BY <1>31 DEF Advance
<1>32. CASE Done
  BY <1>32 DEF Done
<1>33. CASE Abort
  BY <1>33 DEF Abort
<1>34. CASE ClearFlag
  BY <1>34 DEF ClearFlag
<1>35. CASE SetSector
  BY <1>35 DEF SetSector
<1>36. CASE VolumeStatus
  BY <1>36 DEF VolumeStatus
<1>37. CASE UNCHANGED <<pc, loc>>
  BY <1>37
<1> QED
    BY <1>1, <1>2, <1>3, <1>4, <1>5, <1>6, <1>7, <1>8, <1>9, <1>10, <1>11, <1>12, <1>13, <1>14,
      <1>15, <1>16, <1>17, <1>18, <1>19, <1>20, <1>21, <1>22, <1>23, <1>24, <1>25, <1>26, <1>27,
      <1>28, <1>29, <1>30, <1>31, <1>32, <1>33, <1>34, <1>35, <1>36, <1>37
    DEF Next, Main, Handler, Press, vars, In, Then, Interrupt, SyncValidate, SyncData,
      SyncMoveWindow, SyncReadWindow, SyncEntry, SyncFs, SyncFsInfo, f_close, Unmount

LEMMA ClusterInvStep ==
    ASSUME Inv, [Next]_vars, geo' = geo
    PROVE  ClusterInv'
<1> USE Numbers DEF Inv, Types, PlaceType, LocType, FilType, ClusterInv, goal, At, In, Goto,
    Get, Put, Move, Failed, Starting, Writing, Creating, Resting, Moving, Returns, Entries,
    Finding, file
<1>1. CASE MoveWindow
  BY <1>1 DEF MoveWindow
<1>2. CASE SyncWindow
  BY <1>2 DEF SyncWindow
<1>3. CASE ReadWindow
  BY <1>3 DEF ReadWindow
<1>4. CASE Attach
  BY <1>4 DEF Attach
<1>5. CASE f_mount
  BY <1>5 DEF f_mount
<1>6. CASE FindVolume
  BY <1>6 DEF FindVolume
<1>7. CASE InitVolume
  BY <1>7 DEF InitVolume
<1>8. CASE f_open
  BY <1>8 DEF f_open
<1>9. CASE MakeEntry
  <2>1. card[DirSec].start \in Entries /\ UNCHANGED fil
    BY <1>9, FoundEntry DEF MakeEntry
  <2>2. CASE pc' = "loop"
    BY <2>1, <2>2
  <2>3. CASE pc' # "loop"
    <3>1. /\ pc' = IF card[DirSec].start = 0 THEN "opened" ELSE "rm_get"
          /\ loc' = [loc EXCEPT !.clst = card[DirSec].start, !.scl = card[DirSec].start]
      BY <1>9, <2>3 DEF MakeEntry
    <3> QED BY <2>1, <3>1
  <2> QED BY <2>2, <2>3
<1>10. CASE RemoveGet
  <2>1. UNCHANGED fil /\ goal = pc
    BY <1>10 DEF RemoveGet
  <2>2. CASE fs.mounted
    <3>1. pc' = "mw" /\ loc' = [loc EXCEPT !.target = FatSec(loc.clst), !.ret = "rm_put"]
      BY <1>10, <2>2 DEF RemoveGet
    <3>2. goal' = "rm_put" /\ loc'.clst = loc.clst /\ loc'.scl = loc.scl /\ loc'.ncl = loc.ncl
      BY <3>1
    <3> QED BY <1>10, <2>1, <3>2 DEF RemoveGet
  <2>3. CASE ~fs.mounted
    BY <1>10, <2>1, <2>3 DEF RemoveGet
  <2> QED BY <2>2, <2>3
<1>11. CASE RemovePut
  <2>1. loc.clst \in Cluster /\ loc.scl \in Cluster /\ UNCHANGED fil
    BY <1>11 DEF RemovePut
  <2>2. PICK nxt \in Entry(win, loc.clst) :
           \/ pc' \in {"rm_back", "loop"} /\ UNCHANGED loc
           \/ /\ nxt # 0 /\ nxt # 1 /\ loc' = [loc EXCEPT !.clst = nxt]
              /\ pc' = IF ChainEnd(nxt) THEN "rm_back" ELSE "rm_get"
    BY <1>11 DEF RemovePut
  <2>3. CASE pc' = "rm_get"
    <3>1. nxt \in Cluster
      BY <2>2, <2>3 DEF ChainEnd
    <3> QED BY <2>1, <2>2, <2>3, <3>1
  <2>4. CASE pc' # "rm_get"
    BY <2>1, <2>2, <2>4
  <2> QED BY <2>3, <2>4
<1>12. CASE RemoveBack
  BY <1>12 DEF RemoveBack
<1>13. CASE Opened
  BY <1>13 DEF Opened
<1>14. CASE TestSdmounted
  BY <1>14 DEF TestSdmounted
<1>15. CASE f_puts
  BY <1>15 DEF f_puts
<1>16. CASE Chunk
  BY <1>16 DEF Chunk
<1>17. CASE Boundary
  <2>1. CASE ~fil.fs
    BY <1>17, <2>1 DEF Boundary
  <2>2. CASE fil.fs /\ (csect # 0 \/ (fil.fptr = 0 /\ fil.sclust # 0))
    <3>1. fil.fptr = 0 => csect = 0
      BY HereHas DEF csect
    <3>2. pc' = "flush" /\ UNCHANGED loc
      BY <1>17, <2>2 DEF Boundary
    <3>3. CASE fil.fptr = 0
      <4>1. fil' = [fil EXCEPT !.clust = fil.sclust] /\ fil.sclust \in Cluster
        BY <1>17, <2>2, <3>1, <3>3 DEF Boundary
      <4> QED BY <3>2, <4>1
    <3>4. CASE fil.fptr > 0
      <4>1. fil' = fil /\ fil.clust \in Cluster
        BY <1>17, <2>2, <3>4 DEF Boundary
      <4> QED BY <3>2, <4>1
    <3> QED BY <3>3, <3>4
  <2>3. CASE fil.fs /\ fil.fptr = 0 /\ ~(csect # 0 \/ fil.sclust # 0)
    <3> DEFINE scl == IF fs.last = 0 \/ fs.last >= NFat THEN 1 ELSE fs.last
    <3>1. scl \in 1..NFat - 1
      BY DEF FsType
    <3>2. /\ pc' = "c_next" /\ loc' = [loc EXCEPT !.clst = 0, !.scl = scl, !.ncl = scl]
          /\ fil' = [fil EXCEPT !.clust = fil.sclust]
      BY <1>17, <2>3 DEF Boundary
    <3> HIDE DEF scl
    <3> QED BY <2>3, <3>1, <3>2
  <2>4. CASE fil.fs /\ fil.fptr > 0 /\ csect = 0
    <3>1. pc' = "c_get" /\ loc' = [loc EXCEPT !.clst = fil.clust] /\ fil' = fil
      BY <1>17, <2>4 DEF Boundary
    <3> QED BY <2>4, <3>1
  <2> QED BY <2>1, <2>2, <2>3, <2>4
<1>18. CASE CreateGet
  <2>1. UNCHANGED fil /\ goal = pc
    BY <1>18 DEF CreateGet
  <2>2. CASE fs.mounted
    <3>1. pc' = "mw" /\ loc' = [loc EXCEPT !.target = FatSec(loc.clst), !.ret = "c_got"]
      BY <1>18, <2>2 DEF CreateGet
    <3>2. goal' = "c_got" /\ loc'.clst = loc.clst /\ loc'.scl = loc.scl /\ loc'.ncl = loc.ncl
      BY <3>1
    <3> QED BY <1>18, <2>1, <3>2 DEF CreateGet
  <2>3. CASE ~fs.mounted
    BY <1>18, <2>1, <2>3 DEF CreateGet
  <2> QED BY <2>2, <2>3
<1>19. CASE CreateGot
  <2>1. loc.clst \in Cluster /\ Entry(win, loc.clst) \subseteq 0..NFat
    BY <1>19, EntryType DEF CreateGot, DiskType
  <2>2. PICK cs \in Entry(win, loc.clst) :
           IF cs < 2 THEN Goto("abort") /\ UNCHANGED <<loc, fil>>
           ELSE IF cs < NFat
           THEN Goto("flush") /\ fil' = [fil EXCEPT !.clust = cs] /\ UNCHANGED loc
           ELSE /\ Goto("c_next")
                /\ loc' = [loc EXCEPT !.scl = loc.clst, !.ncl = loc.clst]
                /\ UNCHANGED fil
    BY <1>19 DEF CreateGot
  <2>3. cs \in 0..NFat
    BY <2>1, <2>2
  <2>4. CASE cs < 2
    BY <2>2, <2>4
  <2>5. CASE cs >= 2 /\ cs < NFat
    <3>1. cs \in Cluster
      BY <2>3, <2>5
    <3> QED BY <2>2, <2>5, <3>1
  <2>6. CASE cs >= NFat
    <3>0. ~(cs < 2) /\ ~(cs < NFat)
      BY <2>3, <2>6
    <3>1. /\ pc' = "c_next" /\ UNCHANGED fil
          /\ loc' = [loc EXCEPT !.scl = loc.clst, !.ncl = loc.clst]
      BY <2>2, <3>0
    <3>3. loc'.clst = loc.clst /\ loc'.ncl = loc.clst
      BY <3>1
    <3>2. goal' = "c_next" /\ goal = "c_got"
      BY <1>19, <3>1 DEF CreateGot
    <3> QED BY <2>1, <3>1, <3>2, <3>3
  <2> QED BY <2>3, <2>4, <2>5, <2>6
<1>20. CASE CreateNext
  <2> DEFINE ncl == IF loc.ncl + 1 >= NFat THEN 2 ELSE loc.ncl + 1
  <2>1. ncl \in Cluster /\ UNCHANGED fil /\ loc.clst \in Entries
    BY <1>20 DEF CreateNext
  <2>2. \/ pc' \in {"done", "abort"} /\ UNCHANGED loc
        \/ /\ pc' = "mw"
           /\ loc' = [loc EXCEPT !.ncl = ncl, !.target = FatSec(ncl), !.ret = "c_try"]
    BY <1>20 DEF CreateNext, ncl
  <2> HIDE DEF ncl
  <2>3. CASE pc' # "mw"
    <3>1. goal' \in {"done", "abort"} /\ goal \in Writing
      BY <1>20, <2>2, <2>3 DEF CreateNext
    <3> QED BY <2>1, <3>1
  <2>4. CASE pc' = "mw"
    <3>1. goal' = "c_try" /\ loc'.clst = loc.clst /\ loc'.ncl = ncl
      BY <2>2, <2>4
    <3> QED BY <2>1, <3>1
  <2> QED BY <2>3, <2>4
<1>21. CASE CreateTry
  BY <1>21 DEF CreateTry
<1>22. CASE CreateMark
  <2>1. UNCHANGED fil /\ goal = pc
    BY <1>22 DEF CreateMark
  <2>2. CASE fs.mounted
    <3>1. pc' = "mw" /\ loc' = [loc EXCEPT !.target = FatSec(loc.ncl), !.ret = "c_marked"]
      BY <1>22, <2>2 DEF CreateMark
    <3>2. goal' = "c_marked" /\ loc'.clst = loc.clst /\ loc'.scl = loc.scl /\ loc'.ncl = loc.ncl
      BY <3>1
    <3> QED BY <1>22, <2>1, <3>2 DEF CreateMark
  <2>3. CASE ~fs.mounted
    BY <1>22, <2>1, <2>3 DEF CreateMark
  <2> QED BY <2>2, <2>3
<1>23. CASE CreateMarked
  BY <1>23 DEF CreateMarked
<1>24. CASE CreateLink
  <2>1. UNCHANGED fil /\ goal = pc
    BY <1>24 DEF CreateLink
  <2>2. CASE fs.mounted
    <3>1. pc' = "mw" /\ loc' = [loc EXCEPT !.target = FatSec(loc.clst), !.ret = "c_linked"]
      BY <1>24, <2>2 DEF CreateLink
    <3>2. goal' = "c_linked" /\ loc'.clst = loc.clst /\ loc'.scl = loc.scl /\ loc'.ncl = loc.ncl
      BY <3>1
    <3> QED BY <1>24, <2>1, <3>2 DEF CreateLink
  <2>3. CASE ~fs.mounted
    BY <1>24, <2>1, <2>3 DEF CreateLink
  <2> QED BY <2>2, <2>3
<1>25. CASE CreateLinked
  BY <1>25 DEF CreateLinked
<1>26. CASE CreateEnd
  BY <1>26 DEF CreateEnd
<1>27. CASE Flush
  <2>1. goal = "flush" /\ goal' \in {"sector", "abort"}
    BY <1>27 DEF Flush
  <2>2. fil'.fs = fil.fs /\ fil'.fptr = fil.fptr /\ fil'.clust = fil.clust /\ UNCHANGED loc
    BY <1>27 DEF Flush
  <2> QED BY <2>1, <2>2
<1>28. CASE NextSector
  <2>1. goal = "sector" /\ goal' \in {"copy", "abort"}
    BY <1>28 DEF NextSector
  <2>2. fil'.fs = fil.fs /\ fil'.fptr = fil.fptr /\ fil'.clust = fil.clust /\ UNCHANGED loc
    BY <1>28 DEF NextSector
  <2> QED BY <2>1, <2>2
<1>29. CASE Copy
  BY <1>29 DEF Copy
<1>30. CASE MarkDirty
  BY <1>30 DEF MarkDirty
<1>31. CASE Advance
  BY <1>31 DEF Advance
<1>32. CASE Done
  BY <1>32 DEF Done
<1>33. CASE Abort
  BY <1>33 DEF Abort
<1>34. CASE SyncData
  <2>1. fil'.fs = fil.fs /\ fil'.fptr = fil.fptr /\ fil'.clust = fil.clust
    BY <1>34 DEF SyncData
  <2>2. UNCHANGED <<pc, loc>>
    BY <1>34 DEF SyncData
  <2> QED BY <2>1, <2>2
<1>35. CASE SyncEntry
  BY <1>35 DEF SyncEntry
<1>36. CASE f_close
  BY <1>36 DEF f_close
<1>37. CASE ClearFlag
  BY <1>37 DEF ClearFlag
<1>38. CASE SetSector
  BY <1>38 DEF SetSector
<1>39. CASE VolumeStatus
  BY <1>39 DEF VolumeStatus
<1>40. CASE UNCHANGED <<pc, loc, fil>>
  BY <1>40
<1> QED
    BY <1>1, <1>2, <1>3, <1>4, <1>5, <1>6, <1>7, <1>8, <1>9, <1>10, <1>11, <1>12, <1>13, <1>14,
      <1>15, <1>16, <1>17, <1>18, <1>19, <1>20, <1>21, <1>22, <1>23, <1>24, <1>25, <1>26, <1>27,
      <1>28, <1>29, <1>30, <1>31, <1>32, <1>33, <1>34, <1>35, <1>36, <1>37, <1>38, <1>39, <1>40
    DEF Next, Main, Handler, Press, vars, Then, Interrupt, SyncValidate, SyncMoveWindow,
      SyncReadWindow, SyncFs, SyncFsInfo, Unmount

LEMMA TimesLine ==
    ASSUME NEW n \in Nat
    PROVE  Units(n) \in Nat /\ Units(n + 1) = Units(n) + LineSize
BY Numbers DEF Units

LEMMA LineWritten ==
    ASSUME Inv, goal \in Writing, goal' = "loop", lines' = lines + 1,
           reported' \in {reported, reported + LineSize},
           fil'.fptr = fil.fptr, fil'.fsize <= fil.fptr
    PROVE  CountInv'
<1>1. lines \in Nat /\ reported \in Nat /\ fil.fptr \in Nat /\ loc.btw \in Nat
  BY Numbers DEF Inv, Types, FilType, LocType, FlagType
<1>2. lines < MaxLines /\ fil.fptr + loc.btw <= Units(lines + 1) /\ reported <= Units(lines)
  BY DEF Inv, CountInv
<1>3. Units(lines) \in Nat /\ Units(lines') = Units(lines) + LineSize
  BY <1>1, TimesLine
<1>4. lines' <= MaxLines
  BY <1>1, <1>2, Numbers
<1>5. fil.fptr <= Units(lines') /\ reported' <= Units(lines')
  BY <1>1, <1>2, <1>3, Numbers
<1>6. goal' \notin Writing \cup {"puts"}
  BY DEF Writing, Creating
<1> QED BY <1>4, <1>5, <1>6 DEF CountInv

\* Nothing is added to the text, a line is neither begun nor ended, no file is opened.
CountKept == /\ UNCHANGED <<lines, opened, reported>> /\ (fil'.fs => fil.fs)
             /\ fil'.fptr = fil.fptr /\ fil'.fsize = fil.fsize
             /\ \/ goal' = goal /\ loc'.btw = loc.btw
                \/ goal \in Writing /\ goal' \in Writing /\ loc'.btw = loc.btw
                \/ goal \notin Writing \cup {"puts"} /\ goal' \notin Writing \cup {"puts"}

LEMMA CountStays == Inv /\ CountKept => CountInv'
BY DEF Inv, CountInv, CountKept

LEMMA MoveGoal ==
    ASSUME LocType, NEW target, NEW ret, Move(target, ret)
    PROVE  goal' = ret /\ loc'.btw = loc.btw
BY DEF LocType, Move, Goto, goal, Moving

\* The steps that begin, copy or end a line are these six.
LEMMA CountSteps ==
    ASSUME Inv, [Next]_vars, geo' = geo
    PROVE  CountKept \/ Opened \/ TestSdmounted \/ f_puts \/ Advance \/ Done \/ Abort
<1> USE DEF Inv, Types, PlaceType, LocType, FilType, FlagType, CountKept, goal, At, In, Goto,
    Get, Put, Failed, Starting, Writing, Creating, Resting, Moving, Returns, Finding, file, history
<1>1. MoveWindow => CountKept
  BY DEF MoveWindow
<1>2. SyncWindow => CountKept
  BY DEF SyncWindow
<1>3. ReadWindow => CountKept
  BY DEF ReadWindow
<1>4. Attach => CountKept
  BY DEF Attach
<1>5. f_mount => CountKept
  BY DEF f_mount
<1>6. FindVolume => CountKept
  BY DEF FindVolume
<1>7. InitVolume => CountKept
  BY DEF InitVolume
<1>8. f_open => CountKept
  BY DEF f_open
<1>9. MakeEntry => CountKept
  BY DEF MakeEntry
<1>10. RemoveGet => CountKept
  BY MoveGoal DEF RemoveGet
<1>11. RemovePut => CountKept
  BY DEF RemovePut
<1>12. RemoveBack => CountKept
  BY MoveGoal DEF RemoveBack
<1>13. Chunk => CountKept
  BY DEF Chunk
<1>14. Boundary => CountKept
  <2> SUFFICES ASSUME Boundary PROVE CountKept
    OBVIOUS
  <2>1. goal = "bound" /\ goal' \in {"abort", "flush", "done", "c_next", "c_get"}
    BY DEF Boundary
  <2>2. /\ UNCHANGED <<lines, opened, reported>> /\ fil'.fs = fil.fs
        /\ fil'.fptr = fil.fptr /\ fil'.fsize = fil.fsize
    BY DEF Boundary
  <2>3. loc'.btw = loc.btw
    BY DEF Boundary
  <2> QED BY <2>1, <2>2, <2>3
<1>15. CreateGet => CountKept
  BY MoveGoal DEF CreateGet
<1>16. CreateGot => CountKept
  BY MoveGoal DEF CreateGot
<1>17. CreateNext => CountKept
  <2> SUFFICES ASSUME CreateNext PROVE CountKept
    OBVIOUS
  <2>1. goal = "c_next" /\ goal' \in {"done", "abort", "c_try"}
    BY DEF CreateNext
  <2>2. /\ UNCHANGED <<lines, opened, reported>> /\ fil'.fs = fil.fs
        /\ fil'.fptr = fil.fptr /\ fil'.fsize = fil.fsize
    BY DEF CreateNext
  <2>3. loc'.btw = loc.btw
    BY DEF CreateNext
  <2> QED BY <2>1, <2>2, <2>3
<1>18. CreateTry => CountKept
  <2> SUFFICES ASSUME CreateTry PROVE CountKept
    OBVIOUS
  <2>1. goal = "c_try" /\ goal' \in {"c_mark", "abort", "done", "c_next"}
    BY DEF CreateTry
  <2>2. UNCHANGED <<lines, opened, reported, fil, loc>>
    BY DEF CreateTry
  <2> QED BY <2>1, <2>2
<1>19. CreateMark => CountKept
  BY MoveGoal DEF CreateMark
<1>20. CreateMarked => CountKept
  BY MoveGoal DEF CreateMarked
<1>21. CreateLink => CountKept
  BY MoveGoal DEF CreateLink
<1>22. CreateLinked => CountKept
  BY MoveGoal DEF CreateLinked
<1>23. CreateEnd => CountKept
  BY MoveGoal DEF CreateEnd
<1>24. Flush => CountKept
  BY DEF Flush
<1>25. NextSector => CountKept
  BY MoveGoal DEF NextSector
<1>26. Copy => CountKept
  BY DEF Copy
<1>27. MarkDirty => CountKept
  BY DEF MarkDirty
<1>28. SyncData => CountKept
  BY DEF SyncData
<1>29. SyncEntry => CountKept
  BY DEF SyncEntry
<1>30. f_close => CountKept
  BY DEF f_close
<1>31. ClearFlag => CountKept
  BY DEF ClearFlag
<1>32. SetSector => CountKept
  BY DEF SetSector
<1>33. VolumeStatus => CountKept
  BY DEF VolumeStatus
<1>34. UNCHANGED <<pc, loc, fil, history>> => CountKept
  OBVIOUS
<1> HIDE DEF Inv, CountKept, goal
<1> QED
    BY <1>1, <1>2, <1>3, <1>4, <1>5, <1>6, <1>7, <1>8, <1>9, <1>10, <1>11, <1>12, <1>13, <1>14,
      <1>15, <1>16, <1>17, <1>18, <1>19, <1>20, <1>21, <1>22, <1>23, <1>24, <1>25, <1>26, <1>27, <1>28, <1>29, <1>30, <1>31,
      <1>32, <1>33, <1>34
    DEF Next, Main, Handler, Press, vars, Then, Interrupt, SyncValidate, SyncMoveWindow,
      SyncReadWindow, SyncFs, SyncFsInfo, Unmount

LEMMA CountInvStep ==
    ASSUME Inv, [Next]_vars, geo' = geo
    PROVE  CountInv'
<1> USE DEF Inv, Types, PlaceType, LocType, FilType, FlagType, CountKept, goal, At, In, Goto,
    Get, Put, Failed, Starting, Writing, Creating, Resting, Moving, Returns, file, history
<1>1. CASE Opened
  <2>1. fil'.fptr = 0 /\ fil'.fsize = 0 /\ goal = "opened" /\ goal' = "loop"
    BY <1>1 DEF Opened
  <2>2. UNCHANGED <<lines, reported>> /\ lines \in Nat
    BY <1>1 DEF Opened
  <2> HIDE DEF goal
  <2> QED BY <2>1, <2>2, TimesLine DEF CountInv
<1>2. CASE TestSdmounted
  <2>1. UNCHANGED <<fil, lines, reported>> /\ lines < MaxLines /\ goal = "loop" /\ goal' = "puts"
    BY <1>2 DEF TestSdmounted
  <2> HIDE DEF goal
  <2> QED BY <2>1 DEF CountInv
<1>3. CASE f_puts
  <2>1. UNCHANGED <<fil, lines, reported>> /\ goal = "puts"
    BY <1>3 DEF f_puts
  <2>2. CASE validate /\ ~fil.err
    <3>1. goal' = "chunk"
      BY <1>3, <2>2 DEF f_puts
    <3>2. loc' = [loc EXCEPT !.btw = LineSize]
      BY <1>3, <2>2 DEF f_puts
    <3>3. loc'.btw = LineSize
      BY <3>2
    <3>4. fil.fptr \in Nat /\ LineSize \in Nat /\ lines \in Nat
      BY Numbers
    <3> HIDE DEF goal
    <3>5. fil.fptr + LineSize <= Units(lines + 1)
      BY <2>1, <3>4, TimesLine DEF CountInv
    <3> QED BY <2>1, <3>1, <3>3, <3>5 DEF CountInv
  <2>3. CASE ~(validate /\ ~fil.err)
    <3>1. goal' = "loop"
      BY <1>3, <2>3 DEF f_puts
    <3> HIDE DEF goal
    <3> QED BY <2>1, <3>1 DEF CountInv
  <2> QED BY <2>2, <2>3
<1>4. CASE Advance
  <2>1. wcnt \in 0..loc.btw /\ loc.btw \in Nat /\ fil.fptr \in Nat /\ fil.fsize \in Nat
    BY Chunks
  <2>2. /\ fil'.fptr = fil.fptr + wcnt /\ fil'.fsize = fil.fsize /\ loc'.btw = loc.btw - wcnt
        /\ goal = "next" /\ goal' = "chunk" /\ UNCHANGED <<lines, reported>>
    BY <1>4 DEF Advance
  <2> HIDE DEF goal, wcnt
  <2>3. fil'.fptr + loc'.btw = fil.fptr + loc.btw
    BY <2>1, <2>2
  <2>4. fil'.fsize <= fil'.fptr
    BY <2>1, <2>2 DEF CountInv
  <2> QED BY <2>2, <2>3, <2>4 DEF CountInv
<1>5. CASE Done
  <2>1. /\ goal = "done" /\ goal' = "loop" /\ lines' = lines + 1
        /\ reported' \in {reported, reported + LineSize}
        /\ fil'.fptr = fil.fptr /\ fil'.fsize = Grown
    BY <1>5 DEF Done
  <2>2. goal \in Writing /\ fil.fptr \in Nat
    BY <2>1
  <2> HIDE DEF Inv, goal, Writing
  <2>3. fil'.fsize <= fil.fptr
    BY <2>1, <2>2 DEF Inv, CountInv, Grown
  <2> QED BY <2>1, <2>2, <2>3, LineWritten
<1>6. CASE Abort
  <2>1. /\ goal = "abort" /\ goal' = "loop" /\ lines' = lines + 1 /\ reported' = reported
        /\ fil'.fptr = fil.fptr /\ fil'.fsize = fil.fsize
    BY <1>6 DEF Abort
  <2>2. goal \in Writing
    BY <2>1
  <2> HIDE DEF Inv, goal, Writing
  <2>3. fil'.fsize <= fil.fptr
    BY <2>1 DEF Inv, CountInv
  <2> QED BY <2>1, <2>2, <2>3, LineWritten
<1> HIDE DEF Inv, CountKept, goal
<1> QED BY CountSteps, CountStays, <1>1, <1>2, <1>3, <1>4, <1>5, <1>6

LEMMA StartInvStep ==
    ASSUME Inv, [Next]_vars, geo' = geo
    PROVE  StartInv'
<1> USE SectorsDiffer DEF Inv, Types, PlaceType, LocType, FilType, FsType, StartInv, goal,
    validate, At, In, Then, Goto, Get, Put, Move, Failed, Starting, Writing, Creating, Resting,
    Moving, Returns, Finding, volume, file, history, button
<1>1. CASE MoveWindow
  BY <1>1 DEF MoveWindow
<1>2. CASE SyncWindow
  <2>1. PICK ok \in BOOLEAN :
           /\ disk_write(loc.wsect, win, ok)
           /\ IF ok THEN Goto("mw_clear") ELSE Failed
    BY <1>2 DEF SyncWindow
  <2>2. /\ fs'.winsect = fs.winsect /\ pc = "mw_write" /\ goal = loc.ret
        /\ UNCHANGED <<win, fil, loc, opened, isr, torn>>
    BY <1>2, <2>1 DEF SyncWindow
  <2>3. pc' \in {"mw_clear", "loop", "abort"}
    BY <2>1
  <2>4. goal' = goal \/ (goal \in Starting /\ goal' = "loop")
           \/ (goal \notin Starting /\ goal' = "abort")
    BY <2>1, <2>2
  <2>5. ~opened => card'[DirSec].kind = "dir"
    <3> SUFFICES ASSUME ~opened PROVE card'[DirSec].kind = "dir"
      OBVIOUS
    <3>1. loc.wsect = fs.winsect /\ ~torn /\ card[DirSec].kind = "dir"
      BY <2>2
    <3>2. loc.wsect = DirSec => win.kind = "dir"
      BY <2>2, <3>1
    <3>3. PICK c \in {card[loc.wsect], win} : card' = [card EXCEPT ![loc.wsect] = c]
      BY <2>1, <3>1 DEF disk_write
    <3>4. DirSec \in DOMAIN card
      BY HereHas DEF DiskType
    <3> QED BY <3>1, <3>2, <3>3, <3>4
  <2>6. goal \in Starting \cup Resting => goal' \in Starting \cup Resting
    BY <2>2, <2>4
  <2> QED BY <2>2, <2>3, <2>4, <2>5, <2>6
<1>3. CASE ReadWindow
  <2>1. PICK ok \in BOOLEAN :
           /\ disk_read(loc.target, ok)
           /\ loc' = [loc EXCEPT !.target = IF ok THEN loc.target ELSE NoSec]
    BY <1>3 DEF ReadWindow
  <2>2. /\ loc'.target = (IF ok THEN loc.target ELSE NoSec)
        /\ loc'.ret = loc.ret /\ loc'.clst = loc.clst
    BY <2>1
  <2>3. /\ pc = "mw_read" /\ pc' = "mw_set" /\ goal = loc.ret /\ goal' = goal
        /\ UNCHANGED <<card, fs, fil, opened, isr, torn>>
    BY <1>3, <2>1, <2>2 DEF ReadWindow, disk_read
  <2>4. ~opened /\ loc'.target = DirSec => win'.kind = "dir"
    <3> SUFFICES ASSUME ~opened, loc'.target = DirSec PROVE win'.kind = "dir"
      OBVIOUS
    <3>1. ok /\ loc.target = DirSec /\ ~torn
      BY <2>2
    <3> QED BY <2>1, <3>1 DEF disk_read
  <2> QED BY <2>2, <2>3, <2>4
<1>4. CASE Attach
  BY <1>4 DEF Attach
<1>5. CASE f_mount
  BY <1>5 DEF f_mount
<1>6. CASE FindVolume
  BY <1>6 DEF FindVolume
<1>7. CASE InitVolume
  <2>1. /\ goal = "init" /\ goal' = pc' /\ pc' \in {"loop", "open", "entry"}
        /\ UNCHANGED <<card, fil, loc, opened, isr, torn>>
    BY <1>7 DEF InitVolume
  <2>2. fs'.winsect \in {NoSec, InfoSec}
    <3>1. \/ fs' = [fs EXCEPT !.mounted = FALSE, !.wflag = FALSE, !.winsect = NoSec]
          \/ fs' = [mounted |-> TRUE, wflag |-> FALSE, fsi |-> FALSE,
                    last |-> IF geo.fat32 THEN geo.hint ELSE NFat, winsect |-> InfoSec]
      BY <1>7 DEF InitVolume
    <3>2. CASE fs' = [fs EXCEPT !.mounted = FALSE, !.wflag = FALSE, !.winsect = NoSec]
      <4>1. fs'.winsect = NoSec
        BY <3>2
      <4> QED BY <4>1
    <3>3. CASE fs' = [mounted |-> TRUE, wflag |-> FALSE, fsi |-> FALSE,
                    last |-> IF geo.fat32 THEN geo.hint ELSE NFat, winsect |-> InfoSec]
      <4>1. fs'.winsect = InfoSec
        BY <3>3
      <4> QED BY <4>1
    <3> QED BY <3>1, <3>2, <3>3
  <2> QED BY <2>1, <2>2
<1>8. CASE f_open
  BY <1>8 DEF f_open
<1>9. CASE MakeEntry
  <2>1. /\ goal = "entry" /\ goal' = pc' /\ pc' \in {"loop", "opened", "rm_get"}
        /\ UNCHANGED <<card, fil, opened, isr, torn>>
    BY <1>9 DEF MakeEntry
  <2>2. win' = DirOf("log", 0, 0) \/ fs'.winsect = NoSec
    BY <1>9 DEF MakeEntry
  <2>3. DirOf("log", 0, 0).kind = "dir"
    BY DEF DirOf
  <2> QED BY <2>1, <2>2, <2>3
<1>10. CASE RemoveGet
  <2>1. /\ goal = "rm_get" /\ pc' \in {"mw", "loop"}
        /\ UNCHANGED <<card, fil, fs, win, opened, isr, torn>>
    BY <1>10 DEF RemoveGet
  <2>2. CASE pc' = "mw"
    <3>1. loc' = [loc EXCEPT !.target = FatSec(loc.clst), !.ret = "rm_put"]
      BY <1>10, <2>2 DEF RemoveGet
    <3>2. goal' = "rm_put" /\ loc'.clst = loc.clst /\ loc'.target = FatSec(loc.clst)
      BY <2>2, <3>1
    <3> QED BY <2>1, <2>2, <3>2
  <2>3. CASE pc' = "loop"
    BY <2>1, <2>3
  <2> QED BY <2>1, <2>2, <2>3
<1>11. CASE RemovePut
  <2>0. pc = "rm_put" /\ pc' \in {"loop", "rm_back", "rm_get"} /\ fs'.winsect = fs.winsect
    <3>1. fs' = fs \/ fs' = [fs EXCEPT !.wflag = TRUE, !.fsi = TRUE]
      BY <1>11 DEF RemovePut
    <3>2. fs'.winsect = fs.winsect
      BY <3>1
    <3> QED BY <1>11, <3>2 DEF RemovePut
  <2>1. /\ goal = "rm_put" /\ goal' = pc' /\ pc' \in {"loop", "rm_back", "rm_get"}
        /\ fs'.winsect = fs.winsect /\ fs.winsect = FatSec(loc.clst)
    BY <2>0
  <2>2. UNCHANGED <<card, fil, opened, isr, torn>>
    BY <1>11 DEF RemovePut
  <2>3. fs'.winsect # DirSec /\ pc' \notin Moving \cup {"rm_put"}
    BY <2>1
  <2>4. goal' \in Starting \cup Resting /\ goal \in Starting
    BY <2>1
  <2> HIDE DEF goal, Starting, Resting, Moving
  <2> QED BY <2>1, <2>2, <2>3, <2>4 DEF Moving
<1>12. CASE RemoveBack
  BY <1>12 DEF RemoveBack
<1>13. CASE Opened
  BY <1>13 DEF Opened
<1>14. CASE TestSdmounted
  BY <1>14 DEF TestSdmounted
<1>15. CASE f_puts
  BY <1>15 DEF f_puts
<1>16. CASE Chunk
  BY <1>16 DEF Chunk
<1>17. CASE Boundary
  BY <1>17 DEF Boundary
<1>18. CASE CreateGet
  <2>1. opened /\ opened' = opened /\ pc' \notin {"rm_put", "mw_write"}
    BY <1>18 DEF CreateGet
  <2>2. CASE pc' = "mw"
    <3>1. loc' = [loc EXCEPT !.target = FatSec(loc.clst), !.ret = "c_got"]
      BY <1>18, <2>2 DEF CreateGet
    <3>2. goal' = "c_got" /\ loc'.ret = "c_got"
      BY <2>2, <3>1
    <3> QED BY <2>1, <3>2
  <2>3. CASE pc' # "mw"
    BY <1>18, <2>1, <2>3 DEF CreateGet
  <2> QED BY <2>2, <2>3
<1>19. CASE CreateGot
  BY <1>19 DEF CreateGot
<1>20. CASE CreateNext
  <2>1. opened /\ opened' = opened /\ pc' \in {"mw", "done", "abort"}
    BY <1>20 DEF CreateNext
  <2>2. pc' = "mw" => loc'.ret = "c_try"
    BY <1>20 DEF CreateNext
  <2> QED BY <2>1, <2>2
<1>21. CASE CreateTry
  BY <1>21 DEF CreateTry
<1>22. CASE CreateMark
  <2>1. opened /\ opened' = opened /\ pc' \notin {"rm_put", "mw_write"}
    BY <1>22 DEF CreateMark
  <2>2. CASE pc' = "mw"
    <3>1. loc' = [loc EXCEPT !.target = FatSec(loc.ncl), !.ret = "c_marked"]
      BY <1>22, <2>2 DEF CreateMark
    <3>2. goal' = "c_marked" /\ loc'.ret = "c_marked"
      BY <2>2, <3>1
    <3> QED BY <2>1, <3>2
  <2>3. CASE pc' # "mw"
    BY <1>22, <2>1, <2>3 DEF CreateMark
  <2> QED BY <2>2, <2>3
<1>23. CASE CreateMarked
  BY <1>23 DEF CreateMarked
<1>24. CASE CreateLink
  <2>1. opened /\ opened' = opened /\ pc' \notin {"rm_put", "mw_write"}
    BY <1>24 DEF CreateLink
  <2>2. CASE pc' = "mw"
    <3>1. loc' = [loc EXCEPT !.target = FatSec(loc.clst), !.ret = "c_linked"]
      BY <1>24, <2>2 DEF CreateLink
    <3>2. goal' = "c_linked" /\ loc'.ret = "c_linked"
      BY <2>2, <3>1
    <3> QED BY <2>1, <3>2
  <2>3. CASE pc' # "mw"
    BY <1>24, <2>1, <2>3 DEF CreateLink
  <2> QED BY <2>2, <2>3
<1>25. CASE CreateLinked
  BY <1>25 DEF CreateLinked
<1>26. CASE CreateEnd
  BY <1>26 DEF CreateEnd
<1>27. CASE Flush
  BY <1>27 DEF Flush
<1>28. CASE NextSector
  BY <1>28 DEF NextSector
<1>29. CASE Copy
  BY <1>29 DEF Copy
<1>30. CASE MarkDirty
  BY <1>30 DEF MarkDirty
<1>31. CASE Advance
  BY <1>31 DEF Advance
<1>32. CASE Done
  BY <1>32 DEF Done
<1>33. CASE Abort
  BY <1>33 DEF Abort
<1>34. CASE Interrupt
  <2>1. /\ UNCHANGED <<pc, loc, fil, fs, win, card, opened>> /\ isr' = "validate"
        /\ ~validate => torn' = torn
    BY <1>34 DEF Interrupt
  <2>2. goal' = goal
    BY <2>1
  <2> QED BY <2>1, <2>2
<1>35. CASE SyncValidate
  BY <1>35 DEF SyncValidate
<1>36. CASE SyncData
  BY <1>36 DEF SyncData
<1>37. CASE SyncMoveWindow
  BY <1>37 DEF SyncMoveWindow
<1>38. CASE SyncReadWindow
  BY <1>38 DEF SyncReadWindow
<1>39. CASE SyncEntry
  BY <1>39 DEF SyncEntry
<1>40. CASE SyncFs
  BY <1>40 DEF SyncFs
<1>41. CASE SyncFsInfo
  BY <1>41 DEF SyncFsInfo
<1>42. CASE f_close
  BY <1>42 DEF f_close
<1>43. CASE Unmount
  BY <1>43 DEF Unmount
<1>44. CASE ClearFlag
  BY <1>44 DEF ClearFlag
<1>45. CASE SetSector
  <2>1. /\ fs'.winsect = loc.target /\ pc = "mw_set" /\ goal = loc.ret /\ loc.ret \in Returns
        /\ UNCHANGED <<card, win, fil, loc, opened, isr, torn>>
        /\ IF loc.target = NoSec THEN Failed ELSE pc' = loc.ret
    BY <1>45 DEF SetSector
  <2>2. pc' \notin Moving /\ goal' = pc'
    BY <2>1
  <2>3. goal' = goal \/ (goal \in Starting /\ goal' = "loop")
           \/ (goal \notin Starting /\ goal' = "abort")
    BY <2>1, <2>2
  <2>4. pc' = "rm_put" => fs'.winsect = FatSec(loc'.clst)
    BY <2>1
  <2> QED BY <2>1, <2>2, <2>3, <2>4
<1>46. CASE VolumeStatus
  BY <1>46 DEF VolumeStatus
<1>47. CASE UNCHANGED <<pc, loc, fil, fs, win, card, isr, torn, opened>>
  BY <1>47
<1> HIDE DEF Inv, StartInv, goal, validate, At, In, Get, Put
<1> QED
    BY <1>1, <1>2, <1>3, <1>4, <1>5, <1>6, <1>7, <1>8, <1>9, <1>10, <1>11, <1>12, <1>13, <1>14,
      <1>15, <1>16, <1>17, <1>18, <1>19, <1>20, <1>21, <1>22, <1>23, <1>24, <1>25, <1>26, <1>27,
      <1>28, <1>29, <1>30, <1>31, <1>32, <1>33, <1>34, <1>35, <1>36, <1>37, <1>38, <1>39, <1>40,
      <1>41, <1>42, <1>43, <1>44, <1>45, <1>46, <1>47
  DEF Next, Main, Handler, Press, vars

LEMMA FormattedType == ASSUME NEW v \in Volume PROVE Formatted(v) \in [Sector(v.csize) -> Content]
<1> DEFINE entry == [c \in Cluster |-> IF c \in v.others \cup {v.old} THEN NFat ELSE 0]
           owner(c) == IF c = v.old THEN "old" ELSE IF c \in v.others THEN "other" ELSE "none"
           content(s) == CASE s[1] = "fat" -> FatOf(s[2], entry)
                           [] s = DirSec -> DirOf("old", v.old, IF v.old = 0 THEN 0 ELSE SectorSize)
                           [] s[1] = "data" ->
                                 DataOf(owner(s[2] \div v.csize), s[2] % v.csize, SectorSize)
                           [] OTHER -> Info
<1>1. ASSUME NEW s \in Sector(v.csize) PROVE content(s) \in Content
  <2>1. CASE \E c \in Cluster : s = FatSec(c)
    <3>1. PICK c \in Cluster : s = FatSec(c)
      BY <2>1
    <3>2. s[1] = "fat" /\ s[2] \in Nat
      BY <3>1, FatNrType DEF FatSec
    <3>3. FatOf(s[2], entry) \in Fats
      <4>1. FatOf(s[2], entry)
              \in [kind : {"fat"}, nr : {s[2]},
                   entry : [{d \in Cluster : FatNr(d) = s[2]} -> 0..NFat]]
        BY Numbers DEF FatOf
      <4> QED BY <3>2, <4>1, FatsHas
    <3>4. s # DirSec /\ s[1] # "data"
      BY <3>1, <3>2, SectorsDiffer
    <3>5. content(s) = FatOf(s[2], entry)
      BY <3>2, <3>4
    <3> QED BY <3>3, <3>5 DEF Content
  <2>2. CASE s = DirSec
    <3>1. s[1] # "fat" /\ s[1] # "data" /\ v.old \in Entries
      BY <2>2 DEF DirSec, Volume, Entries
    <3>2. (IF v.old = 0 THEN 0 ELSE SectorSize) \in Nat
      BY Numbers
    <3>3. content(s) = DirOf("old", v.old, IF v.old = 0 THEN 0 ELSE SectorSize)
      BY <2>2, <3>1
    <3> QED BY <3>1, <3>2, <3>3, Contents
  <2>3. CASE s \in {InfoSec, NoSec}
    <3>1. s[1] # "fat" /\ s # DirSec /\ s[1] # "data"
      BY <2>3 DEF InfoSec, NoSec, DirSec
    <3> QED BY <3>1, Contents
  <2>4. CASE \E c \in Cluster, off \in 0..v.csize - 1 : s = DataSec(c, off, v.csize)
    <3>1. PICK c \in Cluster, off \in 0..v.csize - 1 : s = DataSec(c, off, v.csize)
      BY <2>4
    <3>2. s[1] = "data" /\ s[2] = c * v.csize + off /\ s # DirSec
      BY <3>1 DEF DataSec, DirSec
    <3>3. v.csize \in Nat \ {0} /\ c \in Nat
      BY Numbers DEF Volume
    <3>4. c * v.csize + off \in Nat
      BY <3>3
    <3>5. s[2] % v.csize \in Nat
      BY <3>2, <3>3, <3>4
    <3>6. SectorSize \in 0..SectorSize
      BY Numbers
    <3>7. owner(s[2] \div v.csize) \in {"none", "other", "old", "log"}
      OBVIOUS
    <3> QED BY <3>2, <3>5, <3>6, <3>7, Contents
  <2> QED BY <2>1, <2>2, <2>3, <2>4 DEF Sector
<1>2. Formatted(v) = [s \in Sector(v.csize) |-> content(s)]
  BY DEF Formatted
<1> QED BY <1>1, <1>2

LEMMA InitInv == Init => Inv
<1> SUFFICES ASSUME Init PROVE Inv
  OBVIOUS
<1>1. FlagType
  BY SdLogAssumption DEF Init, FlagType
<1>2. NoSec \in Here /\ DirSec \in Here
  BY <1>1, HereHas
<1>3. FsType
  BY <1>2, Numbers DEF Init, FsType
<1>4. FilType
  BY <1>2 DEF Init, FilType, Entries
<1>5. LocType
  BY <1>2, Numbers DEF Init, LocType, NoLocals
<1>6. PlaceType
  BY DEF Init, PlaceType, Starting, Moving, Finding
<1>7. DiskType
  <2>1. card \in [Here -> Content]
    BY <1>1, FormattedType DEF Init, FlagType, Here
  <2> QED BY <2>1, Contents, Numbers DEF Init, DiskType
<1>8. ClusterInv /\ CountInv
  BY Numbers DEF Init, ClusterInv, CountInv, Units, goal, Moving, Writing, Creating
<1>9. StartInv
  <2>1. card[DirSec].kind = "dir"
    BY <1>2 DEF Init, Formatted, Here, DirSec, DirOf
  <2> QED BY <2>1, SectorsDiffer DEF Init, StartInv, goal, Moving, Starting
<1> QED BY <1>1, <1>3, <1>4, <1>5, <1>6, <1>7, <1>8, <1>9 DEF Inv, Types

LEMMA NextInv == Inv /\ [Next]_vars => Inv'
BY GeoStays, FsTypeStep, FilTypeStep, LocTypeStep, PlaceTypeStep, DiskTypeStep, FlagTypeStep,
   ClusterInvStep, CountInvStep, StartInvStep DEF Inv, Types

LEMMA Invariance == Spec => []Inv
BY InitInv, NextInv, PTL DEF Spec

\* Every variable of main, of the handler and of FatFs keeps its type: no text is copied
\* beyond the end of the buffer (ff.c:2783), and the file does not claim more than was put.
THEOREM TypeCorrect == Spec => []TypeOK
<1>1. Inv => TypeOK
  <2> SUFFICES ASSUME Inv PROVE TypeOK
    OBVIOUS
  <2> USE DEF Inv, Types, Units
  <2>1. DOMAIN card = Sector(geo.csize) /\ buf.n \in 0..SectorSize
    BY DEF DiskType, Texts, Here
  <2>2. fs.last \in 0..NFat /\ fs.winsect \in Sector(geo.csize)
    BY DEF FsType, Here
  <2>3. fil.sclust \in {0} \cup Cluster /\ fil.dsect \in Sector(geo.csize)
    BY DEF FilType, Here, Entries
  <2>4. loc.btw \in 0..LineSize
    BY DEF LocType
  <2>5. /\ fil.fptr \in Nat /\ fil.fsize \in Nat /\ loc.btw \in Nat
        /\ lines \in Nat /\ reported \in Nat
    BY Numbers DEF FilType, LocType, FlagType
  <2>6. lines * LineSize <= MaxLines * LineSize /\ lines * LineSize \in Nat
    <3>1. lines <= MaxLines /\ MaxLines \in Nat /\ LineSize \in Nat
      BY Numbers DEF CountInv
    <3>2. (MaxLines - lines) * LineSize >= 0
      BY <2>5, <3>1
    <3>3. (MaxLines - lines) * LineSize = MaxLines * LineSize - lines * LineSize
      BY <2>5, <3>1
    <3> QED BY <2>5, <3>1, <3>2, <3>3
  <2>7. fil.fptr <= (lines + 1) * LineSize
    BY <2>5, TimesLine, Numbers DEF CountInv
  <2>8. (lines + 1) * LineSize <= (MaxLines + 1) * LineSize /\ (MaxLines + 1) * LineSize \in Nat
    BY <2>5, <2>6, TimesLine, Numbers
  <2>9. fil.fptr \in 0..(MaxLines + 1) * LineSize /\ fil.fsize \in 0..fil.fptr
    BY <2>5, <2>7, <2>8, TimesLine DEF CountInv
  <2>10. reported \in 0..MaxLines * LineSize
    BY <2>5, <2>6, Numbers DEF CountInv
  <2> QED BY <2>1, <2>2, <2>3, <2>4, <2>9, <2>10 DEF TypeOK
<1> QED BY <1>1, Invariance, PTL

-----------------------------------------------------------------------------
(***************************************************************************)
(* After a press.                                                          *)
(***************************************************************************)
\* When the handler did not come into f_write, main is in its loop, and whatever puts
\* a line finds Sdmounted cleared or the volume unmounted.
Harmless == hit \subseteq {"start", "idle"}

StopInv ==
    /\ handled > 0 => ~sdmounted
    /\ fs.mounted => reg \/ (handled > 0 /\ "start" \in hit /\ goal \in Starting \cup {"loop"})
    /\ ~reg /\ goal \in Starting \ {"attach", "mount"} => handled > 0 /\ "start" \in hit
    /\ isr # "off" /\ goal \in Starting => "start" \in hit
    /\ isr = "off" /\ hit # {} => handled > 0
    /\ isr = "off" /\ reg /\ goal \notin Starting \cup {"loop"} => hit = {}
    /\ (handled > 0 \/ isr # "off") /\ Harmless => goal \in Starting \cup Resting
    /\ handled > 0 /\ Harmless /\ pc = "puts" => ~validate

LEMMA StopInvStep ==
    ASSUME Inv, StopInv, [Next]_vars, geo' = geo
    PROVE  StopInv'
<1> USE DEF Inv, Types, PlaceType, LocType, FilType, FsType, FlagType, StartInv, StopInv,
    Harmless, goal, validate, here, At, In, Then, Goto, Get, Put, Move, Failed, Starting,
    Writing, Creating, Resting, Moving, Returns, Finding, volume, file, history, button
<1>1. CASE MoveWindow
  BY <1>1 DEF MoveWindow
<1>2. CASE SyncWindow
  BY <1>2 DEF SyncWindow
<1>3. CASE ReadWindow
  BY <1>3 DEF ReadWindow
<1>4. CASE Attach
  BY <1>4 DEF Attach
<1>5. CASE f_mount
  BY <1>5 DEF f_mount
<1>6. CASE FindVolume
  BY <1>6 DEF FindVolume
<1>7. CASE InitVolume
  BY <1>7 DEF InitVolume
<1>8. CASE f_open
  BY <1>8 DEF f_open
<1>9. CASE MakeEntry
  BY <1>9 DEF MakeEntry
<1>10. CASE RemoveGet
  <2>1. /\ UNCHANGED <<fil, fs, reg, isr, hit, handled, sdmounted>>
        /\ pc = "rm_get" /\ pc' \in {"mw", "loop"}
    BY <1>10 DEF RemoveGet
  <2>2. CASE pc' = "mw"
    <3>1. fs.mounted /\ loc'.ret = "rm_put"
      BY <1>10, <2>2 DEF RemoveGet
    <3>2. goal' = "rm_put"
      BY <2>2, <3>1
    <3> QED BY <2>1, <2>2, <3>1, <3>2
  <2>3. CASE pc' = "loop"
    BY <2>1, <2>3
  <2> QED BY <2>1, <2>2, <2>3
<1>11. CASE RemovePut
  BY <1>11 DEF RemovePut
<1>12. CASE RemoveBack
  BY <1>12 DEF RemoveBack
<1>13. CASE Opened
  BY <1>13 DEF Opened
<1>14. CASE TestSdmounted
  BY <1>14 DEF TestSdmounted
<1>15. CASE f_puts
  BY <1>15 DEF f_puts
<1>16. CASE Chunk
  BY <1>16 DEF Chunk
<1>17. CASE Boundary
  BY <1>17 DEF Boundary
<1>18. CASE CreateGet
  BY <1>18 DEF CreateGet
<1>19. CASE CreateGot
  BY <1>19 DEF CreateGot
<1>20. CASE CreateNext
  BY <1>20 DEF CreateNext
<1>21. CASE CreateTry
  BY <1>21 DEF CreateTry
<1>22. CASE CreateMark
  BY <1>22 DEF CreateMark
<1>23. CASE CreateMarked
  BY <1>23 DEF CreateMarked
<1>24. CASE CreateLink
  BY <1>24 DEF CreateLink
<1>25. CASE CreateLinked
  BY <1>25 DEF CreateLinked
<1>26. CASE CreateEnd
  BY <1>26 DEF CreateEnd
<1>27. CASE Flush
  BY <1>27 DEF Flush
<1>28. CASE NextSector
  BY <1>28 DEF NextSector
<1>29. CASE Copy
  BY <1>29 DEF Copy
<1>30. CASE MarkDirty
  BY <1>30 DEF MarkDirty
<1>31. CASE Advance
  BY <1>31 DEF Advance
<1>32. CASE Done
  BY <1>32 DEF Done
<1>33. CASE Abort
  BY <1>33 DEF Abort
<1>34. CASE Interrupt
  BY <1>34 DEF Interrupt
<1>35. CASE SyncValidate
  BY <1>35 DEF SyncValidate
<1>36. CASE SyncData
  BY <1>36 DEF SyncData
<1>37. CASE SyncMoveWindow
  BY <1>37 DEF SyncMoveWindow
<1>38. CASE SyncReadWindow
  BY <1>38 DEF SyncReadWindow
<1>39. CASE SyncEntry
  BY <1>39 DEF SyncEntry
<1>40. CASE SyncFs
  BY <1>40 DEF SyncFs
<1>41. CASE SyncFsInfo
  <2>1. /\ UNCHANGED <<pc, loc, fil, reg, handled, sdmounted>> /\ isr # "off" /\ isr' # "off"
        /\ fs'.mounted = fs.mounted
    BY <1>41 DEF SyncFsInfo
  <2>2. UNCHANGED hit
    BY <1>41 DEF SyncFsInfo
  <2> QED BY <2>1, <2>2
<1>42. CASE f_close
  BY <1>42 DEF f_close
<1>43. CASE Unmount
  <2>1. /\ UNCHANGED <<pc, loc, fil, hit>> /\ isr = "unmount" /\ isr' = "off" /\ ~reg' /\ ~sdmounted'
        /\ handled' = handled + 1 /\ fs'.mounted = (fs.mounted /\ ~reg)
    BY <1>43 DEF Unmount
  <2>2. handled' > 0 /\ goal' = goal
    BY <2>1
  <2>3. goal \in Starting => "start" \in hit
    BY <2>1
  <2>4. fs'.mounted => "start" \in hit' /\ goal' \in Starting \cup {"loop"}
    BY <2>1, <2>2
  <2>5. Harmless' => goal' \in Starting \cup Resting
    BY <2>1, <2>2
  <2>6. pc' = "puts" => ~validate'
    BY <2>1, <2>2, <2>4
  <2> HIDE DEF goal, validate, Harmless
  <2> QED BY <2>1, <2>2, <2>3, <2>4, <2>5, <2>6
<1>44. CASE ClearFlag
  BY <1>44 DEF ClearFlag
<1>45. CASE SetSector
  BY <1>45 DEF SetSector
<1>46. CASE VolumeStatus
  BY <1>46 DEF VolumeStatus
<1>47. CASE UNCHANGED <<pc, loc, fil, fs, reg, isr, hit, handled, sdmounted>>
  BY <1>47
<1> HIDE DEF Inv, StopInv, goal, validate, here, At, In, Get, Put
<1> QED
    BY <1>1, <1>2, <1>3, <1>4, <1>5, <1>6, <1>7, <1>8, <1>9, <1>10, <1>11, <1>12, <1>13, <1>14,
      <1>15, <1>16, <1>17, <1>18, <1>19, <1>20, <1>21, <1>22, <1>23, <1>24, <1>25, <1>26, <1>27,
      <1>28, <1>29, <1>30, <1>31, <1>32, <1>33, <1>34, <1>35, <1>36, <1>37, <1>38, <1>39, <1>40,
      <1>41, <1>42, <1>43, <1>44, <1>45, <1>46, <1>47
  DEF Next, Main, Handler, Press, vars

LEMMA Stopped == Spec => []StopInv
<1>1. Init => StopInv
  BY DEF Init, StopInv, goal, Moving, Starting
<1>2. Inv /\ StopInv /\ [Next]_vars => StopInv'
  BY GeoStays, StopInvStep
<1> QED BY <1>1, <1>2, Invariance, PTL DEF Spec

\* Once the handler has run (main.c:83-96), or if f_open has failed (main.c:57), the loop
\* of main writes nothing to the card, wherever in start-up or in the loop the press came.
THEOREM NothingAfterStop == Spec => NoWriteWhenStopped
<1>1. ASSUME Inv, StopInv, [Next]_vars,
             here # "start", isr = "off", (handled > 0 /\ Harmless) \/ ~opened
      PROVE  card' = card
  <2> USE DEF Inv, Types, PlaceType
  <2>1. goal \in Starting \cup Resting
    BY <1>1 DEF StopInv, StartInv
  <2>2. pc \in Resting
    BY <1>1, <2>1 DEF here, goal, Moving, Resting, Returns, Starting
  <2> USE <1>1, <2>2 DEF Resting, At, In
  <2>3. CASE Main
        BY <2>3 DEF Main, MoveWindow, ReadWindow, Attach, f_mount, FindVolume, VolumeStatus,
          InitVolume,
        f_open, MakeEntry, RemoveGet, RemovePut, RemoveBack, Opened, TestSdmounted, f_puts,
        Chunk, Boundary, CreateGet, CreateGot, CreateNext, CreateTry, CreateMark, CreateMarked,
        CreateLink, CreateLinked, CreateEnd, NextSector, Copy, MarkDirty, Advance, Done, Abort,
        Get, Put, SyncWindow, ClearFlag,
        SetSector, Flush
  <2>4. CASE Handler
        BY <2>4 DEF Handler, Interrupt, SyncValidate, SyncData, SyncMoveWindow, SyncReadWindow,
        SyncEntry, SyncFs, SyncFsInfo, f_close, Unmount
  <2>5. CASE Press \/ UNCHANGED vars
    BY <2>5 DEF Press, vars
  <2> QED BY <2>3, <2>4, <2>5 DEF Next
<1> QED BY <1>1, Invariance, Stopped, PTL DEF Spec, NoWriteWhenStopped, Harmless

-----------------------------------------------------------------------------
(***************************************************************************)
(* The entry of the file on its way to the card.                           *)
(***************************************************************************)
\* The handler is at work on the file that main has open.
Syncing == {"data", "window", "read", "entry", "sync", "fsinfo", "close"}

\* The disk has answered one call at a time, and the window was the directory's when
\* the handler took it for that.
Intact == ~torn /\ hit \cap {"start", "stale_window"} = {}

\* What is on its way into the window of the volume, and what main will write of it.
WindowInv ==
    /\ fil.dsect # DirSec
    /\ isr \in Syncing => validate
    /\ pc \in Beginning => ~fs.fsi
    /\ pc \in Moving /\ loc.ret \notin Starting => loc.target # DirSec
    /\ ~torn /\ (goal \in Starting \/ (validate /\ reg /\ isr = "off")) =>
          /\ fs.wflag /\ fs.winsect = DirSec => ~fs.fsi
          /\ pc \in {"mw_read", "mw_set"} => ~fs.wflag
    /\ Intact /\ validate =>
          /\ card[DirSec].kind = "dir"
          /\ fs.winsect = DirSec /\ ~(pc = "mw_set" /\ isr = "off") => win.kind = "dir"
          /\ isr = "off" /\ pc = "mw_write" => loc.wsect = fs.winsect
          /\ pc = "mw_write" /\ loc.wsect = DirSec => ~fs.fsi
          /\ isr = "off" /\ pc \in {"c_marked", "c_linked", "c_end"} => fs.winsect # DirSec

\* The stages of f_sync, up to the entry on the card.
SyncInv ==
    /\ validate /\ reg /\ isr \in {"off", "validate"} => fil.written
    /\ reg /\ isr \in {"fsinfo", "close"} => ~fs.wflag
    /\ Intact =>
          /\ isr \in {"entry", "sync"} => fs.winsect = DirSec
          /\ isr = "sync" => win = DirOf("log", fil.sclust, fil.fsize)
          /\ isr \in {"fsinfo", "close"} =>
                /\ card[DirSec] = DirOf("log", fil.sclust, fil.fsize)
                /\ pc = "mw_write" /\ loc.wsect = DirSec => win = card[DirSec]

\* The size of the file is ahead of what f_puts has reported.
ReportInv ==
    /\ ~opened => reported = 0
    /\ fil.fs => /\ reported <= fil.fsize
                 /\ goal \in Writing => reported + LineSize <= fil.fptr + loc.btw

Recorded == card[DirSec]

ClosedInv ==
    closed =>
       /\ opened /\ ~fil.fs
       /\ isr \in {"off", "validate", "unmount"}
       /\ isr = "unmount" \/ handled > 0
       /\ fs.mounted => ~reg \/ isr = "unmount"
       /\ pc = "mw" => ~fs.wflag
       /\ Intact =>
             /\ Recorded.kind = "dir" /\ Recorded.of = "log"
             /\ pc = "mw_write" /\ loc.wsect = DirSec => win = Recorded
             /\ reported <= Recorded.size + LineSize
             /\ goal \in Writing \/ Harmless => reported <= Recorded.size

CloseInv == WindowInv /\ SyncInv /\ ReportInv /\ ClosedInv

-----------------------------------------------------------------------------
(***************************************************************************)
(* Kinds of steps, so that steps of a kind are looked at once.             *)
(***************************************************************************)
\* main goes on and touches nothing but its locals.
Moves == /\ isr = "off" /\ UNCHANGED <<card, volume, file, history, button>>
         /\ pc \notin Moving
         /\ pc' \in Starting \cup Writing \cup Resting \cup {"mw"}
         /\ pc' \notin {"rm_put", "c_marked", "c_linked", "c_end"}
         /\ pc' \in Beginning => pc \in Beginning
         /\ pc' = "mw" => fs.mounted /\ (loc'.ret \notin Starting => loc'.target # DirSec)
         /\ goal' \in Starting => goal \in Starting
         /\ goal' \in Writing => \/ goal \in Writing /\ loc'.btw = loc.btw
                                 \/ pc = "puts" /\ validate /\ loc'.btw = LineSize

LEMMA MoveTarget ==
    ASSUME LocType, NEW target, NEW ret, Move(target, ret)
    PROVE  /\ pc' = "mw" /\ goal' = ret /\ loc'.target = target /\ loc'.ret = ret
           /\ loc'.btw = loc.btw /\ loc'.clst = loc.clst /\ loc'.ncl = loc.ncl
           /\ loc'.scl = loc.scl /\ loc'.wsect = loc.wsect
BY DEF LocType, Move, Goto, goal, Moving

LEMMA ActionsMove ==
    ASSUME Inv,
           \/ Attach \/ FindVolume \/ VolumeStatus \/ RemoveGet \/ TestSdmounted \/ f_puts \/ Chunk
           \/ CreateGet \/ CreateNext \/ CreateTry \/ CreateMark \/ CreateLink
    PROVE  Moves
<1> USE SectorsDiffer DEF Moves, Inv, Types, LocType, PlaceType, goal, At, Goto, Get, Put, Move,
    Starting, Writing, Creating, Resting, Moving, Finding, Beginning, volume, file, history, button
<1>1. CASE Attach
  BY <1>1 DEF Attach
<1>2. CASE FindVolume
  BY <1>2 DEF FindVolume
<1>3. CASE RemoveGet
  BY <1>3 DEF RemoveGet
<1>4. CASE TestSdmounted
  BY <1>4 DEF TestSdmounted
<1>5. CASE f_puts
  BY <1>5 DEF f_puts
<1>6. CASE Chunk
  BY <1>6 DEF Chunk
<1>7. CASE CreateGet
  <2>1. CASE fs.mounted
    <3>1. Move(FatSec(loc.clst), "c_got")
      BY <1>7, <2>1 DEF CreateGet
    <3> HIDE DEF Move, goal
    <3>2. pc' = "mw" /\ goal' = "c_got" /\ loc'.target = FatSec(loc.clst) /\ loc'.btw = loc.btw
      BY <3>1, MoveTarget
    <3>3. goal = "c_get"
      BY <1>7 DEF CreateGet, goal
    <3> QED BY <1>7, <2>1, <3>2, <3>3 DEF CreateGet
  <2>2. CASE ~fs.mounted
    BY <1>7, <2>2 DEF CreateGet
  <2> QED BY <2>1, <2>2
<1>8. CASE CreateNext
  <2> DEFINE ncl == IF loc.ncl + 1 >= NFat THEN 2 ELSE loc.ncl + 1
  <2>1. /\ isr = "off" /\ pc = "c_next" /\ goal = "c_next"
        /\ UNCHANGED <<card, volume, file, history, button>>
        /\ \/ pc' \in {"done", "abort"} /\ UNCHANGED loc
           \/ /\ pc' = "mw" /\ fs.mounted
              /\ loc' = [loc EXCEPT !.ncl = ncl, !.target = FatSec(ncl), !.ret = "c_try"]
    BY <1>8 DEF CreateNext
  <2> HIDE DEF ncl
  <2>2. pc' = "mw" => loc'.ret = "c_try" /\ loc'.target = FatSec(ncl) /\ loc'.btw = loc.btw
    BY <2>1
  <2>3. goal' \in {"done", "abort", "c_try"} /\ loc'.btw = loc.btw
    BY <2>1, <2>2
  <2> QED BY <2>1, <2>2, <2>3
<1>9. CASE CreateTry
  BY <1>9 DEF CreateTry
<1>10. CASE CreateMark
  <2>1. CASE fs.mounted
    <3>1. Move(FatSec(loc.ncl), "c_marked")
      BY <1>10, <2>1 DEF CreateMark
    <3> HIDE DEF Move, goal
    <3>2. pc' = "mw" /\ goal' = "c_marked" /\ loc'.target = FatSec(loc.ncl) /\ loc'.btw = loc.btw
      BY <3>1, MoveTarget
    <3>3. goal = "c_mark"
      BY <1>10 DEF CreateMark, goal
    <3> QED BY <1>10, <2>1, <3>2, <3>3 DEF CreateMark
  <2>2. CASE ~fs.mounted
    BY <1>10, <2>2 DEF CreateMark
  <2> QED BY <2>1, <2>2
<1>11. CASE CreateLink
  <2>1. CASE fs.mounted
    <3>1. Move(FatSec(loc.clst), "c_linked")
      BY <1>11, <2>1 DEF CreateLink
    <3> HIDE DEF Move, goal
    <3>2. pc' = "mw" /\ goal' = "c_linked" /\ loc'.target = FatSec(loc.clst) /\ loc'.btw = loc.btw
      BY <3>1, MoveTarget
    <3>3. goal = "c_link"
      BY <1>11 DEF CreateLink, goal
    <3> QED BY <1>11, <2>1, <3>2, <3>3 DEF CreateLink
  <2>2. CASE ~fs.mounted
    BY <1>11, <2>2 DEF CreateLink
  <2> QED BY <2>1, <2>2
<1>12. CASE VolumeStatus
  BY <1>12 DEF VolumeStatus
<1> QED BY <1>1, <1>2, <1>3, <1>4, <1>5, <1>6, <1>7, <1>8, <1>9, <1>10, <1>11, <1>12

\* A step of f_mount or f_open before there is a file.
Starts == /\ isr = "off" /\ ~opened /\ ~fil'.fs /\ fil'.dsect = fil.dsect
          /\ UNCHANGED <<card, history, button>>
          /\ goal \in Starting /\ goal' \in Starting \cup {"loop"}
          /\ pc' \notin {"mw_write", "mw_clear", "mw_read", "mw_set"}
          /\ pc' \in Beginning => ~fs'.fsi
          /\ fs'.wflag /\ fs'.winsect = DirSec => ~fs'.fsi

LEMMA ActionsStart ==
    ASSUME Inv, WindowInv,
           f_mount \/ InitVolume \/ f_open \/ MakeEntry \/ RemovePut \/ RemoveBack
    PROVE  Starts
<1> USE SectorsDiffer DEF Starts, Inv, Types, LocType, FsType, FilType, PlaceType, StartInv,
    WindowInv, goal, At, Goto, Move, Starting, Resting, Moving, Finding, Beginning, volume, file,
    history, button
<1>1. CASE f_mount
  BY <1>1 DEF f_mount
<1>2. CASE InitVolume
  <2>1. /\ isr = "off" /\ goal = "init" /\ goal' = pc' /\ pc' \in {"loop", "open", "entry"}
        /\ UNCHANGED <<card, fil, history, button>>
    BY <1>2 DEF InitVolume
  <2>2. pc' # "loop" \/ fs'.wflag => ~fs'.fsi
    <3>1. CASE pc' = "loop" /\ fs' = [fs EXCEPT !.mounted = FALSE, !.wflag = FALSE, !.winsect = NoSec]
      BY <3>1
    <3>2. CASE fs' = [mounted |-> TRUE, wflag |-> FALSE, fsi |-> FALSE,
                      last |-> IF geo.fat32 THEN geo.hint ELSE NFat, winsect |-> InfoSec]
      BY <3>2
    <3> QED BY <1>2, <3>1, <3>2 DEF InitVolume
  <2> QED BY <2>1, <2>2
<1>3. CASE f_open
  BY <1>3 DEF f_open
<1>4. CASE MakeEntry
  <2>1. /\ isr = "off" /\ goal = "entry" /\ goal' = pc' /\ pc' \in {"loop", "opened", "rm_get"}
        /\ UNCHANGED <<card, fil, history, button>>
    BY <1>4 DEF MakeEntry
  <2>2. ~fs'.fsi \/ fs'.winsect # DirSec
    BY <1>4 DEF MakeEntry
  <2> QED BY <2>1, <2>2
<1>5. CASE RemovePut
  <2>1. /\ isr = "off" /\ goal = "rm_put" /\ goal' = pc' /\ pc' \in {"loop", "rm_back", "rm_get"}
        /\ UNCHANGED <<card, fil, history, button>>
    BY <1>5 DEF RemovePut
  <2>2. fs'.winsect = fs.winsect /\ fs.winsect = FatSec(loc.clst)
    <3>1. pc = "rm_put" /\ (fs' = fs \/ fs' = [fs EXCEPT !.wflag = TRUE, !.fsi = TRUE])
      BY <1>5 DEF RemovePut
    <3>2. fs'.winsect = fs.winsect
      BY <3>1
    <3> QED BY <3>1, <3>2
  <2> QED BY <2>1, <2>2
<1>6. CASE RemoveBack
  BY <1>6 DEF RemoveBack
<1> QED BY <1>1, <1>2, <1>3, <1>4, <1>5, <1>6

LEMMA Written ==
    ASSUME DiskType, NEW s \in Here, NEW content, NEW ok \in BOOLEAN, disk_write(s, content, ok)
    PROVE  /\ \A t \in Here \ {s} : card'[t] = card[t]
           /\ ~torn => card'[s] \in {card[s], content}
           /\ ~torn /\ ok => card'[s] = content
BY DEF DiskType, disk_write

LEMMA WindowInvStep ==
    ASSUME Inv, StopInv, WindowInv, [Next]_vars, geo' = geo
    PROVE  WindowInv'
<1> USE SectorsDiffer DEF Inv, Types, FsType, FilType, LocType, WindowInv, Syncing, validate,
    goal, Intact, At, In, Then, Goto, Moving
<1>0. DirSec \in Here /\ (~opened => ~fil.fs)
  BY HereHas DEF StartInv
<1>28. validate => goal \notin Starting
  BY <1>0 DEF StartInv
<1>29. Intact /\ validate => reg
  BY DEF StopInv
<1>30. validate /\ reg /\ isr = "off" /\ ~torn /\ goal # "loop" => Intact
  BY <1>28 DEF StopInv
<1>1. CASE Moves
  <2>1. /\ UNCHANGED <<card, fs, win, fil, isr, torn, hit, reg>> /\ isr = "off"
        /\ pc' \in Starting \cup Writing \cup Resting \cup {"mw"}
        /\ pc' \notin {"c_marked", "c_linked", "c_end"}
        /\ pc' \in Beginning => pc \in Beginning
        /\ pc' = "mw" /\ loc'.ret \notin Starting => loc'.target # DirSec
        /\ goal' \in Starting => goal \in Starting
        /\ pc # "mw_set"
    BY <1>1 DEF Moves, volume, file, history, button
  <2>2. pc' \notin {"mw_write", "mw_clear", "mw_read", "mw_set"}
    BY <2>1 DEF Starting, Writing, Creating, Resting
  <2> QED BY <2>1, <2>2
<1>2. CASE Starts
  <2>1. pc' \in Moving => loc'.ret \in Starting
    BY <1>2, PlaceTypeStep DEF Starts, PlaceType, Returns
  <2> QED BY <1>2, <2>1 DEF Starts, Starting, Beginning, history, button
<1>3. CASE MoveWindow
  <2>1. /\ UNCHANGED <<card, fs, win, fil, isr, torn, hit, reg>> /\ isr = "off" /\ pc = "mw"
        /\ pc' = IF loc.target = fs.winsect THEN loc.ret
                 ELSE IF fs.wflag THEN "mw_write" ELSE "mw_read"
    BY <1>3 DEF MoveWindow, volume, file, button
  <2>2. /\ loc'.ret = loc.ret /\ loc'.target = loc.target
        /\ loc'.wsect = IF fs.wflag THEN fs.winsect ELSE NoSec
    BY <1>3 DEF MoveWindow
  <2>3. loc.ret \in Returns
    BY <2>1 DEF PlaceType
  <2>4. goal' = goal /\ pc' \notin Beginning
    BY <2>1, <2>2, <2>3 DEF Returns, Beginning
  <2>5. pc' \notin {"mw_clear", "mw_set"} /\ (pc' = "mw_read" => ~fs.wflag)
        /\ (pc' = "mw_write" => loc'.wsect = fs.winsect /\ fs.wflag)
    BY <2>1, <2>2, <2>3 DEF Returns
  <2>6. pc' \in {"c_marked", "c_linked", "c_end"} => fs.winsect # DirSec
    BY <2>1, <2>3 DEF Returns, Starting
  <2>7. pc' \in Moving => loc'.ret = loc.ret /\ loc'.target = loc.target
    BY <2>2
  <2> QED BY <1>29, <2>1, <2>4, <2>5, <2>6, <2>7
<1>4. CASE SyncWindow
  <2>1. PICK ok \in BOOLEAN :
           /\ disk_write(loc.wsect, win, ok)
           /\ IF ok THEN Goto("mw_clear") ELSE Failed
    BY <1>4 DEF SyncWindow
  <2>2. /\ UNCHANGED <<win, fs, fil, loc, isr, torn, hit, reg>> /\ isr = "off" /\ pc = "mw_write"
        /\ pc' \in {"mw_clear", "loop", "abort"}
    BY <1>4, <2>1 DEF SyncWindow, volume, file, button, Failed
  <2>4. loc.wsect \in Here
    OBVIOUS
  <2>5. validate /\ Intact => card'[DirSec].kind = "dir"
    BY <1>0, <2>1, <2>2, <2>4, Written
  <2>6. goal' \in Starting => goal \in Starting
    BY <2>1, <2>2 DEF Failed, Starting
  <2> QED BY <2>2, <2>5, <2>6 DEF Beginning
<1>26. CASE ClearFlag
  <2>1. /\ UNCHANGED <<card, win, fil, loc, isr, torn, hit, reg>> /\ isr = "off"
        /\ pc = "mw_clear" /\ pc' = "mw_read"
        /\ fs'.mounted = fs.mounted /\ fs'.winsect = fs.winsect /\ fs'.fsi = fs.fsi
        /\ ~fs'.wflag
    BY <1>26 DEF ClearFlag, file, button
  <2> QED BY <2>1 DEF Beginning
<1>5. CASE ReadWindow
  <2>1. PICK ok \in BOOLEAN :
           /\ disk_read(loc.target, ok)
           /\ loc' = [loc EXCEPT !.target = IF ok THEN loc.target ELSE NoSec]
    BY <1>5 DEF ReadWindow
  <2>2. /\ UNCHANGED <<card, fs, fil, isr, torn, hit, reg>> /\ isr = "off"
        /\ pc = "mw_read" /\ pc' = "mw_set"
    BY <1>5, <2>1 DEF ReadWindow, file, button, disk_read
  <2>3. loc'.ret = loc.ret /\ loc'.target \in {loc.target, NoSec}
    BY <2>1
  <2> QED BY <2>2, <2>3 DEF Beginning
<1>27. CASE SetSector
  <2>1. /\ UNCHANGED <<card, win, fil, loc, isr, torn, hit, reg>> /\ isr = "off" /\ pc = "mw_set"
        /\ loc.ret \in Returns /\ fs' = [fs EXCEPT !.winsect = loc.target]
        /\ (IF loc.target = NoSec THEN Failed ELSE pc' = loc.ret)
    BY <1>27 DEF SetSector, file, button, PlaceType
  <2>2. /\ UNCHANGED <<card, win, fil, loc, isr, torn, hit, reg>> /\ isr = "off" /\ pc = "mw_set"
        /\ loc.ret \in Returns /\ fs'.winsect = loc.target
        /\ fs'.mounted = fs.mounted /\ fs'.fsi = fs.fsi /\ fs'.wflag = fs.wflag
        /\ pc' \in {loc.ret} \cup {"loop", "abort"}
        /\ (pc' = "abort" => loc.ret \notin Starting)
    BY <2>1 DEF Failed, Returns
  <2>3. pc' \notin Moving \cup Beginning /\ (goal' \in Starting => goal \in Starting)
    BY <2>2 DEF Starting, Returns, Beginning
  <2>4. validate => loc.ret \notin Starting
    BY <1>0, <2>2 DEF StartInv
  <2>5. validate' => fs'.winsect # DirSec
    BY <2>2, <2>4
  <2>6. ~torn /\ (goal' \in Starting \/ (validate' /\ reg' /\ isr' = "off")) => ~fs'.wflag
    BY <2>2, <2>3
  <2> QED BY <2>2, <2>3, <2>5, <2>6
<1>6. CASE Opened
  <2>1. /\ UNCHANGED <<card, fs, win, isr, torn, hit, reg>> /\ pc = "opened" /\ pc' = "loop"
        /\ fil'.dsect = NoSec /\ isr = "off"
    BY <1>6 DEF Opened, volume, button
  <2>2. ~opened
    BY <2>1 DEF StartInv, Starting
  <2>3. card[DirSec].kind = "dir" /\ (fs.winsect = DirSec => win.kind = "dir")
    BY <2>1, <2>2 DEF StartInv
  <2> QED BY <2>1, <2>3 DEF Starting, Beginning
<1>7. CASE Boundary
  <2>1. /\ UNCHANGED <<card, fs, win, isr, torn, hit, reg>> /\ isr = "off"
        /\ fil'.dsect = fil.dsect /\ fil'.fs = fil.fs
        /\ pc = "bound" /\ pc' \in {"abort", "flush", "done", "c_next", "c_get"}
    BY <1>7 DEF Boundary, volume, button
  <2> QED BY <2>1 DEF Starting, Beginning
<1>8. CASE CreateGot
  <2>1. /\ UNCHANGED <<card, fs, win, isr, torn, hit, reg>> /\ isr = "off"
        /\ fil'.dsect = fil.dsect /\ fil'.fs = fil.fs
        /\ pc = "c_got" /\ pc' \in {"abort", "flush", "c_next"}
    BY <1>8 DEF CreateGot, volume, button
  <2> QED BY <2>1 DEF Starting, Beginning
<1>9. CASE CreateMarked \/ CreateLinked
  <2>1. /\ UNCHANGED <<card, fil, isr, torn, hit, reg>> /\ isr = "off"
        /\ fs'.mounted = fs.mounted /\ fs'.winsect = fs.winsect /\ fs'.fsi = fs.fsi
        /\ pc \in {"c_marked", "c_linked"} /\ pc' \in {"c_link", "c_end"}
    BY <1>9 DEF CreateMarked, CreateLinked, file, button
  <2> QED BY <1>30, <2>1 DEF Starting, Beginning
<1>10. CASE CreateEnd
  <2>1. /\ UNCHANGED <<card, win, isr, torn, hit, reg>> /\ isr = "off"
        /\ fs'.mounted = fs.mounted /\ fs'.winsect = fs.winsect /\ fs'.wflag = fs.wflag
        /\ fil'.dsect = fil.dsect /\ fil'.fs = fil.fs
        /\ pc = "c_end" /\ pc' = "flush"
    BY <1>10 DEF CreateEnd, button
  <2> QED BY <1>30, <2>1 DEF Starting, Beginning
<1>11. CASE Flush
  <2>1. /\ UNCHANGED <<fs, win, isr, torn, hit, reg>> /\ isr = "off"
        /\ fil'.dsect = fil.dsect /\ fil'.fs = fil.fs
        /\ pc = "flush" /\ pc' \in {"sector", "abort"}
    BY <1>11 DEF Flush, volume, button
  <2>2. card'[DirSec] = card[DirSec]
    BY <1>0, <1>11, Written DEF Flush
  <2> QED BY <2>1, <2>2 DEF Starting, Beginning
<1>12. CASE NextSector
  <2>1. /\ UNCHANGED <<card, fs, win, isr, torn, hit, reg>> /\ isr = "off" /\ fil'.fs = fil.fs
        /\ pc = "sector" /\ pc' \in {"copy", "abort"}
    BY <1>12 DEF NextSector, volume, button
  <2>2. fil'.dsect # DirSec
    BY <1>12 DEF NextSector, DataSec, DirSec
  <2> QED BY <2>1, <2>2 DEF Starting, Beginning
<1>13. CASE Copy \/ MarkDirty \/ Advance \/ Done \/ Abort
  <2> DEFINE Fills == /\ UNCHANGED <<card, fs, win, isr, torn, hit, reg>> /\ isr = "off"
                      /\ pc # "mw_set" /\ fil'.dsect = fil.dsect /\ fil'.fs = fil.fs
                      /\ pc' \in {"mark", "next", "chunk", "loop"}
  <2>2. Copy => Fills
    BY DEF Copy, volume, button
  <2>3. MarkDirty => Fills
    BY DEF MarkDirty, volume, button
  <2>4. Advance => Fills
    BY DEF Advance, volume, button
  <2>5. Done => Fills
    BY DEF Done, volume, button
  <2>6. Abort => Fills
    BY DEF Abort, volume, button
  <2>1. Fills
    BY <1>13, <2>2, <2>3, <2>4, <2>5, <2>6
  <2> QED BY <2>1 DEF Starting, Beginning
<1>14. CASE Press
  BY <1>14 DEF Press, volume, file
<1>15. CASE Interrupt
  <2>1. /\ UNCHANGED <<card, fs, win, fil, pc, loc, reg>> /\ isr = "off" /\ isr' = "validate"
        /\ (torn => torn') /\ hit' = hit \cup {here}
    BY <1>15 DEF Interrupt, volume, file
  <2>2. Intact' => Intact /\ here \notin {"start", "stale_window"}
    BY <2>1
  <2>3. pc = "mw_set" /\ fs.winsect = DirSec => here \in {"start", "stale_window"}
    BY DEF here, Resting, Starting
  <2> HIDE DEF here, Intact
  <2> QED BY <2>1, <2>2, <2>3 DEF Intact
<1>16. CASE SyncValidate
  BY <1>16 DEF SyncValidate, volume, file
<1>17. CASE SyncData
  <2>1. /\ UNCHANGED <<fs, win, pc, loc, torn, hit, reg>> /\ isr = "data" /\ isr' \in {"window", "unmount"}
        /\ fil'.dsect = fil.dsect /\ fil'.fs = fil.fs
    BY <1>17 DEF SyncData, volume
  <2>2. card'[DirSec] = card[DirSec]
    BY <1>0, <1>17, Written DEF SyncData
  <2> QED BY <2>1, <2>2
<1>18. CASE SyncMoveWindow
  <2>1. /\ UNCHANGED <<win, fil, pc, loc, torn, hit, reg>> /\ isr = "window"
        /\ isr' \in {"entry", "read", "unmount"}
        /\ fs'.mounted = fs.mounted /\ fs'.winsect = fs.winsect /\ fs'.fsi = fs.fsi
        /\ (fs'.wflag => fs.wflag)
    BY <1>18 DEF SyncMoveWindow, file
  <2>2. card'[DirSec] = card[DirSec]
    BY <1>0, <1>18, Written DEF SyncMoveWindow
  <2> QED BY <2>1, <2>2
<1>19. CASE SyncReadWindow
  <2>1. PICK ok \in BOOLEAN : /\ disk_read(DirSec, ok)
                              /\ fs' = [fs EXCEPT !.winsect = IF ok THEN DirSec ELSE NoSec]
                              /\ Then(IF ok THEN "entry" ELSE "unmount")
    BY <1>19 DEF SyncReadWindow
  <2>2. /\ UNCHANGED <<card, fil, pc, loc, torn, hit, reg>> /\ isr = "read"
        /\ isr' \in {"entry", "unmount"}
        /\ fs'.mounted = fs.mounted /\ fs'.fsi = fs.fsi /\ fs'.wflag = fs.wflag
        /\ (fs'.winsect = DirSec => ok)
    BY <1>19, <2>1 DEF SyncReadWindow, file, disk_read
  <2>3. ~torn /\ ok => win' = card[DirSec]
    BY <2>1 DEF disk_read
  <2>4. opened
    BY <1>0, <2>2
  <2> QED BY <2>2, <2>3, <2>4 DEF StartInv, Starting
<1>20. CASE SyncEntry
  <2>1. /\ UNCHANGED <<card, pc, loc, torn, hit, reg>> /\ isr = "entry" /\ isr' = "sync"
        /\ fil'.dsect = fil.dsect /\ fil'.fs = fil.fs
        /\ fs'.mounted = fs.mounted /\ fs'.fsi = fs.fsi /\ fs'.winsect = fs.winsect
        /\ (win.kind = "dir" => win'.kind = "dir")
    BY <1>20 DEF SyncEntry, DirOf
  <2>2. opened
    BY <1>0, <2>1
  <2> QED BY <2>1, <2>2 DEF StartInv, Starting
<1>21. CASE SyncFs
  <2>1. PICK ok \in BOOLEAN : /\ disk_write(fs.winsect, win, ok)
                              /\ fs' = [fs EXCEPT !.wflag = ~ok]
                              /\ Then(IF ok THEN "fsinfo" ELSE "unmount")
    BY <1>21 DEF SyncFs
  <2>2. /\ UNCHANGED <<win, fil, pc, loc, torn, hit, reg>> /\ isr = "sync" /\ isr' \in {"fsinfo", "unmount"}
        /\ fs'.mounted = fs.mounted /\ fs'.fsi = fs.fsi /\ fs'.winsect = fs.winsect
    BY <1>21, <2>1 DEF SyncFs, file
  <2>3. validate /\ Intact => card'[DirSec].kind = "dir"
    BY <1>0, <2>1, <2>2, Written
  <2>4. opened
    BY <1>0, <2>2
  <2> QED BY <2>2, <2>3, <2>4 DEF StartInv, Starting
<1>22. CASE SyncFsInfo
  <2>1. /\ UNCHANGED <<fil, pc, loc, torn, hit, reg>> /\ isr = "fsinfo" /\ isr' \in {"close", "unmount"}
        /\ fs'.mounted = fs.mounted /\ (fs'.fsi => fs.fsi) /\ fs'.wflag = fs.wflag
        /\ (fs'.winsect = DirSec => fs.winsect = DirSec /\ win' = win)
    BY <1>22 DEF SyncFsInfo, file
  <2>2. card'[DirSec] = card[DirSec]
    BY <1>0, <1>22, HereHas, Written DEF SyncFsInfo
  <2>4. opened
    BY <1>0, <2>1
  <2> QED BY <2>1, <2>2, <2>4 DEF StartInv, Starting
<1>23. CASE f_close
  <2>1. /\ UNCHANGED <<card, fs, win, pc, loc, torn, hit, reg>> /\ isr = "close" /\ isr' = "unmount"
        /\ fil'.dsect = fil.dsect /\ ~fil'.fs
    BY <1>23 DEF f_close, volume
  <2>4. opened
    BY <1>0, <2>1
  <2> QED BY <2>1, <2>4 DEF StartInv, Starting
<1>24. CASE Unmount
  <2>1. /\ UNCHANGED <<card, win, fil, pc, loc, torn, hit>> /\ isr = "unmount" /\ isr' = "off"
        /\ fs'.mounted = (fs.mounted /\ ~reg)
        /\ fs'.winsect = fs.winsect /\ fs'.fsi = fs.fsi /\ fs'.wflag = fs.wflag
    BY <1>24 DEF Unmount, file
  <2>2. ~(Intact' /\ validate') /\ ~reg'
    BY <1>24, <2>1 DEF StopInv, Unmount
  <2> HIDE DEF Intact
  <2> QED BY <2>1, <2>2
<1>25. CASE UNCHANGED vars
  BY <1>25 DEF vars, volume, file, button
<1> HIDE DEF WindowInv, Inv, goal, validate
<1> QED
    BY <1>1, <1>2, <1>3, <1>4, <1>5, <1>6, <1>7, <1>8, <1>9, <1>10, <1>11, <1>12, <1>13, <1>14,
      <1>15, <1>16, <1>17, <1>18, <1>19, <1>20, <1>21, <1>22, <1>23, <1>24, <1>25, <1>26, <1>27,
      ActionsMove, ActionsStart
    DEF Next, Main, Handler

LEMMA MainAlone == Main => isr = "off" /\ UNCHANGED button
BY DEF Main, At, Get, Put, MoveWindow, SyncWindow, ClearFlag, ReadWindow, SetSector, Attach,
       f_mount, FindVolume, VolumeStatus, InitVolume, f_open, MakeEntry, RemoveGet, RemovePut,
       RemoveBack, Opened, TestSdmounted, f_puts, Chunk, Boundary, CreateGet, CreateGot,
       CreateNext, CreateTry, CreateMark, CreateMarked, CreateLink, CreateLinked, CreateEnd,
       Flush, NextSector, Copy, MarkDirty, Advance, Done, Abort

\* main has always something for f_sync to do.
LEMMA StaysWritten ==
    ASSUME Inv, StopInv, Main
    PROVE  validate' => fil'.written \/ (validate /\ fil'.written = fil.written /\ reg' = reg)
<1> USE DEF Inv, Types, FsType, FilType, validate, volume, file
<1>1. CASE MoveWindow \/ SyncWindow \/ ClearFlag \/ ReadWindow \/ SetSector
  BY <1>1 DEF MoveWindow, SyncWindow, ClearFlag, ReadWindow, SetSector
<1>2. CASE \/ Attach \/ FindVolume \/ VolumeStatus \/ RemoveGet \/ TestSdmounted \/ f_puts \/ Chunk
           \/ CreateGet \/ CreateNext \/ CreateTry \/ CreateMark \/ CreateLink
  BY <1>2 DEF Attach, FindVolume, VolumeStatus, RemoveGet, TestSdmounted, f_puts, Chunk, CreateGet,
    CreateNext, CreateTry, CreateMark, CreateLink, Get, Put
<1>3. CASE f_mount \/ InitVolume \/ f_open \/ MakeEntry \/ RemovePut \/ RemoveBack
  <2>1. ~fil.fs
    BY <1>3 DEF f_mount, InitVolume, f_open, MakeEntry, RemovePut, RemoveBack, At, StartInv,
      goal, Moving, Starting
  <2>2. ~fil'.fs
    BY <1>3, <2>1 DEF f_mount, InitVolume, f_open, MakeEntry, RemovePut, RemoveBack
  <2> QED BY <2>2
<1>4. CASE Opened \/ Done
  <2>1. Opened => fil'.written
    BY DEF Opened
  <2>2. Done => fil'.written
    BY DEF Done
  <2> QED BY <1>4, <2>1, <2>2
<1>5. CASE Boundary \/ CreateGot
  BY <1>5 DEF Boundary, CreateGot
<1>6. CASE CreateMarked \/ CreateLinked \/ CreateEnd
  BY <1>6 DEF CreateMarked, CreateLinked, CreateEnd
<1>7. CASE Flush \/ NextSector
  BY <1>7 DEF Flush, NextSector
<1>8. CASE Copy \/ MarkDirty
  BY <1>8 DEF Copy, MarkDirty
<1>9. CASE Advance \/ Abort
  BY <1>9 DEF Advance, Abort
<1> QED BY <1>1, <1>2, <1>3, <1>4, <1>5, <1>6, <1>7, <1>8, <1>9 DEF Main

LEMMA SyncInvStep ==
    ASSUME Inv, StopInv, WindowInv, SyncInv, [Next]_vars, geo' = geo
    PROVE  SyncInv'
<1> USE DEF SyncInv, Intact, In, Then
<1>0. DirSec \in Here /\ InfoSec \in Here /\ DiskType /\ FsType /\ FilType
  BY HereHas DEF Inv, Types
<1>1. CASE Main
  BY <1>1, MainAlone, StaysWritten DEF button
<1>2. CASE Press \/ UNCHANGED vars
  BY <1>2 DEF Press, vars, volume, file, button, validate
<1>3. CASE Interrupt
  BY <1>3 DEF Interrupt, volume, file, validate
<1>9. CASE SyncValidate
  <2>1. /\ isr = "validate" /\ isr' \in {"data", "unmount", "close"} /\ UNCHANGED <<torn, hit, reg>>
        /\ (isr' = "close" => validate /\ ~fil.written)
    BY <1>9 DEF SyncValidate, volume
  <2>2. isr' = "close" => ~reg /\ ~Intact
    BY <2>1 DEF StopInv, validate
  <2> QED BY <2>1, <2>2
<1>10. CASE SyncData \/ f_close
  <2>1. isr' \in {"window", "unmount"}
    BY <1>10 DEF SyncData, f_close
  <2> QED BY <2>1
<1>11. CASE Unmount
  <2>1. isr' = "off" /\ fs'.mounted = (fs.mounted /\ ~reg) /\ UNCHANGED <<fil, pc>>
    BY <1>0, <1>11 DEF Unmount, FsType, file
  <2>2. isr = "unmount"
    BY <1>11 DEF Unmount
  <2>3. ~reg'
    BY <1>11 DEF Unmount
  <2> QED BY <2>1, <2>3
<1>4. CASE SyncMoveWindow
  <2>1. isr' \in {"entry", "read", "unmount"} /\ UNCHANGED <<torn, hit, reg>>
    BY <1>4 DEF SyncMoveWindow
  <2>2. isr' = "entry" => fs'.winsect = DirSec
    BY <1>4 DEF SyncMoveWindow
  <2> QED BY <2>1, <2>2
<1>5. CASE SyncReadWindow
  <2>1. isr' \in {"entry", "unmount"} /\ UNCHANGED <<torn, hit, reg>>
    BY <1>5 DEF SyncReadWindow
  <2>2. isr' = "entry" => fs'.winsect = DirSec
    BY <1>0, <1>5 DEF SyncReadWindow, FsType
  <2> QED BY <2>1, <2>2
<1>6. CASE SyncEntry
  <2>1. /\ isr = "entry" /\ isr' = "sync" /\ UNCHANGED <<torn, hit, reg>> /\ fs'.winsect = fs.winsect
        /\ fil'.sclust = fil.sclust /\ fil'.fsize = fil.fsize
    BY <1>0, <1>6 DEF SyncEntry, FsType, FilType
  <2>2. Intact => win.kind = "dir"
    BY <2>1 DEF WindowInv, Syncing
  <2>3. Intact => win' = DirOf("log", fil'.sclust, fil'.fsize)
    BY <1>6, <2>1, <2>2 DEF SyncEntry
  <2> QED BY <2>1, <2>3
<1>7. CASE SyncFs
  <2>1. PICK ok \in BOOLEAN : /\ disk_write(fs.winsect, win, ok)
                              /\ fs' = [fs EXCEPT !.wflag = ~ok]
                              /\ Then(IF ok THEN "fsinfo" ELSE "unmount")
    BY <1>7 DEF SyncFs
  <2>2. /\ UNCHANGED <<win, fil, pc, loc, torn, hit, reg>> /\ isr = "sync" /\ isr' \in {"fsinfo", "unmount"}
        /\ (isr' = "fsinfo" => ok)
    BY <1>7, <2>1 DEF SyncFs, file
  <2>3. ok => ~fs'.wflag
    BY <1>0, <2>1 DEF FsType
  <2>4. Intact /\ ok => card'[DirSec] = win
    <3>1. Intact => fs.winsect = DirSec /\ ~torn
      BY <2>2
    <3> QED BY <1>0, <2>1, <3>1, Written
  <2> QED BY <2>2, <2>3, <2>4
<1>8. CASE SyncFsInfo
  <2>1. /\ UNCHANGED <<fil, pc, loc, torn, hit, reg>> /\ isr = "fsinfo" /\ isr' \in {"close", "unmount"}
        /\ fs'.wflag = fs.wflag /\ (~fs.fsi => win' = win)
    BY <1>0, <1>8 DEF SyncFsInfo, file, FsType
  <2>2. card'[DirSec] = card[DirSec]
    BY <1>0, <1>8, SectorsDiffer, Written DEF SyncFsInfo
  <2>3. Intact /\ pc = "mw_write" /\ loc.wsect = DirSec => ~fs.fsi
    BY <2>1 DEF WindowInv, Syncing
  <2> QED BY <2>1, <2>2, <2>3
<1> QED
    BY <1>1, <1>2, <1>3, <1>4, <1>5, <1>6, <1>7, <1>8, <1>9, <1>10, <1>11 DEF Next, Handler

LEMMA ReportInvStep ==
    ASSUME Inv, ReportInv, [Next]_vars, geo' = geo
    PROVE  ReportInv'
<1>0. /\ reported \in Nat /\ fil.fsize \in Nat /\ fil.fptr \in Nat /\ loc.btw \in Nat
      /\ LineSize \in Nat \ {0} /\ fil.fsize <= fil.fptr /\ (~opened => ~fil.fs)
  BY Numbers DEF Inv, Types, FlagType, FilType, LocType, CountInv, StartInv
<1>1. CASE CountKept
  BY <1>1 DEF CountKept, ReportInv
<1>2. CASE Opened
  <2>1. fil'.fsize = 0 /\ reported' = reported /\ goal = "opened" /\ goal' = "loop" /\ opened'
    BY <1>2 DEF Opened, At, Goto, goal, Moving
  <2>2. ~opened
    BY <2>1 DEF Inv, StartInv, Starting
  <2> QED BY <1>0, <2>1, <2>2 DEF ReportInv, Writing, Creating
<1>3. CASE TestSdmounted
  BY <1>3 DEF TestSdmounted, At, Goto, goal, Moving, Writing, Creating, file, history, ReportInv
<1>4. CASE f_puts
  <2>1. UNCHANGED <<fil, opened, reported>> /\ pc' \in {"chunk", "loop"} /\ goal' = pc'
    BY <1>4 DEF f_puts, At, Goto, goal, Moving, file, history
  <2>2. pc' = "chunk" => loc'.btw = LineSize
    BY <1>4, LocTypeStep DEF f_puts, Goto, Inv, Types, LocType
  <2> QED BY <1>0, <2>1, <2>2 DEF ReportInv, Writing, Creating
<1>5. CASE Advance
  <2>1. wcnt \in 0..loc.btw
    BY Chunks DEF Inv, Types
  <2>2. /\ fil'.fptr = fil.fptr + wcnt /\ fil'.fsize = fil.fsize /\ fil'.fs = fil.fs
        /\ loc'.btw = loc.btw - wcnt /\ goal = "next" /\ goal' = "chunk"
        /\ UNCHANGED <<opened, reported>>
    BY <1>5 DEF Advance, At, Goto, goal, Moving, history, Inv, Types, FilType, LocType
  <2> HIDE DEF wcnt
  <2>3. fil'.fptr + loc'.btw = fil.fptr + loc.btw
    BY <1>0, <2>1, <2>2
  <2> QED BY <2>2, <2>3 DEF ReportInv, Writing, Creating
<1>6. CASE Done
  <2>1. /\ goal = "done" /\ goal' = "loop" /\ opened' = opened /\ fil'.fs = fil.fs
        /\ reported' = IF loc.btw = 0 THEN reported + LineSize ELSE reported
        /\ fil'.fsize = Grown
    BY <1>6 DEF Done, At, Goto, goal, Moving, Inv, Types, FilType
  <2>2. opened
    BY <2>1 DEF Inv, StartInv, Starting, Resting
  <2>3. fil.fs => reported' <= fil'.fsize
    BY <1>0, <2>1 DEF ReportInv, Writing, Creating, Grown
  <2> QED BY <2>1, <2>2, <2>3 DEF ReportInv, Writing, Creating
<1>7. CASE Abort
  <2>1. /\ goal' = "loop" /\ UNCHANGED <<opened, reported>> /\ fil'.fs = fil.fs
        /\ fil'.fsize = fil.fsize
    BY <1>7 DEF Abort, At, Goto, goal, Moving, Inv, Types, FilType
  <2> QED BY <2>1 DEF ReportInv, Writing, Creating
<1> QED BY <1>1, <1>2, <1>3, <1>4, <1>5, <1>6, <1>7, CountSteps

\* What keeps the entry of a file that is closed: main writes no directory sector but
\* the same again, comes no nearer to a line that is reported, and stays unmounted.
RecordKept == /\ UNCHANGED <<reported, opened, handled, isr, closed, torn, hit>>
              /\ ~fil'.fs /\ ~fs'.mounted /\ card'[DirSec] = card[DirSec]
              /\ pc' \notin {"mw", "mw_write"}
              /\ goal' \in Writing => goal \in Writing

LEMMA ClosedInvStep ==
    ASSUME Inv, StopInv, WindowInv, SyncInv, ReportInv, ClosedInv, [Next]_vars, geo' = geo
    PROVE  ClosedInv'
<1> USE DEF Inv, Types, FsType, FilType, LocType, goal, Moving, validate, Harmless, Intact, Recorded
<1>0. /\ DirSec \in Here /\ reported \in Nat /\ LineSize \in Nat /\ fil.fsize \in Nat
      /\ handled \in Nat /\ (~opened => ~fil.fs)
  BY HereHas, Numbers DEF FlagType, StartInv
<1>1. CASE f_close
  <2>1. /\ isr = "close" /\ isr' = "unmount" /\ ~fil'.fs /\ closed'
        /\ UNCHANGED <<card, fs, reg, win, pc, loc, reported, opened, torn, hit>>
    BY <1>1 DEF f_close, In, Then, volume, history
  <2>2. fil.fs /\ fs.mounted
    BY <2>1 DEF WindowInv, Syncing
  <2>3. opened
    BY <1>0, <2>2
  <2>4. pc = "mw" => reg /\ ~fs.wflag
    <3>1. pc = "mw" => goal \notin Starting \cup {"loop"}
      BY <2>3 DEF StartInv, PlaceType, Returns
    <3> QED BY <2>1, <2>2, <3>1 DEF StopInv, SyncInv
  <2>5. Intact => /\ card[DirSec] = DirOf("log", fil.sclust, fil.fsize)
                  /\ pc = "mw_write" /\ loc.wsect = DirSec => win = card[DirSec]
    BY <2>1 DEF SyncInv
  <2>6. reported <= fil.fsize
    BY <2>2 DEF ReportInv
  <2>7. Intact => /\ card[DirSec].kind = "dir" /\ card[DirSec].of = "log"
                  /\ card[DirSec].size = fil.fsize
    BY <2>5 DEF DirOf
  <2>8. fil.fsize <= fil.fsize + LineSize
    BY <1>0
  <2>9. reported <= fil.fsize + LineSize
    BY <1>0, <2>6
  <2> QED BY <2>1, <2>3, <2>4, <2>5, <2>6, <2>7, <2>9 DEF ClosedInv
<1>2. CASE ~closed'
  BY <1>2 DEF ClosedInv
<1> SUFFICES ASSUME ~f_close, closed' PROVE ClosedInv'
  BY <1>1, <1>2
<1>3. closed
  BY DEF Next, Main, Handler, Press, vars, button, At, In, Get, Put,
    MoveWindow, SyncWindow, ClearFlag, ReadWindow, SetSector, Attach, f_mount, FindVolume,
    VolumeStatus, InitVolume,
    f_open, MakeEntry, RemoveGet, RemovePut, RemoveBack, Opened, TestSdmounted, f_puts,
    Chunk, Boundary, CreateGet, CreateGot, CreateNext, CreateTry, CreateMark,
    CreateMarked, CreateLink, CreateLinked, CreateEnd, Flush, NextSector, Copy,
    MarkDirty, Advance, Done, Abort, Interrupt, SyncValidate, SyncData, SyncMoveWindow,
    SyncReadWindow, SyncEntry, SyncFs, SyncFsInfo, Unmount
<1>4. /\ opened /\ ~fil.fs /\ isr \in {"off", "validate", "unmount"}
      /\ isr = "unmount" \/ handled > 0
      /\ fs.mounted => ~reg \/ isr = "unmount"
      /\ pc = "mw" => ~fs.wflag
      /\ goal \notin Starting
  BY <1>3 DEF ClosedInv, StartInv
<1>5. CASE RecordKept
  <2>1. goal' \in Writing \/ Harmless' => goal \in Writing \/ Harmless
    BY <1>5 DEF RecordKept
  <2> HIDE DEF goal, Harmless, Inv
  <2> QED BY <1>3, <1>4, <1>5, <2>1 DEF RecordKept, ClosedInv
<1>6. CASE Main
  <2>1. isr = "off" /\ UNCHANGED button /\ handled > 0
    BY <1>4, <1>6, MainAlone
  <2>12. ~fs.mounted
    <3>1. CASE fs.mounted
      <4>1. pc = "loop" /\ ~sdmounted
        BY <1>4, <2>1, <3>1 DEF StopInv, PlaceType, Returns
      <4>2. FALSE
        BY <1>6, <4>1 DEF Main, At, Get, Put, MoveWindow, SyncWindow, ClearFlag, ReadWindow,
          SetSector, Attach, f_mount, FindVolume, VolumeStatus, InitVolume, f_open, MakeEntry,
          RemoveGet, RemovePut, RemoveBack, Opened, TestSdmounted, f_puts, Chunk, Boundary,
          CreateGet, CreateGot, CreateNext, CreateTry, CreateMark, CreateMarked, CreateLink,
          CreateLinked, CreateEnd, Flush, NextSector, Copy, MarkDirty, Advance, Done, Abort
      <4> QED BY <4>2
    <3> QED BY <3>1
  <2> USE <2>1, <2>12 DEF button, At, Goto
  <2>2. CASE Moves
    <3>1. /\ UNCHANGED <<card, fs, fil, reported, opened>> /\ pc' # "mw" /\ pc' # "mw_write"
          /\ (goal' \in Writing => goal \in Writing)
      BY <1>4, <2>2 DEF Moves, volume, file, history, Starting, Writing, Creating, Resting
    <3>2. RecordKept
      BY <1>4, <3>1 DEF RecordKept
    <3> QED BY <3>2, <1>5
  <2>3. ~(f_mount \/ InitVolume \/ f_open \/ MakeEntry \/ RemovePut \/ RemoveBack \/ Opened)
    BY <1>4 DEF f_mount, InitVolume, f_open, MakeEntry, RemovePut, RemoveBack, Opened, Starting
  <2>4. CASE MoveWindow
    <3>1. /\ UNCHANGED <<card, fs, fil, reported, opened>> /\ pc = "mw" /\ loc.ret \in Returns
          /\ pc' \in {loc.ret, "mw_read"} /\ loc'.ret = loc.ret
      BY <1>4, <2>4 DEF MoveWindow, volume, file, history, PlaceType
    <3>2. pc' \notin {"mw", "mw_write"} /\ goal' = goal
      BY <3>1 DEF Returns
    <3> QED BY <1>4, <1>5, <3>1, <3>2 DEF RecordKept
  <2>5. CASE SyncWindow
    <3>1. PICK ok \in BOOLEAN :
             /\ disk_write(loc.wsect, win, ok)
             /\ IF ok THEN Goto("mw_clear") ELSE Failed
      BY <2>5 DEF SyncWindow
    <3>2. /\ UNCHANGED <<win, fs, fil, loc, reported, opened>> /\ pc = "mw_write"
          /\ pc' \in {"mw_clear", "loop", "abort"} /\ (pc' = "abort" => goal \in Writing)
      <4>1. goal = loc.ret /\ loc.ret \in Returns /\ goal \notin Starting
        BY <1>4, <2>5 DEF SyncWindow, PlaceType
      <4> QED BY <2>5, <3>1, <4>1 DEF SyncWindow, volume, file, history, Failed, Returns, Starting,
                Writing, Creating
    <3>3. Intact => card'[DirSec] = card[DirSec]
      <4>1. loc.wsect = DirSec /\ Intact => win = card[DirSec]
        BY <1>3, <3>2 DEF ClosedInv
      <4> QED BY <1>0, <3>1, <4>1, Written
    <3>5. goal' \in Writing => goal \in Writing
      BY <3>2 DEF Writing, Creating
    <3> QED BY <1>3, <1>4, <3>2, <3>3, <3>5 DEF ClosedInv
  <2>13. CASE ClearFlag
    <3>1. /\ UNCHANGED <<card, win, fil, loc, reported, opened>> /\ pc = "mw_clear"
          /\ pc' = "mw_read" /\ fs'.mounted = fs.mounted
      BY <2>13 DEF ClearFlag, file, history
    <3> QED BY <1>4, <1>5, <3>1 DEF RecordKept
  <2>6. CASE ReadWindow
    <3>1. /\ UNCHANGED <<card, fs, fil, reported, opened>> /\ pc = "mw_read" /\ pc' = "mw_set"
          /\ loc'.ret = loc.ret
      BY <2>6 DEF ReadWindow, file, history, disk_read
    <3> QED BY <1>4, <1>5, <3>1 DEF RecordKept
  <2>14. CASE SetSector
    <3>1. /\ UNCHANGED <<card, win, fil, loc, reported, opened>> /\ pc = "mw_set"
          /\ fs'.mounted = fs.mounted /\ goal = loc.ret /\ loc.ret \in Returns
          /\ IF loc.target = NoSec THEN Failed ELSE pc' = loc.ret
      BY <1>4, <2>14 DEF SetSector, file, history, PlaceType
    <3>2. pc' \in {loc.ret, "abort"} /\ goal \in Writing
      BY <1>4, <3>1 DEF Failed, Returns, Starting, Writing, Creating
    <3>3. pc' \notin Moving
      BY <3>1, <3>2 DEF Returns
    <3> QED BY <1>4, <1>5, <3>1, <3>2, <3>3 DEF RecordKept
  <2>7. CASE Boundary \/ CreateGot
    <3>1. /\ UNCHANGED <<card, fs, reported, opened>> /\ fil'.fs = fil.fs
          /\ pc' \in {"abort", "flush", "done", "c_next", "c_get"} /\ goal \in Writing
      BY <2>7 DEF Boundary, CreateGot, volume, history, Writing, Creating
    <3> QED BY <1>4, <1>5, <3>1 DEF RecordKept
  <2>8. CASE CreateMarked \/ CreateLinked \/ CreateEnd
    <3>1. /\ UNCHANGED <<card, reported, opened>> /\ fil'.fs = fil.fs
          /\ fs'.mounted = fs.mounted
          /\ pc' \in {"c_link", "c_end", "flush"} /\ goal \in Writing
      BY <2>8 DEF CreateMarked, CreateLinked, CreateEnd, file, history, Writing, Creating
    <3> QED BY <1>4, <1>5, <3>1 DEF RecordKept
  <2>9. CASE Flush
    <3>1. /\ UNCHANGED <<fs, reported, opened>> /\ fil'.fs = fil.fs
          /\ pc' \in {"sector", "abort"} /\ goal \in Writing
      BY <2>9 DEF Flush, volume, history, Writing, Creating
    <3>2. card'[DirSec] = card[DirSec]
      BY <1>0, <2>9, Written DEF Flush, WindowInv
    <3> QED BY <1>4, <1>5, <3>1, <3>2 DEF RecordKept
  <2>10. CASE NextSector \/ Copy \/ MarkDirty \/ Advance \/ Abort
    <3> DEFINE Fills == /\ UNCHANGED <<card, fs, reported, opened>> /\ fil'.fs = fil.fs
                        /\ pc' \in {"copy", "abort", "mark", "next", "chunk", "loop"}
                        /\ goal \in Writing
    <3>2. NextSector => Fills
      BY DEF NextSector, volume, history, Writing
    <3>3. Copy \/ MarkDirty => Fills
      BY DEF Copy, MarkDirty, volume, history, Writing
    <3>4. Advance => Fills
      BY DEF Advance, volume, history, Writing
    <3>5. Abort => Fills
      BY DEF Abort, volume, history, Writing
    <3>1. Fills
      BY <2>10, <3>2, <3>3, <3>4, <3>5
    <3> QED BY <1>4, <1>5, <3>1 DEF RecordKept
  <2>11. CASE Done
    <3>1. /\ UNCHANGED <<card, fs, opened>> /\ fil'.fs = fil.fs /\ pc = "done" /\ pc' = "loop"
          /\ reported' \in {reported, reported + LineSize}
      BY <2>11 DEF Done, volume
    <3>2. goal \in Writing /\ ~Harmless
      BY <3>1 DEF StopInv, Starting, Resting, Writing
    <3>3. Intact => card[DirSec].size \in Nat
      <4>1. card[DirSec] \in Content
        BY <1>0 DEF DiskType
      <4>2. Intact => card[DirSec].kind = "dir"
        BY <1>3 DEF ClosedInv
      <4> QED BY <4>1, <4>2, Kinds DEF Dirs
    <3>4. Intact => reported' <= card[DirSec].size + LineSize
      BY <1>0, <1>3, <3>1, <3>2, <3>3 DEF ClosedInv
    <3>5. goal' \notin Writing /\ ~Harmless'
      BY <3>1, <3>2 DEF Writing, Creating
    <3> QED BY <1>3, <1>4, <3>1, <3>4, <3>5 DEF ClosedInv
  <2> HIDE DEF Inv, goal, validate, At, Goto
  <2> QED BY <1>6, <2>2, <2>3, <2>4, <2>5, <2>6, <2>7, <2>8, <2>9, <2>10, <2>11, <2>13, <2>14,
          ActionsMove
          DEF Main
<1>7. CASE Press \/ UNCHANGED vars
  BY <1>3, <1>7 DEF Press, vars, volume, file, history, button, ClosedInv
<1>8. CASE Interrupt
  <2>1. /\ UNCHANGED <<card, fs, reg, win, fil, pc, loc, reported, opened, handled>> /\ isr = "off"
        /\ isr' = "validate" /\ hit \subseteq hit' /\ (torn => torn')
    BY <1>8 DEF Interrupt, volume, file, history
  <2> QED BY <1>3, <1>4, <2>1 DEF ClosedInv
<1>9. CASE SyncValidate
  <2>1. /\ UNCHANGED <<card, fs, reg, win, fil, pc, loc, reported, opened, handled, torn, hit>>
        /\ isr = "validate" /\ isr' = "unmount"
    BY <1>4, <1>9 DEF SyncValidate, In, Then, volume, file, history
  <2> QED BY <1>3, <1>4, <2>1 DEF ClosedInv
<1>10. CASE Unmount
  <2>1. /\ UNCHANGED <<card, win, fil, pc, loc, reported, opened, torn, hit>>
        /\ isr' = "off" /\ handled' = handled + 1
        /\ fs'.mounted = (fs.mounted /\ ~reg) /\ fs'.wflag = fs.wflag
    BY <1>10 DEF Unmount, In, Then, file, history
  <2>2. handled' > 0 /\ ~reg'
    BY <1>0, <1>10, <2>1 DEF Unmount
  <2> QED BY <1>3, <1>4, <2>1, <2>2 DEF ClosedInv
<1>11. ~(SyncData \/ SyncMoveWindow \/ SyncReadWindow \/ SyncEntry \/ SyncFs \/ SyncFsInfo)
  BY <1>4 DEF SyncData, SyncMoveWindow, SyncReadWindow, SyncEntry, SyncFs, SyncFsInfo, In
<1> HIDE DEF Inv, goal, validate
<1> QED BY <1>6, <1>7, <1>8, <1>9, <1>10, <1>11 DEF Next, Handler

LEMMA CloseInvariance == Spec => []CloseInv
<1>1. Init => CloseInv
  <2> SUFFICES ASSUME Init PROVE CloseInv
    OBVIOUS
  <2>1. goal = "attach" /\ NoSec # DirSec
    BY SectorsDiffer DEF Init, goal, Moving
  <2> QED BY <2>1 DEF Init, CloseInv, WindowInv, SyncInv, ReportInv, ClosedInv, Syncing, validate,
             Starting, Beginning, Moving
<1>2. Inv /\ StopInv /\ CloseInv /\ [Next]_vars => CloseInv'
  BY GeoStays, WindowInvStep, SyncInvStep, ReportInvStep, ClosedInvStep DEF CloseInv
<1> QED BY <1>1, <1>2, Invariance, Stopped, PTL DEF Spec

\* When f_close has succeeded in the handler (ff.c:2857, main.c:89), the directory entry on
\* the card is that of the log, and its size counts every line f_puts has reported, but for
\* the one the press came into; whether that was in f_write, sync_window or the loop.  Presses
\* at start-up, in the middle of a disk call, and between ff.c:742 and 746 while winsect names
\* the directory are left out.
THEOREM ClosedIsComplete == Spec => []ClosedFileIsComplete
<1>1. Inv /\ CloseInv => ClosedFileIsComplete
  <2> SUFFICES ASSUME Inv, CloseInv, closed, Intact
               PROVE  /\ card[DirSec].of = "log"
                      /\ reported <= card[DirSec].size
                                       + (IF hit \subseteq {"idle"} THEN 0 ELSE LineSize)
    BY DEF ClosedFileIsComplete, Intact
  <2>1. /\ card[DirSec].kind = "dir" /\ card[DirSec].of = "log"
        /\ reported <= card[DirSec].size + LineSize
        /\ Harmless => reported <= card[DirSec].size
    BY DEF CloseInv, ClosedInv, Recorded
  <2>2. card[DirSec].size \in Nat
    <3>1. card[DirSec] \in Content
      BY HereHas DEF Inv, Types, DiskType
    <3> QED BY <2>1, <3>1, Kinds DEF Dirs
  <2> QED BY <2>1, <2>2 DEF Harmless
<1> QED BY <1>1, Invariance, CloseInvariance, PTL
=============================================================================
