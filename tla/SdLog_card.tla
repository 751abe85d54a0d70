------------------------------- MODULE SdLog_card -------------------------------
(***************************************************************************)
(* Proofs about what SdLog has on the card at any moment, for every set of *)
(* volumes, size of a sector and of a line, number of lines and of presses.*)
(* The invariant says where the text of the file is: on the card, in the   *)
(* buffer, and in the clusters p[0], ..., p[len - 1].                      *)
(***************************************************************************)
EXTENDS SdLog_proof, FiniteSetTheorems, WellFoundedInduction

-----------------------------------------------------------------------------
(***************************************************************************)
(* What is on the card, as long as no press came to one of the three       *)
(* places that CardIsConsistent leaves out.                                *)
(***************************************************************************)
Sound == ~torn /\ hit \cap {"sync_window", "stale_window"} = {}

\* The window may still be written back.
Writable == \/ fs.mounted /\ ~(pc = "mw_set" /\ isr = "unmount")
            \/ pc \in {"mw", "mw_write"}
            \/ ~opened

\* The sector that is in the window: before main sets winsect to the one it has read, and
\* unless the handler has moved the window meanwhile, winsect does not say so.
Moved == opened /\ isr \in {"entry", "sync", "fsinfo", "close", "unmount"}
over == IF pc = "mw_set" /\ ~Moved THEN loc.target ELSE fs.winsect

\* The FAT as main sees it: the window lies over the card.
InWindow(c) == over = FatSec(c)
View(c) == IF InWindow(c) THEN win.entry[c] ELSE card[FatSec(c)].entry[c]

\* The file can still be closed as it is: nothing of its entry has been written.
Before == opened /\ validate /\ reg /\ isr \in {"off", "validate", "data", "window", "read", "entry"}

\* The unit of text that is written next is unit Off of sector Nr of the file.
Nr == fil.fptr \div SectorSize
Off == fil.fptr % SectorSize

Filling == {"copy", "mark", "next"}

\* A line is clipped at sectors, and a new sector begins a cluster.
LineInv ==
    /\ goal \in Writing \ {"chunk", "done", "abort"} => loc.btw > 0
    /\ goal \in {"bound", "flush", "sector"} \cup Creating => Off = 0
    /\ fil.fs /\ goal \in Creating => csect = 0
    /\ goal \in Writing => ~fil.err
    /\ goal \in {"c_get", "c_got"} => fil.fptr > 0
    /\ goal = "sector" \/ (goal = "copy" /\ Off = 0) => ~fil.dirty
    /\ goal \in {"mark", "next"} => buf = DataOf("log", Nr, Off + wcnt)
    /\ goal = "next" /\ Before /\ isr \in {"off", "validate", "data"} => fil.dirty
    /\ Before /\ isr \in {"window", "read", "entry"} => ~fil.dirty

NoData(s) == s[1] # "data"

FatOk(w, c) == /\ w.kind = "fat" /\ w.nr = FatNr(c)
               /\ c \in geo.others => w.entry[c] = NFat

\* Where main is about to move the window to.
Heading ==
    /\ NoData(loc.wsect) /\ NoData(loc.target)
    /\ pc \in Moving /\ ~(pc = "mw_set" /\ loc.target = NoSec) =>
          /\ loc.ret \in {"c_marked", "c_try"} => loc.target = FatSec(loc.ncl)
          /\ loc.ret \in {"c_linked", "c_got", "rm_put"} => loc.target = FatSec(loc.clst)

\* A window that nothing has been written to is what is on the card.
Clean == Writable /\ ~fs.wflag /\ over \notin {NoSec, InfoSec} => win = card[over]

\* What the window is over, and what is in it that the card does not have.
OverInv ==
    /\ NoData(fs.winsect) /\ Heading
    /\ fil.dsect = NoSec \/ ~NoData(fil.dsect)
    /\ opened /\ ~fil.fs => closed
    /\ isr = "read" => ~fs.wflag
    /\ isr \in {"entry", "sync"} => fs.winsect = DirSec
    /\ opened /\ fs.mounted /\ ~reg => fil.fptr = 0 /\ fil.fsize = 0 /\ ~fil.dirty
    /\ Sound =>
          /\ pc \in {"mw_write", "mw_clear"} =>
                loc.wsect = fs.winsect /\ fs.wflag /\ (opened => isr = "off")
          /\ pc = "mw_clear" => win = card[fs.winsect]
          /\ pc = "mw_set" /\ Before /\ isr # "entry" =>
                ~fs.wflag /\ (isr # "off" => fs.winsect # DirSec)
          /\ Clean
          /\ Before /\ isr = "off" => /\ pc \in {"c_marked", "c_try"} => InWindow(loc.ncl)
                                      /\ pc \in {"c_linked", "c_got"} => InWindow(loc.clst)

\* The FAT, on the card and in the window: the files of others keep their entries.
FatInv ==
    Sound =>
       /\ \A c \in Cluster : FatOk(card[FatSec(c)], c)
       /\ Writable => \A c \in Cluster : InWindow(c) => FatOk(win, c)
       /\ Before => /\ goal \in {"c_mark", "c_marked"} => View(loc.ncl) = 0
                    /\ goal \in {"c_link", "c_linked"} => loc.clst \notin geo.others

\* f_open empties the entry before it frees the cluster of the old log.
Empty == DirOf("log", 0, 0)
Entered == DirOf("old", geo.old, IF geo.old = 0 THEN 0 ELSE SectorSize)
OldInv ==
    Sound /\ ~opened =>
       /\ card[DirSec] \in {Empty, Entered}
       /\ geo.old # 0 => card[DataSec(geo.old, 0, geo.csize)] = DataOf("old", 0, SectorSize)
       /\ geo.old # 0 /\ goal \in Beginning => card[FatSec(geo.old)].entry[geo.old] = NFat
       /\ fs.wflag /\ over = DirSec => win = Empty
       /\ goal \in {"rm_get", "rm_put"} =>
             /\ loc.clst = geo.old /\ geo.old # 0 /\ View(geo.old) = NFat
             /\ card[DirSec].size = 0 \/ (over = DirSec /\ fs.wflag)
       /\ goal \in {"rm_back", "opened"} => card[DirSec].size = 0

\* Where the sectors of the file are.
Spot(p, nr) == DataSec(p[nr \div geo.csize], nr % geo.csize, geo.csize)
Within(nr, len) == nr \div geo.csize < len
Holds(d, pos) == /\ d.kind = "data" /\ d.of = "log" /\ d.nr = pos \div SectorSize
                 /\ pos % SectorSize < d.n

OthersOk == \A c \in geo.others, off \in 0..geo.csize - 1 :
                card[DataSec(c, off, geo.csize)].of = "other"

PathOk(p, len) ==
    /\ \A i, j \in 0..len - 1 : p[i] = p[j] => i = j
    /\ \A i \in 0..len - 1 : p[i] \notin geo.others
    /\ OthersOk

\* The sector whose cluster is fil.clust.
ClustNr == IF goal \in {"flush", "sector"} \cup Filling \/ Off # 0 THEN Nr ELSE Nr - 1

\* The FAT, the window over it, and what main knows of the chain.
Linked(p, len) ==
    /\ \A i \in 0..len - 2 : View(p[i]) = p[i + 1]
    /\ len > 0 => View(p[len - 1]) = NFat

ChainOk(p, len) ==
    /\ Linked(p, len)
    /\ fil.sclust = IF len = 0 \/ (goal = "c_end" /\ len = 1) THEN 0 ELSE p[0]
    /\ ~fil.err /\ goal # "abort" /\ (fil.fptr > 0 \/ goal \in {"flush", "sector"} \cup Filling) =>
          Within(ClustNr, len) /\ fil.clust = p[ClustNr \div geo.csize]
    /\ goal \in {"c_get", "c_got"} => loc.clst = fil.clust
    /\ goal \in {"c_next", "c_try", "c_mark", "c_marked", "c_link", "c_linked"} =>
          len = Nr \div geo.csize /\ loc.clst = IF len = 0 THEN 0 ELSE p[len - 1]
    /\ goal \in {"c_link", "c_linked"} =>
          /\ len > 0 /\ View(loc.ncl) = NFat /\ loc.ncl \notin geo.others
          /\ \A i \in 0..len - 1 : p[i] # loc.ncl
    /\ goal = "c_end" => len - 1 = Nr \div geo.csize /\ p[len - 1] = loc.ncl

\* The sector that is in the buffer, or will be.
BufNr == IF goal \in Filling \/ Off # 0 THEN Nr ELSE Nr - 1

\* main will write the buffer back in this call of f_write, come what may.
Flushable == \/ goal \in {"bound", "flush"} \cup Creating
             \/ goal = "chunk" /\ loc.btw > 0
             \/ goal \in Filling /\ Off # 0

BufferOk(p, len) ==
    /\ goal \in Filling \/ Off # 0 \/ fil.dirty => Within(BufNr, len) /\ fil.dsect = Spot(p, BufNr)
    /\ fil.dirty => /\ goal \in Filling \/ fil.fptr > 0
                    /\ buf.of = "log" /\ buf.nr = BufNr
                    /\ buf.n >= fil.fptr - BufNr * SectorSize

TextOk(p, len) ==
    \A pos \in 0..fil.fptr - 1 :
       /\ Within(pos \div SectorSize, len)
       /\ \/ Holds(card[Spot(p, pos \div SectorSize)], pos)
          \/ fil.dirty /\ pos \div SectorSize = BufNr

\* An entry that is on the card, or may get there from the window, is true.
OnCard(p, len) ==
    /\ \A i \in 0..len - 2 : card[FatSec(p[i])].entry[p[i]] = p[i + 1]
    /\ len > 0 => card[FatSec(p[len - 1])].entry[p[len - 1]] = NFat

Claimed(d, p, len) ==
    /\ d.kind = "dir"
    /\ d.size > 0 =>
          /\ ~Before /\ d.of = "log" /\ len > 0 /\ d.start = p[0] /\ d.size <= fil.fptr
          /\ OnCard(p, len)
          /\ Writable /\ fs.wflag => over = DirSec
          /\ \A pos \in 0..d.size - 1 : /\ Within(pos \div SectorSize, len)
                                        /\ Holds(card[Spot(p, pos \div SectorSize)], pos)

ClaimsOk(p, len) ==
    /\ Claimed(card[DirSec], p, len)
    /\ over = DirSec /\ Writable => Claimed(win, p, len)

FileOk(p, len) == /\ PathOk(p, len)
                  /\ Before => ChainOk(p, len) /\ TextOk(p, len)
                  /\ Before \/ Flushable => BufferOk(p, len)
                  /\ ClaimsOk(p, len)

FileInv == Sound => IF opened THEN \E len \in 0..Clusters : \E p \in [0..len - 1 -> Cluster] : FileOk(p, len)
                              ELSE OthersOk

-----------------------------------------------------------------------------
(***************************************************************************)
(* Units of text, sectors and clusters.                                    *)
(***************************************************************************)
LEMMA DivMod ==
    ASSUME NEW n \in Nat, NEW d \in Nat \ {0}
    PROVE  n \div d \in Nat /\ n % d \in 0..d - 1 /\ n = d * (n \div d) + (n % d)
OBVIOUS

LEMMA TimesMonotonic ==
    ASSUME NEW a \in Nat, NEW b \in Nat, NEW c \in Nat, a <= b
    PROVE  c * a <= c * b /\ c * a \in Nat
<1> DEFINE k == b - a
<1>1. k \in Nat /\ b = a + k
  OBVIOUS
<1> HIDE DEF k
<1>2. c * b = c * a + c * k /\ c * k \in Nat /\ c * a \in Nat
  BY <1>1
<1> QED BY <1>2

LEMMA DivUnique ==
    ASSUME NEW d \in Nat \ {0}, NEW q \in Nat, NEW m \in 0..d - 1,
           NEW p \in Nat, NEW r \in 0..d - 1, d * q + m = d * p + r
    PROVE  p = q /\ r = m
<1>1. d * (p + 1) = d * p + d /\ d * (q + 1) = d * q + d /\ d * p \in Nat /\ d * q \in Nat
  OBVIOUS
<1>2. ~(p + 1 <= q)
  BY <1>1, TimesMonotonic
<1>3. ~(q + 1 <= p)
  BY <1>1, TimesMonotonic
<1>4. p = q
  BY <1>2, <1>3
<1>5. r = m
  BY <1>1, <1>4
<1> QED BY <1>4, <1>5

LEMMA DivIs ==
    ASSUME NEW d \in Nat \ {0}, NEW q \in Nat, NEW m \in 0..d - 1, NEW n, n = d * q + m
    PROVE  n \div d = q /\ n % d = m
<1>1. n \in Nat
  OBVIOUS
<1> DEFINE p == n \div d
           r == n % d
<1>2. p \in Nat /\ r \in 0..d - 1 /\ n = d * p + r
  BY <1>1, DivMod
<1> HIDE DEF p, r
<1>3. p = q /\ r = m
  BY <1>2, DivUnique
<1> QED BY <1>3 DEF p, r

LEMMA DivMonotonic ==
    ASSUME NEW a \in Nat, NEW b \in Nat, NEW d \in Nat \ {0}, a <= b
    PROVE  a \div d <= b \div d
<1> DEFINE p == a \div d
           q == b \div d
           m == a % d
           r == b % d
<1>1. /\ p \in Nat /\ m \in 0..d - 1 /\ a = d * p + m
      /\ q \in Nat /\ r \in 0..d - 1 /\ b = d * q + r
  BY DivMod
<1> HIDE DEF p, q, m, r
<1>2. d * (q + 1) = d * q + d /\ d * q \in Nat
  BY <1>1
<1>3. ~(q + 1 <= p)
  BY <1>1, <1>2, TimesMonotonic
<1>4. p <= q
  BY <1>1, <1>3
<1> QED BY <1>4 DEF p, q

\* The cluster of the sector before.
LEMMA DivBefore ==
    ASSUME NEW n \in Nat \ {0}, NEW d \in Nat \ {0}
    PROVE  /\ n % d = 0 => n \div d > 0 /\ (n - 1) \div d = (n \div d) - 1
           /\ n % d # 0 => (n - 1) \div d = n \div d
<1> DEFINE q == n \div d
           m == n % d
<1>1. q \in Nat /\ m \in 0..d - 1 /\ n = d * q + m
  BY DivMod
<1> HIDE DEF q, m
<1>2. ASSUME m = 0 PROVE q > 0 /\ (n - 1) \div d = q - 1
  <2>1. q # 0
    BY <1>1, <1>2
  <2>2. d * (q - 1) = d * q - d
    BY <1>1, <2>1
  <2>3. n - 1 = d * (q - 1) + (d - 1)
    BY <1>1, <1>2, <2>2
  <2> DEFINE k == q - 1
             r == d - 1
  <2>4. k \in Nat /\ r \in 0..d - 1 /\ n - 1 = d * k + r
    BY <1>1, <2>1, <2>3
  <2> HIDE DEF k, r
  <2>5. (n - 1) \div d = k
    BY <2>4, DivIs
  <2> QED BY <1>1, <2>1, <2>5 DEF k
<1>3. ASSUME m # 0 PROVE (n - 1) \div d = q
  <2>1. n - 1 = d * q + (m - 1) /\ m - 1 \in 0..d - 1
    BY <1>1, <1>3
  <2> QED BY <1>1, <2>1, DivIs
<1> QED BY <1>1, <1>2, <1>3 DEF q, m

LEMMA Position ==
    ASSUME FilType
    PROVE  /\ Nr \in Nat /\ Off \in 0..SectorSize - 1 /\ fil.fptr = SectorSize * Nr + Off
           /\ fil.fptr > 0 /\ Off = 0 => Nr > 0
           /\ fil.fptr = 0 => Nr = 0 /\ Off = 0
           /\ \A pos \in 0..fil.fptr - 1 :
                 /\ pos \div SectorSize \in 0..Nr
                 /\ Off = 0 => pos \div SectorSize <= Nr - 1
                 /\ pos % SectorSize \in 0..SectorSize - 1
                 /\ pos = SectorSize * (pos \div SectorSize) + (pos % SectorSize)
<1>1. fil.fptr \in Nat /\ SectorSize \in Nat \ {0}
  BY Numbers DEF FilType
<1>2. Nr \in Nat /\ Off \in 0..SectorSize - 1 /\ fil.fptr = SectorSize * Nr + Off
  BY <1>1, DivMod DEF Nr, Off
<1>3. fil.fptr > 0 /\ Off = 0 => Nr > 0
  BY <1>1, <1>2
<1>4. fil.fptr = 0 => Nr = 0 /\ Off = 0
  <2>1. SectorSize * 0 + 0 = 0
    BY <1>1
  <2> QED BY <1>1, <1>2, <2>1, DivIs DEF Nr, Off
<1>5. ASSUME NEW pos \in 0..fil.fptr - 1
      PROVE  /\ pos \div SectorSize \in 0..Nr
             /\ Off = 0 => pos \div SectorSize <= Nr - 1
             /\ pos % SectorSize \in 0..SectorSize - 1
             /\ pos = SectorSize * (pos \div SectorSize) + (pos % SectorSize)
  <2> DEFINE q == pos \div SectorSize
             m == pos % SectorSize
  <2>1. pos \in Nat /\ pos < fil.fptr
    BY <1>1
  <2>2. q \in Nat /\ m \in 0..SectorSize - 1 /\ pos = SectorSize * q + m
    BY <1>1, <2>1, DivMod
  <2>3. q <= Nr
    BY <1>1, <2>1, DivMonotonic DEF Nr
  <2> HIDE DEF q, m
  <2>4. Off = 0 => q # Nr
    BY <1>1, <1>2, <2>1, <2>2
  <2>5. q \in 0..Nr /\ (Off = 0 => q <= Nr - 1)
    BY <1>2, <2>2, <2>3, <2>4
  <2> QED BY <2>2, <2>5 DEF q, m
<1> QED BY <1>2, <1>3, <1>4, <1>5

\* What the path of the file is, for its sectors to be told apart.
LEMMA Spots ==
    ASSUME FlagType, NEW len \in Nat, NEW p \in [0..len - 1 -> Cluster], PathOk(p, len),
           NEW n \in Nat, Within(n, len)
    PROVE  /\ n \div geo.csize \in 0..len - 1 /\ p[n \div geo.csize] \in Cluster
           /\ Spot(p, n) \in Here /\ ~NoData(Spot(p, n))
           /\ Spot(p, n) \notin {NoSec, DirSec, InfoSec}
           /\ \A c \in geo.others, off \in 0..geo.csize - 1 : DataSec(c, off, geo.csize) # Spot(p, n)
           /\ \A m \in Nat : Within(m, len) /\ Spot(p, m) = Spot(p, n) => m = n
<1> DEFINE cs == geo.csize
<1>1. cs \in Nat \ {0}
  BY HereHas
<1>2. ASSUME NEW m \in Nat, Within(m, len)
      PROVE  /\ m \div cs \in 0..len - 1 /\ m % cs \in 0..cs - 1
             /\ m = cs * (m \div cs) + (m % cs)
             /\ p[m \div cs] \in Cluster
             /\ Spot(p, m) = <<"data", p[m \div cs] * cs + (m % cs)>>
  <2>1. m \div cs \in Nat /\ m % cs \in 0..cs - 1 /\ m = cs * (m \div cs) + (m % cs)
    BY <1>1, DivMod
  <2>2. m \div cs \in 0..len - 1
    BY <1>2, <2>1 DEF Within
  <2> QED BY <2>1, <2>2 DEF Spot, DataSec
<1>3. /\ n \div cs \in 0..len - 1 /\ n % cs \in 0..cs - 1 /\ p[n \div cs] \in Cluster
      /\ Spot(p, n) = <<"data", p[n \div cs] * cs + (n % cs)>>
  BY <1>2
<1>4. Spot(p, n) \in Here
  BY <1>3, HereHas DEF Spot
<1>5. ~NoData(Spot(p, n)) /\ Spot(p, n) \notin {NoSec, DirSec, InfoSec}
  BY <1>3 DEF NoData, NoSec, DirSec, InfoSec
<1>6. ASSUME NEW a \in Cluster, NEW b \in Cluster, NEW i \in 0..cs - 1, NEW j \in 0..cs - 1,
             a * cs + i = b * cs + j
      PROVE  a = b /\ i = j
  <2>1. a \in Nat /\ b \in Nat
    BY Numbers
  <2>2. cs * a + i = cs * b + j
    BY <1>1, <1>6, <2>1
  <2> QED BY <1>1, <2>1, <2>2, DivUnique
<1>7. ASSUME NEW c \in geo.others, NEW off \in 0..cs - 1
      PROVE  DataSec(c, off, cs) # Spot(p, n)
  <2>1. c \in Cluster
    BY DEF FlagType, Volume
  <2>2. c # p[n \div cs]
    BY <1>3 DEF PathOk
  <2>3. c * cs + off # p[n \div cs] * cs + (n % cs)
    BY <1>3, <1>6, <2>1, <2>2
  <2> QED BY <1>3, <2>3 DEF DataSec
<1>8. ASSUME NEW m \in Nat, Within(m, len), Spot(p, m) = Spot(p, n)
      PROVE  m = n
  <2>1. /\ m \div cs \in 0..len - 1 /\ m % cs \in 0..cs - 1 /\ p[m \div cs] \in Cluster
        /\ Spot(p, m) = <<"data", p[m \div cs] * cs + (m % cs)>>
    BY <1>2, <1>8
  <2>2. p[m \div cs] * cs + (m % cs) = p[n \div cs] * cs + (n % cs)
    BY <1>3, <1>8, <2>1
  <2>3. p[m \div cs] = p[n \div cs] /\ m % cs = n % cs
    BY <1>3, <1>6, <2>1, <2>2
  <2>4. m \div cs = n \div cs
    BY <1>3, <2>1, <2>3 DEF PathOk
  <2>5. m = cs * (m \div cs) + (m % cs) /\ n = cs * (n \div cs) + (n % cs)
    BY <1>2, <1>8
  <2> QED BY <2>3, <2>4, <2>5
<1> QED BY <1>3, <1>4, <1>5, <1>7, <1>8


-----------------------------------------------------------------------------
(***************************************************************************)
(* What a call of the disk does, as long as none has been torn apart.      *)
(***************************************************************************)
WritesWindow ==
    /\ UNCHANGED <<win, fil, buf, geo>>
    /\ fs'.mounted = fs.mounted /\ fs'.winsect = fs.winsect
    /\ over = fs.winsect /\ over' = fs.winsect
    /\ fs'.wflag => fs.wflag
    /\ \A s \in Here \ {fs.winsect} : card'[s] = card[s]
    /\ card'[fs.winsect] \in {card[fs.winsect], win}
    /\ fs'.wflag \/ card'[fs.winsect] = win

ReadsWindow(target) ==
    /\ UNCHANGED <<card, fil, buf, geo>>
    /\ fs'.mounted = fs.mounted /\ fs'.wflag = fs.wflag
    /\ \/ over' = target /\ win' = card[target]
       \/ over' = NoSec

WritesBuffer ==
    /\ UNCHANGED <<fs, win, buf, geo>>
    /\ fil.dirty
    /\ \E d \in BOOLEAN : fil' = [fil EXCEPT !.dirty = d]
    /\ \A s \in Here \ {fil.dsect} : card'[s] = card[s]
    /\ card'[fil.dsect] \in {card[fil.dsect], buf}
    /\ fil'.dirty \/ card'[fil.dsect] = buf

LEMMA WindowWrite ==
    ASSUME Inv, Sound, geo' = geo, UNCHANGED <<win, fil, buf>>, NEW ok \in BOOLEAN,
           over = fs.winsect, over' = fs'.winsect,
           disk_write(fs.winsect, win, ok), fs.wflag,
           fs' = [fs EXCEPT !.wflag = ~ok]
    PROVE  WritesWindow
<1>1. /\ \A t \in Here \ {fs.winsect} : card'[t] = card[t]
      /\ card'[fs.winsect] \in {card[fs.winsect], win}
      /\ ok => card'[fs.winsect] = win
  BY Written DEF Inv, Types, FsType, Sound
<1>2. fs'.mounted = fs.mounted /\ fs'.winsect = fs.winsect /\ fs'.wflag = ~ok
  BY DEF Inv, Types, FsType
<1> QED BY <1>1, <1>2 DEF WritesWindow

LEMMA BufferWrite ==
    ASSUME Inv, Sound, geo' = geo, UNCHANGED <<fs, win, buf>>, NEW ok \in BOOLEAN,
           disk_write(fil.dsect, buf, ok), fil.dirty,
           fil' = [fil EXCEPT !.dirty = ~ok]
    PROVE  WritesBuffer
<1>1. /\ \A t \in Here \ {fil.dsect} : card'[t] = card[t]
      /\ card'[fil.dsect] \in {card[fil.dsect], buf}
      /\ ok => card'[fil.dsect] = buf
  BY Written DEF Inv, Types, FilType, Sound
<1>2. fil'.dirty = ~ok
  BY DEF Inv, Types, FilType
<1> QED BY <1>1, <1>2 DEF WritesBuffer

LEMMA SyncWindowWrites ==
    ASSUME Inv, Sound, OverInv, SyncWindow, geo' = geo
    PROVE  /\ WritesWindow /\ pc = "mw_write" /\ isr = "off"
           /\ pc' \in {"mw_clear", "loop", "abort"}
           /\ pc' = "mw_clear" => card'[fs.winsect] = win
           /\ pc' = "loop" => loc.ret \in Starting
           /\ UNCHANGED <<fs, loc, isr, opened>>
<1>1. PICK ok \in BOOLEAN : /\ disk_write(loc.wsect, win, ok)
                           /\ IF ok THEN Goto("mw_clear") ELSE Failed
  BY DEF SyncWindow
<1>2. /\ UNCHANGED <<fs, win, fil, buf, loc, isr, opened>> /\ pc = "mw_write" /\ isr = "off"
  BY DEF SyncWindow, At, volume, file, button, history
<1>3. loc.wsect = fs.winsect /\ fs.wflag
  BY <1>2 DEF OverInv
<1>4. /\ pc' \in {"mw_clear", "loop", "abort"} /\ (pc' = "mw_clear" => ok)
      /\ pc' = "loop" => loc.ret \in Starting
  BY <1>1 DEF Goto, Failed
<1>5. /\ \A t \in Here \ {fs.winsect} : card'[t] = card[t]
      /\ card'[fs.winsect] \in {card[fs.winsect], win}
      /\ ok => card'[fs.winsect] = win
  BY <1>1, <1>3, Written DEF Inv, Types, FsType, Sound
<1>6. over = fs.winsect /\ over' = fs.winsect
  BY <1>2, <1>4 DEF over
<1>7. UNCHANGED geo /\ fs.wflag
  BY <1>3
<1>8. WritesWindow
  BY <1>2, <1>5, <1>6, <1>7 DEF WritesWindow
<1> QED BY <1>2, <1>4, <1>5, <1>8

\* The window is on the card already.
LEMMA ClearFlagWrites ==
    ASSUME Inv, Sound, OverInv, ClearFlag, geo' = geo
    PROVE  /\ WritesWindow /\ pc = "mw_clear" /\ isr = "off" /\ pc' = "mw_read"
           /\ ~fs'.wflag /\ UNCHANGED <<card, loc, isr, opened>>
<1>1. /\ pc = "mw_clear" /\ isr = "off" /\ pc' = "mw_read"
      /\ UNCHANGED <<card, win, fil, buf, loc, isr, opened>>
  BY DEF ClearFlag, At, Goto, file, button, history
<1>2. fs'.mounted = fs.mounted /\ fs'.winsect = fs.winsect /\ ~fs'.wflag
  BY DEF ClearFlag, Inv, Types, FsType
<1>3. win = card[fs.winsect]
  BY <1>1 DEF OverInv
<1>4. over = fs.winsect /\ over' = fs.winsect
  BY <1>1, <1>2 DEF over
<1> QED BY <1>1, <1>2, <1>3, <1>4 DEF WritesWindow

LEMMA ReadWindowReads ==
    ASSUME Inv, Sound, ReadWindow, geo' = geo
    PROVE  /\ ReadsWindow(loc.target) /\ pc = "mw_read" /\ isr = "off" /\ pc' = "mw_set"
           /\ UNCHANGED <<fs, isr, opened>> /\ loc'.target \in {loc.target, NoSec}
           /\ loc'.ret = loc.ret /\ loc'.clst = loc.clst /\ loc'.ncl = loc.ncl
<1>1. PICK ok \in BOOLEAN : /\ disk_read(loc.target, ok)
                           /\ loc' = [loc EXCEPT !.target = IF ok THEN loc.target ELSE NoSec]
  BY DEF ReadWindow
<1>2. /\ UNCHANGED <<card, fs, fil, buf, isr, opened>> /\ pc = "mw_read" /\ isr = "off"
      /\ pc' = "mw_set"
  BY <1>1 DEF ReadWindow, At, Goto, file, button, history, disk_read
<1>3. /\ loc'.target = IF ok THEN loc.target ELSE NoSec
      /\ loc'.ret = loc.ret /\ loc'.clst = loc.clst /\ loc'.ncl = loc.ncl
  BY <1>1 DEF Inv, Types, LocType
<1>4. ok => win' = card[loc.target]
  BY <1>1 DEF disk_read, Sound
<1>5. over' = loc'.target
  BY <1>2 DEF over, Moved
<1>6. ReadsWindow(loc.target)
  BY <1>2, <1>3, <1>4, <1>5 DEF ReadsWindow
<1> QED BY <1>2, <1>3, <1>6

\* Now winsect says what is in the window.
LEMMA SetSectorKeeps ==
    ASSUME Inv, SetSector, geo' = geo
    PROVE  /\ pc = "mw_set" /\ isr = "off" /\ UNCHANGED <<card, win, fil, buf, loc, isr, opened>>
           /\ fs'.mounted = fs.mounted /\ fs'.wflag = fs.wflag /\ fs'.winsect = loc.target
           /\ over' = over /\ over = loc.target
           /\ pc' \in {loc.ret, "loop", "abort"} /\ (pc' = loc.ret => loc.target # NoSec)
           /\ pc' = "loop" => loc.ret \in Starting
<1>1. /\ pc = "mw_set" /\ isr = "off" /\ UNCHANGED <<card, win, fil, buf, loc, isr, opened>>
  BY DEF SetSector, At, file, button, history
<1>2. fs'.mounted = fs.mounted /\ fs'.wflag = fs.wflag /\ fs'.winsect = loc.target
  BY DEF SetSector, Inv, Types, FsType
<1>3. loc.ret \in Returns
  BY <1>1 DEF Inv, Types, PlaceType, Moving
<1>4. /\ pc' \in {loc.ret, "loop", "abort"} /\ (pc' = loc.ret => loc.target # NoSec)
      /\ pc' = "loop" => loc.ret \in Starting
  BY <1>3 DEF SetSector, Goto, Failed, Returns
<1>5. over = loc.target /\ over' = fs'.winsect
  BY <1>1, <1>3, <1>4 DEF over, Moved, Returns
<1> QED BY <1>1, <1>2, <1>4, <1>5

LEMMA FlushWrites ==
    ASSUME Inv, Sound, Flush, geo' = geo
    PROVE  /\ pc = "flush" /\ isr = "off" /\ pc' \in {"sector", "abort"}
           /\ UNCHANGED <<fs, win, buf, loc, isr, opened>>
           /\ WritesBuffer \/ (UNCHANGED <<card, fil>> /\ ~fil.dirty)
           /\ pc' = "sector" => ~fil'.dirty
<1>1. /\ pc = "flush" /\ isr = "off" /\ pc' \in {"sector", "abort"}
      /\ UNCHANGED <<fs, win, buf, loc, isr, opened>>
  BY DEF Flush, At, Goto, volume, button, history
<1>2. CASE fil.dirty
  <2>1. PICK ok \in BOOLEAN : /\ disk_write(fil.dsect, buf, ok)
                              /\ fil' = [fil EXCEPT !.dirty = ~ok]
                              /\ Goto(IF ok THEN "sector" ELSE "abort")
    BY <1>2 DEF Flush
  <2>2. WritesBuffer
    BY <1>1, <1>2, <2>1, BufferWrite
  <2>3. pc' = "sector" => ~fil'.dirty
    BY <2>1 DEF Goto, Inv, Types, FilType
  <2> QED BY <1>1, <2>2, <2>3
<1>3. CASE ~fil.dirty
  BY <1>1, <1>3 DEF Flush
<1> QED BY <1>2, <1>3

LEMMA SyncDataWrites ==
    ASSUME Inv, Sound, SyncData, geo' = geo
    PROVE  /\ isr = "data" /\ isr' \in {"window", "unmount"}
           /\ UNCHANGED <<fs, win, buf, loc, pc, opened>>
           /\ WritesBuffer \/ (UNCHANGED <<card, fil>> /\ ~fil.dirty)
           /\ isr' = "window" => ~fil'.dirty
<1>1. /\ isr = "data" /\ isr' \in {"window", "unmount"}
      /\ UNCHANGED <<fs, win, buf, loc, pc, opened>>
  BY DEF SyncData, In, Then, volume, history
<1>2. CASE fil.dirty
  <2>1. PICK ok \in BOOLEAN : /\ disk_write(fil.dsect, buf, ok)
                              /\ fil' = [fil EXCEPT !.dirty = ~ok]
                              /\ Then(IF ok THEN "window" ELSE "unmount")
    BY <1>2 DEF SyncData
  <2>2. WritesBuffer
    BY <1>1, <1>2, <2>1, BufferWrite
  <2>3. isr' = "window" => ~fil'.dirty
    BY <2>1 DEF Then, Inv, Types, FilType
  <2> QED BY <1>1, <2>2, <2>3
<1>3. CASE ~fil.dirty
  BY <1>1, <1>3 DEF SyncData
<1> QED BY <1>2, <1>3

LEMMA SyncMoveWindowWrites ==
    ASSUME Inv, StopInv, WindowInv, OverInv, Sound, SyncMoveWindow, geo' = geo
    PROVE  /\ isr = "window" /\ UNCHANGED <<win, fil, buf, loc, pc, opened>>
           /\ \/ isr' = "entry" /\ fs.winsect = DirSec /\ UNCHANGED <<card, fs>>
              \/ isr' = "read" /\ ~fs.wflag /\ UNCHANGED <<card, fs>>
              \/ isr' \in {"read", "unmount"} /\ WritesWindow /\ fs.winsect # DirSec
                 /\ (isr' = "read" => ~fs'.wflag)
<1>1. isr = "window" /\ UNCHANGED <<win, fil, buf, loc, pc, opened>>
  BY DEF SyncMoveWindow, In, file, history
<1>2. CASE fs.winsect = DirSec \/ ~fs.wflag
  BY <1>1, <1>2 DEF SyncMoveWindow, Then
<1>3. CASE fs.winsect # DirSec /\ fs.wflag
  <2>1. PICK ok \in BOOLEAN : /\ disk_write(fs.winsect, win, ok)
                              /\ fs' = [fs EXCEPT !.wflag = ~ok]
                              /\ Then(IF ok THEN "read" ELSE "unmount")
    BY <1>3 DEF SyncMoveWindow
  <2>2. pc # "mw_set"
    <3>1. validate
      BY <1>1 DEF WindowInv, Syncing
    <3>2. opened
      BY <1>1 DEF Inv, StartInv
    <3>3. pc = "mw_set" => Before
      BY <1>1, <3>1, <3>2 DEF Before, StopInv, validate, goal, Moving, Starting, Inv, Types,
        PlaceType, Returns, StartInv
    <3> QED BY <1>1, <1>3, <3>3 DEF OverInv
  <2>3. fs'.winsect = fs.winsect
    BY <2>1 DEF Inv, Types, FsType
  <2>4. over = fs.winsect /\ over' = fs'.winsect
    BY <1>1, <2>2 DEF over
  <2>5. WritesWindow
    BY <1>1, <1>3, <2>1, <2>4, WindowWrite
  <2>6. isr' \in {"read", "unmount"} /\ (isr' = "read" => ~fs'.wflag)
    BY <2>1 DEF Then, Inv, Types, FsType
  <2> QED BY <1>1, <1>3, <2>5, <2>6
<1> QED BY <1>2, <1>3

LEMMA SyncReadWindowReads ==
    ASSUME Inv, Sound, SyncReadWindow, geo' = geo
    PROVE  /\ isr = "read" /\ isr' \in {"entry", "unmount"} /\ ReadsWindow(DirSec)
           /\ UNCHANGED <<loc, pc, opened>>
<1>1. isr = "read" /\ UNCHANGED <<fil, buf, loc, pc, opened>>
  BY DEF SyncReadWindow, In, file, history
<1>2. PICK ok \in BOOLEAN : /\ disk_read(DirSec, ok)
                            /\ fs' = [fs EXCEPT !.winsect = IF ok THEN DirSec ELSE NoSec]
                            /\ Then(IF ok THEN "entry" ELSE "unmount")
  BY DEF SyncReadWindow
<1>3. /\ fs'.mounted = fs.mounted /\ fs'.wflag = fs.wflag
      /\ fs'.winsect = IF ok THEN DirSec ELSE NoSec
  BY <1>2 DEF Inv, Types, FsType
<1>4. card' = card /\ (ok => win' = card[DirSec])
  BY <1>2 DEF disk_read, Sound
<1>5. isr' \in {"entry", "unmount"}
  BY <1>2 DEF Then
<1>6. over' = fs'.winsect
  <2>1. opened /\ opened'
    BY <1>1 DEF Inv, StartInv
  <2> QED BY <1>5, <2>1 DEF over, Moved
<1>7. ReadsWindow(DirSec)
  BY <1>1, <1>3, <1>4, <1>6 DEF ReadsWindow
<1> QED BY <1>1, <1>5, <1>7

\* CTRL_SYNC: the entry that has been put together in the window.
LEMMA SyncFsWrites ==
    ASSUME Inv, Sound, SyncFs, geo' = geo
    PROVE  /\ isr = "sync" /\ isr' \in {"fsinfo", "unmount"}
           /\ UNCHANGED <<win, fil, buf, loc, pc, opened, geo>>
           /\ fs'.mounted = fs.mounted /\ fs'.winsect = fs.winsect
           /\ \A s \in Here \ {fs.winsect} : card'[s] = card[s]
           /\ card'[fs.winsect] \in {card[fs.winsect], win}
           /\ fs'.wflag \/ card'[fs.winsect] = win
<1>1. PICK ok \in BOOLEAN : /\ disk_write(fs.winsect, win, ok)
                            /\ fs' = [fs EXCEPT !.wflag = ~ok]
                            /\ Then(IF ok THEN "fsinfo" ELSE "unmount")
  BY DEF SyncFs
<1>2. isr = "sync" /\ UNCHANGED <<win, fil, buf, loc, pc, opened>>
  BY DEF SyncFs, In, file, history
<1>3. /\ \A t \in Here \ {fs.winsect} : card'[t] = card[t]
      /\ card'[fs.winsect] \in {card[fs.winsect], win}
      /\ ok => card'[fs.winsect] = win
  BY <1>1, Written DEF Inv, Types, FsType, Sound
<1>4. fs'.mounted = fs.mounted /\ fs'.winsect = fs.winsect /\ fs'.wflag = ~ok
  BY <1>1 DEF Inv, Types, FsType
<1> QED BY <1>1, <1>2, <1>3, <1>4 DEF Then

LEMMA SyncFsInfoWrites ==
    ASSUME Inv, SyncFsInfo, geo' = geo
    PROVE  /\ isr = "fsinfo" /\ isr' \in {"close", "unmount"}
           /\ UNCHANGED <<fil, buf, loc, pc, opened, geo>>
           /\ fs'.mounted = fs.mounted /\ fs'.wflag = fs.wflag
           /\ \A s \in Here \ {InfoSec} : card'[s] = card[s]
           /\ \/ fs'.winsect = fs.winsect /\ win' = win /\ card' = card
              \/ fs'.winsect = InfoSec
<1>1. /\ isr = "fsinfo" /\ isr' \in {"close", "unmount"}
      /\ UNCHANGED <<fil, buf, loc, pc, opened>>
  BY DEF SyncFsInfo, In, file, history
<1>2. CASE geo.fat32 /\ fs.fsi
  <2>1. PICK ok \in BOOLEAN : disk_write(InfoSec, Info, ok)
    BY <1>2 DEF SyncFsInfo
  <2>2. \A t \in Here \ {InfoSec} : card'[t] = card[t]
    BY <2>1, HereHas, Written DEF Inv, Types
  <2>3. fs' = [fs EXCEPT !.winsect = InfoSec, !.fsi = FALSE]
    BY <1>2 DEF SyncFsInfo
  <2>4. fs'.mounted = fs.mounted /\ fs'.wflag = fs.wflag /\ fs'.winsect = InfoSec
    BY <2>3 DEF Inv, Types, FsType
  <2> QED BY <1>1, <2>2, <2>4
<1>3. CASE ~(geo.fat32 /\ fs.fsi)
  BY <1>1, <1>3 DEF SyncFsInfo
<1> QED BY <1>2, <1>3


LEMMA NoDatas == /\ \A c : NoData(FatSec(c))
                 /\ NoData(DirSec) /\ NoData(InfoSec) /\ NoData(NoSec)
BY DEF NoData, FatSec, DirSec, InfoSec, NoSec

LEMMA HeadingStep ==
    ASSUME Inv, NoData(fs.winsect), Heading, [Next]_vars, geo' = geo
    PROVE  Heading'
<1> USE NoDatas DEF Heading, Inv, Types, LocType, At, Goto, In, Then, Moving
<1> DEFINE Stays == /\ loc'.target = loc.target /\ loc'.wsect = loc.wsect
                    /\ pc' \notin Moving
           Same == UNCHANGED <<pc, loc>>
<1>0. (Stays \/ Same) => Heading'
  OBVIOUS
<1>1. CASE RemoveGet \/ CreateGet
  <2>1. ASSUME NEW place, NEW ret \in {"rm_put", "c_got"}, NEW u \in {"loop", "abort"}, Get(place, ret, u)
        PROVE  Heading'
    <3>1. CASE fs.mounted
      <4>1. Move(FatSec(loc.clst), ret)
        BY <2>1, <3>1 DEF Get
      <4>2. pc' = "mw" /\ loc'.target = FatSec(loc.clst) /\ loc'.ret = ret /\ loc'.clst = loc.clst
               /\ loc'.wsect = loc.wsect
        BY <4>1, MoveTarget
      <4> QED BY <4>2
    <3>2. CASE ~fs.mounted
      BY <2>1, <3>2 DEF Get
    <3> QED BY <3>1, <3>2
  <2> QED BY <1>1, <2>1 DEF RemoveGet, CreateGet
<1>2. CASE RemoveBack
  <2>1. Move(DirSec, "opened")
    BY <1>2 DEF RemoveBack
  <2>2. pc' = "mw" /\ loc'.target = DirSec /\ loc'.ret = "opened" /\ loc'.wsect = loc.wsect
    BY <2>1, MoveTarget
  <2> QED BY <2>2
<1>3. CASE CreateNext
  <2>1. CASE pc' = "mw"
    <3> DEFINE c == IF loc.ncl + 1 >= NFat THEN 2 ELSE loc.ncl + 1
    <3>1. loc' = [loc EXCEPT !.ncl = c, !.target = FatSec(c), !.ret = "c_try"]
      BY <1>3, <2>1 DEF CreateNext
    <3> HIDE DEF c
    <3> QED BY <2>1, <3>1
  <2>2. CASE pc' # "mw"
    BY <1>3, <2>2 DEF CreateNext
  <2> QED BY <2>1, <2>2
<1>4. CASE CreateMark \/ CreateLink
  <2>1. ASSUME NEW place, NEW c, NEW ret, Put(place, c, ret), fs.mounted
        PROVE  /\ pc' = "mw" /\ loc'.target = FatSec(c) /\ loc'.ret = ret /\ loc'.clst = loc.clst
               /\ loc'.ncl = loc.ncl /\ loc'.wsect = loc.wsect
    <3>1. Move(FatSec(c), ret)
      BY <2>1 DEF Put
    <3> QED BY <3>1, MoveTarget
  <2>2. CASE ~fs.mounted
    BY <1>4, <2>2 DEF CreateMark, CreateLink, Put
  <2>3. CASE fs.mounted /\ CreateMark
    <3>1. Put("c_mark", loc.ncl, "c_marked")
      BY <2>3 DEF CreateMark
    <3>2. /\ pc' = "mw" /\ loc'.target = FatSec(loc.ncl) /\ loc'.ret = "c_marked"
          /\ loc'.ncl = loc.ncl /\ loc'.wsect = loc.wsect
      BY <2>1, <2>3, <3>1
    <3> QED BY <3>2
  <2>4. CASE fs.mounted /\ CreateLink
    <3>1. Put("c_link", loc.clst, "c_linked")
      BY <2>4 DEF CreateLink
    <3>2. /\ pc' = "mw" /\ loc'.target = FatSec(loc.clst) /\ loc'.ret = "c_linked"
          /\ loc'.clst = loc.clst /\ loc'.wsect = loc.wsect
      BY <2>1, <2>4, <3>1
    <3> QED BY <3>2
  <2> QED BY <1>4, <2>2, <2>3, <2>4
<1>5. CASE MoveWindow
  <2>1. /\ pc = "mw" /\ loc.ret \in Returns /\ loc'.ret = loc.ret /\ loc'.target = loc.target
        /\ loc'.clst = loc.clst /\ loc'.ncl = loc.ncl
        /\ loc'.wsect = IF fs.wflag THEN fs.winsect ELSE NoSec
    BY <1>5 DEF MoveWindow, PlaceType
  <2> QED BY <2>1
<1>6. CASE SyncWindow \/ ClearFlag \/ SetSector
  BY <1>6 DEF SyncWindow, ClearFlag, SetSector, Failed, PlaceType
<1>16. CASE ReadWindow
  <2>1. /\ pc = "mw_read" /\ pc' = "mw_set" /\ loc'.target \in {loc.target, NoSec}
        /\ loc'.ret = loc.ret /\ loc'.clst = loc.clst /\ loc'.ncl = loc.ncl /\ loc'.wsect = loc.wsect
    BY <1>16 DEF ReadWindow
  <2> QED BY <2>1
<1>17. CASE f_mount \/ f_open
  <2>1. Stays
    BY <1>17 DEF f_mount, f_open
  <2> QED BY <1>0, <2>1
<1>7. CASE Opened \/ Done \/ Abort
  <2>1. loc' = NoLocals /\ pc' = "loop"
    BY <1>7 DEF Opened, Done, Abort
  <2>2. loc'.target = NoSec /\ loc'.wsect = NoSec
    BY <2>1 DEF NoLocals
  <2> QED BY <2>1, <2>2
<1>8. CASE MakeEntry
  <2>1. Stays
    BY <1>8 DEF MakeEntry
  <2> QED BY <1>0, <2>1
<1>9. CASE RemovePut
  <2>1. Stays
    BY <1>9 DEF RemovePut
  <2> QED BY <1>0, <2>1
<1>10. CASE f_puts
  <2>1. Stays
    BY <1>10 DEF f_puts
  <2> QED BY <1>0, <2>1
<1>11. CASE Boundary
  <2>1. Stays
    <3>1. pc' \in {"abort", "flush", "done", "c_next", "c_get"}
      BY <1>11 DEF Boundary
    <3> DEFINE scl == IF fs.last = 0 \/ fs.last >= NFat THEN 1 ELSE fs.last
    <3>2. \/ UNCHANGED loc
          \/ loc' = [loc EXCEPT !.clst = 0, !.scl = scl, !.ncl = scl]
          \/ loc' = [loc EXCEPT !.clst = fil.clust]
      BY <1>11 DEF Boundary
    <3> HIDE DEF scl
    <3> QED BY <3>1, <3>2
  <2> QED BY <1>0, <2>1
<1>12. CASE CreateGot
  <2>1. Stays
    BY <1>12 DEF CreateGot
  <2> QED BY <1>0, <2>1
<1>13. CASE Advance
  <2>1. Stays
    BY <1>13 DEF Advance
  <2> QED BY <1>0, <2>1
<1>14. CASE \/ Attach \/ FindVolume \/ VolumeStatus \/ InitVolume \/ TestSdmounted \/ Chunk
            \/ CreateTry \/ CreateMarked \/ CreateLinked \/ CreateEnd \/ Flush \/ NextSector
            \/ Copy \/ MarkDirty
  <2>1. Stays
    BY <1>14 DEF Attach, FindVolume, VolumeStatus, InitVolume, TestSdmounted, Chunk, PlaceType,
      Finding,
      CreateTry, CreateMarked, CreateLinked, CreateEnd, Flush, NextSector, Copy, MarkDirty
  <2> QED BY <1>0, <2>1
<1>15. CASE Press \/ Handler \/ UNCHANGED vars
  <2>1. Same
    BY <1>15 DEF Press, Handler, vars, Interrupt, SyncValidate, SyncData, SyncMoveWindow,
      SyncReadWindow, SyncEntry, SyncFs, SyncFsInfo, f_close, Unmount
  <2> QED BY <1>0, <2>1
<1> QED
    BY <1>1, <1>2, <1>3, <1>4, <1>5, <1>6, <1>7, <1>8, <1>9, <1>10, <1>11, <1>12, <1>13, <1>14,
      <1>15, <1>16, <1>17 DEF Next, Main


\* Nothing happens to the file object but to its flags.
FileKept == /\ fil'.fptr = fil.fptr /\ fil'.fsize = fil.fsize /\ fil'.sclust = fil.sclust
            /\ fil'.clust = fil.clust /\ fil'.dsect = fil.dsect /\ fil'.dirty = fil.dirty
            /\ (fil'.fs => fil.fs) /\ (fil.err => fil'.err)

\* The file stays where it is on the card.
PlaceKept == /\ fil'.dsect = fil.dsect /\ (fil'.fs => fil.fs)

LEMMA FileSteps ==
    ASSUME Inv, [Next]_vars
    PROVE  /\ \/ FileKept
              \/ Opened \/ Boundary \/ CreateGot \/ CreateEnd \/ Flush \/ NextSector
              \/ MarkDirty \/ Advance \/ Done \/ SyncData
           /\ PlaceKept \/ Opened \/ NextSector
           /\ fil'.fptr = fil.fptr \/ Opened \/ Advance
           /\ fil'.dirty = fil.dirty \/ Opened \/ Flush \/ MarkDirty \/ SyncData
<1> USE DEF FileKept, PlaceKept, Inv, Types, FilType
<1>1. CASE UNCHANGED fil
  BY <1>1
<1>2. CASE f_open \/ Abort \/ SyncEntry \/ f_close
  BY <1>2 DEF f_open, Abort, SyncEntry, f_close
<1> DEFINE Kept == /\ PlaceKept
                   /\ fil'.fptr = fil.fptr \/ Advance
                   /\ fil'.dirty = fil.dirty \/ Flush \/ MarkDirty \/ SyncData
<1>3. Boundary \/ CreateEnd \/ MarkDirty \/ Advance \/ Done => Kept
  BY DEF Boundary, CreateEnd, MarkDirty, Advance, Done
<1>4. CreateGot => Kept
  BY DEF CreateGot
<1>5. Flush => Kept
  BY DEF Flush
<1>6. SyncData => Kept
  BY DEF SyncData
<1>7. \/ UNCHANGED fil
      \/ f_open \/ Abort \/ SyncEntry \/ f_close \/ Boundary \/ CreateEnd \/ MarkDirty \/ Advance \/ Done
      \/ CreateGot \/ Flush \/ SyncData \/ Opened \/ NextSector
  BY DEF Next, Main, Handler, Press, vars, file, Get, Put,
      MoveWindow, SyncWindow, ClearFlag, ReadWindow, SetSector, Attach, f_mount, FindVolume,
      VolumeStatus, InitVolume, MakeEntry,
      RemoveGet, RemovePut, RemoveBack, TestSdmounted, f_puts, Chunk, CreateGet, CreateNext,
      CreateTry, CreateMark, CreateMarked, CreateLink, CreateLinked, Copy, Interrupt,
      SyncValidate, SyncMoveWindow, SyncReadWindow, SyncFs, SyncFsInfo, Unmount
<1>8. NextSector => fil'.fptr = fil.fptr /\ fil'.dirty = fil.dirty
  BY DEF NextSector
<1>9. \/ FileKept
      \/ Opened \/ Boundary \/ CreateGot \/ CreateEnd \/ Flush \/ NextSector
      \/ MarkDirty \/ Advance \/ Done \/ SyncData
  BY <1>1, <1>2, <1>7
<1>10. PlaceKept \/ Opened \/ NextSector
  BY <1>1, <1>2, <1>3, <1>4, <1>5, <1>6, <1>7
<1>11. fil'.fptr = fil.fptr \/ Opened \/ Advance
  BY <1>1, <1>2, <1>3, <1>4, <1>5, <1>6, <1>7, <1>8
<1>12. fil'.dirty = fil.dirty \/ Opened \/ Flush \/ MarkDirty \/ SyncData
  BY <1>1, <1>2, <1>3, <1>4, <1>5, <1>6, <1>7, <1>8
<1> QED BY <1>9, <1>10, <1>11, <1>12

LEMMA BufSteps == ASSUME [Next]_vars PROVE buf' = buf \/ Copy
BY DEF Next, Main, Handler, Press, vars, file, Get, Put,
      MoveWindow, SyncWindow, ClearFlag, ReadWindow, SetSector, Attach, f_mount, FindVolume,
      VolumeStatus, InitVolume, f_open, MakeEntry,
      RemoveGet, RemovePut, RemoveBack, Opened, TestSdmounted, f_puts, Chunk, Boundary, CreateGet,
      CreateGot, CreateNext, CreateTry, CreateMark, CreateMarked, CreateLink, CreateLinked,
      CreateEnd,
      Flush, NextSector, MarkDirty, Advance, Done, Abort, Interrupt, SyncValidate, SyncData,
      SyncMoveWindow, SyncReadWindow, SyncEntry, SyncFs, SyncFsInfo, f_close, Unmount

\* What main knows of the clusters of the file, and whether it has given it up.
LEMMA ClustSteps ==
    ASSUME Inv, [Next]_vars
    PROVE  /\ fil'.clust = fil.clust \/ Opened \/ Boundary \/ CreateGot \/ CreateEnd
           /\ fil'.sclust = fil.sclust \/ Opened \/ CreateEnd
           /\ fil'.err = fil.err \/ Opened \/ Abort
<1> USE DEF Inv, Types, FilType
<1>1. CASE UNCHANGED fil
  BY <1>1
<1> DEFINE Kept == /\ fil'.clust = fil.clust \/ Boundary \/ CreateGot \/ CreateEnd
                   /\ fil'.sclust = fil.sclust \/ CreateEnd
                   /\ fil'.err = fil.err \/ Abort
<1>2. f_open \/ Abort \/ SyncEntry \/ f_close => Kept
  BY DEF f_open, Abort, SyncEntry, f_close
<1>3. Boundary \/ CreateEnd \/ MarkDirty \/ Advance \/ Done => Kept
  BY DEF Boundary, CreateEnd, MarkDirty, Advance, Done
<1>4. CreateGot => Kept
  BY DEF CreateGot
<1>5. Flush => Kept
  BY DEF Flush
<1>6. SyncData => Kept
  BY DEF SyncData
<1>7. NextSector => Kept
  BY DEF NextSector
<1>8. \/ UNCHANGED fil
      \/ f_open \/ Abort \/ SyncEntry \/ f_close \/ Boundary \/ CreateEnd \/ MarkDirty \/ Advance \/ Done
      \/ CreateGot \/ Flush \/ SyncData \/ Opened \/ NextSector
  BY DEF Next, Main, Handler, Press, vars, file, Get, Put,
      MoveWindow, SyncWindow, ClearFlag, ReadWindow, SetSector, Attach, f_mount, FindVolume,
      VolumeStatus, InitVolume, MakeEntry,
      RemoveGet, RemovePut, RemoveBack, TestSdmounted, f_puts, Chunk, CreateGet, CreateNext,
      CreateTry, CreateMark, CreateMarked, CreateLink, CreateLinked, Copy, Interrupt,
      SyncValidate, SyncMoveWindow, SyncReadWindow, SyncFs, SyncFsInfo, Unmount
<1>9. Kept \/ Opened
  BY <1>1, <1>2, <1>3, <1>4, <1>5, <1>6, <1>7, <1>8
<1> QED BY <1>9

\* Nothing happens to the window of the volume, nor to the card.
VolumeKept == /\ UNCHANGED <<card, win>>
              /\ fs'.winsect = fs.winsect /\ fs'.wflag = fs.wflag
              /\ (fs'.mounted => fs.mounted)

LEMMA VolumeSteps ==
    ASSUME Inv, [Next]_vars
    PROVE  \/ VolumeKept
           \/ SyncWindow \/ ClearFlag \/ ReadWindow \/ SetSector \/ InitVolume \/ MakeEntry \/ RemovePut
           \/ CreateMarked \/ CreateLinked \/ Flush
           \/ SyncData \/ SyncMoveWindow \/ SyncReadWindow \/ SyncEntry \/ SyncFs \/ SyncFsInfo
<1> USE DEF VolumeKept, Inv, Types, FsType
<1>1. CASE UNCHANGED <<card, volume>>
  BY <1>1 DEF volume
<1>2. CASE f_mount \/ RemoveBack \/ CreateEnd \/ Unmount
  BY <1>2 DEF f_mount, RemoveBack, CreateEnd, Unmount
<1> QED BY <1>1, <1>2 DEF Next, Main, Handler, Press, vars, Get, Put, MoveWindow, Attach,
      FindVolume, VolumeStatus, f_open, RemoveGet, Opened, TestSdmounted, f_puts, Chunk,
      Boundary, CreateGet,
      CreateGot, CreateNext, CreateTry, CreateMark, CreateLink, NextSector, Copy, MarkDirty,
      Advance, Done, Abort, Interrupt, SyncValidate, f_close

LEMMA SoundStays == ASSUME [Next]_vars, Sound' PROVE Sound
<1>1. CASE Interrupt
  BY <1>1 DEF Interrupt, Sound
<1>2. CASE UNCHANGED <<torn, hit>>
  BY <1>2 DEF Sound
<1> QED BY <1>1, <1>2 DEF Next, Main, Handler, Press, vars, button, At, In, Get, Put,
       MoveWindow, SyncWindow, ClearFlag, ReadWindow, SetSector, Attach, f_mount, FindVolume,
       VolumeStatus, InitVolume,
       f_open, MakeEntry, RemoveGet, RemovePut, RemoveBack, Opened, TestSdmounted, f_puts,
       Chunk, Boundary, CreateGet, CreateGot, CreateNext, CreateTry, CreateMark,
       CreateMarked, CreateLink, CreateLinked, CreateEnd, Flush, NextSector, Copy,
       MarkDirty, Advance, Done, Abort, SyncValidate, SyncData, SyncMoveWindow,
       SyncReadWindow, SyncEntry, SyncFs, SyncFsInfo, f_close, Unmount

LEMMA OpenedStays == ASSUME [Next]_vars PROVE opened => opened'
<1>1. CASE Opened
  BY <1>1 DEF Opened
<1>2. CASE UNCHANGED opened
  BY <1>2
<1> QED BY <1>1, <1>2 DEF Next, Main, Handler, Press, vars, history, At, In, Get, Put,
       MoveWindow, SyncWindow, ClearFlag, ReadWindow, SetSector, Attach, f_mount, FindVolume,
       VolumeStatus, InitVolume,
       f_open, MakeEntry, RemoveGet, RemovePut, RemoveBack, TestSdmounted, f_puts,
       Chunk, Boundary, CreateGet, CreateGot, CreateNext, CreateTry, CreateMark,
       CreateMarked, CreateLink, CreateLinked, CreateEnd, Flush, NextSector, Copy,
       MarkDirty, Advance, Done, Abort, Interrupt, SyncValidate, SyncData, SyncMoveWindow,
       SyncReadWindow, SyncEntry, SyncFs, SyncFsInfo, f_close, Unmount

LEMMA OpenedSteps == ASSUME Inv, [Next]_vars, opened' PROVE opened \/ Opened
<1>1. CASE Main /\ ~Opened
  BY <1>1 DEF Main, history, At, Get, Put, MoveWindow, SyncWindow, ClearFlag, ReadWindow,
    SetSector, Attach, f_mount,
    FindVolume, VolumeStatus, InitVolume, f_open, MakeEntry, RemoveGet, RemovePut, RemoveBack,
    TestSdmounted,
    f_puts, Chunk, Boundary, CreateGet, CreateGot, CreateNext, CreateTry, CreateMark,
    CreateMarked, CreateLink, CreateLinked, CreateEnd, Flush, NextSector, Copy, MarkDirty,
    Advance, Done, Abort
<1>2. CASE Handler
  BY <1>2 DEF Handler, history, In, Interrupt, SyncValidate, SyncData, SyncMoveWindow,
    SyncReadWindow, SyncEntry, SyncFs, SyncFsInfo, f_close, Unmount
<1>3. CASE Press \/ UNCHANGED vars
  BY <1>3 DEF Press, vars, history
<1> QED BY <1>1, <1>2, <1>3 DEF Next

\* The sectors of the volume's window and of the file's buffer are never confused.
LEMMA OverDataStep ==
    ASSUME Inv, NoData(fs.winsect), Heading, fil.dsect = NoSec \/ ~NoData(fil.dsect),
           [Next]_vars, geo' = geo
    PROVE  NoData(fs.winsect)' /\ (fil.dsect = NoSec \/ ~NoData(fil.dsect))'
<1> USE NoDatas DEF Inv, Types, FsType, FilType
<1>1. NoData(fs.winsect)'
  <2>1. CASE VolumeKept
    BY <2>1 DEF VolumeKept
  <2>2. CASE SyncWindow \/ Flush \/ SyncData \/ SyncFs
    BY <2>2 DEF SyncWindow, Flush, SyncData, SyncFs, volume
  <2>3. CASE SyncMoveWindow
    BY <2>3 DEF SyncMoveWindow
  <2>9. CASE ClearFlag
    BY <2>9 DEF ClearFlag
  <2>10. CASE ReadWindow
    BY <2>10 DEF ReadWindow
  <2>4. CASE SetSector \/ SyncReadWindow
    <3>1. fs'.winsect \in {loc.target, DirSec, NoSec}
      BY <2>4 DEF SetSector, SyncReadWindow
    <3> QED BY <3>1 DEF Heading
  <2>5. CASE InitVolume
    <3>1. CASE fs' = [fs EXCEPT !.mounted = FALSE, !.wflag = FALSE, !.winsect = NoSec]
      BY <3>1
    <3>2. CASE fs' = [mounted |-> TRUE, wflag |-> FALSE, fsi |-> FALSE,
                      last |-> IF geo.fat32 THEN geo.hint ELSE NFat, winsect |-> InfoSec]
      BY <3>2
    <3> QED BY <2>5, <3>1, <3>2 DEF InitVolume
  <2>6. CASE MakeEntry
    BY <2>6 DEF MakeEntry
  <2>7. CASE RemovePut \/ CreateMarked \/ CreateLinked \/ SyncEntry
    BY <2>7 DEF RemovePut, CreateMarked, CreateLinked, SyncEntry
  <2>8. CASE SyncFsInfo
    BY <2>8 DEF SyncFsInfo
  <2> QED BY <2>1, <2>2, <2>3, <2>4, <2>5, <2>6, <2>7, <2>8, <2>9, <2>10, VolumeSteps
<1>2. (fil.dsect = NoSec \/ ~NoData(fil.dsect))'
  <2>1. CASE fil'.dsect = fil.dsect
    BY <2>1
  <2>2. CASE Opened
    BY <2>2 DEF Opened
  <2>3. CASE NextSector
    <3>1. fil'.dsect \in {NoSec, fil.dsect, DataSec(fil.clust, csect, geo.csize)}
      BY <2>3 DEF NextSector
    <3>2. ~NoData(DataSec(fil.clust, csect, geo.csize))
      BY DEF NoData, DataSec
    <3> QED BY <3>1, <3>2
  <2> QED BY <2>1, <2>2, <2>3, FileSteps DEF PlaceKept
<1> QED BY <1>1, <1>2


\* Once the file is open, nothing makes the volume valid again.
LEMMA MountedStays ==
    ASSUME Inv, [Next]_vars, opened
    PROVE  fs'.mounted => fs.mounted
<1> USE DEF Inv, Types, FsType
<1>1. CASE VolumeKept
  BY <1>1 DEF VolumeKept
<1>2. ~InitVolume /\ ~MakeEntry
  BY DEF InitVolume, MakeEntry, At, StartInv, goal, Moving, Starting
<1>3. CASE SyncWindow \/ ReadWindow \/ CreateMarked \/ CreateLinked \/ Flush
  BY <1>3 DEF SyncWindow, ReadWindow, CreateMarked, CreateLinked, Flush, volume
<1>5. CASE ClearFlag \/ SetSector
  BY <1>5 DEF ClearFlag, SetSector
<1>6. CASE RemovePut
  BY <1>6 DEF RemovePut
<1>4. CASE \/ SyncData \/ SyncMoveWindow \/ SyncReadWindow \/ SyncEntry \/ SyncFs \/ SyncFsInfo
  BY <1>4 DEF SyncData, SyncMoveWindow, SyncReadWindow, SyncEntry, SyncFs, SyncFsInfo, volume
<1> QED BY <1>1, <1>2, <1>3, <1>4, <1>5, <1>6, VolumeSteps

LEMMA ValidStays ==
    ASSUME Inv, [Next]_vars, opened
    PROVE  validate' => validate
<1>1. fs'.mounted => fs.mounted
  BY MountedStays
<1>2. fil'.fs => fil.fs
  <2>1. ~Opened
    BY DEF Opened, At, Inv, StartInv, goal, Moving, Starting
  <2>2. NextSector => fil'.fs = fil.fs
    BY DEF NextSector, Inv, Types, FilType
  <2> QED BY <2>1, <2>2, FileSteps DEF PlaceKept
<1> QED BY <1>1, <1>2 DEF validate

LEMMA IsrSteps ==
    ASSUME [Next]_vars
    PROVE  \/ isr' = isr
           \/ Interrupt
           \/ isr = "validate" /\ isr' \in {"unmount", "data", "close"} /\ (~validate => isr' = "unmount")
           \/ isr = "data" /\ isr' \in {"window", "unmount"}
           \/ isr = "window" /\ isr' \in {"entry", "read", "unmount"}
           \/ isr = "read" /\ isr' \in {"entry", "unmount"}
           \/ SyncEntry /\ isr = "entry" /\ isr' = "sync"
           \/ isr = "sync" /\ isr' \in {"fsinfo", "unmount"}
           \/ isr = "fsinfo" /\ isr' \in {"close", "unmount"}
           \/ isr = "close" /\ isr' = "unmount"
           \/ Unmount /\ isr = "unmount" /\ isr' = "off"
<1>1. CASE Handler
  BY <1>1 DEF Handler, In, Then, SyncValidate, SyncData, SyncMoveWindow, SyncReadWindow,
    SyncEntry, SyncFs, SyncFsInfo, f_close, Unmount
<1>2. CASE Main
  BY <1>2, MainAlone DEF button
<1>3. CASE Press \/ UNCHANGED vars
  BY <1>3 DEF Press, vars, button
<1> QED BY <1>1, <1>2, <1>3 DEF Next

LEMMA RegStays == ASSUME [Next]_vars PROVE f_mount \/ Unmount \/ reg' = reg
BY DEF Next, Main, Handler, Press, vars, volume, Get, Put, MoveWindow, SyncWindow, ClearFlag,
   ReadWindow, SetSector, Attach, FindVolume, VolumeStatus, InitVolume, f_open, MakeEntry,
   RemoveGet, RemovePut, RemoveBack, Opened, TestSdmounted, f_puts, Chunk, Boundary, CreateGet,
   CreateGot, CreateNext, CreateTry, CreateMark, CreateMarked, CreateLink, CreateLinked, CreateEnd,
   Flush, NextSector, Copy, MarkDirty, Advance, Done, Abort, Interrupt, SyncValidate, SyncData,
   SyncMoveWindow, SyncReadWindow, SyncEntry, SyncFs, SyncFsInfo, f_close

LEMMA BeforeStays ==
    ASSUME Inv, StopInv, [Next]_vars, opened, Before'
    PROVE  Before /\ (isr' = "off" => isr = "off") /\ reg' = reg
<1>1. validate /\ validate'
  BY ValidStays DEF Before
<1>2. ~Unmount
  BY DEF Before, Unmount
<1>6. reg' = reg
  <2>1. ~f_mount
    BY DEF f_mount, At, Inv, StartInv, goal, Moving, Starting
  <2> QED BY <1>2, <2>1, RegStays
<1>3. ~(isr \in {"sync", "fsinfo", "close", "unmount"} /\ isr' # isr)
  BY <1>2, IsrSteps DEF Before, Interrupt, SyncEntry
<1>4. isr \in {"off", "validate", "data", "window", "read", "entry"}
  BY <1>3, IsrSteps DEF Before, Interrupt
<1>5. isr' = "off" => isr = "off"
  BY <1>2, IsrSteps DEF Interrupt
<1>7. reg
  <2>1. reg'
    BY DEF Before
  <2> QED BY <1>6, <2>1
<1> QED BY <1>1, <1>4, <1>5, <1>6, <1>7 DEF Before

\* Where main comes to a place from: by its own step, with the handler at rest.
LEMMA MainMoves ==
    ASSUME [Next]_vars
    PROVE  \/ Main /\ isr = "off" /\ isr' = "off" /\ UNCHANGED button
           \/ UNCHANGED <<pc, loc>> /\ ~Main
BY MainAlone DEF Next, Handler, Press, vars, button, In, Interrupt, SyncValidate, SyncData,
   SyncMoveWindow, SyncReadWindow, SyncEntry, SyncFs, SyncFsInfo, f_close, Unmount

LEMMA Arrives ==
    ASSUME Inv, Main, pc' \in {"c_marked", "c_try", "c_linked", "c_got", "rm_put"}
    PROVE  MoveWindow \/ SetSector
BY DEF Inv, Types, PlaceType, Finding, Main, At, Goto, Get, Put, Move, Failed, SyncWindow,
  ClearFlag, ReadWindow, Attach, f_mount, FindVolume, VolumeStatus, InitVolume,
   f_open, MakeEntry, RemoveGet, RemovePut, RemoveBack, Opened, TestSdmounted, f_puts, Chunk,
   Boundary, CreateGet, CreateGot, CreateNext, CreateTry, CreateMark, CreateMarked, CreateLink,
   CreateLinked, CreateEnd, Flush, NextSector, Copy, MarkDirty, Advance, Done, Abort

LEMMA PlaceSteps ==
    ASSUME Inv, Main
    PROVE  /\ pc' = "mw_set" => ReadWindow
           /\ pc = "mw_set" => SetSector
           /\ pc' = "mw_clear" => SyncWindow
           /\ pc' = "mw_write" => MoveWindow
           /\ pc' = "mw" => pc \notin Moving
<1> USE DEF Inv, Types, PlaceType, LocType, Returns, Moving, Starting, Finding, At, Goto
<1>1. CASE Moves
  <2>1. pc \notin Moving /\ pc' \notin {"mw_write", "mw_clear", "mw_set"}
    BY <1>1 DEF Moves, Writing, Creating, Resting
  <2> QED BY <2>1
<1>2. CASE MoveWindow \/ SyncWindow \/ ClearFlag \/ ReadWindow \/ SetSector
  BY <1>2 DEF MoveWindow, SyncWindow, ClearFlag, ReadWindow, SetSector, Failed
<1>3. CASE f_mount \/ InitVolume \/ f_open \/ MakeEntry \/ RemovePut \/ RemoveBack
  BY <1>3 DEF f_mount, InitVolume, f_open, MakeEntry, RemovePut, RemoveBack, Move
<1>4. CASE \/ Opened \/ Boundary \/ CreateGot \/ CreateMarked \/ CreateLinked \/ CreateEnd
           \/ Flush \/ NextSector \/ Copy \/ MarkDirty \/ Advance \/ Done \/ Abort
  BY <1>4 DEF Opened, Boundary, CreateGot, CreateMarked, CreateLinked, CreateEnd, Flush,
    NextSector, Copy, MarkDirty, Advance, Done, Abort
<1> QED BY <1>1, <1>2, <1>3, <1>4, ActionsMove DEF Main

\* The window can be written to only as long as the volume has been valid.
LEMMA WritableStays ==
    ASSUME Inv, StopInv, [Next]_vars, Writable'
    PROVE  Writable
<1> SUFFICES ASSUME opened PROVE Writable
  BY DEF Writable
<1>0. opened'
  BY OpenedStays
<1>1. fs'.mounted => fs.mounted
  BY MountedStays
<1>2. CASE Main
  <2>1. pc' \in {"mw", "mw_write"} => fs.mounted \/ pc = "mw"
    <3>1. CASE Moves
      BY <3>1 DEF Moves, Starting, Writing, Creating, Resting
    <3>2. CASE MoveWindow
      BY <3>2 DEF MoveWindow, At
    <3>3. ~(f_mount \/ InitVolume \/ f_open \/ MakeEntry \/ RemovePut \/ RemoveBack \/ Opened)
      BY DEF f_mount, InitVolume, f_open, MakeEntry, RemovePut, RemoveBack, Opened, At, Inv,
        StartInv, goal, Moving, Starting
    <3>4. CASE ~Moves /\ ~MoveWindow
      BY <1>2, <3>3, <3>4, ActionsMove, PlaceSteps DEF Main, At, Goto, SyncWindow, ClearFlag,
        ReadWindow,
        SetSector, Failed, Inv, Types, PlaceType, Returns, Moving, Boundary, CreateGot,
        CreateMarked,
        CreateLinked, CreateEnd, Flush, NextSector, Copy, MarkDirty, Advance, Done, Abort
    <3> QED BY <3>1, <3>2, <3>4
  <2>2. isr = "off"
    BY <1>2, MainAlone
  <2> QED BY <1>0, <1>1, <2>1, <2>2 DEF Writable
<1>3. CASE UNCHANGED pc /\ ~Main
  <2>1. ~(pc = "mw_set" /\ isr = "unmount" /\ fs.mounted /\ isr' # isr)
    <3>1. SUFFICES ASSUME pc = "mw_set", isr = "unmount", fs.mounted, isr' # isr PROVE FALSE
      OBVIOUS
    <3>2. reg
      BY <1>3, <3>1 DEF StopInv, Inv, StartInv, Types, PlaceType, Returns, goal, Moving, Starting
    <3>3. Unmount
      BY <3>1, IsrSteps DEF Interrupt
    <3>4. ~fs'.mounted
      BY <3>2, <3>3 DEF Unmount, Inv, Types, FsType
    <3> QED BY <1>0, <1>3, <3>1, <3>4 DEF Writable
  <2> QED BY <1>0, <1>1, <1>3, <2>1 DEF Writable
<1> QED BY <1>2, <1>3, MainMoves

LEMMA WinsectSteps ==
    ASSUME Inv, [Next]_vars, geo' = geo
    PROVE  \/ fs'.winsect = fs.winsect
           \/ SetSector \/ InitVolume \/ MakeEntry \/ SyncReadWindow \/ SyncFsInfo
<1> USE DEF Inv, Types, FsType
<1>1. CASE VolumeKept
  BY <1>1 DEF VolumeKept
<1>2. CASE SyncWindow \/ ReadWindow \/ Flush \/ SyncData
  BY <1>2 DEF SyncWindow, ReadWindow, Flush, SyncData, volume
<1>3. CASE ClearFlag \/ CreateMarked \/ CreateLinked \/ SyncEntry
  BY <1>3 DEF ClearFlag, CreateMarked, CreateLinked, SyncEntry
<1>4. CASE RemovePut
  BY <1>4 DEF RemovePut
<1>5. CASE SyncMoveWindow \/ SyncFs
  BY <1>5 DEF SyncMoveWindow, SyncFs
<1> QED BY <1>1, <1>2, <1>3, <1>4, <1>5, VolumeSteps

\* As long as the window can be written to, only a read moves it.
LEMMA OverSteps ==
    ASSUME Inv, StopInv, WindowInv, SyncInv, OverInv, [Next]_vars, geo' = geo, Sound', Writable'
    PROVE  over' = over \/ ReadWindow \/ InitVolume \/ MakeEntry \/ SyncReadWindow \/ SyncFsInfo
<1>0. Sound
  BY SoundStays
<1>1. CASE Main
  <2>1. SetSector => over' = over
    BY SetSectorKeeps
  <2>2. CASE ~SetSector /\ ~ReadWindow
    <3>1. pc # "mw_set" /\ pc' # "mw_set"
      BY <1>1, <2>2, PlaceSteps
    <3> QED BY <1>0, <2>2, <3>1, WinsectSteps DEF over
  <2> QED BY <2>1, <2>2
<1>2. CASE UNCHANGED <<pc, loc>> /\ ~Main /\ ~SyncReadWindow /\ ~SyncFsInfo
  <2>1. fs'.winsect = fs.winsect
    BY <1>0, <1>2, WinsectSteps DEF Main
  <2>2. opened' = opened
    BY <1>2 DEF Next, Handler, Press, vars, history, In, Interrupt, SyncValidate, SyncData,
      SyncMoveWindow, SyncReadWindow, SyncEntry, SyncFs, SyncFsInfo, f_close, Unmount
  <2>3. CASE pc # "mw_set" \/ ~opened
    BY <1>2, <2>1, <2>2, <2>3 DEF over, Moved
  <2>4. CASE pc = "mw_set" /\ opened
    <3>1. goal \notin Starting \cup {"loop"}
      BY <2>4 DEF Inv, StartInv, Types, PlaceType, Returns, goal, Moving, Starting
    <3>2. fs.mounted => reg
      BY <3>1 DEF StopInv
    <3>3. fs'.mounted /\ isr' # "unmount"
      BY <1>2, <2>2, <2>4 DEF Writable
    <3>4. fs.mounted
      BY <2>4, <3>3, MountedStays
    <3>5. ~Unmount
      <4>1. Unmount => ~fs'.mounted
        BY <3>2, <3>4 DEF Unmount, Inv, Types, FsType
      <4> QED BY <3>3, <4>1
    <3>6. ~(isr \in {"validate", "data", "window"} /\ isr' = "entry")
      <4>1. SUFFICES ASSUME isr = "window", isr' = "entry" PROVE FALSE
        BY IsrSteps DEF Interrupt
      <4>2. SyncMoveWindow /\ fs.winsect = DirSec
        BY <1>2, <4>1 DEF Next, Handler, Press, vars, button, In, Then, Interrupt, SyncValidate,
          SyncData, SyncMoveWindow, SyncEntry, SyncFs, f_close, Unmount
      <4>3. Before
        BY <2>4, <3>2, <3>4, <4>1 DEF Before, WindowInv, Syncing
      <4> QED BY <1>0, <2>4, <4>1, <4>2, <4>3 DEF OverInv
    <3>7. ~(isr = "validate" /\ isr' = "close")
      <4>1. SUFFICES ASSUME isr = "validate", isr' = "close" PROVE FALSE
        OBVIOUS
      <4>2. SyncValidate
        BY <1>2, <4>1 DEF Next, Handler, Press, vars, button, In, Then, Interrupt,
          SyncData, SyncMoveWindow, SyncEntry, SyncFs, f_close, Unmount
      <4>3. validate /\ ~fil.written
        BY <4>1, <4>2 DEF SyncValidate, Then
      <4> QED BY <3>2, <3>4, <4>1, <4>3 DEF SyncInv
    <3>8. ~(isr = "read" /\ isr' = "entry")
      BY <1>2 DEF Next, Handler, Press, vars, button, In, Then, Interrupt, SyncValidate,
        SyncData, SyncMoveWindow, SyncEntry, SyncFs, f_close, Unmount
    <3>9. Moved' = Moved
      BY <2>2, <3>3, <3>5, <3>6, <3>7, <3>8, IsrSteps DEF Moved, Interrupt
    <3> QED BY <1>2, <2>1, <2>4, <3>9 DEF over
  <2> QED BY <2>3, <2>4
<1> QED BY <1>1, <1>2, MainMoves

LEMMA NewOver ==
    ASSUME Inv, \/ InitVolume \/ MakeEntry \/ RemovePut \/ CreateMarked \/ CreateLinked
                \/ SyncEntry \/ SyncFs \/ SyncFsInfo
    PROVE  over = fs.winsect /\ over' = fs'.winsect
<1>1. CASE InitVolume \/ MakeEntry \/ RemovePut \/ CreateMarked \/ CreateLinked
  <2>1. ~ReadWindow /\ Main /\ pc # "mw_set"
    BY <1>1 DEF InitVolume, MakeEntry, RemovePut, CreateMarked, CreateLinked, ReadWindow, At, Main
  <2> QED BY <2>1, PlaceSteps DEF over
<1>2. CASE SyncEntry \/ SyncFs \/ SyncFsInfo
  <2>1. /\ isr \in {"entry", "sync", "fsinfo"} /\ UNCHANGED opened
        /\ isr' \in {"sync", "fsinfo", "close", "unmount"}
    BY <1>2 DEF SyncEntry, SyncFs, SyncFsInfo, In, Then, history
  <2>2. opened
    BY <2>1 DEF Inv, StartInv
  <2> QED BY <2>1, <2>2 DEF over, Moved
<1> QED BY <1>1, <1>2

LEMMA OverNoData == ASSUME Inv, OverInv PROVE NoData(over) /\ over \in Here
BY DEF Inv, Types, FsType, LocType, OverInv, Heading, over

LEMMA CleanStep ==
    ASSUME Inv, StopInv, WindowInv, SyncInv, OverInv, [Next]_vars, geo' = geo, Sound'
    PROVE  Clean'
<1> SUFFICES ASSUME Writable', ~fs'.wflag, over' \notin {NoSec, InfoSec}
             PROVE  win' = card'[over']
  BY DEF Clean
<1> USE NoDatas, HereHas DEF Inv, Types, FsType
<1>0. /\ Sound /\ Writable /\ NoData(over) /\ over \in Here
      /\ ~fs.wflag /\ over \notin {NoSec, InfoSec} => win = card[over]
  BY SoundStays, WritableStays, OverNoData DEF OverInv, Clean
<1>11. over' = over \/ ReadWindow \/ InitVolume \/ MakeEntry \/ SyncReadWindow \/ SyncFsInfo
  BY OverSteps
<1>1. CASE VolumeKept /\ over' = over
  BY <1>0, <1>1 DEF VolumeKept
<1>2. CASE SyncWindow \/ ClearFlag \/ SyncMoveWindow
  <2>1. WritesWindow \/ (SyncMoveWindow /\ UNCHANGED <<card, fs, win>>)
    BY <1>0, <1>2, SyncWindowWrites, ClearFlagWrites, SyncMoveWindowWrites
  <2>2. CASE WritesWindow
    BY <1>0, <2>2 DEF WritesWindow
  <2>3. CASE SyncMoveWindow /\ UNCHANGED <<card, fs, win>>
    <3>1. over' = over
      BY <1>11, <2>3 DEF SyncMoveWindow, At, ReadWindow, InitVolume, MakeEntry, SyncReadWindow,
        SyncFsInfo, In
    <3> QED BY <1>0, <2>3, <3>1
  <2> QED BY <2>1, <2>2, <2>3
<1>3. CASE ReadWindow \/ SyncReadWindow
  <2>1. \E t \in {loc.target, DirSec} : ReadsWindow(t)
    BY <1>0, <1>3, ReadWindowReads, SyncReadWindowReads
  <2> QED BY <2>1 DEF ReadsWindow
<1>13. CASE SetSector
  BY <1>0, <1>13, SetSectorKeeps
<1>14. InitVolume \/ MakeEntry => over' = fs'.winsect
  BY NewOver
<1>4. CASE InitVolume
  <2>1. CASE fs' = [fs EXCEPT !.mounted = FALSE, !.wflag = FALSE, !.winsect = NoSec]
    BY <1>4, <1>14, <2>1
  <2>2. CASE /\ win' = card[InfoSec] /\ UNCHANGED card
             /\ fs' = [mounted |-> TRUE, wflag |-> FALSE, fsi |-> FALSE,
                       last |-> IF geo.fat32 THEN geo.hint ELSE NFat, winsect |-> InfoSec]
    BY <1>4, <1>14, <2>2
  <2> QED BY <1>4, <2>1, <2>2 DEF InitVolume
<1>5. CASE MakeEntry
  <2>1. fs'.winsect = NoSec \/ (fs'.winsect = DirSec /\ fs'.wflag)
    BY <1>5 DEF MakeEntry
  <2> QED BY <1>5, <1>14, <2>1
<1>6. CASE RemovePut
  <2>1. UNCHANGED <<card, win, fs>> \/ fs'.wflag
    BY <1>6 DEF RemovePut
  <2>2. over' = over
    BY <1>6, <1>11 DEF RemovePut, At, ReadWindow, InitVolume, MakeEntry, SyncReadWindow,
      SyncFsInfo, In
  <2> QED BY <1>0, <2>1, <2>2
<1>7. CASE CreateMarked \/ CreateLinked \/ SyncEntry
  BY <1>7 DEF CreateMarked, CreateLinked, SyncEntry
<1>8. CASE Flush \/ SyncData
  <2>1. UNCHANGED <<fs, win>> /\ (WritesBuffer \/ UNCHANGED card)
    BY <1>0, <1>8, FlushWrites, SyncDataWrites
  <2>2. over' = over
    BY <1>8, <1>11 DEF Flush, SyncData, At, ReadWindow, InitVolume, MakeEntry, SyncReadWindow,
      SyncFsInfo, In
  <2>3. CASE WritesBuffer
    <3>1. over # fil.dsect
      BY <1>0, <2>2 DEF OverInv
    <3> QED BY <1>0, <2>1, <2>2, <2>3, <3>1 DEF WritesBuffer
  <2> QED BY <1>0, <2>1, <2>2, <2>3
<1>9. CASE SyncFs
  BY <1>0, <1>9, NewOver, SyncFsWrites
<1>10. CASE SyncFsInfo
  BY <1>0, <1>10, NewOver, SyncFsInfoWrites
<1> QED BY <1>1, <1>2, <1>3, <1>4, <1>5, <1>6, <1>7, <1>8, <1>9, <1>10, <1>11, <1>13, VolumeSteps

LEMMA OverInvStep ==
    ASSUME Inv, StopInv, WindowInv, SyncInv, OverInv, [Next]_vars, geo' = geo
    PROVE  OverInv'
<1>1. NoData(fs.winsect)' /\ (fil.dsect = NoSec \/ ~NoData(fil.dsect))' /\ Heading'
  BY OverDataStep, HeadingStep DEF OverInv
<1>2. (opened /\ ~fil.fs => closed)'
  <2> USE DEF OverInv
  <2>1. closed => closed'
    <3>1. CASE Main
      BY <3>1, MainAlone DEF button
    <3>2. CASE f_close
      BY <3>2 DEF f_close
    <3>3. CASE Handler /\ ~f_close
      BY <3>3 DEF Handler, In, Interrupt, SyncValidate, SyncData, SyncMoveWindow, SyncReadWindow,
        SyncEntry, SyncFs, SyncFsInfo, Unmount
    <3>4. CASE Press \/ UNCHANGED vars
      BY <3>4 DEF Press, vars, button
    <3> QED BY <3>1, <3>2, <3>3, <3>4 DEF Next
  <2>2. opened' => opened \/ Opened
    BY OpenedSteps
  <2>3. CASE Opened
    BY <2>3 DEF Opened
  <2>4. CASE f_close
    BY <2>4 DEF f_close
  <2>5. CASE f_open
    <3>1. ~opened
      BY <2>5 DEF f_open, At, Inv, StartInv, goal, Moving, Starting
    <3> QED BY <2>2, <2>3, <3>1
  <2>6. CASE ~Opened /\ ~f_close /\ ~f_open
    <3> USE DEF Inv, Types, FilType
    <3>1. CASE UNCHANGED fil
      BY <2>1, <2>2, <2>6, <3>1
    <3>2. CASE Abort \/ SyncEntry \/ Boundary \/ CreateEnd \/ MarkDirty \/ Advance \/ Done
      <4>1. fil'.fs = fil.fs
        BY <3>2 DEF Abort, SyncEntry, Boundary, CreateEnd, MarkDirty, Advance, Done
      <4> QED BY <2>1, <2>2, <2>6, <4>1
    <3>3. CASE CreateGot \/ Flush \/ NextSector \/ SyncData
      <4>1. fil'.fs = fil.fs
        BY <3>3 DEF CreateGot, Flush, NextSector, SyncData
      <4> QED BY <2>1, <2>2, <2>6, <4>1
    <3> QED BY <2>6, <3>1, <3>2, <3>3 DEF Next, Main, Handler, Press, vars, file, Get, Put,
      MoveWindow, SyncWindow, ClearFlag, ReadWindow, SetSector, Attach, f_mount, FindVolume,
      VolumeStatus, InitVolume, MakeEntry,
      RemoveGet, RemovePut, RemoveBack, TestSdmounted, f_puts, Chunk, CreateGet, CreateNext,
      CreateTry, CreateMark, CreateMarked, CreateLink, CreateLinked, Copy, Interrupt,
      SyncValidate, SyncMoveWindow, SyncReadWindow, SyncFs, SyncFsInfo, Unmount
  <2> QED BY <2>3, <2>4, <2>5, <2>6
<1>3. (isr = "read" => ~fs.wflag)'
  <2>1. CASE isr = "read" /\ isr' = "read"
    <3>1. ~fs.wflag
      BY <2>1 DEF OverInv
    <3>2. (~Main /\ ~Handler) \/ SyncReadWindow
      BY <2>1, MainAlone DEF Handler, In, Then, Interrupt, SyncValidate, SyncData,
        SyncMoveWindow, SyncEntry, SyncFs, SyncFsInfo, f_close, Unmount
    <3>3. fs'.wflag = fs.wflag
      <4>1. CASE SyncReadWindow
        BY <4>1 DEF SyncReadWindow, Inv, Types, FsType
      <4>2. CASE ~SyncReadWindow
        BY <3>2, <4>2 DEF Next, Press, vars, volume
      <4> QED BY <4>1, <4>2
    <3> QED BY <3>1, <3>3
  <2>2. CASE isr # "read" /\ isr' = "read"
    <3>1. SyncMoveWindow
      BY <2>2, MainAlone DEF Next, Handler, Press, vars, button, In, Then, Interrupt, SyncValidate,
        SyncData, SyncReadWindow, SyncEntry, SyncFs, SyncFsInfo, f_close, Unmount
    <3>2. CASE ~fs.wflag
      BY <2>2, <3>1, <3>2 DEF SyncMoveWindow, Then
    <3>3. CASE fs.wflag
      <4>1. PICK ok \in BOOLEAN : /\ fs' = [fs EXCEPT !.wflag = ~ok]
                                  /\ Then(IF ok THEN "read" ELSE "unmount")
        BY <2>2, <3>1, <3>3 DEF SyncMoveWindow, Then
      <4> QED BY <2>2, <4>1 DEF Then, Inv, Types, FsType
    <3> QED BY <3>2, <3>3
  <2> QED BY <2>1, <2>2
<1>4. ASSUME Sound', pc' \in {"mw_write", "mw_clear"}
      PROVE  /\ (loc.wsect = fs.winsect /\ fs.wflag /\ (opened => isr = "off"))'
             /\ pc' = "mw_clear" => win' = card'[fs'.winsect]
  <2>0. Sound
    BY <1>4, SoundStays
  <2>1. CASE UNCHANGED <<pc, loc>> /\ ~Main
    <3>1. /\ loc.wsect = fs.winsect /\ fs.wflag /\ (opened => isr = "off")
          /\ pc = "mw_clear" => win = card[fs.winsect]
      BY <1>4, <2>0, <2>1 DEF OverInv
    <3>2. opened' = opened
      BY <2>1 DEF Next, Handler, Press, vars, history, In, Interrupt, SyncValidate, SyncData,
        SyncMoveWindow, SyncReadWindow, SyncEntry, SyncFs, SyncFsInfo, f_close, Unmount
    <3>3. CASE Interrupt
      <4>1. here # "sync_window"
        BY <1>4, <3>3 DEF Interrupt, Sound
      <4>2. ~opened
        BY <1>4, <2>1, <4>1 DEF here, Inv, StartInv, goal, Moving, Resting, Starting
      <4> QED BY <2>1, <3>1, <3>2, <3>3, <4>2 DEF Interrupt, volume
    <3>4. CASE Handler /\ ~Interrupt
      <4>1. isr # "off"
        BY <3>4 DEF Handler, In, SyncValidate, SyncData, SyncMoveWindow, SyncReadWindow,
          SyncEntry, SyncFs, SyncFsInfo, f_close, Unmount
      <4>2. ~opened /\ isr \in {"validate", "unmount"}
        BY <3>1, <4>1 DEF Inv, StartInv
      <4>3. SyncValidate \/ Unmount
        BY <3>4, <4>2 DEF Handler, In, SyncData, SyncMoveWindow, SyncReadWindow,
          SyncEntry, SyncFs, SyncFsInfo, f_close
      <4>4. fs'.winsect = fs.winsect /\ fs'.wflag = fs.wflag /\ UNCHANGED <<card, win>>
        BY <4>3 DEF SyncValidate, Unmount, volume, Inv, Types, FsType
      <4> QED BY <2>1, <3>1, <3>2, <4>2, <4>4
    <3>5. CASE ~Handler
      BY <2>1, <3>1, <3>2, <3>5 DEF Next, Press, vars, volume, button
    <3> QED BY <3>3, <3>4, <3>5
  <2>2. CASE Main /\ pc' = "mw_write"
    <3>1. MoveWindow
      BY <2>2, PlaceSteps
    <3>2. /\ loc.target # fs.winsect /\ fs.wflag /\ UNCHANGED fs /\ isr' = "off"
      <4>1. /\ pc = "mw" /\ UNCHANGED fs /\ isr' = "off"
            /\ pc' = IF loc.target = fs.winsect THEN loc.ret
                     ELSE IF fs.wflag THEN "mw_write" ELSE "mw_read"
        BY <3>1 DEF MoveWindow, At, Goto, volume, button
      <4>2. loc.ret # "mw_write"
        BY <4>1 DEF Inv, Types, PlaceType, Returns, Moving
      <4> QED BY <2>2, <4>1, <4>2
    <3>3. loc'.wsect = fs.winsect
      BY <3>1, <3>2 DEF MoveWindow, Inv, Types, LocType
    <3> QED BY <2>2, <3>2, <3>3
  <2>3. CASE Main /\ pc' = "mw_clear"
    <3>1. SyncWindow
      BY <2>3, PlaceSteps
    <3>2. /\ UNCHANGED <<fs, loc, isr, win>> /\ pc = "mw_write" /\ isr = "off"
          /\ card'[fs.winsect] = win
      BY <2>0, <2>3, <3>1, SyncWindowWrites DEF WritesWindow
    <3>3. loc.wsect = fs.winsect /\ fs.wflag
      BY <2>0, <3>2 DEF OverInv
    <3> QED BY <3>2, <3>3
  <2> QED BY <1>4, <2>1, <2>2, <2>3, MainMoves
<1>5. Sound' => Clean'
  BY CleanStep
<1>6. ASSUME Sound', Before', isr' = "off", NEW place \in {"c_marked", "c_try", "c_linked", "c_got"},
             pc' = place
      PROVE  fs'.winsect = IF place \in {"c_marked", "c_try"} THEN FatSec(loc'.ncl)
                                                              ELSE FatSec(loc'.clst)
  <2>0. Sound
    BY <1>6, SoundStays
  <2>1. CASE UNCHANGED <<pc, loc>> /\ ~Main
    <3>1. opened
      <4>1. opened' = opened
        BY <2>1 DEF Next, Handler, Press, vars, history, In, Interrupt, SyncValidate, SyncData,
          SyncMoveWindow, SyncReadWindow, SyncEntry, SyncFs, SyncFsInfo, f_close, Unmount
      <4> QED BY <1>6, <4>1 DEF Before
    <3>2. Before /\ isr = "off"
      BY <1>6, <3>1, BeforeStays
    <3>3. fs' = fs
      BY <1>6, <2>1, <3>2 DEF Next, Handler, Press, vars, volume, In, Interrupt, SyncValidate,
        SyncData, SyncMoveWindow, SyncReadWindow, SyncEntry, SyncFs, SyncFsInfo, f_close, Unmount
    <3>4. fs.winsect = IF place \in {"c_marked", "c_try"} THEN FatSec(loc.ncl)
                                                          ELSE FatSec(loc.clst)
      BY <1>6, <2>0, <2>1, <3>2 DEF OverInv, InWindow, over
    <3> QED BY <2>1, <3>3, <3>4
  <2>2. CASE Main
    <3>1. MoveWindow \/ SetSector
      BY <1>6, <2>2, Arrives
    <3>2. /\ pc \in Moving /\ ~(pc = "mw_set" /\ loc.target = NoSec) /\ loc.ret = place
          /\ loc'.ncl = loc.ncl /\ loc'.clst = loc.clst /\ fs'.winsect = loc.target
      <4>1. CASE MoveWindow
        BY <1>6, <4>1 DEF MoveWindow, At, Goto, volume, Moving, Inv, Types, LocType, PlaceType,
          Returns
      <4>2. CASE SetSector
        BY <1>6, <4>2, SetSectorKeeps DEF Moving
      <4> QED BY <3>1, <4>1, <4>2
    <3> QED BY <3>2 DEF OverInv, Heading
  <2> QED BY <1>6, <2>1, <2>2, MainMoves
<1>7. (opened /\ fs.mounted /\ ~reg => fil.fptr = 0 /\ fil.fsize = 0 /\ ~fil.dirty)'
  <2> SUFFICES ASSUME opened', fs'.mounted, ~reg'
               PROVE  fil'.fptr = 0 /\ fil'.fsize = 0 /\ ~fil'.dirty
    OBVIOUS
  <2>1. CASE Opened
    BY <2>1 DEF Opened
  <2>2. CASE ~Opened
    <3>1. opened /\ fs.mounted
      BY <2>2, OpenedSteps, MountedStays
    <3>2. ~reg
      <4>1. Unmount => ~fs'.mounted \/ ~reg
        BY DEF Unmount, Inv, Types, FsType
      <4>2. ~f_mount
        BY <3>1 DEF f_mount, At, Inv, StartInv, goal, Moving, Starting
      <4> QED BY <4>1, <4>2, RegStays
    <3>3. fil.fptr = 0 /\ fil.fsize = 0 /\ ~fil.dirty
      BY <3>1, <3>2 DEF OverInv
    <3>4. pc = "loop" /\ ~sdmounted
      BY <3>1, <3>2 DEF StopInv, Inv, StartInv, Types, PlaceType, Returns, goal, Moving, Starting
    <3>5. FileKept \/ SyncData
      BY <2>2, <3>4, FileSteps DEF Boundary, CreateGot, CreateEnd, Flush, NextSector, MarkDirty,
        Advance, Done, At
    <3>6. SyncData => UNCHANGED fil
      BY <3>3 DEF SyncData
    <3> QED BY <3>3, <3>5, <3>6 DEF FileKept
  <2> QED BY <2>1, <2>2
<1>8. ASSUME Sound', pc' = "mw_set", Before', isr' # "entry"
      PROVE  ~fs'.wflag /\ (isr' # "off" => fs'.winsect # DirSec)
  <2>1. CASE Main
    <3>1. ReadWindow
      BY <1>8, <2>1, PlaceSteps
    <3>2. pc = "mw_read" /\ isr = "off" /\ UNCHANGED <<fs, fil, reg, isr, opened>>
      BY <3>1 DEF ReadWindow, At, file, button, history
    <3>3. Before /\ ~torn
      BY <1>8, <3>2, SoundStays DEF Before, validate, Sound
    <3> QED BY <3>2, <3>3 DEF WindowInv, Before
  <2>2. CASE UNCHANGED <<pc, loc>> /\ ~Main
    <3>1. opened
      <4>1. ~Opened
        BY <2>2 DEF Main
      <4> QED BY <1>8, <4>1, OpenedSteps DEF Before
    <3>2. Sound /\ Before
      BY <1>8, <3>1, SoundStays, BeforeStays
    <3>3. CASE Interrupt
      <4>1. isr = "off" /\ fs' = fs /\ here # "stale_window"
        BY <1>8, <3>3 DEF Interrupt, volume, Sound
      <4>2. fs.winsect # DirSec
        BY <1>8, <2>2, <3>1, <4>1 DEF here, Inv, StartInv, goal, Moving, Starting
      <4> QED BY <1>8, <2>2, <3>2, <4>1, <4>2 DEF OverInv
    <3>4. CASE SyncData \/ SyncMoveWindow \/ SyncReadWindow
      <4>1. isr \in {"data", "window", "read"}
        BY <3>4 DEF SyncData, SyncMoveWindow, SyncReadWindow, In
      <4>2. ~fs.wflag /\ fs.winsect # DirSec
        BY <1>8, <2>2, <3>2, <4>1 DEF OverInv
      <4>3. ~SyncReadWindow
        BY <1>8 DEF SyncReadWindow, Then, Before
      <4>4. fs' = fs
        BY <3>4, <4>2, <4>3 DEF SyncData, SyncMoveWindow, volume
      <4> QED BY <4>2, <4>4
    <3>5. CASE ~Interrupt /\ ~SyncData /\ ~SyncMoveWindow /\ ~SyncReadWindow
      <4>1. isr # "entry" /\ (isr' # "off" => isr # "off")
        BY <1>8, <3>5, IsrSteps DEF Before
      <4>2. fs' = fs
        BY <1>8, <2>2, <3>5 DEF Next, Handler, Press, vars, volume, In, Then, SyncValidate,
          SyncEntry,
          SyncFs, SyncFsInfo, f_close, Unmount, Before
      <4> QED BY <1>8, <2>2, <3>2, <4>1, <4>2 DEF OverInv
    <3> QED BY <3>3, <3>4, <3>5
  <2> QED BY <2>1, <2>2, MainMoves
<1>10. (isr \in {"entry", "sync"} => fs.winsect = DirSec)'
  <2>1. CASE SyncMoveWindow
    BY <2>1 DEF SyncMoveWindow, Then
  <2>2. CASE SyncReadWindow
    <3>1. isr' = "entry" => fs'.winsect = DirSec
      BY <2>2 DEF SyncReadWindow, Then, Inv, Types, FsType
    <3>2. isr' # "sync"
      BY <2>2 DEF SyncReadWindow, Then
    <3> QED BY <3>1, <3>2
  <2>3. CASE SyncEntry
    BY <2>3 DEF SyncEntry, In, OverInv, Inv, Types, FsType
  <2>4. CASE ~SyncMoveWindow /\ ~SyncReadWindow /\ ~SyncEntry
    <3>1. SUFFICES ASSUME isr' \in {"entry", "sync"} PROVE fs'.winsect = DirSec
      OBVIOUS
    <3>2. isr' = isr
      BY <2>4, <3>1, MainAlone DEF Next, Handler, Press, vars, button, In, Then, Interrupt,
        SyncValidate,
        SyncData, SyncFs, SyncFsInfo, f_close, Unmount
    <3>3. ~Main /\ ~SyncFsInfo
      BY <3>1, <3>2, MainAlone DEF SyncFsInfo, In
    <3> QED BY <2>4, <3>1, <3>2, <3>3, WinsectSteps DEF OverInv, Main
  <2> QED BY <2>1, <2>2, <2>3, <2>4
<1>9. ASSUME Sound', Before', isr' = "off", pc' \in {"c_marked", "c_try", "c_linked", "c_got"}
      PROVE  over' = fs'.winsect
  BY <1>9 DEF over
<1> QED BY <1>1, <1>2, <1>3, <1>4, <1>5, <1>6, <1>7, <1>8, <1>9, <1>10 DEF OverInv, InWindow

-----------------------------------------------------------------------------
(***************************************************************************)
(* The FAT.                                                                *)
(***************************************************************************)
\* Moving the window back and forth does not change what main sees of the FAT.
LEMMA ViewStays ==
    ASSUME Inv, OverInv, NEW c \in Cluster, geo' = geo,
           \/ UNCHANGED <<card, win>> /\ over' = over
           \/ WritesWindow
           \/ WritesBuffer /\ over' = over
           \/ Sound /\ Writable /\ ~fs.wflag /\ \E t \in Here : ReadsWindow(t)
    PROVE  View(c)' = View(c)
<1> USE NoDatas DEF View, InWindow, Inv, Types, FsType
<1>1. FatSec(c) \in Here /\ FatSec(c) \notin {NoSec, InfoSec}
  BY HereHas DEF FatSec, NoSec, InfoSec
<1>2. CASE UNCHANGED <<card, win>> /\ over' = over
  BY <1>2
<1>3. CASE WritesWindow
  BY <1>1, <1>3 DEF WritesWindow
<1>4. CASE WritesBuffer /\ over' = over
  <2>1. FatSec(c) # fil.dsect
    BY <1>1 DEF OverInv
  <2> QED BY <1>1, <1>4, <2>1 DEF WritesBuffer
<1>5. CASE Sound /\ Writable /\ ~fs.wflag /\ \E t \in Here : ReadsWindow(t)
  <2>1. over = FatSec(c) => win = card[FatSec(c)]
    BY <1>1, <1>5 DEF OverInv, Clean
  <2>2. View(c) = card[FatSec(c)].entry[c]
    BY <2>1
  <2>3. View(c)' = card[FatSec(c)].entry[c]
    BY <1>1, <1>5 DEF ReadsWindow
  <2> QED BY <2>2, <2>3
<1> QED BY <1>2, <1>3, <1>4, <1>5

\* move_window leaves what main is about as it was, or gives it up.
LEMMA MovingSteps ==
    ASSUME Inv, MoveWindow \/ SyncWindow \/ ClearFlag \/ ReadWindow \/ SetSector
    PROVE  /\ goal \in Returns /\ goal' \in {goal, "loop", "abort"}
           /\ goal' = "loop" => goal \in Starting
           /\ goal' = "abort" => goal \notin Starting
           /\ loc'.clst = loc.clst /\ loc'.ncl = loc.ncl /\ loc'.btw = loc.btw
           /\ UNCHANGED <<fil, buf, opened, isr, geo>> /\ isr = "off"
           /\ fs'.mounted = fs.mounted /\ pc \in Moving
<1> USE DEF Inv, Types, PlaceType, LocType, FsType, goal, At, Goto, file, history, button, volume
<1>1. CASE MoveWindow
  <2>1. /\ pc = "mw" /\ isr = "off" /\ UNCHANGED <<fil, buf, opened, isr, fs, geo>>
        /\ pc' \in {loc.ret, "mw_write", "mw_read"} /\ loc.ret \in Returns
        /\ loc'.ret = loc.ret /\ loc'.clst = loc.clst /\ loc'.ncl = loc.ncl /\ loc'.btw = loc.btw
    BY <1>1 DEF MoveWindow, Moving
  <2> QED BY <2>1 DEF Moving, Returns
<1>2. CASE SyncWindow \/ ClearFlag \/ ReadWindow \/ SetSector
  <2>1. /\ pc \in {"mw_write", "mw_clear", "mw_read", "mw_set"} /\ isr = "off"
        /\ UNCHANGED <<fil, buf, opened, isr, geo>>
        /\ loc'.ret = loc.ret /\ loc'.clst = loc.clst /\ loc'.ncl = loc.ncl /\ loc'.btw = loc.btw
        /\ loc.ret \in Returns /\ fs'.mounted = fs.mounted
    BY <1>2 DEF SyncWindow, ClearFlag, ReadWindow, SetSector, Moving
  <2>2. pc' \in {loc.ret, "mw_clear", "mw_read", "mw_set"} \/ Failed
    BY <1>2 DEF SyncWindow, ClearFlag, ReadWindow, SetSector
  <2> QED BY <2>1, <2>2 DEF Moving, Returns, Failed, Starting
<1> QED BY <1>1, <1>2

\* main puts something into the window only on behalf of the file.
LEMMA MountedIsBefore ==
    ASSUME Inv, StopInv, OverInv, ClosedInv, opened, fs.mounted, isr = "off", pc # "loop"
    PROVE  Before
<1>1. goal \notin Starting \cup {"loop"}
  BY DEF Inv, Types, PlaceType, StartInv, Returns, goal, Moving, Starting
<1>2. reg
  BY <1>1 DEF StopInv
<1> QED BY <1>2 DEF OverInv, ClosedInv, Before, validate

LEMMA FatOnCard ==
    ASSUME Inv, StopInv, WindowInv, SyncInv, OverInv, FatInv, [Next]_vars, geo' = geo,
           Sound', NEW c \in Cluster
    PROVE  FatOk(card[FatSec(c)], c)'
<1>0. Sound
  BY SoundStays
<1>1. FatOk(card[FatSec(c)], c) /\ FatSec(c) \in Here /\ FatSec(c) \notin {NoSec, InfoSec, DirSec}
  BY <1>0, HereHas DEF FatInv, Inv, Types, FatSec, NoSec, InfoSec, DirSec
<1>2. CASE card'[FatSec(c)] = card[FatSec(c)]
  BY <1>1, <1>2 DEF FatOk
<1>3. CASE WritesWindow /\ Writable
  <2>1. InWindow(c) => FatOk(win, c)
    BY <1>0, <1>3 DEF FatInv
  <2>2. over # FatSec(c) => card'[FatSec(c)] = card[FatSec(c)]
    BY <1>1, <1>3 DEF WritesWindow
  <2>3. over = FatSec(c) => card'[FatSec(c)] \in {card[FatSec(c)], win}
    BY <1>3 DEF WritesWindow
  <2> QED BY <1>1, <2>1, <2>2, <2>3 DEF FatOk, InWindow
<1>4. CASE WritesBuffer
  <2>1. FatSec(c) # fil.dsect
    BY <1>1, NoDatas DEF OverInv
  <2> QED BY <1>1, <1>2, <1>4, <2>1 DEF WritesBuffer
<1>5. CASE SyncWindow
  BY <1>0, <1>3, <1>5, SyncWindowWrites DEF Writable
<1>13. CASE ClearFlag \/ SetSector
  BY <1>2, <1>13 DEF ClearFlag, SetSector
<1>6. CASE SyncMoveWindow
  <2>1. WritesWindow \/ UNCHANGED card
    BY <1>0, <1>6, SyncMoveWindowWrites
  <2>2. Writable
    <3>1. isr = "window"
      BY <1>6 DEF SyncMoveWindow, In
    <3> QED BY <3>1 DEF WindowInv, Syncing, validate, Writable
  <2> QED BY <1>2, <1>3, <2>1, <2>2
<1>7. CASE SyncFs
  <2>1. fs.winsect = DirSec
    BY <1>0, <1>7 DEF SyncFs, In, OverInv
  <2> QED BY <1>0, <1>1, <1>2, <1>7, <2>1, SyncFsWrites
<1>8. CASE Flush \/ SyncData
  BY <1>0, <1>2, <1>4, <1>8, FlushWrites, SyncDataWrites
<1>9. CASE SyncFsInfo
  BY <1>1, <1>2, <1>9, SyncFsInfoWrites
<1>10. CASE ReadWindow \/ SyncReadWindow
  BY <1>2, <1>10 DEF ReadWindow, SyncReadWindow, disk_read
<1>11. CASE InitVolume \/ MakeEntry \/ RemovePut \/ CreateMarked \/ CreateLinked \/ SyncEntry
  BY <1>2, <1>11 DEF InitVolume, MakeEntry, RemovePut, CreateMarked, CreateLinked, SyncEntry
<1>12. CASE VolumeKept
  BY <1>2, <1>12 DEF VolumeKept
<1> QED BY <1>5, <1>6, <1>7, <1>8, <1>9, <1>10, <1>11, <1>12, <1>13, VolumeSteps

\* Putting a value into an entry of the FAT that is in the window.
LEMMA PutEntry ==
    ASSUME Inv, NEW c \in Cluster, FatOk(win, c), InWindow(c), NEW v \in 0..NFat
    PROVE  LET w == WithEntry(win, c, v)
           IN /\ w.kind = "fat" /\ w.nr = win.nr /\ w.entry[c] = v
              /\ \A d \in Cluster \ {c} : w.entry[d] = win.entry[d]
<1>1. win.kind = "fat" /\ win.nr = FatNr(c)
  BY DEF FatOk
<1>2. win.entry \in [{d \in Cluster : FatNr(d) = win.nr} -> 0..NFat]
  <2>1. win \in Content
    BY DEF Inv, Types, DiskType
  <2> QED BY <1>1, <2>1, FatContent
<1>3. WithEntry(win, c, v) = [win EXCEPT !.entry[c] = v]
  BY <1>1 DEF WithEntry
<1>4. win \in [kind : {"fat"}, nr : {win.nr}, entry : [{d \in Cluster : FatNr(d) = win.nr} -> 0..NFat]]
  <2>1. win \in Content
    BY DEF Inv, Types, DiskType
  <2> QED BY <1>1, <2>1, FatContent
<1> QED BY <1>1, <1>2, <1>3, <1>4

LEMMA FatInWindow ==
    ASSUME Inv, StopInv, WindowInv, SyncInv, ClosedInv, OverInv, FatInv, OldInv,
           [Next]_vars, geo' = geo, Sound', Writable', NEW c \in Cluster, InWindow(c)'
    PROVE  FatOk(win, c)'
<1> USE DEF InWindow
<1>0. Sound /\ Writable
  BY SoundStays, WritableStays
<1>1. \A d \in Cluster : /\ FatOk(card[FatSec(d)], d)
                         /\ over = FatSec(d) => FatOk(win, d)
  BY <1>0 DEF FatInv
<1>2. FatSec(c) \in Here /\ FatSec(c) \notin {NoSec, InfoSec, DirSec}
  BY HereHas DEF Inv, Types, FatSec, NoSec, InfoSec, DirSec
<1>14. over' = over \/ ReadWindow \/ InitVolume \/ MakeEntry \/ SyncReadWindow \/ SyncFsInfo
  BY OverSteps
<1>3. CASE over' = over /\ win' = win
  BY <1>1, <1>3 DEF FatOk
<1>4. CASE \E d \in Cluster, v \in 0..NFat : /\ over' = over /\ over = FatSec(d)
                                             /\ d \notin geo.others
                                             /\ win' = WithEntry(win, d, v)
  <2>1. PICK d \in Cluster, v \in 0..NFat : /\ over' = over /\ over = FatSec(d)
                                            /\ d \notin geo.others
                                            /\ win' = WithEntry(win, d, v)
    BY <1>4
  <2>2. FatOk(win, d) /\ FatOk(win, c)
    BY <1>1, <2>1
  <2>3. win'.kind = "fat" /\ win'.nr = win.nr /\ (c # d => win'.entry[c] = win.entry[c])
    BY <2>1, <2>2, PutEntry
  <2> QED BY <2>1, <2>2, <2>3 DEF FatOk
<1>5. CASE VolumeKept /\ over' = over
  BY <1>3, <1>5 DEF VolumeKept
<1>6. CASE \/ SyncWindow \/ ClearFlag \/ SetSector \/ SyncMoveWindow \/ SyncFs \/ Flush \/ SyncData
  <2>1. over' = over
    BY <1>6, <1>14 DEF SyncWindow, ClearFlag, SetSector, SyncMoveWindow, SyncFs, Flush, SyncData,
      At, In,
      ReadWindow, InitVolume, MakeEntry, SyncReadWindow, SyncFsInfo
  <2>2. win' = win
    BY <1>6 DEF SyncWindow, ClearFlag, SetSector, SyncMoveWindow, SyncFs, Flush, SyncData, volume
  <2> QED BY <1>3, <2>1, <2>2
<1>7. CASE ReadWindow \/ SyncReadWindow
  <2>1. \E t \in {loc.target, DirSec} : ReadsWindow(t)
    BY <1>0, <1>7, ReadWindowReads, SyncReadWindowReads
  <2>2. win' = card[FatSec(c)]
    BY <1>2, <2>1 DEF ReadsWindow
  <2>3. card' = card
    BY <2>1 DEF ReadsWindow
  <2> QED BY <1>1, <2>2, <2>3 DEF FatOk
<1>8. CASE InitVolume
  <2>1. fs'.winsect \in {NoSec, InfoSec}
    <3>1. CASE fs' = [fs EXCEPT !.mounted = FALSE, !.wflag = FALSE, !.winsect = NoSec]
      BY <3>1 DEF Inv, Types, FsType
    <3>2. CASE fs' = [mounted |-> TRUE, wflag |-> FALSE, fsi |-> FALSE,
                      last |-> IF geo.fat32 THEN geo.hint ELSE NFat, winsect |-> InfoSec]
      BY <3>2
    <3> QED BY <1>8, <3>1, <3>2 DEF InitVolume
  <2> QED BY <1>2, <1>8, <2>1, NewOver
<1>9. CASE MakeEntry
  <2>1. fs'.winsect \in {NoSec, DirSec}
    BY <1>9 DEF MakeEntry, Inv, Types, FsType
  <2> QED BY <1>2, <1>9, <2>1, NewOver
<1>10. CASE RemovePut
  <2>1. /\ fs.winsect = FatSec(loc.clst) /\ loc.clst \in Cluster /\ loc.clst = geo.old
        /\ loc.clst \notin geo.others
    <3>1. pc = "rm_put" /\ goal = "rm_put"
      BY <1>10 DEF RemovePut, At, goal, Moving
    <3>2. ~opened
      BY <3>1 DEF Inv, StartInv, Starting
    <3>3. fs.winsect = FatSec(loc.clst) /\ loc.clst \in Cluster
      BY <3>1 DEF Inv, StartInv, ClusterInv
    <3>4. loc.clst = geo.old
      BY <1>0, <3>1, <3>2 DEF OldInv
    <3>5. geo.old \notin geo.others
      BY SdLogAssumption DEF Inv, Types, FlagType
    <3> QED BY <3>3, <3>4, <3>5
  <2>2. \/ UNCHANGED <<win, fs>>
        \/ win' = WithEntry(win, loc.clst, 0) /\ fs'.winsect = fs.winsect
    BY <1>10 DEF RemovePut, Inv, Types, FsType
  <2>3. 0 \in 0..NFat
    BY Numbers
  <2>4. over = fs.winsect /\ over' = fs'.winsect
    BY <1>10, NewOver
  <2> QED BY <1>3, <1>4, <2>1, <2>2, <2>3, <2>4
<1>11. CASE CreateMarked \/ CreateLinked
  <2>1. /\ pc \in {"c_marked", "c_linked"} /\ pc' \in {"c_link", "c_end"} /\ isr = "off"
        /\ goal = pc /\ fs'.mounted = fs.mounted /\ fs'.winsect = fs.winsect
        /\ opened' = opened
    BY <1>11 DEF CreateMarked, CreateLinked, At, Goto, goal, Moving, history, Inv, Types, FsType
  <2>2. opened
    BY <2>1 DEF Inv, StartInv, Starting, Resting
  <2>3. Before
    BY <1>0, <2>1, <2>2, MountedIsBefore DEF Writable
  <2>6. over = fs.winsect /\ over' = fs'.winsect
    BY <1>11, NewOver
  <2>4. CASE CreateMarked
    <3>1. loc.ncl \in Cluster /\ fs.winsect = FatSec(loc.ncl) /\ win' = WithEntry(win, loc.ncl, NFat)
             /\ pc = "c_marked"
      BY <1>0, <2>1, <2>3, <2>4, <2>6 DEF CreateMarked, At, Inv, ClusterInv, OverInv
    <3>2. win.entry[loc.ncl] = 0
      BY <1>0, <2>1, <2>3, <2>6, <3>1 DEF FatInv, View
    <3>3. loc.ncl \notin geo.others
      BY <1>1, <2>6, <3>1, <3>2, Numbers DEF FatOk
    <3>4. NFat \in 0..NFat
      BY Numbers
    <3> QED BY <1>4, <2>1, <2>6, <3>1, <3>3, <3>4
  <2>5. CASE CreateLinked
    <3>1. /\ loc.clst \in Cluster /\ fs.winsect = FatSec(loc.clst) /\ pc = "c_linked"
          /\ win' = WithEntry(win, loc.clst, loc.ncl) /\ loc.ncl \in Cluster
      BY <1>0, <2>1, <2>3, <2>5, <2>6 DEF CreateLinked, At, Inv, ClusterInv, OverInv
    <3>2. loc.clst \notin geo.others
      BY <1>0, <2>1, <2>3, <3>1 DEF FatInv
    <3>3. loc.ncl \in 0..NFat
      BY <3>1, Numbers
    <3> QED BY <1>4, <2>1, <2>6, <3>1, <3>2, <3>3
  <2> QED BY <1>11, <2>4, <2>5
<1>12. CASE SyncEntry
  <2>1. fs'.winsect = DirSec
    BY <1>0, <1>12 DEF SyncEntry, In, OverInv, Inv, Types, FsType
  <2> QED BY <1>2, <1>12, <2>1, NewOver
<1>13. CASE SyncFsInfo
  <2>1. over = fs.winsect /\ over' = fs'.winsect
    BY <1>13, NewOver
  <2> QED BY <1>2, <1>3, <1>13, <2>1, SyncFsInfoWrites
<1> QED BY <1>5, <1>6, <1>7, <1>8, <1>9, <1>10, <1>11, <1>12, <1>13, <1>14, VolumeSteps


\* What a step of main in the loop does to its place and its locals.
SameLocals == loc'.btw = loc.btw /\ loc'.clst = loc.clst /\ loc'.ncl = loc.ncl

LEMMA LoopSteps ==
    ASSUME Inv, Main, opened
    PROVE  \/ MoveWindow \/ SyncWindow \/ ClearFlag \/ ReadWindow \/ SetSector
           \/ TestSdmounted /\ goal = "loop" /\ goal' = "puts"
           \/ f_puts /\ goal = "puts" /\ (goal' = "loop" \/ (goal' = "chunk" /\ loc'.btw = LineSize))
           \/ Chunk /\ goal = "chunk" /\ SameLocals
                /\ goal' = IF loc.btw = 0 THEN "done" ELSE IF Off = 0 THEN "bound" ELSE "copy"
           \/ Boundary /\ goal = "bound" /\ goal' \in {"abort", "flush", "done", "c_next", "c_get"}
           \/ CreateGet /\ goal = "c_get" /\ goal' \in {"c_got", "abort"} /\ SameLocals
           \/ CreateGot /\ goal = "c_got" /\ goal' \in {"abort", "flush", "c_next"}
           \/ CreateNext /\ goal = "c_next" /\ goal' \in {"done", "abort", "c_try"}
                /\ loc'.btw = loc.btw /\ loc'.clst = loc.clst
           \/ CreateTry /\ goal = "c_try" /\ goal' \in {"c_mark", "abort", "done", "c_next"} /\ SameLocals
           \/ CreateMark /\ goal = "c_mark" /\ goal' \in {"c_marked", "abort"} /\ SameLocals
           \/ CreateMarked /\ goal = "c_marked" /\ SameLocals
                /\ goal' = IF loc.clst # 0 THEN "c_link" ELSE "c_end"
           \/ CreateLink /\ goal = "c_link" /\ goal' \in {"c_linked", "abort"} /\ SameLocals
           \/ CreateLinked /\ goal = "c_linked" /\ goal' = "c_end" /\ SameLocals
           \/ CreateEnd /\ goal = "c_end" /\ goal' = "flush" /\ SameLocals
           \/ Flush /\ goal = "flush" /\ goal' \in {"sector", "abort"} /\ SameLocals
           \/ NextSector /\ goal = "sector" /\ goal' \in {"copy", "abort"} /\ SameLocals
           \/ Copy /\ goal = "copy" /\ goal' = "mark" /\ SameLocals
           \/ MarkDirty /\ goal = "mark" /\ goal' = "next" /\ SameLocals
           \/ Advance /\ goal = "next" /\ goal' = "chunk"
                /\ loc'.btw = loc.btw - wcnt /\ loc'.clst = loc.clst /\ loc'.ncl = loc.ncl
           \/ Done /\ goal = "done" /\ goal' = "loop"
           \/ Abort /\ goal = "abort" /\ goal' = "loop"
<1> USE DEF Inv, Types, LocType, At, Goto, goal, Moving, SameLocals
<1>1. ~(Attach \/ f_mount \/ FindVolume \/ VolumeStatus \/ InitVolume \/ f_open \/ MakeEntry \/ RemoveGet
        \/ RemovePut \/ RemoveBack \/ Opened)
  BY DEF Attach, f_mount, FindVolume, VolumeStatus, InitVolume, f_open, MakeEntry, RemoveGet,
    RemovePut,
    RemoveBack, Opened, Get, StartInv, Starting
<1>2. CASE TestSdmounted
  BY <1>2 DEF TestSdmounted
<1>3. CASE f_puts
  BY <1>3 DEF f_puts
<1>4. CASE Chunk
  BY <1>4 DEF Chunk, Off
<1>5. CASE Boundary
  BY <1>5 DEF Boundary
<1>6. CASE CreateGet
  <2>1. CASE fs.mounted
    <3>1. Move(FatSec(loc.clst), "c_got")
      BY <1>6, <2>1 DEF CreateGet, Get
    <3>2. goal' = "c_got" /\ SameLocals
      BY <3>1, MoveTarget
    <3>3. goal = "c_get"
      BY <1>6 DEF CreateGet, Get
    <3> QED BY <1>6, <3>2, <3>3
  <2>2. CASE ~fs.mounted
    BY <1>6, <2>2 DEF CreateGet, Get
  <2> QED BY <2>1, <2>2
<1>7. CASE CreateGot
  BY <1>7 DEF CreateGot
<1>8. CASE CreateNext
  BY <1>8 DEF CreateNext
<1>9. CASE CreateTry
  BY <1>9 DEF CreateTry
<1>10. CASE CreateMark
  <2>1. CASE fs.mounted
    <3>1. Move(FatSec(loc.ncl), "c_marked")
      BY <1>10, <2>1 DEF CreateMark, Put
    <3>2. goal' = "c_marked" /\ SameLocals
      BY <3>1, MoveTarget
    <3>3. goal = "c_mark"
      BY <1>10 DEF CreateMark, Put
    <3> QED BY <1>10, <3>2, <3>3
  <2>2. CASE ~fs.mounted
    BY <1>10, <2>2 DEF CreateMark, Put
  <2> QED BY <2>1, <2>2
<1>11. CASE CreateMarked
  BY <1>11 DEF CreateMarked
<1>12. CASE CreateLink
  <2>1. CASE fs.mounted
    <3>1. Move(FatSec(loc.clst), "c_linked")
      BY <1>12, <2>1 DEF CreateLink, Put
    <3>2. goal' = "c_linked" /\ SameLocals
      BY <3>1, MoveTarget
    <3>3. goal = "c_link"
      BY <1>12 DEF CreateLink, Put
    <3> QED BY <1>12, <3>2, <3>3
  <2>2. CASE ~fs.mounted
    BY <1>12, <2>2 DEF CreateLink, Put
  <2> QED BY <2>1, <2>2
<1>13. CASE CreateLinked
  BY <1>13 DEF CreateLinked
<1>14. CASE CreateEnd
  BY <1>14 DEF CreateEnd
<1>15. CASE Flush
  BY <1>15 DEF Flush
<1>16. CASE NextSector
  BY <1>16 DEF NextSector
<1>17. CASE Copy
  BY <1>17 DEF Copy
<1>18. CASE MarkDirty
  BY <1>18 DEF MarkDirty
<1>19. CASE Advance
  BY <1>19 DEF Advance
<1>20. CASE Done
  BY <1>20 DEF Done
<1>21. CASE Abort
  BY <1>21 DEF Abort
<1> HIDE DEF Inv, goal, SameLocals, At, Goto
<1> QED BY <1>1, <1>2, <1>3, <1>4, <1>5, <1>6, <1>7, <1>8, <1>9, <1>10, <1>11, <1>12, <1>13, <1>14,
      <1>15, <1>16, <1>17, <1>18, <1>19, <1>20, <1>21 DEF Main

\* What main sees of the FAT changes where it puts an entry, and nowhere else.
LEMMA ViewSteps ==
    ASSUME Inv, StopInv, WindowInv, SyncInv, OverInv, FatInv, [Next]_vars, geo' = geo,
           opened, Before', Sound', NEW c \in Cluster
    PROVE  /\ ~CreateMarked /\ ~CreateLinked => View(c)' = View(c)
           /\ CreateMarked => View(c)' = IF c = loc.ncl THEN NFat ELSE View(c)
           /\ CreateLinked => View(c)' = IF c = loc.clst THEN loc.ncl ELSE View(c)
<1>0. Sound /\ Before /\ Writable
  BY SoundStays, BeforeStays DEF Before, validate, Writable
<1>3. Writable'
  BY DEF Before, validate, Writable
<1>4. over' = over \/ ReadWindow \/ InitVolume \/ MakeEntry \/ SyncReadWindow \/ SyncFsInfo
  BY <1>3, OverSteps
<1>1. CASE CreateMarked \/ CreateLinked
  <2> DEFINE d == IF CreateMarked THEN loc.ncl ELSE loc.clst
             v == IF CreateMarked THEN NFat ELSE loc.ncl
  <2>1. /\ d \in Cluster /\ v \in 0..NFat /\ over = FatSec(d) /\ over' = over
        /\ win' = WithEntry(win, d, v) /\ card' = card /\ ~(CreateMarked /\ CreateLinked)
    <3>1. ~(CreateMarked /\ CreateLinked)
      BY DEF CreateMarked, CreateLinked, At
    <3>2. CASE CreateMarked
      <4>1. /\ pc = "c_marked" /\ isr = "off" /\ UNCHANGED card /\ win' = WithEntry(win, loc.ncl, NFat)
            /\ over' = over
        BY <1>4, <3>2 DEF ReadWindow, InitVolume, MakeEntry, SyncReadWindow, SyncFsInfo, In,
          CreateMarked, At, Inv, Types, FsType
      <4>2. loc.ncl \in Cluster /\ over = FatSec(loc.ncl)
        BY <1>0, <4>1 DEF OverInv, InWindow, Inv, ClusterInv, goal, Moving
      <4> QED BY <3>1, <3>2, <4>1, <4>2, Numbers
    <3>3. CASE CreateLinked
      <4>1. /\ pc = "c_linked" /\ isr = "off" /\ UNCHANGED card /\ win' = WithEntry(win, loc.clst, loc.ncl)
            /\ over' = over
        BY <1>4, <3>3 DEF ReadWindow, InitVolume, MakeEntry, SyncReadWindow, SyncFsInfo, In,
          CreateLinked, At, Inv, Types, FsType
      <4>2. loc.clst \in Cluster /\ over = FatSec(loc.clst) /\ loc.ncl \in Cluster
        BY <1>0, <4>1 DEF OverInv, InWindow, Inv, ClusterInv, goal, Moving
      <4> QED BY <3>1, <3>3, <4>1, <4>2, Numbers
    <3> QED BY <1>1, <3>2, <3>3
  <2> HIDE DEF d, v
  <2>2. FatOk(win, d)
    BY <1>0, <2>1 DEF FatInv, InWindow
  <2>3. win'.entry[d] = v /\ \A e \in Cluster \ {d} : win'.entry[e] = win.entry[e]
    BY <2>1, <2>2, PutEntry DEF InWindow
  <2>4. View(c)' = IF c = d THEN v ELSE View(c)
    BY <2>1, <2>3 DEF View, InWindow
  <2> QED BY <1>1, <2>1, <2>4 DEF d, v
<1>2. ASSUME ~CreateMarked, ~CreateLinked
      PROVE  View(c)' = View(c)
  <2>1. CASE VolumeKept /\ over' = over
    BY <2>1, ViewStays DEF VolumeKept
  <2>2. CASE SyncWindow \/ ClearFlag
    BY <1>0, <2>2, SyncWindowWrites, ClearFlagWrites, ViewStays
  <2>9. CASE SetSector
    BY <2>9, SetSectorKeeps, ViewStays
  <2>3. CASE SyncMoveWindow
    <3>1. WritesWindow \/ UNCHANGED <<card, win>>
      BY <1>0, <2>3, SyncMoveWindowWrites
    <3>2. over' = over
      BY <1>4, <2>3 DEF SyncMoveWindow, In, ReadWindow, InitVolume, MakeEntry, SyncReadWindow,
        SyncFsInfo, At
    <3> QED BY <3>1, <3>2, ViewStays
  <2>4. CASE ReadWindow
    <3>1. ReadsWindow(loc.target) /\ pc = "mw_read" /\ isr = "off"
      BY <1>0, <2>4, ReadWindowReads
    <3>2. ~fs.wflag
      BY <1>0, <3>1 DEF WindowInv, Before, Sound
    <3>3. loc.target \in Here
      BY DEF Inv, Types, LocType
    <3> QED BY <1>0, <3>1, <3>2, <3>3, ViewStays
  <2>5. CASE SyncReadWindow
    <3>1. ReadsWindow(DirSec) /\ isr = "read"
      BY <1>0, <2>5, SyncReadWindowReads
    <3>2. ~fs.wflag
      BY <3>1 DEF OverInv
    <3>3. DirSec \in Here
      BY HereHas DEF Inv, Types
    <3> QED BY <1>0, <3>1, <3>2, <3>3, ViewStays
  <2>6. CASE Flush \/ SyncData
    <3>1. WritesBuffer \/ UNCHANGED card
      BY <1>0, <2>6, FlushWrites, SyncDataWrites
    <3>2. over' = over /\ UNCHANGED win
      BY <1>4, <2>6 DEF Flush, SyncData, In, ReadWindow, InitVolume, MakeEntry, SyncReadWindow,
        SyncFsInfo, At,
        volume
    <3> QED BY <3>1, <3>2, ViewStays
  <2>7. ~(InitVolume \/ MakeEntry \/ RemovePut)
    BY DEF InitVolume, MakeEntry, RemovePut, At, Inv, StartInv, goal, Moving, Starting
  <2>8. ~(SyncEntry \/ SyncFs \/ SyncFsInfo)
    BY DEF SyncEntry, SyncFs, SyncFsInfo, In, Then, Before
  <2> QED BY <1>2, <2>1, <2>2, <2>3, <2>4, <2>5, <2>6, <2>7, <2>8, <2>9, <1>4, VolumeSteps
<1> QED BY <1>1, <1>2

\* The cluster that is going to be linked is free, and the one it is linked to the file's.
LEMMA AimStep ==
    ASSUME Inv, StopInv, WindowInv, SyncInv, OverInv, FatInv, FileInv, [Next]_vars, geo' = geo,
           Before', Sound'
    PROVE  /\ goal' \in {"c_mark", "c_marked"} => (View(loc.ncl) = 0)'
           /\ goal' \in {"c_link", "c_linked"} => loc'.clst \notin geo.others
<1> SUFFICES ASSUME goal' \in {"c_mark", "c_marked", "c_link", "c_linked"}
             PROVE  /\ goal' \in {"c_mark", "c_marked"} => (View(loc.ncl) = 0)'
                    /\ goal' \in {"c_link", "c_linked"} => loc'.clst \notin geo.others
  OBVIOUS
<1>0. ~Opened /\ opened
  <2>1. ~Opened
    BY DEF Opened, Goto, goal, Moving
  <2> QED BY <2>1, OpenedSteps DEF Before
<1>1. Sound /\ Before
  BY <1>0, SoundStays, BeforeStays
<1>2. /\ goal \in {"c_mark", "c_marked"} => View(loc.ncl) = 0
      /\ goal \in {"c_link", "c_linked"} => loc.clst \notin geo.others
  BY <1>1 DEF FatInv
<1>3. CASE ~Main /\ UNCHANGED <<pc, loc>>
  <2>1. ~CreateMarked /\ ~CreateLinked /\ goal' = goal
    BY <1>3 DEF Main, goal
  <2>2. goal \in {"c_mark", "c_marked"} => View(loc.ncl)' = View(loc.ncl) /\ loc'.ncl = loc.ncl
    BY <1>0, <1>3, <2>1, ViewSteps DEF Inv, ClusterInv
  <2> QED BY <1>2, <1>3, <2>1, <2>2 DEF View, InWindow
<1>4. CASE Main
  <2>1. CASE MoveWindow \/ SyncWindow \/ ClearFlag \/ ReadWindow \/ SetSector
    <3>1. goal' = goal /\ loc'.ncl = loc.ncl /\ loc'.clst = loc.clst
      BY <2>1, MovingSteps
    <3>2. ~CreateMarked /\ ~CreateLinked
      BY <2>1 DEF MoveWindow, SyncWindow, ClearFlag, ReadWindow, SetSector, CreateMarked,
        CreateLinked, At
    <3>3. goal \in {"c_mark", "c_marked"} => View(loc.ncl)' = View(loc.ncl)
      BY <1>0, <3>1, <3>2, ViewSteps DEF Inv, ClusterInv
    <3> QED BY <1>2, <3>1, <3>3 DEF View, InWindow
  <2>2. CASE CreateTry /\ goal = "c_try" /\ goal' = "c_mark" /\ SameLocals
    <3>1. /\ pc = "c_try" /\ isr = "off" /\ loc.ncl \in Cluster /\ UNCHANGED <<card, fs, win>>
          /\ pc' = "c_mark"
      BY <2>2 DEF CreateTry, At, Goto, goal, Moving, volume, Inv, ClusterInv
    <3>2. InWindow(loc.ncl)
      BY <1>1, <3>1 DEF OverInv
    <3>3. FatOk(win, loc.ncl)
      BY <1>1, <3>1, <3>2 DEF FatInv, Before, validate, Writable
    <3>4. \E cs \in Entry(win, loc.ncl) : cs = 0
      BY <3>1, <2>2 DEF CreateTry, Goto
    <3>5. win.entry[loc.ncl] = 0
      BY <3>3, <3>4 DEF Entry, FatOk
    <3>6. loc'.ncl = loc.ncl
      BY <2>2 DEF SameLocals
    <3>7. over' = over
      BY <3>1 DEF over
    <3> QED BY <2>2, <3>1, <3>2, <3>5, <3>6, <3>7 DEF View, InWindow
  <2>3. CASE CreateMark /\ goal = "c_mark" /\ goal' = "c_marked" /\ SameLocals
    <3>1. UNCHANGED <<card, win>> /\ over' = over
      <4>1. UNCHANGED <<card, fs, win>> /\ pc = "c_mark" /\ Main
        BY <2>3 DEF CreateMark, Put, volume, At, Main
      <4>2. pc' # "mw_set"
        BY <4>1, PlaceSteps DEF ReadWindow, At
      <4> QED BY <4>1, <4>2 DEF over
    <3> QED BY <1>2, <2>3, <3>1 DEF View, InWindow, SameLocals
  <2>4. CASE CreateMarked /\ goal = "c_marked" /\ goal' = "c_link" /\ SameLocals /\ loc.clst # 0
    <3>1. PICK len \in 0..Clusters : \E p \in [0..len - 1 -> Cluster] : FileOk(p, len)
      BY <1>0, <1>1 DEF FileInv
    <3>2. PICK p \in [0..len - 1 -> Cluster] : FileOk(p, len)
      BY <3>1
    <3>3. loc.clst = IF len = 0 THEN 0 ELSE p[len - 1]
      BY <1>1, <2>4, <3>2 DEF FileOk, ChainOk
    <3>4. len - 1 \in 0..len - 1
      BY <2>4, <3>3, Numbers DEF NFat
    <3> QED BY <2>4, <3>2, <3>3, <3>4 DEF FileOk, PathOk, SameLocals
  <2>5. CASE CreateLink /\ goal = "c_link" /\ goal' = "c_linked" /\ SameLocals
    BY <1>2, <2>5 DEF SameLocals
  <2> HIDE DEF goal
  <2> QED BY <1>0, <1>4, <2>1, <2>2, <2>3, <2>4, <2>5, LoopSteps
<1> QED BY <1>3, <1>4, MainMoves


LEMMA FatInvStep ==
    ASSUME Inv, StopInv, WindowInv, SyncInv, ClosedInv, OverInv, FatInv, OldInv, FileInv,
           [Next]_vars, geo' = geo
    PROVE  FatInv'
<1>1. ASSUME Sound' PROVE \A c \in Cluster : FatOk(card[FatSec(c)], c)'
  BY <1>1, FatOnCard
<1>2. ASSUME Sound', Writable' PROVE \A c \in Cluster : InWindow(c)' => FatOk(win, c)'
  BY <1>2, FatInWindow
<1> QED BY <1>1, <1>2, AimStep DEF FatInv

-----------------------------------------------------------------------------
(***************************************************************************)
(* A line on its way into the buffer.                                      *)
(***************************************************************************)
LEMMA SamePlace ==
    ASSUME fil'.fptr = fil.fptr, geo' = geo
    PROVE  /\ Nr' = Nr /\ Off' = Off /\ csect' = csect
           /\ loc'.btw = loc.btw => wcnt' = wcnt
BY DEF Nr, Off, csect, wcnt

\* As much as fits goes into the sector, and something does.
LEMMA Portion ==
    ASSUME Inv, loc.btw > 0
    PROVE  /\ wcnt \in 1..loc.btw /\ Off + wcnt \in 1..SectorSize
           /\ Off = 0 => wcnt = loc.btw
<1> DEFINE room == SectorSize - Off
<1>1. /\ SectorSize \in Nat \ {0} /\ LineSize \in 1..SectorSize
      /\ loc.btw \in 1..LineSize /\ Off \in 0..SectorSize - 1
  BY Numbers, Position DEF Inv, Types, LocType
<1>2. wcnt = IF room > loc.btw THEN loc.btw ELSE room
  BY DEF wcnt, Off
<1>3. room \in 1..SectorSize /\ (Off = 0 => room = SectorSize)
  BY <1>1
<1>4. wcnt \in 1..loc.btw /\ wcnt <= room
  BY <1>1, <1>2, <1>3
<1>5. Off = 0 => wcnt = loc.btw
  BY <1>1, <1>2, <1>3
<1> HIDE DEF Off, wcnt
<1>6. Off + wcnt \in 1..SectorSize
  BY <1>1, <1>4
<1> QED BY <1>4, <1>5, <1>6

\* What has gone wrong once is not tried again.
LEMMA ErrStep ==
    ASSUME Inv, LineInv, [Next]_vars, opened, ~Opened
    PROVE  goal' \in Writing => ~fil'.err
<1>0. Returns \cap {"rm_put", "opened"} = {"rm_put", "opened"} /\ "loop" \notin Writing /\ "puts" \notin Writing
      /\ "abort" \in Writing /\ "chunk" \in Writing /\ "loop" \notin Writing
  BY DEF Returns, Writing, Creating
<1>1. CASE UNCHANGED <<pc, loc>> /\ ~Main
  <2>1. goal' = goal /\ fil'.err = fil.err
    BY <1>1, ClustSteps DEF goal, Main
  <2> QED BY <2>1 DEF LineInv
<1>2. CASE Main
  <2>1. CASE MoveWindow \/ SyncWindow \/ ClearFlag \/ ReadWindow \/ SetSector
    <3>1. goal' \in {goal, "loop", "abort"} /\ fil' = fil /\ (goal' = "abort" => goal \notin Starting)
             /\ goal \in Returns
      BY <2>1, MovingSteps
    <3>2. goal' \in Writing => goal \in Writing
      BY <3>1 DEF Returns, Starting, Writing, Creating
    <3> QED BY <3>1, <3>2 DEF LineInv
  <2>2. CASE f_puts /\ goal = "puts" /\ (goal' = "loop" \/ (goal' = "chunk" /\ loc'.btw = LineSize))
    <3>1. fil' = fil /\ (goal' = "chunk" => ~fil.err)
      BY <2>2 DEF f_puts, file, Goto, goal, Moving
    <3> QED BY <1>0, <2>2, <3>1
  <2>3. CASE goal' \in {"loop", "puts"}
    BY <1>0, <2>3
  <2>4. CASE goal \in Writing /\ ~Abort
    BY <2>4, ClustSteps DEF LineInv
  <2>5. Abort => goal' = "loop"
    BY DEF Abort, Goto, goal, Moving
  <2> HIDE DEF goal
  <2> QED BY <1>2, <2>1, <2>2, <2>3, <2>4, <2>5, LoopSteps DEF Writing, Creating
<1> QED BY <1>1, <1>2, MainMoves

LEMMA LineInvStep ==
    ASSUME Inv, Inv', StopInv, LineInv, [Next]_vars, geo' = geo
    PROVE  LineInv'
<1>1. CASE ~opened'
  <2>1. goal' \in Starting \cup Resting
    BY <1>1 DEF Inv, StartInv
  <2> QED BY <1>1, <2>1 DEF LineInv, Starting, Resting, Writing, Creating, Before
<1>2. CASE Opened
  <2>1. goal' = "loop" /\ isr' = "off"
    BY <1>2 DEF Opened, At, Goto, goal, Moving, button
  <2> QED BY <2>1 DEF LineInv, Writing, Creating
<1> SUFFICES ASSUME opened, ~Opened PROVE LineInv'
  BY <1>1, <1>2, OpenedSteps
<1>3. /\ Before' => Before /\ (isr' = "off" => isr = "off")
      /\ goal' \in Writing => ~fil'.err
  BY BeforeStays, ErrStep
<1>4. CASE ~Main /\ UNCHANGED <<pc, loc>>
  <2>1. fil'.fptr = fil.fptr /\ buf' = buf /\ goal' = goal
    BY <1>4, FileSteps, BufSteps DEF Main, goal
  <2>2. Nr' = Nr /\ Off' = Off /\ csect' = csect /\ wcnt' = wcnt
    BY <1>4, <2>1, SamePlace
  <2>3. fil'.fs => fil.fs
    BY FileSteps, <1>4 DEF PlaceKept, Main
  <2>4. CASE fil'.dirty = fil.dirty
    <3>1. Before' /\ isr' \in {"window", "read", "entry"} => ~fil.dirty
      <4>1. CASE SyncData
        BY <2>4, <4>1 DEF SyncData, Then, Inv, Types, FilType
      <4>2. CASE ~SyncData
        <5>1. ~(isr = "data" /\ isr' = "window")
          BY <4>2, <1>4, MainAlone DEF Next, Handler, Press, vars, button, In, Then, Interrupt,
            SyncValidate, SyncMoveWindow, SyncReadWindow, SyncEntry, SyncFs, SyncFsInfo, f_close,
            Unmount
        <5>2. Before' /\ isr' \in {"window", "read", "entry"} => isr \in {"window", "read", "entry"}
          BY <5>1, IsrSteps DEF Interrupt
        <5> QED BY <1>3, <5>2 DEF LineInv
      <4> QED BY <4>1, <4>2
    <3>2. Before' /\ isr' \in {"off", "validate", "data"} => isr \in {"off", "validate", "data"}
      BY <1>3, IsrSteps DEF Interrupt
    <3> QED BY <1>3, <1>4, <2>1, <2>2, <2>3, <2>4, <3>1, <3>2 DEF LineInv
  <2>5. CASE fil'.dirty # fil.dirty
    <3>1. SyncData
      BY <1>4, <2>5, FileSteps DEF Main
    <3>2. isr' \in {"window", "unmount"} /\ fil.dirty
      <4>1. isr = "data" /\ isr' # "data"
        BY <3>1 DEF SyncData, In, Then
      <4>2. isr' \in {"window", "unmount"}
        BY <3>1, <4>1, IsrSteps DEF Interrupt
      <4> QED BY <2>5, <3>1, <4>2 DEF SyncData
    <3>3. fil'.dirty \in BOOLEAN /\ fil.dirty \in BOOLEAN
      BY DEF Inv, Types, FilType
    <3>4. ~fil'.dirty
      BY <2>5, <3>2, <3>3
    <3> QED BY <1>3, <1>4, <2>1, <2>2, <2>3, <3>2, <3>4 DEF LineInv, Before
  <2> QED BY <2>4, <2>5
<1>5. CASE Main
  <2>0. isr = "off" /\ isr' = "off"
    BY <1>5, MainAlone DEF button
  <2>1. CASE MoveWindow \/ SyncWindow \/ ClearFlag \/ ReadWindow \/ SetSector
    <3>1. /\ goal' \in {goal, "loop", "abort"} /\ UNCHANGED <<fil, buf>> /\ loc'.btw = loc.btw
      BY <2>1, MovingSteps
    <3>2. Nr' = Nr /\ Off' = Off /\ csect' = csect /\ wcnt' = wcnt
      BY <3>1, SamePlace
    <3> QED BY <1>3, <2>0, <3>1, <3>2 DEF LineInv, Writing, Creating
  <2>2. CASE goal' \in {"puts", "loop", "chunk", "done", "abort"}
    BY <1>3, <2>0, <2>2 DEF LineInv, Writing, Creating
  <2>3. ~Advance => Nr' = Nr /\ Off' = Off /\ csect' = csect /\ (loc'.btw = loc.btw => wcnt' = wcnt)
    BY FileSteps, SamePlace
  <2>4. CASE Chunk /\ goal' \in {"bound", "copy"}
    <3>1. /\ loc.btw # 0 /\ loc'.btw = loc.btw /\ goal' = IF Off = 0 THEN "bound" ELSE "copy"
      BY <2>4, LoopSteps DEF Chunk, At, Goto, Off, goal, Moving
    <3>2. Off' = Off /\ loc'.btw > 0
      BY <2>3, <2>4, <3>1, Numbers DEF Chunk, Advance, At, Inv, Types, LocType
    <3> QED BY <1>3, <2>0, <3>1, <3>2 DEF LineInv, Writing, Creating
  <2>5. CASE Boundary /\ goal' \in {"flush", "c_next", "c_get"}
    <3>1. /\ goal = "bound" /\ loc'.btw = loc.btw /\ fil'.fs = fil.fs /\ fil'.fptr = fil.fptr
          /\ fil.fs /\ goal' \in {"c_next", "c_get"} => csect = 0
          /\ goal' = "c_get" => fil.fptr # 0
      BY <2>5 DEF Boundary, At, Goto, goal, Moving, Inv, Types, LocType, FilType
    <3>2. Off' = Off /\ csect' = csect
      BY <3>1, SamePlace
    <3>3. fil.fptr \in Nat
      BY Numbers DEF Inv, Types, FilType
    <3>4. loc.btw > 0 /\ Off = 0
      BY <3>1 DEF LineInv, Writing, Creating
    <3>5. fil'.fptr > 0 \/ goal' # "c_get"
      BY <3>1, <3>3
    <3> QED BY <1>3, <2>0, <2>5, <3>1, <3>2, <3>4, <3>5 DEF LineInv, Writing, Creating
  <2>6. CASE /\ CreateGet \/ CreateGot \/ CreateNext \/ CreateTry \/ CreateMark \/ CreateMarked
                \/ CreateLink \/ CreateLinked \/ CreateEnd
             /\ goal' \notin {"abort", "done"}
    <3>1. /\ goal \in Creating /\ loc'.btw = loc.btw
          /\ goal' \in Creating \cup {"flush"} /\ (goal' \in {"c_get", "c_got"} => goal = "c_get")
      <4>1. CASE CreateGot
        <5>1. goal = "c_got" /\ loc'.btw = loc.btw
          BY <4>1 DEF CreateGot, At, goal, Moving, Inv, Types, LocType
        <5>2. goal' \in {"abort", "flush", "c_next"}
          BY <4>1 DEF CreateGot, Goto, goal, Moving
        <5> QED BY <2>6, <5>1, <5>2 DEF Creating
      <4>2. CASE ~CreateGot
        BY <1>5, <2>6, <4>2, LoopSteps DEF Creating, SameLocals, At, Get, Put, TestSdmounted,
          f_puts,
          Chunk, Boundary, Flush, NextSector, Copy, MarkDirty, Advance, Done, Abort, CreateGet,
          CreateNext, CreateTry, CreateMark, CreateMarked, CreateLink, CreateLinked, CreateEnd,
          MoveWindow, SyncWindow, ClearFlag, ReadWindow, SetSector
      <4> QED BY <4>1, <4>2
    <3>2. fil'.fs => fil.fs
      BY <2>6, FileSteps DEF PlaceKept, NextSector, At, Get, Put, CreateGet, CreateGot, CreateNext,
        CreateTry, CreateMark, CreateMarked, CreateLink, CreateLinked, CreateEnd
    <3>3. /\ fil'.fptr = fil.fptr
      BY <2>6, FileSteps DEF Advance, At, Get, Put, CreateGet, CreateGot, CreateNext,
        CreateTry, CreateMark, CreateMarked, CreateLink, CreateLinked, CreateEnd
    <3>4. Off' = Off /\ csect' = csect
      BY <3>3, SamePlace
    <3> QED BY <1>3, <2>0, <3>1, <3>2, <3>3, <3>4 DEF LineInv, Writing, Creating
  <2>7. CASE Flush /\ goal' = "sector"
    <3>1. goal = "flush" /\ loc'.btw = loc.btw /\ ~fil'.dirty
      BY <2>7 DEF Flush, At, Goto, goal, Moving, Inv, Types, FilType
    <3>2. Off' = Off
      BY <2>3, <2>7 DEF Flush, Advance, At
    <3> QED BY <1>3, <2>0, <2>7, <3>1, <3>2 DEF LineInv, Writing, Creating
  <2>8. CASE NextSector /\ goal' = "copy"
    <3>1. goal = "sector" /\ loc'.btw = loc.btw /\ fil'.dirty = fil.dirty
      BY <2>8 DEF NextSector, At, Goto, goal, Moving, Inv, Types, FilType
    <3>2. Off' = Off
      BY <2>3, <2>8 DEF NextSector, Advance, At
    <3> QED BY <1>3, <2>0, <2>8, <3>1, <3>2 DEF LineInv, Writing, Creating
  <2>9. CASE Copy
    <3>1. goal = "copy" /\ goal' = "mark" /\ loc'.btw = loc.btw
          /\ buf' = DataOf("log", Nr, Off + wcnt)
      BY <2>9 DEF Copy, At, Goto, goal, Moving, Nr, Off
    <3>2. Nr' = Nr /\ Off' = Off /\ wcnt' = wcnt
      BY <2>3, <2>9, <3>1 DEF Copy, Advance, At
    <3> QED BY <1>3, <2>0, <3>1, <3>2 DEF LineInv, Writing, Creating
  <2>10. CASE MarkDirty
    <3>1. goal = "mark" /\ goal' = "next" /\ loc'.btw = loc.btw /\ buf' = buf /\ fil'.dirty
      BY <2>10 DEF MarkDirty, At, Goto, goal, Moving, Inv, Types, FilType
    <3>2. Nr' = Nr /\ Off' = Off /\ wcnt' = wcnt
      BY <2>3, <2>10, <3>1 DEF MarkDirty, Advance, At
    <3> QED BY <1>3, <2>0, <3>1, <3>2 DEF LineInv, Writing, Creating
  <2> HIDE DEF goal
  <2> QED BY <1>5, <2>1, <2>2, <2>4, <2>5, <2>6, <2>7, <2>8, <2>9, <2>10, LoopSteps
<1> QED BY <1>4, <1>5, MainMoves


-----------------------------------------------------------------------------
(***************************************************************************)
(* The old log, until f_open has succeeded.                                *)
(***************************************************************************)
LEMMA StartSteps ==
    ASSUME Inv, Main, ~opened, ~opened'
    PROVE  \/ MoveWindow \/ SyncWindow \/ ClearFlag \/ ReadWindow \/ SetSector
           \/ VolumeKept /\ goal \in Beginning /\ goal' \in Beginning \cup Resting
           \/ VolumeKept /\ goal' \in Resting
           \/ InitVolume /\ goal = "init" /\ goal' \in {"open", "entry", "loop"}
           \/ MakeEntry /\ goal = "entry"
           \/ VolumeKept /\ goal = "rm_get" /\ goal' = "rm_put" /\ loc'.clst = loc.clst
           \/ RemovePut /\ goal = "rm_put"
           \/ VolumeKept /\ goal = "rm_back" /\ goal' = "opened"
<1> USE DEF Inv, Types, LocType, FsType, At, Goto, goal, Moving, VolumeKept, volume, Beginning,
  Resting
<1>1. goal \in Starting \cup Resting /\ ~fil.fs
  BY DEF StartInv
<1>2. CASE Attach
  BY <1>2 DEF Attach
<1>3. CASE f_mount
  BY <1>3 DEF f_mount
<1>4. CASE FindVolume
  BY <1>4 DEF FindVolume
<1>15. CASE VolumeStatus
  <2>1. pc = "status" /\ loc.ret \in {"open", "entry"}
    BY <1>15 DEF VolumeStatus, PlaceType, Finding
  <2> QED BY <1>15, <2>1 DEF VolumeStatus
<1>5. CASE InitVolume
  <2>1. pc = "init" /\ loc.ret \in {"open", "entry"}
    BY <1>5 DEF InitVolume, PlaceType, Finding
  <2> QED BY <1>5, <2>1 DEF InitVolume
<1>6. CASE f_open
  BY <1>6 DEF f_open
<1>7. CASE MakeEntry
  BY <1>7 DEF MakeEntry
<1>8. CASE RemoveGet
  <2>1. CASE fs.mounted
    <3>1. Move(FatSec(loc.clst), "rm_put")
      BY <1>8, <2>1 DEF RemoveGet, Get
    <3>2. goal' = "rm_put" /\ loc'.clst = loc.clst
      BY <3>1, MoveTarget
    <3>3. goal = "rm_get" /\ VolumeKept
      BY <1>8 DEF RemoveGet, Get
    <3> QED BY <3>2, <3>3
  <2>2. CASE ~fs.mounted
    BY <1>8, <2>2 DEF RemoveGet, Get
  <2> QED BY <2>1, <2>2
<1>9. CASE RemovePut
  BY <1>9 DEF RemovePut
<1>10. CASE RemoveBack
  <2>1. Move(DirSec, "opened")
    BY <1>10 DEF RemoveBack
  <2>2. goal' = "opened"
    BY <2>1, MoveTarget
  <2>3. goal = "rm_back" /\ VolumeKept
    BY <1>10 DEF RemoveBack
  <2> QED BY <2>2, <2>3
<1>11. CASE TestSdmounted
  BY <1>11 DEF TestSdmounted
<1>12. CASE f_puts
  BY <1>1, <1>12 DEF f_puts, validate
<1>13. ~Opened
  BY DEF Opened
<1>14. ~(\/ Chunk \/ Boundary
        \/ CreateGet \/ CreateGot \/ CreateNext \/ CreateTry \/ CreateMark
        \/ CreateMarked \/ CreateLink \/ CreateLinked \/ CreateEnd
        \/ Flush \/ NextSector \/ Copy \/ MarkDirty \/ Advance \/ Done \/ Abort)
  BY <1>1 DEF Starting, Chunk, Boundary, CreateGet, CreateGot, CreateNext, CreateTry, CreateMark,
    CreateMarked, CreateLink, CreateLinked, CreateEnd, Flush, NextSector, Copy, MarkDirty,
    Advance, Done, Abort, Get, Put
<1> HIDE DEF Inv, goal, At, Goto, VolumeKept
<1> QED BY <1>2, <1>3, <1>4, <1>5, <1>6, <1>7, <1>8, <1>9, <1>10, <1>11, <1>12, <1>13, <1>14,
  <1>15 DEF Main

LEMMA OldInvStep ==
    ASSUME Inv, StopInv, WindowInv, SyncInv, OverInv, FatInv, OldInv, [Next]_vars, geo' = geo
    PROVE  OldInv'
<1> SUFFICES ASSUME Sound', ~opened' PROVE OldInv'
  BY DEF OldInv
<1>0. Sound /\ ~opened
  BY SoundStays, OpenedStays
<1> DEFINE old == geo.old
           oldSec == DataSec(old, 0, geo.csize)
<1>1. /\ geo.old \in {0} \cup Cluster /\ geo.csize \in Nat \ {0} /\ DirSec \in Here
      /\ old # 0 => /\ old \in Cluster /\ oldSec \in Here /\ ~NoData(oldSec)
                    /\ FatSec(old) \in Here
                    /\ FatSec(old) \notin {DirSec, NoSec, InfoSec}
  <2>1. geo.old \in {0} \cup Cluster /\ geo.csize \in Nat \ {0}
    BY DEF Inv, Types, FlagType, Volume
  <2>2. 0 \in 0..geo.csize - 1
    BY <2>1
  <2> QED BY <2>1, <2>2, HereHas DEF Inv, Types, NoData, DataSec, FatSec, DirSec, NoSec, InfoSec
<1>2. /\ card[DirSec] \in {Empty, Entered}
      /\ old # 0 => card[oldSec] = DataOf("old", 0, SectorSize)
      /\ old # 0 /\ goal \in Beginning => card[FatSec(old)].entry[old] = NFat
      /\ fs.wflag /\ over = DirSec => win = Empty
      /\ goal \in {"rm_get", "rm_put"} =>
             /\ loc.clst = old /\ old # 0 /\ View(old) = NFat
             /\ card[DirSec].size = 0 \/ (over = DirSec /\ fs.wflag)
      /\ goal \in {"rm_back", "opened"} => card[DirSec].size = 0
  BY <1>0 DEF OldInv
<1>3. Empty.size = 0 /\ Empty.start = 0 /\ Entered.start = old /\ (old = 0 => Entered.size = 0)
  BY DEF Empty, Entered, DirOf
<1> DEFINE NewOld ==
      /\ card'[DirSec] \in {Empty, Entered}
      /\ old # 0 => card'[oldSec] = DataOf("old", 0, SectorSize)
      /\ old # 0 /\ goal' \in Beginning => card'[FatSec(old)].entry[old] = NFat
      /\ fs'.wflag /\ over' = DirSec => win' = Empty
      /\ goal' \in {"rm_get", "rm_put"} =>
             /\ loc'.clst = old /\ old # 0 /\ View(old)' = NFat
             /\ card'[DirSec].size = 0 \/ (over' = DirSec /\ fs'.wflag)
      /\ goal' \in {"rm_back", "opened"} => card'[DirSec].size = 0
<1>4. NewOld => OldInv'
  BY DEF OldInv, Empty, Entered
<1> DEFINE Kept == VolumeKept /\ over' = over
<1>5. old # 0 /\ Kept => View(old)' = View(old)
  BY <1>1, ViewStays DEF VolumeKept
<1>9. VolumeKept /\ ~ReadWindow /\ ~SetSector => Kept
  <2>1. ~Moved /\ ~Moved'
    BY <1>0 DEF Moved
  <2>2. pc = "mw_set" \/ pc' = "mw_set" => ReadWindow \/ SetSector \/ UNCHANGED <<pc, loc>>
    BY MainMoves, PlaceSteps
  <2> QED BY <2>1, <2>2 DEF over, VolumeKept
<1> HIDE DEF goal, Inv, oldSec, OldInv, View, over
<1>6. CASE Kept /\ goal' = goal /\ loc' = loc
  BY <1>2, <1>4, <1>5, <1>6 DEF VolumeKept
<1>7. CASE UNCHANGED <<pc, loc>> /\ ~Main
  <2>1. goal' = goal
    BY <1>7 DEF goal
  <2>2. isr \in {"off", "validate", "unmount"}
    BY <1>0 DEF Inv, StartInv
  <2>3. VolumeKept
    BY <1>7, <2>2, VolumeSteps DEF Main, SyncData, SyncMoveWindow, SyncReadWindow, SyncEntry,
      SyncFs,
      SyncFsInfo, In
  <2>4. Kept
    BY <1>7, <1>9, <2>3 DEF Main
  <2> QED BY <1>6, <1>7, <2>1, <2>4
<1>8. CASE Main
  <2>0. "rm_get" \notin Beginning \cup Resting /\ "rm_put" \notin Beginning \cup Resting
        /\ "rm_back" \notin Beginning \cup Resting /\ "opened" \notin Beginning \cup Resting
        /\ Resting \cap Beginning = {} /\ "loop" \in Resting
        /\ "rm_get" \notin Returns /\ "rm_back" \notin Returns
        /\ Returns \cap Beginning = {} /\ Returns \cap Resting = {} /\ "abort" \notin Beginning
    BY DEF Beginning, Resting, Returns
  <2>1. CASE MoveWindow \/ SyncWindow \/ ClearFlag \/ ReadWindow \/ SetSector
    <3>1. /\ goal \in Returns /\ goal' \in {goal, "loop", "abort"} /\ loc'.clst = loc.clst /\ pc \in Moving
          /\ goal \in Starting \cup Resting
      BY <1>0, <2>1, MovingSteps DEF Inv, StartInv
    <3>2. CASE MoveWindow
      <4>1. VolumeKept
        BY <3>2 DEF MoveWindow, VolumeKept, volume, Inv, Types, FsType
      <4>2. Kept
        BY <1>9, <3>2, <4>1 DEF MoveWindow, ReadWindow, SetSector, At
      <4> QED BY <1>2, <1>4, <1>5, <2>0, <3>1, <4>1, <4>2 DEF VolumeKept
    <3>3. CASE SyncWindow \/ ClearFlag
      <4>1. WritesWindow
        BY <1>0, <3>3, SyncWindowWrites, ClearFlagWrites
      <4>2. old # 0 => View(old)' = View(old)
        <5>1. \A c \in Cluster : View(c)' = View(c)
          BY <4>1, ViewStays
        <5> QED BY <1>1, <5>1
      <4>3. NoData(fs.winsect)
        BY DEF OverInv
      <4>4. fs.wflag
        BY <1>0, <3>3 DEF SyncWindow, ClearFlag, At, OverInv
      <4>5. card'[DirSec] = card[DirSec] \/ (fs.winsect = DirSec /\ card'[DirSec] = Empty)
        BY <1>1, <1>2, <4>1, <4>4 DEF WritesWindow
      <4>6. old # 0 => card'[oldSec] = card[oldSec]
        BY <1>1, <4>1, <4>3 DEF WritesWindow
      <4>7. fs'.wflag \/ fs.winsect # DirSec \/ card'[DirSec] = Empty
        BY <1>1, <1>2, <4>1, <4>4 DEF WritesWindow
      <4>8. /\ over = fs.winsect /\ over' = fs.winsect /\ win' = win /\ (fs'.wflag => fs.wflag)
        BY <4>1 DEF WritesWindow
      <4>9. goal' \notin Beginning
        BY <2>0, <3>1
      <4>10. goal' \in {"rm_get", "rm_put"} =>
               card'[DirSec].size = 0 \/ (over' = DirSec /\ fs'.wflag)
        BY <1>2, <1>3, <2>0, <3>1, <4>5, <4>7, <4>8
      <4> QED BY <1>2, <1>3, <1>4, <2>0, <3>1, <4>2, <4>5, <4>6, <4>8, <4>9, <4>10
    <3>4. CASE ReadWindow
      <4>1. ReadsWindow(loc.target) /\ pc = "mw_read"
        BY <1>0, <3>4, ReadWindowReads
      <4>2. ~fs.wflag
        BY <1>0, <3>1, <4>1 DEF WindowInv, Sound, Resting, Returns
      <4>3. loc.target \in Here
        BY DEF Inv, Types, LocType
      <4>4. old # 0 => View(old)' = View(old)
        <5>1. \A c \in Cluster : View(c)' = View(c)
          <6>1. Writable
            BY <1>0 DEF Writable
          <6> QED BY <1>0, <4>1, <4>2, <4>3, <6>1, ViewStays
        <5> QED BY <1>1, <5>1
      <4>5. card' = card /\ fs'.wflag = fs.wflag
        BY <4>1 DEF ReadsWindow
      <4>6. goal' = goal
        BY <1>0, <3>4, <4>1, ReadWindowReads DEF goal, Moving
      <4>7. goal \in {"rm_get", "rm_put"} => card[DirSec].size = 0
        BY <1>2, <4>2
      <4>8. goal \notin Beginning
        BY <2>0, <3>1
      <4> HIDE DEF old
      <4> QED BY <1>2, <1>4, <2>0, <3>1, <4>2, <4>4, <4>5, <4>6, <4>7, <4>8
    <3>5. CASE SetSector
      <4>1. UNCHANGED <<card, win>> /\ fs'.wflag = fs.wflag /\ over' = over
        BY <3>5, SetSectorKeeps
      <4>2. old # 0 => View(old)' = View(old)
        BY <1>1, <4>1, ViewStays
      <4> QED BY <1>2, <1>4, <2>0, <3>1, <4>1, <4>2
    <3> QED BY <2>1, <3>2, <3>3, <3>4, <3>5
  <2> DEFINE InMove == MoveWindow \/ SyncWindow \/ ClearFlag \/ ReadWindow \/ SetSector
  <2>9. VolumeKept /\ ~InMove => Kept
    BY <1>9
  <2>2. CASE Kept /\ goal \in Beginning /\ goal' \in Beginning \cup Resting
    BY <1>2, <1>4, <2>0, <2>2 DEF VolumeKept
  <2>3. CASE Kept /\ goal' \in Resting
    BY <1>2, <1>4, <2>0, <2>3 DEF VolumeKept
  <2>4. CASE InitVolume /\ goal = "init" /\ goal' \in {"open", "entry", "loop"}
    <3>1. ~fs'.wflag
      <4>1. CASE fs' = [fs EXCEPT !.mounted = FALSE, !.wflag = FALSE, !.winsect = NoSec]
        BY <4>1 DEF Inv, Types, FsType
      <4>2. CASE fs' = [mounted |-> TRUE, wflag |-> FALSE, fsi |-> FALSE,
                        last |-> IF geo.fat32 THEN geo.hint ELSE NFat, winsect |-> InfoSec]
        BY <4>2
      <4> QED BY <2>4, <4>1, <4>2 DEF InitVolume
    <3>2. card' = card
      BY <2>4 DEF InitVolume
    <3>3. "init" \in Beginning
      BY DEF Beginning
    <3>4. "open" \in Beginning /\ "entry" \in Beginning
      BY DEF Beginning
    <3> QED BY <1>2, <1>4, <2>0, <2>4, <3>1, <3>2, <3>3, <3>4
  <2>5. CASE MakeEntry /\ goal = "entry"
    <3>1. card' = card /\ goal \in Beginning
      BY <2>5 DEF MakeEntry, Beginning
    <3>4. over' = fs'.winsect
      BY <2>5, NewOver
    <3>2. CASE goal' = "loop" /\ fs'.winsect = NoSec
      BY <1>2, <1>4, <2>0, <3>1, <3>2, <3>4, SectorsDiffer
    <3>3. CASE /\ goal' = IF card[DirSec].start = 0 THEN "opened" ELSE "rm_get"
               /\ win' = Empty /\ fs'.winsect = DirSec /\ fs'.wflag /\ loc'.clst = card[DirSec].start
      <4>1. old # 0 => View(old)' = card[FatSec(old)].entry[old]
        BY <1>1, <3>1, <3>3, <3>4 DEF View, InWindow
      <4>2. goal' \notin Beginning
        BY <3>3 DEF Beginning
      <4>3. goal' = "opened" => card[DirSec].size = 0
        BY <1>2, <1>3, <3>3
      <4>4. goal' \in {"rm_get", "rm_put"} => loc'.clst = old /\ old # 0
        BY <1>2, <1>3, <3>3
      <4> QED BY <1>2, <1>4, <3>1, <3>3, <3>4, <4>1, <4>2, <4>3, <4>4
    <3> QED BY <2>5, <3>2, <3>3 DEF MakeEntry, Goto, goal, Moving, Inv, Types, FsType, LocType,
      Empty
  <2>6. CASE Kept /\ goal = "rm_get" /\ goal' = "rm_put" /\ loc'.clst = loc.clst
    BY <1>2, <1>4, <1>5, <2>0, <2>6 DEF VolumeKept
  <2>7. CASE RemovePut /\ goal = "rm_put"
    <3>1. pc = "rm_put" /\ card' = card
      BY <2>7 DEF RemovePut, At
    <3>2. over = FatSec(old) /\ over = fs.winsect /\ over' = fs'.winsect /\ old \in Cluster /\ old # 0
      BY <1>1, <1>2, <2>7, <3>1, NewOver DEF Inv, StartInv
    <3>3. card[DirSec].size = 0
      BY <1>1, <1>2, <2>7, <3>2
    <3>4. Entry(win, old) = {NFat}
      <4>1. FatOk(win, old)
        BY <1>0, <3>2 DEF FatInv, Writable, InWindow
      <4>2. View(old) = win.entry[old]
        BY <3>2 DEF View, InWindow
      <4> QED BY <1>2, <2>7, <4>1, <4>2 DEF Entry, FatOk
    <3>5. fs'.winsect = fs.winsect
      BY <2>7 DEF RemovePut, Inv, Types, FsType
    <3>6. goal' \in {"rm_back", "loop"}
      BY <1>2, <2>7, <3>4, Numbers DEF RemovePut, ChainEnd, Goto, goal, Moving
    <3> QED BY <1>1, <1>2, <1>4, <2>0, <3>1, <3>2, <3>3, <3>5, <3>6 DEF Beginning
  <2>8. CASE Kept /\ goal = "rm_back" /\ goal' = "opened"
    BY <1>2, <1>4, <2>0, <2>8 DEF VolumeKept
  <2> HIDE DEF Kept, NewOld, old
  <2> QED BY <1>0, <1>8, <2>1, <2>2, <2>3, <2>4, <2>5, <2>6, <2>7, <2>8, <2>9, StartSteps
<1> QED BY <1>7, <1>8, MainMoves

-----------------------------------------------------------------------------
(***************************************************************************)
(* The sectors of the file, and those of other files.                      *)
(***************************************************************************)
\* Data sectors change only where a file's buffer is written to.
LEMMA DataSteps ==
    ASSUME Inv, StopInv, WindowInv, SyncInv, OverInv, [Next]_vars, geo' = geo, Sound, NEW s \in Here, ~NoData(s)
    PROVE  \/ card'[s] = card[s]
           \/ /\ Flush \/ SyncData
              /\ WritesBuffer /\ s = fil.dsect /\ card'[s] = buf
<1>1. s # fs.winsect /\ s # InfoSec
  BY DEF OverInv, NoData, InfoSec
<1>2. CASE SyncWindow \/ ClearFlag
  BY <1>1, <1>2, SyncWindowWrites, ClearFlagWrites DEF WritesWindow
<1>3. CASE SyncMoveWindow
  BY <1>1, <1>3, SyncMoveWindowWrites DEF WritesWindow
<1>4. CASE SyncFs
  BY <1>1, <1>4, SyncFsWrites
<1>5. CASE SyncFsInfo
  BY <1>1, <1>5, SyncFsInfoWrites
<1>6. CASE Flush \/ SyncData
  <2>1. WritesBuffer \/ UNCHANGED card
    BY <1>6, FlushWrites, SyncDataWrites
  <2> QED BY <1>6, <2>1 DEF WritesBuffer
<1>7. CASE ReadWindow \/ SetSector \/ SyncReadWindow
  BY <1>7 DEF ReadWindow, SetSector, SyncReadWindow, disk_read
<1>8. CASE InitVolume \/ MakeEntry \/ RemovePut \/ CreateMarked \/ CreateLinked \/ SyncEntry
  BY <1>8 DEF InitVolume, MakeEntry, RemovePut, CreateMarked, CreateLinked, SyncEntry
<1>9. CASE VolumeKept
  BY <1>9 DEF VolumeKept
<1> QED BY <1>2, <1>3, <1>4, <1>5, <1>6, <1>7, <1>8, <1>9, VolumeSteps

\* What the file's buffer is when it is written.
LEMMA Buffered ==
    ASSUME Inv, WindowInv, OverInv, opened, NEW len \in Nat, NEW p \in [0..len - 1 -> Cluster], FileOk(p, len),
           goal = "flush" \/ isr = "data", fil.dirty
    PROVE  /\ BufNr \in Nat /\ Within(BufNr, len) /\ fil.dsect = Spot(p, BufNr)
           /\ buf.kind = "data" /\ buf.of = "log" /\ buf.nr = BufNr
           /\ buf.n \in Nat /\ buf.n >= fil.fptr - BufNr * SectorSize
<1>1. BufferOk(p, len)
  <2>1. isr = "data" => Before
    BY DEF Before, WindowInv, OverInv, Syncing, validate
  <2>2. goal = "flush" => Flushable
    BY DEF Flushable
  <2> QED BY <2>1, <2>2 DEF FileOk
<1>2. BufNr \in Nat
  <2>1. goal \in Filling \/ fil.fptr > 0
    BY <1>1 DEF BufferOk
  <2>2. Nr \in Nat /\ (fil.fptr > 0 /\ Off = 0 => Nr > 0)
    BY Position DEF Inv, Types
  <2> QED BY <2>1, <2>2 DEF BufNr
<1>3. buf.kind = "data" /\ buf.n \in Nat
  BY Numbers DEF Inv, Types, DiskType, Texts
<1> QED BY <1>1, <1>2, <1>3 DEF BufferOk

\* The sectors of the file are written one at a time.
LEMMA SpotSteps ==
    ASSUME Inv, StopInv, WindowInv, SyncInv, OverInv, [Next]_vars, geo' = geo, Sound, opened,
           NEW len \in Nat, NEW p \in [0..len - 1 -> Cluster], FileOk(p, len)
    PROVE  /\ \A n \in Nat : Within(n, len) =>
                 \/ card'[Spot(p, n)] = card[Spot(p, n)]
                 \/ /\ WritesBuffer /\ n = BufNr /\ card'[Spot(p, n)] = buf
                    /\ buf.kind = "data" /\ buf.of = "log" /\ buf.nr = n
                    /\ buf.n \in Nat /\ buf.n >= fil.fptr - n * SectorSize
           /\ \A c \in geo.others, off \in 0..geo.csize - 1 :
                 card'[DataSec(c, off, geo.csize)] = card[DataSec(c, off, geo.csize)]
<1>0. PathOk(p, len) /\ FlagType
  BY DEF FileOk, Inv, Types
<1>1. (Flush \/ SyncData) /\ WritesBuffer =>
         /\ BufNr \in Nat /\ Within(BufNr, len) /\ fil.dsect = Spot(p, BufNr)
         /\ buf.kind = "data" /\ buf.of = "log" /\ buf.nr = BufNr
         /\ buf.n \in Nat /\ buf.n >= fil.fptr - BufNr * SectorSize
  <2>1. /\ Flush => goal = "flush"
        /\ SyncData => isr = "data"
        /\ WritesBuffer => fil.dirty
    BY DEF Flush, SyncData, At, In, goal, Moving, WritesBuffer
  <2> QED BY <2>1, Buffered
<1>2. ASSUME NEW n \in Nat, Within(n, len)
      PROVE  \/ card'[Spot(p, n)] = card[Spot(p, n)]
             \/ /\ WritesBuffer /\ n = BufNr /\ card'[Spot(p, n)] = buf
                /\ buf.kind = "data" /\ buf.of = "log" /\ buf.nr = n
                /\ buf.n \in Nat /\ buf.n >= fil.fptr - n * SectorSize
  <2>1. Spot(p, n) \in Here /\ ~NoData(Spot(p, n))
    BY <1>0, <1>2, Spots
  <2>2. CASE card'[Spot(p, n)] # card[Spot(p, n)]
    <3>1. /\ Flush \/ SyncData
          /\ WritesBuffer /\ Spot(p, n) = fil.dsect /\ card'[Spot(p, n)] = buf
      BY <2>1, <2>2, DataSteps
    <3>2. n = BufNr
      BY <1>0, <1>1, <1>2, <3>1, Spots
    <3> QED BY <1>1, <3>1, <3>2
  <2> QED BY <2>2
<1>3. ASSUME NEW c \in geo.others, NEW off \in 0..geo.csize - 1
      PROVE  card'[DataSec(c, off, geo.csize)] = card[DataSec(c, off, geo.csize)]
  <2>1. DataSec(c, off, geo.csize) \in Here /\ ~NoData(DataSec(c, off, geo.csize))
    BY <1>0, HereHas DEF FlagType, Volume, NoData, DataSec
  <2>2. WritesBuffer /\ (Flush \/ SyncData) => DataSec(c, off, geo.csize) # fil.dsect
    BY <1>0, <1>1, Spots
  <2> QED BY <2>1, <2>2, DataSteps
<1> QED BY <1>2, <1>3

LEMMA PathOkStep ==
    ASSUME Inv, StopInv, WindowInv, SyncInv, OverInv, [Next]_vars, geo' = geo, Sound, opened,
           NEW len \in Nat, NEW p \in [0..len - 1 -> Cluster], FileOk(p, len)
    PROVE  PathOk(p, len)'
<1>1. PathOk(p, len)
  BY DEF FileOk
<1>2. \A c \in geo.others, off \in 0..geo.csize - 1 :
         card'[DataSec(c, off, geo.csize)] = card[DataSec(c, off, geo.csize)]
  BY SpotSteps
<1>3. \A c \in geo.others, off \in 0..geo.csize - 1 :
         card'[DataSec(c, off, geo.csize)].of = "other"
  BY <1>1, <1>2 DEF PathOk, OthersOk
<1> QED BY <1>1, <1>3 DEF PathOk, OthersOk

\* Where a unit of text is.
LEMMA UnitIs ==
    ASSUME Inv, NEW pos \in 0..fil.fptr - 1
    PROVE  /\ pos \div SectorSize \in 0..Nr /\ pos \div SectorSize \in Nat /\ pos \in Nat
           /\ pos % SectorSize \in Nat
           /\ pos = (pos \div SectorSize) * SectorSize + (pos % SectorSize)
<1>1. FilType
  BY DEF Inv, Types
<1>2. /\ Nr \in Nat /\ pos \div SectorSize \in 0..Nr
      /\ pos % SectorSize \in 0..SectorSize - 1
      /\ pos = SectorSize * (pos \div SectorSize) + (pos % SectorSize)
  BY <1>1, Position
<1>3. SectorSize \in Nat /\ fil.fptr \in Nat
  BY <1>1, Numbers DEF FilType
<1> DEFINE q == pos \div SectorSize
           r == pos % SectorSize
<1>4. q \in Nat /\ r \in Nat /\ pos = SectorSize * q + r /\ q \in 0..Nr /\ pos \in Nat
  BY <1>2, <1>3
<1> HIDE DEF q, r
<1>5. SectorSize * q = q * SectorSize
  BY <1>3, <1>4
<1>6. pos = q * SectorSize + r
  BY <1>4, <1>5
<1> QED BY <1>4, <1>6 DEF q, r

\* A unit of text that is on the card stays there, and gets there from the buffer.
LEMMA HoldsStays ==
    ASSUME Inv, StopInv, WindowInv, SyncInv, OverInv, [Next]_vars, geo' = geo, Sound, opened,
           NEW len \in Nat, NEW p \in [0..len - 1 -> Cluster], FileOk(p, len),
           NEW pos \in 0..fil.fptr - 1, Within(pos \div SectorSize, len)
    PROVE  /\ Holds(card[Spot(p, pos \div SectorSize)], pos)
                 => Holds(card[Spot(p, pos \div SectorSize)], pos)'
           /\ WritesBuffer /\ (Flush \/ SyncData) /\ ~fil'.dirty /\ pos \div SectorSize = BufNr
                 => Holds(card[Spot(p, pos \div SectorSize)], pos)'
<1> DEFINE n == pos \div SectorSize
           r == pos % SectorSize
<1>1. n \in Nat /\ r \in Nat /\ pos = n * SectorSize + r /\ fil.fptr \in Nat /\ SectorSize \in Nat
      /\ n * SectorSize \in Nat
  <2>1. n \in Nat /\ r \in Nat /\ pos = n * SectorSize + r
    BY UnitIs
  <2>2. fil.fptr \in Nat /\ SectorSize \in Nat
    BY Numbers DEF Inv, Types, FilType
  <2> HIDE DEF n, r
  <2>3. n * SectorSize \in Nat
    BY <2>1, <2>2
  <2> QED BY <2>1, <2>2, <2>3
<1>2. buf.n \in Nat /\ buf.n >= fil.fptr - n * SectorSize => r < buf.n
  <2> HIDE DEF n, r
  <2> DEFINE m == n * SectorSize
  <2>1. pos = m + r /\ m \in Nat /\ pos < fil.fptr
    BY <1>1
  <2> HIDE DEF m
  <2>2. r \in Nat /\ fil.fptr \in Nat
    BY <1>1
  <2>3. \A k \in Nat : k >= fil.fptr - m => r < k
    BY <2>1, <2>2
  <2> QED BY <2>3 DEF m
<1>3. \/ card'[Spot(p, n)] = card[Spot(p, n)]
      \/ /\ WritesBuffer /\ n = BufNr /\ card'[Spot(p, n)] = buf
         /\ buf.kind = "data" /\ buf.of = "log" /\ buf.nr = n
         /\ buf.n \in Nat /\ buf.n >= fil.fptr - n * SectorSize
  BY <1>1, SpotSteps
<1>4. Spot(p, n)' = Spot(p, n)
  BY DEF Spot
<1>5. Holds(card[Spot(p, n)], pos) => Holds(card[Spot(p, n)], pos)'
  BY <1>2, <1>3, <1>4 DEF Holds
<1>6. ASSUME WritesBuffer, Flush \/ SyncData, ~fil'.dirty, n = BufNr
      PROVE  Holds(card[Spot(p, n)], pos)'
  <2>1. /\ BufNr \in Nat /\ Within(BufNr, len) /\ fil.dsect = Spot(p, BufNr)
        /\ buf.kind = "data" /\ buf.of = "log" /\ buf.nr = BufNr
        /\ buf.n \in Nat /\ buf.n >= fil.fptr - BufNr * SectorSize
    <3>1. /\ Flush => goal = "flush"
          /\ SyncData => isr = "data"
          /\ WritesBuffer => fil.dirty
      BY DEF Flush, SyncData, At, In, goal, Moving, WritesBuffer
    <3> QED BY <1>6, <3>1, Buffered
  <2>2. card'[Spot(p, n)] = buf
    BY <1>6, <2>1 DEF WritesBuffer
  <2> QED BY <1>2, <1>4, <1>6, <2>1, <2>2 DEF Holds
<1> QED BY <1>5, <1>6

\* main stays at the sector that it has, ...
LEMMA BufNrStays ==
    ASSUME Inv, LineInv, [Next]_vars, geo' = geo, opened, ~Opened, ~NextSector, ~Advance
    PROVE  /\ fil'.fptr = fil.fptr /\ Nr' = Nr /\ Off' = Off /\ BufNr' = BufNr
           /\ goal' \in Filling => goal \in Filling \/ Off # 0
           /\ goal \in Filling => goal' \in Filling
<1>1. fil'.fptr = fil.fptr
  BY FileSteps
<1>2. Nr' = Nr /\ Off' = Off
  BY <1>1, SamePlace
<1>3. /\ goal' \in Filling => goal \in Filling \/ Off # 0
      /\ goal \in Filling => goal' \in Filling
  <2>1. CASE UNCHANGED <<pc, loc>> /\ ~Main
    BY <2>1 DEF goal
  <2>2. CASE Main
    <3>1. CASE MoveWindow \/ SyncWindow \/ ClearFlag \/ ReadWindow \/ SetSector
      BY <3>1, MovingSteps DEF Returns, Filling
    <3> HIDE DEF goal
    <3> QED BY <2>2, <3>1, LoopSteps DEF Filling
  <2> QED BY <2>1, <2>2, MainMoves
<1> QED BY <1>1, <1>2, <1>3 DEF BufNr

\* ... until what fits is in it.
LEMMA Advances ==
    ASSUME Inv, LineInv, Advance, geo' = geo
    PROVE  /\ goal = "next" /\ goal' = "chunk" /\ isr = "off" /\ BufNr = Nr /\ BufNr' = Nr
           /\ fil'.fptr = fil.fptr + wcnt /\ wcnt \in Nat \ {0} /\ Off + wcnt \in 1..SectorSize
           /\ fil'.dirty = fil.dirty /\ fil'.dsect = fil.dsect
           /\ UNCHANGED <<card, fs, win, buf, isr, opened>>
           /\ loc'.btw = loc.btw - wcnt /\ (Off = 0 => loc'.btw = 0)
           /\ fil'.fptr = SectorSize * Nr + (Off + wcnt)
           /\ \A pos \in fil.fptr..fil'.fptr - 1 : pos \div SectorSize = Nr /\ pos % SectorSize < Off + wcnt
<1>1. /\ goal = "next" /\ goal' = "chunk" /\ isr = "off"
      /\ fil'.fptr = fil.fptr + wcnt /\ fil'.dirty = fil.dirty /\ fil'.dsect = fil.dsect
      /\ UNCHANGED <<card, fs, win, buf, isr, opened>>
      /\ loc'.btw = loc.btw - wcnt
  BY DEF Advance, At, Goto, goal, Moving, Inv, Types, FilType, LocType, volume, history, button
<1>2. loc.btw > 0
  BY <1>1 DEF LineInv, Writing, Creating
<1>3. wcnt \in 1..loc.btw /\ Off + wcnt \in 1..SectorSize /\ (Off = 0 => wcnt = loc.btw)
  BY <1>2, Portion
<1>4. /\ Nr \in Nat /\ Off \in 0..SectorSize - 1 /\ fil.fptr = SectorSize * Nr + Off
      /\ SectorSize \in Nat \ {0} /\ loc.btw \in Nat
  BY Position, Numbers DEF Inv, Types, LocType
<1>5. wcnt \in Nat \ {0} /\ (Off = 0 => loc'.btw = 0)
  BY <1>1, <1>3, <1>4
<1> DEFINE m == SectorSize * Nr
<1>6. m \in Nat /\ fil.fptr = m + Off
  BY <1>4
<1>7. fil'.fptr = m + (Off + wcnt)
  <2> HIDE DEF m, wcnt, Off
  <2> QED BY <1>1, <1>4, <1>5, <1>6
<1>8. BufNr = Nr
  BY <1>1 DEF BufNr, Filling
<1>9. BufNr' = Nr
  <2>1. CASE Off + wcnt < SectorSize
    <3>1. Off + wcnt \in 0..SectorSize - 1 /\ Off + wcnt # 0
      <4> HIDE DEF m, wcnt, Off
      <4> QED BY <1>3, <1>4, <1>5, <2>1
    <3> DEFINE x == Off + wcnt
    <3>2. fil'.fptr \div SectorSize = Nr /\ fil'.fptr % SectorSize = x
      <4>1. x \in 0..SectorSize - 1 /\ fil'.fptr = SectorSize * Nr + x
        BY <1>7, <3>1
      <4> HIDE DEF x
      <4>2. \A n : n = SectorSize * Nr + x => n \div SectorSize = Nr /\ n % SectorSize = x
        BY <1>4, <4>1, DivIs
      <4> QED BY <4>1, <4>2
    <3>3. Nr' = Nr /\ Off' # 0
      BY <3>1, <3>2 DEF Nr, Off
    <3> QED BY <3>3 DEF BufNr
  <2>2. CASE Off + wcnt = SectorSize
    <3>0. SectorSize * (Nr + 1) = m + SectorSize
      BY <1>4
    <3>1. fil'.fptr = SectorSize * (Nr + 1) + 0
      <4> HIDE DEF m
      <4> QED BY <1>4, <1>6, <1>7, <2>2, <3>0
    <3>2. 0 \in 0..SectorSize - 1 /\ Nr + 1 \in Nat
      BY <1>4
    <3>3. fil'.fptr \div SectorSize = Nr + 1 /\ fil'.fptr % SectorSize = 0
      <4> DEFINE k == Nr + 1
      <4>1. k \in Nat /\ fil'.fptr = SectorSize * k + 0
        BY <3>1, <3>2
      <4> HIDE DEF k
      <4>2. \A n : n = SectorSize * k + 0 => n \div SectorSize = k /\ n % SectorSize = 0
        BY <1>4, <3>2, <4>1, DivIs
      <4>3. fil'.fptr \div SectorSize = k /\ fil'.fptr % SectorSize = 0
        BY <4>1, <4>2
      <4> QED BY <4>3 DEF k
    <3>4. Nr' = Nr + 1 /\ Off' = 0
      BY <3>3 DEF Nr, Off
    <3> QED BY <1>1, <1>4, <3>4 DEF BufNr, Filling
  <2> QED BY <1>3, <1>4, <2>1, <2>2
<1>10. ASSUME NEW pos \in fil.fptr..fil'.fptr - 1
       PROVE  pos \div SectorSize = Nr /\ pos % SectorSize < Off + wcnt
  <2> DEFINE r == pos - m
  <2>1. r \in 0..SectorSize - 1 /\ r < Off + wcnt /\ pos = m + r
    <3> HIDE DEF m, wcnt, Off
    <3> QED BY <1>3, <1>4, <1>5, <1>6, <1>7, <1>10
  <2> HIDE DEF r
  <2>2. pos \div SectorSize = Nr /\ pos % SectorSize = r
    BY <1>4, <2>1, DivIs
  <2> QED BY <2>1, <2>2
<1> QED BY <1>1, <1>3, <1>5, <1>7, <1>8, <1>9, <1>10

LEMMA TextOkStep ==
    ASSUME Inv, WindowInv, SyncInv, StopInv, OverInv, LineInv, [Next]_vars, geo' = geo, Sound, Before',
           opened, ~Opened,
           NEW len \in Nat, NEW p \in [0..len - 1 -> Cluster], FileOk(p, len)
    PROVE  TextOk(p, len)'
<1>0. Before
  BY BeforeStays
<1>1. \A pos \in 0..fil.fptr - 1 :
         /\ Within(pos \div SectorSize, len)
         /\ Holds(card[Spot(p, pos \div SectorSize)], pos) \/ (fil.dirty /\ pos \div SectorSize = BufNr)
  BY <1>0 DEF FileOk, TextOk
<1>2. \A n : Within(n, len)' = Within(n, len) /\ Spot(p, n)' = Spot(p, n)
  BY DEF Within, Spot
<1>3. CASE Advance
  <2>1. /\ goal = "next" /\ isr = "off" /\ BufNr = Nr /\ BufNr' = Nr
        /\ fil'.fptr = fil.fptr + wcnt /\ wcnt \in Nat \ {0}
        /\ fil'.dirty = fil.dirty /\ card' = card
        /\ \A pos \in fil.fptr..fil'.fptr - 1 : pos \div SectorSize = Nr
    BY <1>3, Advances
  <2>2. fil.dirty
    BY <1>0, <2>1 DEF LineInv
  <2>3. Within(Nr, len)
    BY <1>0, <2>1 DEF FileOk, BufferOk, Filling
  <2>4. ASSUME NEW pos \in 0..fil'.fptr - 1
        PROVE  /\ Within(pos \div SectorSize, len)'
               /\ Holds(card[Spot(p, pos \div SectorSize)], pos)' \/ (fil'.dirty /\ pos \div SectorSize = BufNr')
    <3>1. fil.fptr \in Nat
      BY DEF Inv, Types, FilType
    <3> HIDE DEF wcnt
    <3>2. CASE pos \in 0..fil.fptr - 1
      BY <1>1, <1>2, <2>1, <2>2, <3>2 DEF Holds
    <3>3. CASE pos \in fil.fptr..fil'.fptr - 1
      BY <1>2, <2>1, <2>2, <2>3, <3>3
    <3> QED BY <2>1, <3>1, <3>2, <3>3
  <2> QED BY <2>4 DEF TextOk
<1>4. ASSUME ~Advance
      PROVE  TextOk(p, len)'
  <2>1. fil'.fptr = fil.fptr
    BY <1>4, FileSteps
  <2>2. ASSUME NEW pos \in 0..fil.fptr - 1
        PROVE  /\ Within(pos \div SectorSize, len)'
               /\ Holds(card[Spot(p, pos \div SectorSize)], pos)' \/ (fil'.dirty /\ pos \div SectorSize = BufNr')
    <3> DEFINE n == pos \div SectorSize
    <3>1. Within(n, len) /\ Within(n, len)'
      BY <1>1, <1>2
    <3>2. CASE Holds(card[Spot(p, n)], pos)
      BY <3>1, <3>2, HoldsStays
    <3>3. CASE fil.dirty /\ n = BufNr
      <4>1. ~NextSector
        <5>1. goal = "sector" => ~fil.dirty
          BY DEF LineInv
        <5> QED BY <3>3, <5>1 DEF NextSector, At, goal, Moving
      <4>2. BufNr' = BufNr
        BY <1>4, <4>1, BufNrStays
      <4>3. CASE fil'.dirty
        BY <3>1, <3>3, <4>2, <4>3
      <4>4. CASE ~fil'.dirty
        <5>1. Flush \/ SyncData
          BY <1>4, <3>3, <4>4, FileSteps DEF MarkDirty, Inv, Types, FilType
        <5>2. WritesBuffer
          BY <3>3, <5>1, FlushWrites, SyncDataWrites
        <5> QED BY <3>1, <3>3, <4>4, <5>1, <5>2, HoldsStays
      <4> QED BY <4>3, <4>4
    <3> QED BY <1>1, <3>2, <3>3
  <2> QED BY <2>1, <2>2 DEF TextOk
<1> QED BY <1>3, <1>4

-----------------------------------------------------------------------------
(***************************************************************************)
(* The buffer of the file is written back where it came from.              *)
(***************************************************************************)
\* The handler may end the file in the middle of f_write: then a sector that has been
\* begun is still written back, and none is begun.
LEMMA FlushableStays ==
    ASSUME Inv, StopInv, LineInv, [Next]_vars, geo' = geo, opened, ~Opened, Flushable'
    PROVE  Flushable \/ Before
<1>0. /\ loc.btw \in Nat
      /\ Flushable' => /\ goal' \in {"bound", "flush", "chunk"} \cup Creating \cup Filling
                       /\ goal' = "chunk" => loc'.btw > 0
                       /\ goal' \in Filling => Off' # 0
      /\ goal \in {"bound", "flush"} \cup Creating => Flushable
      /\ goal = "chunk" /\ loc.btw > 0 => Flushable
      /\ goal \in Filling /\ Off # 0 => Flushable
  <2>1. loc.btw \in Nat
    BY Numbers DEF Inv, Types, LocType
  <2>2. "chunk" \notin Filling /\ Filling \cap Creating = {} /\ "flush" \notin Filling
        /\ "bound" \notin Filling /\ "chunk" \notin Creating
    BY DEF Filling, Creating
  <2> QED BY <2>1, <2>2 DEF Flushable
<1>1. ~Advance => Off' = Off
  BY FileSteps, SamePlace
<1>2. CASE UNCHANGED <<pc, loc>> /\ ~Main
  <2>1. goal' = goal /\ Off' = Off
    BY <1>1, <1>2 DEF goal, Main
  <2> QED BY <1>2, <2>1 DEF Flushable
<1>3. CASE Main
  <2>1. CASE MoveWindow \/ SyncWindow \/ ClearFlag \/ ReadWindow \/ SetSector
    <3>1. goal' \in {goal, "loop", "abort"} /\ loc'.btw = loc.btw
      BY <2>1, MovingSteps
    <3>2. Off' = Off
      BY <1>1, <2>1 DEF MoveWindow, SyncWindow, ClearFlag, ReadWindow, SetSector, Advance, At
    <3> QED BY <1>0, <3>1, <3>2 DEF Flushable, Creating, Filling
  <2>2. CASE f_puts /\ goal = "puts" /\ goal' = "chunk"
    <3>1. validate /\ isr = "off"
      BY <2>2 DEF f_puts, At, Goto, goal, Moving
    <3>2. reg
      BY <2>2, <3>1 DEF StopInv, validate, Starting
    <3> QED BY <3>1, <3>2 DEF Before
  <2>3. CASE Chunk /\ goal = "chunk" /\ SameLocals
             /\ goal' = IF loc.btw = 0 THEN "done" ELSE IF Off = 0 THEN "bound" ELSE "copy"
    <3>1. loc.btw # 0
      BY <1>0, <2>3 DEF Creating, Filling
    <3> QED BY <1>0, <2>3, <3>1
  <2>4. CASE goal \in {"bound", "flush"} \cup Creating
    BY <1>0, <2>4
  <2>5. CASE NextSector /\ goal = "sector" /\ goal' \in {"copy", "abort"}
    <3>1. Off = 0
      BY <2>5 DEF LineInv
    <3>2. Off' = Off
      BY <1>1, <2>5 DEF NextSector, Advance, At
    <3> QED BY <1>0, <2>5, <3>1, <3>2 DEF Filling, Creating
  <2>6. CASE (Copy /\ goal = "copy" /\ goal' = "mark") \/ (MarkDirty /\ goal = "mark" /\ goal' = "next")
    <3>1. Off' = Off
      BY <1>1, <2>6 DEF Copy, MarkDirty, Advance, At
    <3> QED BY <1>0, <2>6, <3>1 DEF Filling
  <2>7. CASE Advance
    <3>1. goal = "next" /\ goal' = "chunk" /\ (Off = 0 => loc'.btw = 0)
      BY <2>7, Advances
    <3> QED BY <1>0, <3>1 DEF Filling
  <2>8. CASE goal' \in {"loop", "puts"}
    BY <1>0, <2>8 DEF Filling, Creating
  <2> HIDE DEF goal, Flushable
  <2> QED BY <1>3, <2>1, <2>2, <2>3, <2>4, <2>5, <2>6, <2>7, <2>8, LoopSteps DEF Creating
<1> QED BY <1>2, <1>3, MainMoves

LEMMA BufferOkStep ==
    ASSUME Inv, WindowInv, SyncInv, StopInv, OverInv, LineInv, [Next]_vars, geo' = geo, Sound,
           opened, ~Opened, Before' \/ Flushable',
           NEW len \in Nat, NEW p \in [0..len - 1 -> Cluster], FileOk(p, len)
    PROVE  BufferOk(p, len)'
<1>0. Before \/ Flushable
  BY BeforeStays, FlushableStays
<1>1. /\ goal \in Filling \/ Off # 0 \/ fil.dirty => Within(BufNr, len) /\ fil.dsect = Spot(p, BufNr)
      /\ fil.dirty => /\ goal \in Filling \/ fil.fptr > 0
                      /\ buf.of = "log" /\ buf.nr = BufNr
                      /\ buf.n >= fil.fptr - BufNr * SectorSize
  BY <1>0 DEF FileOk, BufferOk
<1>2. \A n : Within(n, len)' = Within(n, len) /\ Spot(p, n)' = Spot(p, n)
  BY DEF Within, Spot
<1>3. /\ Nr \in Nat /\ Off \in 0..SectorSize - 1 /\ fil.fptr = SectorSize * Nr + Off
      /\ SectorSize \in Nat \ {0} /\ fil.fptr \in Nat
      /\ fil.fptr > 0 \/ Off = 0
  BY Position, Numbers DEF Inv, Types, FilType
<1>4. Nr * SectorSize \in Nat /\ fil.fptr - Nr * SectorSize = Off
  <2> DEFINE m == Nr * SectorSize
  <2>1. m \in Nat /\ m = SectorSize * Nr
    BY <1>3
  <2> HIDE DEF m, Off, Nr
  <2>2. fil.fptr - m = Off
    BY <1>3, <2>1
  <2> QED BY <2>1, <2>2 DEF m
<1>5. CASE NextSector
  <2>1. /\ goal = "sector" /\ isr = "off" /\ isr' = "off" /\ goal' \in {"copy", "abort"}
        /\ fil'.fs = fil.fs /\ fil'.dirty = fil.dirty /\ fil'.fptr = fil.fptr /\ fil'.err = fil.err
        /\ fs' = fs /\ buf' = buf
        /\ goal' = "abort" => ~fil.fs
    BY <1>5 DEF NextSector, At, Goto, goal, Moving, button, volume, Inv, Types, FilType
  <2>2. Off = 0 /\ ~fil.dirty /\ ~fil.err
    BY <2>1 DEF LineInv, Writing
  <2>3. Nr' = Nr /\ Off' = Off
    BY <2>1, SamePlace
  <2>4. Before'
    BY <2>1, <2>2, <2>3 DEF Flushable, Filling, Creating
  <2>5. Before /\ fil.fs /\ goal' = "copy"
    <3>1. Before /\ fil.fs
      BY <2>1, <2>4, BeforeStays DEF Before, validate
    <3> QED BY <2>1, <3>1
  <2>6. Within(Nr, len) /\ fil.clust = p[Nr \div geo.csize]
    BY <2>1, <2>2, <2>5 DEF FileOk, ChainOk, ClustNr
  <2>7. fil'.dsect = Spot(p, Nr)
    <3>1. fil'.dsect = DataSec(fil.clust, csect, geo.csize)
      BY <1>5, <2>5 DEF NextSector, Inv, Types, FilType
    <3> QED BY <2>6, <3>1 DEF csect, Nr, Spot
  <2>8. BufNr' = Nr
    BY <2>3, <2>5 DEF BufNr, Filling
  <2> QED BY <1>2, <2>1, <2>2, <2>6, <2>7, <2>8 DEF BufferOk
<1>6. CASE Advance
  <2>1. /\ goal = "next" /\ goal' = "chunk" /\ BufNr = Nr /\ BufNr' = Nr
        /\ fil'.fptr = fil.fptr + wcnt /\ wcnt \in Nat \ {0} /\ Off + wcnt \in 1..SectorSize
        /\ fil'.dirty = fil.dirty /\ fil'.dsect = fil.dsect /\ buf' = buf
    BY <1>6, Advances
  <2>2. Within(Nr, len) /\ fil.dsect = Spot(p, Nr)
    BY <1>1, <2>1 DEF Filling
  <2>3. buf = DataOf("log", Nr, Off + wcnt)
    BY <2>1 DEF LineInv
  <2>4. fil'.fptr - Nr * SectorSize = Off + wcnt /\ fil'.fptr > 0
    <3> DEFINE m == Nr * SectorSize
    <3>1. m \in Nat /\ fil.fptr - m = Off /\ Off \in Nat
      BY <1>3, <1>4
    <3> HIDE DEF m, Off, wcnt
    <3>2. fil'.fptr - m = Off + wcnt /\ fil'.fptr > 0
      BY <1>3, <2>1, <3>1
    <3> QED BY <3>2 DEF m
  <2>5. buf.of = "log" /\ buf.nr = Nr /\ buf.n = Off + wcnt /\ Off + wcnt >= Off + wcnt
    BY <2>1, <2>3, Numbers DEF DataOf
  <2> QED BY <1>2, <2>1, <2>2, <2>4, <2>5 DEF BufferOk
<1>7. ASSUME ~NextSector, ~Advance
      PROVE  BufferOk(p, len)'
  <2>1. /\ fil'.fptr = fil.fptr /\ Nr' = Nr /\ Off' = Off /\ BufNr' = BufNr
        /\ goal' \in Filling => goal \in Filling \/ Off # 0
        /\ goal \in Filling => goal' \in Filling
    BY <1>7, BufNrStays
  <2>2. fil'.dsect = fil.dsect
    BY <1>7, FileSteps DEF PlaceKept
  <2>3. CASE Copy
    <3>1. /\ goal = "copy" /\ goal' = "mark" /\ buf' = DataOf("log", Nr, Off + wcnt)
          /\ fil'.dirty = fil.dirty /\ loc.btw > 0
      BY <2>3 DEF Copy, At, Goto, goal, Moving, Nr, Off, LineInv, Writing, Creating
    <3>2. BufNr = Nr
      BY <3>1 DEF BufNr, Filling
    <3>3. Off + wcnt >= Off
      <4>1. wcnt \in Nat
        BY <3>1, Portion, Numbers DEF Inv, Types, LocType
      <4> HIDE DEF Off, wcnt
      <4> QED BY <1>3, <4>1
    <3>4. buf'.of = "log" /\ buf'.nr = Nr /\ buf'.n >= fil.fptr - Nr * SectorSize
      BY <1>4, <3>1, <3>3 DEF DataOf
    <3>5. goal \in Filling /\ goal' \in Filling
      BY <3>1 DEF Filling
    <3> QED BY <1>1, <1>2, <2>1, <2>2, <3>2, <3>4, <3>5 DEF BufferOk
  <2>4. CASE MarkDirty
    <3>1. /\ goal = "mark" /\ goal' = "next" /\ buf' = buf /\ loc.btw > 0
      BY <2>4 DEF MarkDirty, At, Goto, goal, Moving, LineInv, Writing, Creating
    <3>2. BufNr = Nr /\ buf = DataOf("log", Nr, Off + wcnt)
      BY <3>1 DEF BufNr, Filling, LineInv
    <3>3. Off + wcnt >= Off
      <4>1. wcnt \in Nat
        BY <3>1, Portion, Numbers DEF Inv, Types, LocType
      <4> HIDE DEF Off, wcnt
      <4> QED BY <1>3, <4>1
    <3>4. buf'.of = "log" /\ buf'.nr = Nr /\ buf'.n >= fil.fptr - Nr * SectorSize
      BY <1>4, <3>1, <3>2, <3>3 DEF DataOf
    <3>5. goal \in Filling /\ goal' \in Filling
      BY <3>1 DEF Filling
    <3> QED BY <1>1, <1>2, <2>1, <2>2, <3>2, <3>4, <3>5 DEF BufferOk
  <2>5. ASSUME ~Copy, ~MarkDirty
        PROVE  BufferOk(p, len)'
    <3>1. buf' = buf
      BY <2>5, BufSteps
    <3>2. fil'.dirty => fil.dirty
      <4>1. CASE Flush \/ SyncData
        BY <4>1, FlushWrites, SyncDataWrites DEF WritesBuffer
      <4>2. CASE ~(Flush \/ SyncData)
        BY <2>5, <4>2, FileSteps
      <4> QED BY <4>1, <4>2
    <3> QED BY <1>1, <1>2, <2>1, <2>2, <3>1, <3>2 DEF BufferOk
  <2> QED BY <2>3, <2>4, <2>5
<1> QED BY <1>5, <1>6, <1>7

-----------------------------------------------------------------------------
(***************************************************************************)
(* What the directory says of the file stays true.                         *)
(***************************************************************************)
\* Once the entry has been written, the window gets nowhere but to the directory, ...
LEMMA OverStays ==
    ASSUME Inv, StopInv, WindowInv, SyncInv, ClosedInv, OverInv, [Next]_vars, geo' = geo, Sound',
           opened, ~Opened, ~Before, fil.fptr > 0, Writable /\ fs.wflag => over = DirSec
    PROVE  /\ Writable' /\ fs'.wflag => over' = DirSec
           /\ \A c \in Cluster : card'[FatSec(c)] = card[FatSec(c)]
<1>0. /\ DirSec \in Here /\ DirSec # InfoSec
      /\ \A c \in Cluster : FatSec(c) \in Here /\ NoData(FatSec(c)) /\ FatSec(c) \notin {DirSec, InfoSec, NoSec}
      /\ Sound /\ opened'
  BY HereHas, SoundStays, OpenedStays DEF Inv, Types, NoData, FatSec, DirSec, InfoSec, NoSec
<1>11. fs.mounted => reg
  <2>1. fil.fptr # 0
    BY Numbers DEF Inv, Types, FilType
  <2> QED BY <2>1 DEF OverInv
<1>1. /\ Writable' => Writable
      /\ isr = "off" => ~fs.mounted
      /\ isr \in Syncing => fs.mounted
      /\ validate => isr \notin {"off", "validate", "data", "window", "read", "entry"}
  <2>1. validate => isr \notin {"off", "validate", "data", "window", "read", "entry"}
    BY <1>11 DEF Before, validate
  <2>2. isr = "off" => ~fs.mounted
    BY <1>11, <2>1 DEF ClosedInv, OverInv, validate
  <2> QED BY <2>1, <2>2, WritableStays DEF WindowInv, Syncing, validate
<1>2. ~(InitVolume \/ MakeEntry \/ RemovePut)
  BY DEF InitVolume, MakeEntry, RemovePut, At, Inv, StartInv, goal, Moving, Starting
<1>3. ~(SyncData \/ SyncMoveWindow \/ SyncReadWindow \/ SyncEntry)
  BY <1>1 DEF SyncData, SyncMoveWindow, SyncReadWindow, SyncEntry, In, Syncing, WindowInv
<1>6. ReadWindow => UNCHANGED card /\ ~Writable'
  <2> SUFFICES ASSUME ReadWindow PROVE UNCHANGED card /\ ~Writable'
    OBVIOUS
  <2>1. ReadsWindow(loc.target) /\ isr = "off" /\ pc' = "mw_set"
    BY <1>0, ReadWindowReads
  <2>2. ~Writable'
    BY <1>0, <1>1, <2>1 DEF Writable, ReadsWindow
  <2> QED BY <2>1, <2>2 DEF ReadsWindow
<1>12. Writable' /\ ~SyncFsInfo => over' = over
  BY <1>2, <1>3, <1>6, OverSteps
<1> HIDE DEF over
<1>4. CASE VolumeKept /\ ~SyncFsInfo
  BY <1>1, <1>4, <1>12 DEF VolumeKept
<1>5. CASE SyncWindow \/ ClearFlag
  <2>1. WritesWindow /\ fs.wflag /\ ~SyncFsInfo
    BY <1>0, <1>5, SyncWindowWrites, ClearFlagWrites DEF SyncWindow, ClearFlag, SyncFsInfo, At,
      In, OverInv
  <2>2. ASSUME NEW c \in Cluster PROVE card'[FatSec(c)] = card[FatSec(c)]
    <3>1. CASE SyncWindow
      <4>1. Writable
        BY <3>1 DEF Writable, SyncWindow, At
      <4> QED BY <1>0, <2>1, <4>1 DEF WritesWindow
    <3>2. CASE ClearFlag
      BY <3>2 DEF ClearFlag
    <3> QED BY <1>5, <3>1, <3>2
  <2> QED BY <1>1, <1>12, <2>1, <2>2
<1>7. CASE CreateMarked \/ CreateLinked
  <2>1. pc' \in {"c_link", "c_end"} /\ isr = "off" /\ fs'.mounted = fs.mounted /\ card' = card
    BY <1>7 DEF CreateMarked, CreateLinked, At, Goto, Inv, Types, FsType
  <2>2. ~Writable'
    BY <1>0, <1>1, <2>1 DEF Writable
  <2> QED BY <2>1, <2>2
<1>13. CASE SetSector
  <2>1. UNCHANGED card /\ fs'.wflag = fs.wflag /\ ~SyncFsInfo
    BY <1>13, SetSectorKeeps DEF SetSector, SyncFsInfo, At, In
  <2> QED BY <1>1, <1>12, <2>1
<1>8. CASE Flush
  <2>1. WritesBuffer \/ UNCHANGED card
    BY <1>0, <1>8, FlushWrites
  <2>2. \A c \in Cluster : card'[FatSec(c)] = card[FatSec(c)]
    BY <1>0, <2>1 DEF WritesBuffer, OverInv
  <2>3. fs' = fs /\ ~SyncFsInfo
    BY <1>0, <1>8, FlushWrites DEF SyncFsInfo, In
  <2> QED BY <1>1, <1>12, <2>2, <2>3
<1>9. CASE SyncFs
  <2>1. /\ isr = "sync" /\ fs'.winsect = fs.winsect
        /\ \A s \in Here \ {fs.winsect} : card'[s] = card[s]
    BY <1>0, <1>9, SyncFsWrites
  <2>2. fs.winsect = DirSec
    BY <2>1 DEF OverInv
  <2>3. over' = DirSec
    BY <1>9, <2>1, <2>2, NewOver
  <2> QED BY <1>0, <2>1, <2>2, <2>3
<1>10. CASE SyncFsInfo
  <2>1. /\ isr = "fsinfo" /\ fs'.wflag = fs.wflag
        /\ \A s \in Here \ {InfoSec} : card'[s] = card[s]
    BY <1>10, SyncFsInfoWrites
  <2>2. ~fs.wflag
    BY <1>1, <1>11, <2>1 DEF SyncInv, Syncing
  <2> QED BY <1>0, <2>1, <2>2
<1> QED BY <1>2, <1>3, <1>4, <1>5, <1>6, <1>7, <1>8, <1>9, <1>10, <1>13, VolumeSteps

\* ... and neither the text nor the FAT it claims is touched.
LEMMA ClaimStays ==
    ASSUME Inv, WindowInv, SyncInv, ClosedInv, StopInv, OverInv, LineInv, [Next]_vars, geo' = geo,
           Sound, Sound',
           opened, ~Opened, NEW len \in Nat, NEW p \in [0..len - 1 -> Cluster], FileOk(p, len),
           NEW d, d.size \in Nat, Claimed(d, p, len)
    PROVE  Claimed(d, p, len)'
<1>1. CASE d.size = 0
  BY <1>1 DEF Claimed
<1>2. CASE d.size > 0
  <2>1. /\ d.kind = "dir"
        /\ ~Before /\ d.of = "log" /\ len > 0 /\ d.start = p[0] /\ d.size <= fil.fptr
        /\ OnCard(p, len)
        /\ Writable /\ fs.wflag => over = DirSec
        /\ \A pos \in 0..d.size - 1 : /\ Within(pos \div SectorSize, len)
                                      /\ Holds(card[Spot(p, pos \div SectorSize)], pos)
    BY <1>2 DEF Claimed
  <2>2. ~Before'
    BY <2>1, BeforeStays
  <2>3. /\ Writable' /\ fs'.wflag => over' = DirSec
        /\ \A c \in Cluster : card'[FatSec(c)] = card[FatSec(c)]
    <3>1. fil.fptr > 0
      BY <1>2, <2>1 DEF Inv, Types, FilType
    <3> HIDE DEF over
    <3> QED BY <2>1, <3>1, OverStays
  <2>4. OnCard(p, len)'
    <3>1. \A i \in 0..len - 2 : p[i] \in Cluster
      OBVIOUS
    <3>2. p[len - 1] \in Cluster
      BY <2>1
    <3> QED BY <2>1, <2>3, <3>1, <3>2 DEF OnCard
  <2>5. fil.fptr \in Nat /\ fil.fptr <= fil'.fptr /\ fil'.fptr \in Nat
    <3>1. fil.fptr \in Nat
      BY DEF Inv, Types, FilType
    <3>2. Advance => fil'.fptr = fil.fptr + wcnt /\ wcnt \in Nat
      BY Advances
    <3> HIDE DEF wcnt
    <3> QED BY <3>1, <3>2, FileSteps
  <2>6. d.size <= fil'.fptr
    BY <2>1, <2>5
  <2>7. ASSUME NEW pos \in 0..d.size - 1
        PROVE  /\ Within(pos \div SectorSize, len)'
               /\ Holds(card[Spot(p, pos \div SectorSize)], pos)'
    <3>1. pos \in 0..fil.fptr - 1
      BY <2>1, <2>5
    <3>2. Within(pos \div SectorSize, len) /\ Holds(card[Spot(p, pos \div SectorSize)], pos)
      BY <2>1
    <3>3. Within(pos \div SectorSize, len)'
      BY <3>2 DEF Within
    <3> QED BY <3>1, <3>2, <3>3, HoldsStays
  <2> QED BY <2>1, <2>2, <2>3, <2>4, <2>6, <2>7 DEF Claimed
<1> QED BY <1>1, <1>2

\* The entry that f_sync puts together.
LEMMA NewClaim ==
    ASSUME Inv, StopInv, WindowInv, SyncInv, OverInv, LineInv, [Next]_vars, geo' = geo, Sound,
           opened, SyncEntry, NEW len \in Nat, NEW p \in [0..len - 1 -> Cluster], FileOk(p, len)
    PROVE  Claimed(win, p, len)'
<1>1. /\ isr = "entry" /\ isr' = "sync" /\ UNCHANGED <<card, pc, loc>>
      /\ fil'.fptr = fil.fptr /\ fs'.winsect = fs.winsect
      /\ win' = IF win.kind = "dir" THEN DirOf("log", fil.sclust, fil.fsize) ELSE Junk
  BY DEF SyncEntry, In, Then, Inv, Types, FilType, FsType
<1>9. validate /\ fs.winsect = DirSec /\ fil.fs /\ Writable
  BY <1>1 DEF WindowInv, Syncing, OverInv, Writable, validate
<1>8. over = DirSec /\ over' = DirSec
  BY <1>1, <1>9, NewOver
<1>2. validate /\ fs.winsect = DirSec /\ win.kind = "dir" /\ fil.fs
  BY <1>8, <1>9 DEF FileOk, ClaimsOk, Claimed
<1>3. win' = DirOf("log", fil.sclust, fil.fsize) /\ ~Before'
  BY <1>1, <1>2 DEF Before
<1>4. win'.kind = "dir" /\ win'.of = "log" /\ win'.start = fil.sclust /\ win'.size = fil.fsize
  BY <1>3 DEF DirOf
<1>5. fil.fsize \in Nat /\ fil.fptr \in Nat /\ fil.fsize <= fil.fptr
  BY DEF Inv, Types, FilType, CountInv
<1>6. CASE fil.fsize = 0
  BY <1>4, <1>6 DEF Claimed
<1>7. CASE fil.fsize > 0
  <2>10. Before
    BY <1>1, <1>2, <1>7 DEF Before, OverInv, validate
  <2>1. ChainOk(p, len) /\ TextOk(p, len)
    BY <2>10 DEF FileOk
  <2>2. ~fil.dirty
    BY <1>1, <2>10 DEF LineInv
  <2>3. \A pos \in 0..fil.fptr - 1 : /\ Within(pos \div SectorSize, len)
                                     /\ Holds(card[Spot(p, pos \div SectorSize)], pos)
    BY <2>1, <2>2 DEF TextOk
  <2>4. len > 0
    <3>1. Within(0 \div SectorSize, len)
      BY <1>5, <1>7, <2>3
    <3>2. 0 \div SectorSize \in Nat
      <4>1. 0 \in 0..fil.fptr - 1
        BY <1>5, <1>7
      <4> QED BY <4>1, UnitIs
    <3>3. (0 \div SectorSize) \div geo.csize \in Nat
      BY <3>2, HereHas DEF Inv, Types
    <3> QED BY <3>1, <3>3 DEF Within
  <2>5. fil.sclust = p[0]
    <3>1. ~(goal = "c_end" /\ len = 1)
      <4> SUFFICES ASSUME goal = "c_end", len = 1 PROVE FALSE
        OBVIOUS
      <4>1. Nr \div geo.csize = 0
        <5>1. len - 1 = Nr \div geo.csize
          BY <2>1 DEF ChainOk
        <5> QED BY <5>1
      <4>2. Off = 0 /\ csect = 0
        BY <1>2 DEF LineInv, Creating
      <4>3. Nr \in Nat \ {0}
        BY <1>5, <1>7, <4>2, Position DEF Inv, Types
      <4>4. geo.csize \in Nat \ {0} /\ Nr % geo.csize = 0
        BY <4>2, HereHas DEF Inv, Types, csect, Nr
      <4> QED BY <4>1, <4>3, <4>4, DivBefore
    <3> QED BY <2>1, <2>4, <3>1 DEF ChainOk
  <2>6. OnCard(p, len)
    <3>1. \A c \in Cluster : View(c) = card[FatSec(c)].entry[c]
      BY <1>8, SectorsDiffer DEF View, InWindow
    <3>2. \A i \in 0..len - 2 : p[i] \in Cluster
      OBVIOUS
    <3>3. p[len - 1] \in Cluster
      BY <2>4
    <3> QED BY <2>1, <3>1, <3>2, <3>3 DEF OnCard, ChainOk, Linked
  <2>7. \A n : Within(n, len)' = Within(n, len) /\ Spot(p, n)' = Spot(p, n)
    BY DEF Within, Spot
  <2>8. OnCard(p, len)'
    BY <1>1, <2>6 DEF OnCard
  <2>9. \A pos \in 0..fil.fsize - 1 : /\ Within(pos \div SectorSize, len)'
                                      /\ Holds(card[Spot(p, pos \div SectorSize)], pos)'
    <3>1. \A pos \in 0..fil.fsize - 1 : pos \in 0..fil.fptr - 1
      BY <1>5
    <3> QED BY <1>1, <2>3, <2>7, <3>1 DEF Holds
  <2> QED BY <1>1, <1>3, <1>4, <1>5, <1>8, <2>4, <2>5, <2>8, <2>9 DEF Claimed
<1> QED BY <1>5, <1>6, <1>7

LEMMA ClaimsStep ==
    ASSUME Inv, WindowInv, SyncInv, ClosedInv, StopInv, OverInv, LineInv, [Next]_vars, geo' = geo,
           Sound, Sound',
           opened, ~Opened, NEW len \in Nat, NEW p \in [0..len - 1 -> Cluster], FileOk(p, len)
    PROVE  ClaimsOk(p, len)'
<1>0. /\ DirSec \in Here /\ DirSec # InfoSec /\ DirSec # NoSec /\ NoData(DirSec)
      /\ \A c \in Cluster : FatSec(c) # DirSec
  BY HereHas, SectorsDiffer DEF Inv, Types, NoData, DirSec, NoSec
<1>1. ~(InitVolume \/ MakeEntry \/ RemovePut)
  BY DEF InitVolume, MakeEntry, RemovePut, At, Inv, StartInv, goal, Moving, Starting
<1>2. \A w \in Content : w.kind = "dir" => w.size \in Nat
  BY Kinds DEF Dirs
<1>3. Claimed(card[DirSec], p, len)
  BY DEF FileOk, ClaimsOk
<1>4. \A d : d = card[DirSec] => Claimed(d, p, len)'
  <2>1. card[DirSec].kind = "dir"
    BY <1>3 DEF Claimed
  <2>2. card[DirSec].size \in Nat
    BY <1>0, <1>2, <2>1 DEF Inv, Types, DiskType
  <2> QED BY <1>3, <2>2, ClaimStays
<1>5. over = DirSec /\ Writable => \A d : d = win => Claimed(d, p, len)'
  <2> SUFFICES ASSUME over = DirSec, Writable PROVE \A d : d = win => Claimed(d, p, len)'
    OBVIOUS
  <2>1. Claimed(win, p, len)
    BY DEF FileOk, ClaimsOk
  <2>2. win.kind = "dir"
    BY <2>1 DEF Claimed
  <2>3. win.size \in Nat
    BY <1>2, <2>2 DEF Inv, Types, DiskType
  <2> QED BY <2>1, <2>3, ClaimStays
<1>6. Writable' => Writable
  BY WritableStays
<1>11. Writable' => over' = over \/ ReadWindow \/ SyncReadWindow \/ SyncFsInfo
  BY <1>1, OverSteps
<1> HIDE DEF over
<1>7. card'[DirSec] = card[DirSec] \/ (card'[DirSec] = win /\ over = DirSec /\ Writable)
  <2>1. CASE SyncWindow \/ ClearFlag
    <3>1. WritesWindow /\ (pc = "mw_write" \/ UNCHANGED card)
      BY <2>1, SyncWindowWrites, ClearFlagWrites
    <3> QED BY <1>0, <3>1 DEF WritesWindow, Writable
  <2>2. CASE SyncMoveWindow
    BY <1>0, <2>2, SyncMoveWindowWrites DEF WritesWindow
  <2>3. CASE SyncFs
    <3>1. isr = "sync"
      BY <2>3, SyncFsWrites
    <3>2. Writable
      BY <3>1 DEF WindowInv, Syncing, validate, Writable
    <3>3. over = fs.winsect
      BY <2>3, NewOver
    <3> QED BY <1>0, <2>3, <3>2, <3>3, SyncFsWrites
  <2>4. CASE SyncFsInfo
    BY <1>0, <2>4, SyncFsInfoWrites
  <2>5. CASE Flush \/ SyncData
    <3>1. WritesBuffer \/ UNCHANGED card
      BY <2>5, FlushWrites, SyncDataWrites
    <3>2. DirSec # fil.dsect
      BY <1>0 DEF OverInv
    <3> QED BY <1>0, <3>1, <3>2 DEF WritesBuffer
  <2>6. CASE ReadWindow \/ SetSector \/ SyncReadWindow
    BY <2>6 DEF ReadWindow, SetSector, SyncReadWindow, disk_read
  <2>7. CASE CreateMarked \/ CreateLinked \/ SyncEntry
    BY <2>7 DEF CreateMarked, CreateLinked, SyncEntry
  <2>8. CASE VolumeKept
    BY <2>8 DEF VolumeKept
  <2> QED BY <1>1, <2>1, <2>2, <2>3, <2>4, <2>5, <2>6, <2>7, <2>8, VolumeSteps
<1>8. Claimed(card[DirSec], p, len)'
  BY <1>4, <1>5, <1>7
<1>9. ASSUME over' = DirSec, Writable', ~SyncEntry
      PROVE  (win' = win /\ over = DirSec) \/ win' = card[DirSec]
  <2>1. CASE SyncWindow \/ ClearFlag \/ SetSector \/ SyncMoveWindow \/ SyncFs \/ Flush \/ SyncData
    <3>1. win' = win
      BY <2>1 DEF SyncWindow, ClearFlag, SetSector, SyncMoveWindow, SyncFs, Flush, SyncData, volume
    <3>2. ~ReadWindow /\ ~SyncReadWindow /\ ~SyncFsInfo
      BY <2>1 DEF SyncWindow, ClearFlag, SetSector, SyncMoveWindow, SyncFs, Flush, SyncData,
        ReadWindow, SyncReadWindow, SyncFsInfo, At, In
    <3> QED BY <1>9, <1>11, <3>1, <3>2
  <2>2. CASE ReadWindow \/ SyncReadWindow
    <3>1. \E t \in {loc.target, DirSec} : ReadsWindow(t)
      BY <2>2, ReadWindowReads, SyncReadWindowReads
    <3> QED BY <1>0, <1>9, <3>1 DEF ReadsWindow
  <2>3. CASE CreateMarked \/ CreateLinked
    <3>1. /\ pc \in {"c_marked", "c_linked"} /\ pc' \in {"c_link", "c_end"} /\ isr = "off"
          /\ fs'.mounted = fs.mounted /\ opened' = opened
      BY <2>3 DEF CreateMarked, CreateLinked, At, Goto, history, Inv, Types, FsType
    <3>2. Before
      BY <1>9, <3>1, MountedIsBefore DEF Writable
    <3>3. loc.ncl \in Cluster /\ (pc = "c_linked" => loc.clst \in Cluster)
      BY <3>1 DEF Inv, ClusterInv, goal, Moving
    <3>4. \E c \in Cluster : over = FatSec(c)
      BY <3>1, <3>2, <3>3 DEF OverInv, InWindow
    <3>5. over' = over
      BY <2>3, NewOver DEF CreateMarked, CreateLinked, Inv, Types, FsType
    <3> QED BY <1>0, <1>9, <3>4, <3>5
  <2>4. CASE SyncFsInfo
    <3>1. over = fs.winsect /\ over' = fs'.winsect
      BY <2>4, NewOver
    <3> QED BY <1>0, <1>9, <2>4, <3>1, SyncFsInfoWrites
  <2>5. CASE VolumeKept /\ ~ReadWindow /\ ~SyncReadWindow /\ ~SyncFsInfo
    BY <1>9, <1>11, <2>5 DEF VolumeKept
  <2> QED BY <1>1, <1>9, <2>1, <2>2, <2>3, <2>4, <2>5, VolumeSteps
<1>10. ASSUME over' = DirSec, Writable'
       PROVE  Claimed(win, p, len)'
  <2>1. CASE SyncEntry
    BY <2>1, NewClaim
  <2>2. CASE ~SyncEntry
    BY <1>4, <1>5, <1>6, <1>9, <1>10, <2>2
  <2> QED BY <2>1, <2>2
<1> QED BY <1>8, <1>10 DEF ClaimsOk

-----------------------------------------------------------------------------
(***************************************************************************)
(* The chain of the file in the FAT.                                       *)
(***************************************************************************)
\* A cluster that is free belongs to nobody.
LEMMA FreshOne ==
    ASSUME Inv, Sound, OverInv, FatInv, Before, goal = "c_marked", pc = "c_marked", isr = "off",
           NEW len \in 0..Clusters, NEW p \in [0..len - 1 -> Cluster], FileOk(p, len)
    PROVE  /\ loc.ncl \in Cluster /\ loc.ncl \notin geo.others
           /\ \A i \in 0..len - 1 : p[i] # loc.ncl
<1>1. loc.ncl \in Cluster
  BY DEF Inv, ClusterInv
<1>2. View(loc.ncl) = 0
  BY DEF FatInv
<1>3. FatOk(card[FatSec(loc.ncl)], loc.ncl) /\ (InWindow(loc.ncl) => FatOk(win, loc.ncl))
  BY <1>1 DEF FatInv, Before, validate, Writable
<1>4. loc.ncl \notin geo.others
  BY <1>2, <1>3, Numbers DEF FatOk, View
<1>5. ASSUME NEW i \in 0..len - 1 PROVE p[i] # loc.ncl
  <2>1. Linked(p, len)
    BY DEF FileOk, ChainOk
  <2>2. CASE i \in 0..len - 2
    <3>1. View(p[i]) = p[i + 1] /\ i + 1 \in 0..len - 1
      BY <2>1, <2>2 DEF Linked
    <3> QED BY <1>2, <3>1, Numbers
  <2>3. CASE i = len - 1
    <3>1. View(p[i]) = NFat
      BY <1>5, <2>1, <2>3 DEF Linked
    <3> QED BY <1>2, <3>1, Numbers
  <2> QED BY <2>2, <2>3
<1> QED BY <1>1, <1>4, <1>5

LEMMA LinkedStays ==
    ASSUME Inv, StopInv, WindowInv, SyncInv, OverInv, FatInv, [Next]_vars, geo' = geo,
           opened, Before', Sound', ~CreateLinked,
           NEW len \in 0..Clusters, NEW p \in [0..len - 1 -> Cluster], FileOk(p, len)
    PROVE  Linked(p, len)'
<1>0. Before /\ Sound
  BY BeforeStays, SoundStays
<1>1. \A i \in 0..len - 1 : View(p[i])' = View(p[i])
  <2>1. CASE CreateMarked
    <3>1. goal = "c_marked" /\ pc = "c_marked" /\ isr = "off"
      BY <2>1 DEF CreateMarked, At, goal, Moving
    <3>2. \A i \in 0..len - 1 : p[i] # loc.ncl
      BY <1>0, <3>1, FreshOne
    <3> QED BY <2>1, <3>2, ViewSteps
  <2>2. CASE ~CreateMarked
    BY <2>2, ViewSteps
  <2> QED BY <2>1, <2>2
<1>2. Linked(p, len)
  BY <1>0 DEF FileOk, ChainOk
<1>3. /\ \A i \in 0..len - 2 : i \in 0..len - 1
      /\ len > 0 => len - 1 \in 0..len - 1
  OBVIOUS
<1> QED BY <1>1, <1>2, <1>3 DEF Linked

Sectoring == {"flush", "sector"} \cup Filling

\* Steps that main does without the FAT.
LEMMA ChainKept ==
    ASSUME NEW len \in 0..Clusters, NEW p \in [0..len - 1 -> Cluster], ChainOk(p, len), Linked(p, len)',
           geo' = geo, fil'.fptr = fil.fptr, fil'.sclust = fil.sclust, fil'.clust = fil.clust,
           fil'.err = fil.err, goal # "c_end", goal # "abort", goal' \notin Creating, FilType,
           goal' \in Sectoring => goal \in Sectoring \/ Off # 0,
           goal \in Sectoring => goal' \in Sectoring \/ goal' = "abort"
    PROVE  ChainOk(p, len)'
<1>1. Nr' = Nr /\ Off' = Off
  BY SamePlace
<1>2. Off # 0 => fil.fptr > 0
  BY Position DEF FilType
<1>3. goal' # "abort" => ClustNr' = ClustNr
  BY <1>1 DEF ClustNr, Sectoring
<1>4. \A n : Within(n, len)' = Within(n, len)
  BY DEF Within
<1>5. goal' \notin {"c_end", "c_get", "c_got", "c_next", "c_try", "c_mark", "c_marked", "c_link", "c_linked"}
  BY DEF Creating
<1>6. goal' \in Sectoring => goal \in Sectoring \/ fil.fptr > 0
  BY <1>2
<1>7. ~fil'.err /\ goal' # "abort" /\ (fil'.fptr > 0 \/ goal' \in Sectoring) =>
        Within(ClustNr, len)' /\ fil'.clust = p[ClustNr \div geo.csize]'
  BY <1>3, <1>4, <1>6 DEF ChainOk, Sectoring
<1>8. fil'.sclust = IF len = 0 THEN 0 ELSE p[0]
  BY DEF ChainOk
<1> HIDE DEF goal
<1> QED BY <1>5, <1>7, <1>8 DEF ChainOk, Sectoring

\* Steps from one place in create_chain to another.
LEMMA ChainSearched ==
    ASSUME NEW len \in 0..Clusters, NEW p \in [0..len - 1 -> Cluster], ChainOk(p, len), Linked(p, len)',
           geo' = geo, fil' = fil, goal \in Creating \ {"c_end"}, loc'.clst = loc.clst,
           \/ goal = "c_get" /\ goal' = "c_got"
           \/ /\ goal \in {"c_next", "c_try", "c_mark"}
              /\ goal' \in {"c_next", "c_try", "c_mark", "c_marked"}
           \/ /\ goal = "c_marked" /\ goal' = "c_link"
              /\ len > 0 /\ (View(loc.ncl) = NFat)' /\ loc'.ncl \notin geo.others
              /\ \A i \in 0..len - 1 : p[i] # loc'.ncl
           \/ /\ goal = "c_link" /\ goal' = "c_linked" /\ loc'.ncl = loc.ncl
              /\ (View(loc.ncl) = NFat)'
    PROVE  ChainOk(p, len)'
<1>1. Nr' = Nr /\ Off' = Off
  BY SamePlace
<1>2. goal \notin {"flush", "sector"} \cup Filling /\ goal' \notin {"flush", "sector"} \cup Filling
      /\ goal' \in Creating \ {"c_end"} /\ goal # "abort" /\ goal' # "abort"
  BY DEF Creating, Filling
<1>3. ClustNr' = ClustNr
  BY <1>1, <1>2 DEF ClustNr
<1>4. \A n : Within(n, len)' = Within(n, len)
  BY DEF Within
<1> HIDE DEF goal, View, ClustNr, Within
<1> QED BY <1>1, <1>2, <1>3, <1>4 DEF ChainOk

\* A new sector begins in the cluster of the file that it belongs to, ...
LEMMA ChainBound ==
    ASSUME Inv, LineInv, Boundary, geo' = geo, Before, Sound, NEW len \in 0..Clusters,
           NEW p \in [0..len - 1 -> Cluster], ChainOk(p, len), Linked(p, len)'
    PROVE  ChainOk(p, len)'
<1>0. goal = "bound" /\ fil.fs /\ ~fil.err /\ Off = 0
  BY DEF Boundary, At, goal, Moving, Before, validate, LineInv, Writing
<1>1. /\ fil'.fptr = fil.fptr /\ fil'.sclust = fil.sclust /\ fil'.err = fil.err
      /\ fil'.clust = IF fil.fptr = 0 THEN fil.sclust ELSE fil.clust
      /\ \/ goal' = "flush" /\ (csect # 0 \/ (fil.fptr = 0 /\ fil.sclust # 0))
         \/ goal' = "c_next" /\ csect = 0 /\ fil.fptr = 0 /\ fil.sclust = 0 /\ loc'.clst = 0
         \/ goal' = "c_get" /\ csect = 0 /\ fil.fptr # 0 /\ loc'.clst = fil.clust
  BY <1>0 DEF Boundary, Goto, goal, Moving, Inv, Types, FilType, LocType
<1>2. Nr' = Nr /\ Off' = Off
  BY <1>1, SamePlace
<1>3. /\ Nr \in Nat /\ fil.fptr \in Nat /\ geo.csize \in Nat \ {0} /\ csect = Nr % geo.csize
      /\ fil.fptr > 0 => Nr > 0
      /\ fil.fptr = 0 => Nr = 0
  BY <1>0, Position, HereHas DEF Inv, Types, FilType, csect, Nr
<1>4. /\ \A n : Within(n, len)' = Within(n, len)
      /\ 0 \div geo.csize = 0 /\ 0 % geo.csize = 0
  BY <1>3 DEF Within
<1>5. /\ ClustNr = Nr - 1
      /\ fil.sclust = IF len = 0 THEN 0 ELSE p[0]
      /\ fil.fptr > 0 => Within(Nr - 1, len) /\ fil.clust = p[(Nr - 1) \div geo.csize]
  <2>1. ClustNr = Nr - 1
    BY <1>0 DEF ClustNr, Filling
  <2> QED BY <1>0, <2>1 DEF ChainOk
<1>6. len # 0 => p[0] \in Cluster /\ p[0] # 0
  BY Numbers
<1>7. CASE goal' = "flush"
  <2>1. ClustNr' = Nr
    BY <1>2, <1>7 DEF ClustNr
  <2>2. Within(Nr, len) /\ fil'.clust = p[Nr \div geo.csize]
    <3>1. CASE fil.fptr = 0
      <4>1. fil.sclust # 0 /\ Nr = 0
        BY <1>1, <1>3, <1>4, <1>7, <3>1
      <4> QED BY <1>1, <1>4, <1>5, <3>1, <4>1 DEF Within
    <3>2. CASE fil.fptr > 0
      <4>1. Nr % geo.csize # 0 /\ Nr > 0
        BY <1>1, <1>3, <1>7, <3>2
      <4>2. \A n \in Nat \ {0} : n % geo.csize # 0 => (n - 1) \div geo.csize = n \div geo.csize
        BY <1>3, DivBefore
      <4>3. (Nr - 1) \div geo.csize = Nr \div geo.csize
        BY <1>3, <4>1, <4>2
      <4> QED BY <1>1, <1>5, <3>2, <4>3 DEF Within
    <3> QED BY <1>3, <3>1, <3>2
  <2> HIDE DEF goal, ClustNr, Within
  <2> QED BY <1>1, <1>4, <1>5, <1>7, <2>1, <2>2 DEF ChainOk
<1>8. CASE goal' = "c_next"
  <2>1. len = 0 /\ Nr = 0
    BY <1>1, <1>3, <1>5, <1>6, <1>8
  <2> HIDE DEF goal, ClustNr, Within
  <2> QED BY <1>1, <1>2, <1>4, <1>5, <1>8, <2>1 DEF ChainOk, Filling
<1>9. CASE goal' = "c_get"
  <2>1. ClustNr' = Nr - 1
    BY <1>0, <1>2, <1>9 DEF ClustNr, Filling
  <2>2. fil.fptr > 0 /\ fil'.clust = fil.clust
    BY <1>1, <1>3, <1>9
  <2> HIDE DEF goal, ClustNr, Within
  <2> QED BY <1>1, <1>2, <1>4, <1>5, <1>9, <2>1, <2>2 DEF ChainOk, Filling
<1> QED BY <1>1, <1>7, <1>8, <1>9

\* ... the one that the FAT names, or one that is still to be found.
LEMMA ChainGot ==
    ASSUME Inv, LineInv, OverInv, FatInv, CreateGot, geo' = geo, Before, Sound, NEW len \in 0..Clusters,
           NEW p \in [0..len - 1 -> Cluster], ChainOk(p, len), Linked(p, len)'
    PROVE  ChainOk(p, len)'
<1>0. goal = "c_got" /\ pc = "c_got" /\ isr = "off" /\ fil.fs /\ ~fil.err /\ Off = 0 /\ csect = 0
      /\ fil.fptr > 0
  BY DEF CreateGot, At, goal, Moving, Before, validate, LineInv, Writing, Creating
<1>1. /\ loc.clst \in Cluster /\ loc.clst = fil.clust /\ InWindow(loc.clst)
      /\ FatOk(win, loc.clst)
  <2>1. loc.clst \in Cluster
    BY <1>0 DEF Inv, ClusterInv
  <2>2. loc.clst = fil.clust
    BY <1>0 DEF ChainOk
  <2>3. InWindow(loc.clst)
    BY <1>0 DEF OverInv
  <2> QED BY <2>1, <2>2, <2>3 DEF FatInv, Before, validate, Writable
<1>2. Entry(win, loc.clst) = {View(loc.clst)}
  BY <1>1 DEF Entry, View, FatOk
<1>3. /\ Nr \in Nat \ {0} /\ geo.csize \in Nat \ {0} /\ Nr % geo.csize = 0
  BY <1>0, Position, HereHas DEF Inv, Types, FilType, csect, Nr
<1> DEFINE k == (Nr - 1) \div geo.csize
<1>4. Nr \div geo.csize > 0 /\ k = (Nr \div geo.csize) - 1
  BY <1>3, DivBefore
<1>5. Nr \div geo.csize \in Nat
  BY <1>3, DivMod
<1>6. k \in Nat /\ Nr \div geo.csize = k + 1
  BY <1>4, <1>5
<1>7. k < len /\ fil.clust = p[k]
  <2>1. ClustNr = Nr - 1
    BY <1>0 DEF ClustNr, Filling
  <2> QED BY <1>0, <2>1 DEF ChainOk, Within
<1>8. /\ fil'.fptr = fil.fptr /\ fil'.sclust = fil.sclust /\ fil'.err = fil.err
      /\ \/ View(loc.clst) < 2
         \/ View(loc.clst) < NFat /\ goal' = "flush" /\ fil'.clust = View(loc.clst)
         \/ goal' = "c_next" /\ loc'.clst = loc.clst /\ fil'.clust = fil.clust /\ ~(View(loc.clst) < NFat)
  BY <1>0, <1>2 DEF CreateGot, Goto, goal, Moving, Inv, Types, FilType, LocType
<1>9. Nr' = Nr /\ Off' = Off
  BY <1>8, SamePlace
<1>10. \A n : Within(n, len)' = Within(n, len)
  BY DEF Within
<1>11. fil.sclust = IF len = 0 THEN 0 ELSE p[0]
  BY <1>0 DEF ChainOk
<1>12. Linked(p, len) /\ len \in Nat
  BY DEF ChainOk
<1> HIDE DEF k, View
<1>13. CASE k < len - 1
  <2>1. k \in 0..len - 2 /\ k + 1 \in 0..len - 1
    BY <1>6, <1>12, <1>13
  <2>2. View(p[k]) = p[k + 1] /\ p[k + 1] \in Cluster
    BY <1>12, <2>1 DEF Linked
  <2>3. goal' = "flush" /\ fil'.clust = p[k + 1]
    BY <1>1, <1>7, <1>8, <2>2, Numbers
  <2>4. ClustNr' = Nr
    BY <1>9, <2>3 DEF ClustNr
  <2>5. Within(Nr, len) /\ fil'.clust = p[Nr \div geo.csize]
    BY <1>6, <1>12, <2>1, <2>3 DEF Within
  <2> HIDE DEF goal, ClustNr, Within
  <2> QED BY <1>8, <1>10, <1>11, <2>3, <2>4, <2>5 DEF ChainOk
<1>14. CASE k = len - 1
  <2>1. View(p[k]) = NFat
    BY <1>6, <1>12, <1>14 DEF Linked
  <2>2. goal' = "c_next" /\ loc'.clst = loc.clst /\ fil'.clust = fil.clust
    BY <1>1, <1>7, <1>8, <2>1, Numbers
  <2>3. len = Nr \div geo.csize /\ loc'.clst = p[len - 1] /\ len # 0
    BY <1>1, <1>6, <1>7, <1>12, <1>14, <2>2
  <2>4. ClustNr' = Nr - 1
    BY <1>0, <1>9, <2>2 DEF ClustNr, Filling
  <2>5. Within(Nr - 1, len) /\ fil'.clust = p[(Nr - 1) \div geo.csize]
    BY <1>7, <2>2 DEF Within, k
  <2> HIDE DEF goal, ClustNr, Within
  <2> QED BY <1>8, <1>9, <1>10, <1>11, <2>2, <2>3, <2>4, <2>5 DEF ChainOk
<1> QED BY <1>6, <1>7, <1>12, <1>13, <1>14

\* The cluster that has been linked becomes the file's.
LEMMA ChainEnded ==
    ASSUME Inv, LineInv, CreateEnd, geo' = geo, NEW len \in 0..Clusters,
           NEW p \in [0..len - 1 -> Cluster], ChainOk(p, len), Linked(p, len)'
    PROVE  ChainOk(p, len)'
<1>0. goal = "c_end" /\ goal' = "flush" /\ loc.ncl \in Cluster
  BY DEF CreateEnd, At, Goto, goal, Moving, Inv, ClusterInv
<1>1. /\ fil'.fptr = fil.fptr /\ fil'.err = fil.err /\ fil'.clust = loc.ncl
      /\ fil'.sclust = IF fil.sclust = 0 THEN loc.ncl ELSE fil.sclust
  BY DEF CreateEnd, Inv, Types, FilType
<1>2. Nr' = Nr /\ Off' = Off
  BY <1>1, SamePlace
<1>3. \A n : Within(n, len)' = Within(n, len)
  BY DEF Within
<1>4. Nr \div geo.csize \in Nat
  <2>1. Nr \in Nat /\ geo.csize \in Nat \ {0}
    BY Position, HereHas DEF Inv, Types
  <2> QED BY <2>1, DivMod
<1>5. /\ len - 1 = Nr \div geo.csize /\ p[len - 1] = loc.ncl
      /\ fil.sclust = IF len = 0 \/ len = 1 THEN 0 ELSE p[0]
  BY <1>0 DEF ChainOk
<1>6. len > 0 /\ p[0] \in Cluster /\ p[0] # 0
  BY <1>4, <1>5, Numbers
<1>7. fil'.sclust = p[0]
  BY <1>1, <1>5, <1>6
<1>8. ClustNr' = Nr
  BY <1>0, <1>2 DEF ClustNr
<1>9. Within(Nr, len) /\ fil'.clust = p[Nr \div geo.csize]
  <2>1. Nr \div geo.csize = len - 1
    BY <1>5
  <2>2. Nr \div geo.csize < len
    BY <2>1
  <2> QED BY <1>1, <1>5, <2>1, <2>2 DEF Within
<1> HIDE DEF goal, ClustNr, Within
<1> QED BY <1>0, <1>1, <1>3, <1>6, <1>7, <1>8, <1>9 DEF ChainOk

LEMMA ChainAdvanced ==
    ASSUME Inv, LineInv, [Next]_vars, Advance, geo' = geo, NEW len \in 0..Clusters,
           NEW p \in [0..len - 1 -> Cluster], ChainOk(p, len), Linked(p, len)'
    PROVE  ChainOk(p, len)'
<1>1. /\ goal = "next" /\ goal' = "chunk" /\ BufNr = Nr /\ BufNr' = Nr
  BY Advances
<1>2. ClustNr = Nr /\ ClustNr' = Nr
  BY <1>1 DEF ClustNr, BufNr, Filling
<1>3. fil'.clust = fil.clust /\ fil'.sclust = fil.sclust /\ fil'.err = fil.err
  BY DEF Advance, Inv, Types, FilType
<1>4. \A n : Within(n, len)' = Within(n, len)
  BY DEF Within
<1>5. ~fil.err => Within(Nr, len) /\ fil.clust = p[Nr \div geo.csize]
  BY <1>1, <1>2 DEF ChainOk, Filling
<1>6. fil.sclust = IF len = 0 THEN 0 ELSE p[0]
  BY <1>1 DEF ChainOk
<1> HIDE DEF goal, ClustNr, Within
<1> QED BY <1>1, <1>2, <1>3, <1>4, <1>5, <1>6 DEF ChainOk, Filling

LEMMA ChainOkStep ==
    ASSUME Inv, StopInv, WindowInv, SyncInv, ClosedInv, OverInv, FatInv, LineInv, [Next]_vars, geo' = geo,
           opened, ~Opened, Before', Sound', ~CreateLinked, ~(CreateMarked /\ loc.clst = 0),
           NEW len \in 0..Clusters, NEW p \in [0..len - 1 -> Cluster], FileOk(p, len)
    PROVE  ChainOk(p, len)'
<1>0. Before /\ Sound /\ ChainOk(p, len) /\ Linked(p, len)' /\ FilType
  BY BeforeStays, SoundStays, LinkedStays DEF FileOk, Inv, Types
<1>1. CASE UNCHANGED <<pc, loc>> /\ ~Main
  <2>1. /\ goal' = goal /\ loc' = loc
        /\ fil'.fptr = fil.fptr /\ fil'.sclust = fil.sclust /\ fil'.clust = fil.clust /\ fil'.err = fil.err
    BY <1>1, FileSteps, ClustSteps DEF goal, Main
  <2>2. Nr' = Nr /\ Off' = Off
    BY <2>1, SamePlace
  <2>3. ClustNr' = ClustNr
    BY <2>1, <2>2 DEF ClustNr
  <2>4. \A n : Within(n, len)' = Within(n, len)
    BY DEF Within
  <2>5. goal \in {"c_link", "c_linked"} => (View(loc.ncl) = NFat)' /\ loc.ncl \notin geo.others
                                           /\ (\A i \in 0..len - 1 : p[i] # loc.ncl) /\ len > 0
    <3>1. \A c \in Cluster : View(c)' = View(c)
      BY <1>0, <1>1, ViewSteps DEF Main
    <3>2. goal \in {"c_link", "c_linked"} => loc.ncl \in Cluster
      BY DEF Inv, ClusterInv
    <3> QED BY <1>0, <2>1, <3>1, <3>2 DEF ChainOk
  <2> HIDE DEF goal, ClustNr, Within, View
  <2> QED BY <1>0, <2>1, <2>2, <2>3, <2>4, <2>5 DEF ChainOk
<1>2. CASE Main
  <2>0. isr' = "off" /\ isr = "off" /\ fs.mounted /\ fil.fs
    BY <1>0, <1>2, MainAlone DEF Before, validate, button
  <2>1. CASE MoveWindow \/ SyncWindow \/ ClearFlag \/ ReadWindow \/ SetSector
    <3>1. /\ goal \in Returns /\ goal' \in {goal, "loop", "abort"}
          /\ goal' = "loop" => goal \in Starting
          /\ loc'.clst = loc.clst /\ loc'.ncl = loc.ncl /\ fil' = fil
      BY <2>1, MovingSteps
    <3>2. goal' # "loop" \/ goal = "loop"
      BY <3>1 DEF Inv, StartInv
    <3>3. ~CreateMarked
      BY <2>1 DEF MoveWindow, SyncWindow, ClearFlag, ReadWindow, SetSector, CreateMarked, At
    <3>4. CASE goal' = "abort"
      <4>1. goal \notin Sectoring /\ goal \notin {"c_end", "abort"}
        BY <3>1 DEF Returns, Sectoring, Filling
      <4> QED BY <1>0, <3>1, <3>4, <4>1, ChainKept DEF Creating, Sectoring, Filling
    <3>5. CASE goal' = goal
      <4>1. Nr' = Nr /\ Off' = Off
        BY <3>1, SamePlace
      <4>2. ClustNr' = ClustNr
        BY <3>5, <4>1 DEF ClustNr
      <4>3. \A n : Within(n, len)' = Within(n, len)
        BY DEF Within
      <4>4. goal \in {"c_link", "c_linked"} => (View(loc.ncl) = NFat)' /\ loc.ncl \notin geo.others
                                               /\ (\A i \in 0..len - 1 : p[i] # loc.ncl) /\ len > 0
        <5>1. \A c \in Cluster : View(c)' = View(c)
          BY <1>0, <3>3, ViewSteps
        <5>2. goal \in {"c_link", "c_linked"} => loc.ncl \in Cluster
          BY DEF Inv, ClusterInv
        <5> QED BY <1>0, <3>1, <5>1, <5>2 DEF ChainOk
      <4> HIDE DEF goal, ClustNr, Within, View
      <4> QED BY <1>0, <3>1, <3>5, <4>1, <4>2, <4>3, <4>4 DEF ChainOk
    <3> QED BY <3>1, <3>2, <3>4, <3>5 DEF Returns
  <2>2. CASE Boundary
    BY <1>0, <2>2, ChainBound
  <2>3. CASE CreateGot
    BY <1>0, <2>3, ChainGot
  <2>4. CASE CreateEnd
    BY <1>0, <2>4, ChainEnded
  <2>5. CASE Advance
    BY <1>0, <2>5, ChainAdvanced
  <2>6. CASE Abort
    <3>1. /\ goal' = "loop" /\ goal = "abort" /\ fil'.err /\ fil'.sclust = fil.sclust
      BY <2>6 DEF Abort, At, Goto, goal, Moving, Inv, Types, FilType
    <3>2. fil'.sclust = IF len = 0 THEN 0 ELSE p[0]
      BY <1>0, <3>1 DEF ChainOk
    <3> HIDE DEF goal
    <3> QED BY <1>0, <3>1, <3>2 DEF ChainOk
  <2> DEFINE Rest == ~(\/ MoveWindow \/ SyncWindow \/ ClearFlag \/ ReadWindow \/ SetSector \/ Boundary \/ CreateGot
                       \/ CreateEnd \/ Advance \/ Abort)
  <2>7. Rest => /\ fil'.fptr = fil.fptr /\ fil'.sclust = fil.sclust /\ fil'.clust = fil.clust
                /\ fil'.err = fil.err
    BY FileSteps, ClustSteps
  <2>8. CASE Rest /\ goal \in Creating
    <3>1. fil' = fil
      BY <1>2, <2>8, LoopSteps DEF Creating, file, Get, Put, CreateGet, CreateNext, CreateTry,
        CreateMark, CreateMarked, CreateLink, CreateLinked, CreateEnd
    <3>2. goal # "c_end" /\ goal # "abort" /\ goal \notin Sectoring
      BY <1>2, <2>8, LoopSteps DEF Creating, Sectoring, Filling
    <3>3. CASE goal' \in {"done", "abort"}
      BY <1>0, <3>1, <3>2, <3>3, ChainKept DEF Creating, Sectoring, Filling
    <3>4. CASE CreateGet /\ goal = "c_get" /\ goal' = "c_got" /\ SameLocals
      BY <1>0, <2>8, <3>1, <3>2, <3>4, ChainSearched DEF SameLocals
    <3>5. CASE /\ goal \in {"c_next", "c_try", "c_mark"} /\ loc'.clst = loc.clst
               /\ goal' \in {"c_next", "c_try", "c_mark", "c_marked"}
      BY <1>0, <2>8, <3>1, <3>2, <3>5, ChainSearched
    <3>6. CASE CreateMarked /\ goal = "c_marked" /\ SameLocals /\ goal' = "c_link"
      <4>1. pc = "c_marked" /\ isr = "off" /\ loc' = loc
        BY <3>6 DEF CreateMarked, At
      <4>2. /\ loc.ncl \in Cluster /\ loc.ncl \notin geo.others
            /\ \A i \in 0..len - 1 : p[i] # loc.ncl
        BY <1>0, <3>6, <4>1, FreshOne
      <4>3. View(loc.ncl)' = NFat
        <5>1. \A c \in Cluster : View(c)' = IF c = loc.ncl THEN NFat ELSE View(c)
          BY <1>0, <3>6, ViewSteps
        <5> QED BY <4>1, <4>2, <5>1 DEF View, InWindow
      <4>4. len > 0
        BY <1>0, <3>6 DEF ChainOk
      <4>5. (View(loc.ncl) = NFat)'
        BY <4>1, <4>3
      <4> QED BY <1>0, <2>8, <3>1, <3>2, <3>6, <4>1, <4>2, <4>4, <4>5, ChainSearched
    <3>7. CASE CreateLink /\ goal = "c_link" /\ goal' = "c_linked" /\ SameLocals
      <4>1. ~CreateMarked /\ loc.ncl \in Cluster /\ loc'.ncl = loc.ncl
        BY <3>7 DEF CreateMarked, CreateLink, Put, At, SameLocals, Inv, ClusterInv
      <4>2. View(loc.ncl) = NFat
        BY <1>0, <3>7 DEF ChainOk
      <4>3. (View(loc.ncl) = NFat)'
        <5>1. \A c \in Cluster : View(c)' = View(c)
          BY <1>0, <4>1, ViewSteps
        <5> QED BY <4>1, <4>2, <5>1
      <4> QED BY <1>0, <2>8, <3>1, <3>2, <3>7, <4>1, <4>3, ChainSearched DEF SameLocals
    <3> HIDE DEF goal, SameLocals
    <3>8. CreateMarked => goal' = "c_link" /\ goal = "c_marked" /\ SameLocals
      BY <1>2, <2>8, LoopSteps DEF CreateMarked, At, SameLocals, goal, Moving, Creating,
        TestSdmounted,
        f_puts, Chunk, Flush, NextSector, Copy, MarkDirty, Done, Get, Put, CreateGet, CreateNext,
        CreateTry, CreateMark, CreateLink, Goto
    <3> QED BY <1>2, <2>8, <3>3, <3>4, <3>5, <3>6, <3>7, <3>8, LoopSteps DEF SameLocals, Creating
  <2>9. CASE Rest /\ goal \notin Creating
    <3>1. /\ goal # "c_end" /\ goal # "abort" /\ goal' \notin Creating
          /\ goal' \in Sectoring => goal \in Sectoring \/ Off # 0
          /\ goal \in Sectoring => goal' \in Sectoring \/ goal' = "abort"
      <4> HIDE DEF goal
      <4> QED BY <1>2, <2>9, LoopSteps DEF Creating, Sectoring, Filling
    <3> QED BY <1>0, <2>7, <2>9, <3>1, ChainKept
  <2> QED BY <1>2, <2>1, <2>2, <2>3, <2>4, <2>5, <2>6, <2>8, <2>9
<1> QED BY <1>1, <1>2, MainMoves

-----------------------------------------------------------------------------
(***************************************************************************)
(* The file gets one more cluster.                                         *)
(***************************************************************************)
Longer(p, len, c) == [i \in 0..len |-> IF i < len THEN p[i] ELSE c]

LEMMA LongerIs ==
    ASSUME NEW len \in 0..Clusters, NEW p \in [0..len - 1 -> Cluster], NEW c \in Cluster,
           \A i, j \in 0..len - 1 : p[i] = p[j] => i = j,
           \A i \in 0..len - 1 : p[i] # c
    PROVE  /\ len + 1 \in 0..Clusters /\ Longer(p, len, c) \in [0..len -> Cluster]
           /\ \A i \in 0..len - 1 : Longer(p, len, c)[i] = p[i]
           /\ Longer(p, len, c)[len] = c
           /\ \A i, j \in 0..len : Longer(p, len, c)[i] = Longer(p, len, c)[j] => i = j
<1>0. Clusters \in Nat /\ len \in Nat
  BY VolumeAssumption
<1> DEFINE q == Longer(p, len, c)
<1>1. q \in [0..len -> Cluster]
  BY <1>0 DEF Longer
<1>2. (\A i \in 0..len - 1 : q[i] = p[i]) /\ q[len] = c
  BY <1>0 DEF Longer
<1>3. \A i \in 0..len : i = len \/ i \in 0..len - 1
  BY <1>0
<1> HIDE DEF q
<1>4. \A i, j \in 0..len : q[i] = q[j] => i = j
  BY <1>2, <1>3
<1>5. len # Clusters
  <2> SUFFICES ASSUME len = Clusters PROVE FALSE
    OBVIOUS
  <2>1. IsFiniteSet(Cluster) /\ Cardinality(Cluster) = Clusters
    <3>1. Cluster = 2..Clusters + 1
      BY <1>0 DEF Cluster, NFat
    <3>2. /\ IsFiniteSet(2..Clusters + 1)
          /\ Cardinality(2..Clusters + 1) = IF 2 > Clusters + 1 THEN 0 ELSE Clusters + 1 - 2 + 1
      BY <1>0, FS_Interval
    <3> QED BY <1>0, <3>1, <3>2, VolumeAssumption
  <2>2. IsFiniteSet(0..len) /\ Cardinality(0..len) = Clusters + 1
    <3>1. IsFiniteSet(0..len) /\ Cardinality(0..len) = IF 0 > len THEN 0 ELSE len - 0 + 1
      BY <1>0, FS_Interval
    <3> QED BY <1>0, <3>1
  <2>3. Cardinality(Cluster) < Cardinality(0..len)
    BY <1>0, <2>1, <2>2
  <2>4. \E x, y \in 0..len : x # y /\ q[x] = q[y]
    BY <1>1, <2>1, <2>2, <2>3, FS_PigeonHole
  <2> QED BY <1>4, <2>4
<1>6. len + 1 \in 0..Clusters
  BY <1>0, <1>5
<1> QED BY <1>1, <1>2, <1>4, <1>6 DEF q

LEMMA ExtendedStep ==
    ASSUME Inv, StopInv, WindowInv, SyncInv, ClosedInv, OverInv, FatInv, LineInv, [Next]_vars, geo' = geo,
           opened, ~Opened, Before', Sound', CreateLinked \/ (CreateMarked /\ loc.clst = 0),
           NEW len \in 0..Clusters, NEW p \in [0..len - 1 -> Cluster], FileOk(p, len)
    PROVE  \E n \in 0..Clusters : \E q \in [0..n - 1 -> Cluster] : FileOk(q, n)'
<1>0. Before /\ Sound /\ ChainOk(p, len) /\ PathOk(p, len) /\ len \in Nat /\ Clusters \in Nat
  BY BeforeStays, SoundStays, VolumeAssumption DEF FileOk
<1>1. /\ goal = IF CreateLinked THEN "c_linked" ELSE "c_marked"
      /\ pc = goal /\ isr = "off" /\ isr' = "off" /\ goal' = "c_end"
      /\ UNCHANGED <<card, fil, buf, loc>>
  BY DEF CreateLinked, CreateMarked, At, Goto, goal, Moving, button, file
<1>2. /\ len = Nr \div geo.csize /\ loc.clst = IF len = 0 THEN 0 ELSE p[len - 1]
      /\ ~CreateLinked => len = 0
  <2>1. len = Nr \div geo.csize /\ loc.clst = IF len = 0 THEN 0 ELSE p[len - 1]
    BY <1>0, <1>1 DEF ChainOk
  <2>2. len > 0 => p[len - 1] # 0
    BY <1>0, Numbers
  <2> QED BY <1>0, <2>1, <2>2
<1>3. /\ loc.ncl \in Cluster /\ loc.ncl \notin geo.others
      /\ \A i \in 0..len - 1 : p[i] # loc.ncl
      /\ CreateLinked => len > 0 /\ View(loc.ncl) = NFat
  <2>1. CASE CreateLinked
    BY <1>0, <1>1, <2>1 DEF ChainOk, Inv, ClusterInv
  <2>2. CASE ~CreateLinked
    BY <1>0, <1>1, <2>2, FreshOne
  <2> QED BY <2>1, <2>2
<1>4. \A i, j \in 0..len - 1 : p[i] = p[j] => i = j
  BY <1>0 DEF PathOk
<1> DEFINE n == len + 1
<1>5a. n \in 0..Clusters /\ n - 1 = len /\ n - 2 = len - 1
  <2>1. n - 1 = len /\ n - 2 = len - 1
    BY <1>0
  <2>2. len + 1 \in 0..Clusters
    BY <1>3, <1>4, LongerIs
  <2> QED BY <2>1, <2>2
<1>5b. PICK q \in [0..len -> Cluster] :
           /\ \A i \in 0..len - 1 : q[i] = p[i]
           /\ q[len] = loc.ncl
           /\ \A i, j \in 0..len : q[i] = q[j] => i = j
  <2>1. /\ Longer(p, len, loc.ncl) \in [0..len -> Cluster]
        /\ \A i \in 0..len - 1 : Longer(p, len, loc.ncl)[i] = p[i]
        /\ Longer(p, len, loc.ncl)[len] = loc.ncl
        /\ \A i, j \in 0..len : Longer(p, len, loc.ncl)[i] = Longer(p, len, loc.ncl)[j] => i = j
    BY <1>3, <1>4, LongerIs
  <2> QED BY <2>1
<1> HIDE DEF n
<1>5. /\ n \in 0..Clusters /\ q \in [0..n - 1 -> Cluster] /\ n - 1 = len /\ n - 2 = len - 1
      /\ \A i \in 0..len - 1 : q[i] = p[i]
      /\ q[len] = loc.ncl
      /\ \A i, j \in 0..n - 1 : q[i] = q[j] => i = j
  BY <1>5a, <1>5b
<1>6. /\ \A c \in Cluster : CreateLinked => View(c)' = IF c = loc.clst THEN loc.ncl ELSE View(c)
      /\ \A c \in Cluster : ~CreateLinked => View(c)' = IF c = loc.ncl THEN NFat ELSE View(c)
  BY ViewSteps
<1>7. Nr' = Nr /\ Off' = Off /\ Off = 0 /\ ClustNr = Nr - 1 /\ ClustNr' = Nr - 1 /\ BufNr = Nr - 1 /\ BufNr' = Nr - 1
  <2>1. Nr' = Nr /\ Off' = Off
    BY <1>1, SamePlace
  <2>2. Off = 0
    BY <1>1 DEF LineInv, Creating
  <2>3. goal \notin {"flush", "sector"} \cup Filling /\ goal' \notin {"flush", "sector"} \cup Filling
    BY <1>1 DEF Filling
  <2> QED BY <2>1, <2>2, <2>3 DEF ClustNr, BufNr
<1>8. /\ Nr \in Nat /\ (fil.fptr > 0 => Nr - 1 \in Nat) /\ geo.csize \in Nat \ {0}
      /\ fil.fptr \in Nat
  <2>1. Nr \in Nat /\ (fil.fptr > 0 => Nr > 0)
    BY <1>7, Position DEF Inv, Types
  <2> QED BY <2>1, HereHas DEF Inv, Types, FilType
<1>9. \A k \in Nat : Within(k, len) => Within(k, n) /\ q[k \div geo.csize] = p[k \div geo.csize]
                                       /\ Spot(q, k) = Spot(p, k)
  <2> SUFFICES ASSUME NEW k \in Nat, Within(k, len)
               PROVE  Within(k, n) /\ q[k \div geo.csize] = p[k \div geo.csize]
    BY DEF Spot
  <2>1. k \div geo.csize \in Nat
    BY <1>8, DivMod
  <2>2. k \div geo.csize < len
    BY DEF Within
  <2>3. k \div geo.csize \in 0..len - 1 /\ k \div geo.csize < n
    BY <1>0, <2>1, <2>2 DEF n
  <2> QED BY <1>5, <2>3 DEF Within
<1>10. \A k : Within(k, n)' = Within(k, n) /\ Spot(q, k)' = Spot(q, k) /\ Spot(p, k)' = Spot(p, k)
              /\ Within(k, len)' = Within(k, len)
  BY DEF Within, Spot
<1>11. PathOk(q, n)'
  <2>1. PathOk(p, len)'
    BY <1>0, PathOkStep
  <2>2. ASSUME NEW i \in 0..n - 1 PROVE q[i] \notin geo.others
    <3>1. CASE i \in 0..len - 1
      BY <1>0, <1>5, <3>1 DEF PathOk
    <3>2. CASE i = len
      BY <1>3, <1>5, <3>2
    <3> QED BY <1>0, <1>5, <3>1, <3>2
  <2> QED BY <1>5, <2>1, <2>2 DEF PathOk
<1>12. ChainOk(q, n)'
  <2>1. \A i \in 0..n - 2 : View(q[i])' = q[i + 1]
    <3> SUFFICES ASSUME NEW i \in 0..len - 1 PROVE View(q[i])' = q[i + 1]
      BY <1>5
    <3>0. CreateLinked /\ len > 0
      BY <1>0, <1>2
    <3>1. q[i] = p[i] /\ p[i] \in Cluster
      BY <1>5
    <3>2. loc.clst = p[len - 1] /\ len - 1 \in 0..len - 1
      BY <1>0, <1>2, <3>0
    <3>3. CASE i = len - 1
      <4>1. View(p[i])' = loc.ncl
        BY <1>6, <3>0, <3>1, <3>2, <3>3
      <4>2. i + 1 = len
        BY <1>0, <3>3
      <4> QED BY <1>5, <3>1, <4>1, <4>2
    <3>4. CASE i # len - 1
      <4>1. i \in 0..len - 2 /\ i + 1 \in 0..len - 1
        BY <1>0, <3>4
      <4>2. p[i] # loc.clst
        BY <1>4, <3>2, <3>4
      <4>3. View(p[i])' = View(p[i])
        BY <1>6, <3>0, <3>1, <4>2
      <4>4. View(p[i]) = p[i + 1]
        BY <1>0, <4>1 DEF ChainOk, Linked
      <4> QED BY <1>5, <3>1, <4>1, <4>3, <4>4
    <3> QED BY <3>3, <3>4
  <2>2. View(loc.ncl)' = NFat
    <3>1. \A c : c = loc.ncl => View(c)' = NFat
      <4>1. CASE CreateLinked
        <5>1. loc.ncl # loc.clst
          <6>1. len - 1 \in 0..len - 1 /\ loc.clst = p[len - 1]
            BY <1>0, <1>2, <1>3, <4>1
          <6> QED BY <1>3, <6>1
        <5> QED BY <1>3, <1>6, <4>1, <5>1
      <4>2. CASE ~CreateLinked
        BY <1>3, <1>6, <4>2
      <4> QED BY <4>1, <4>2
    <3> QED BY <1>1, <3>1 DEF View, InWindow
  <2>3. \A c : c = q[n - 1] => View(c)' = NFat
    BY <1>1, <1>5, <2>2 DEF View, InWindow
  <2>4. Linked(q, n)'
    BY <2>1, <2>3 DEF Linked
  <2>5. fil.sclust = IF len = 0 THEN 0 ELSE p[0]
    BY <1>0, <1>1 DEF ChainOk
  <2>6. fil'.sclust = IF n = 1 THEN 0 ELSE q[0]
    <3>1. len > 0 => 0 \in 0..len - 1
      BY <1>0
    <3>2. n = 1 <=> len = 0
      BY <1>0 DEF n
    <3> QED BY <1>0, <1>1, <1>5, <2>5, <3>1, <3>2
  <2>7. ~fil'.err /\ fil'.fptr > 0 => Within(ClustNr, n)' /\ fil'.clust = q[ClustNr' \div geo.csize]
    <3> SUFFICES ASSUME ~fil.err, fil.fptr > 0
                 PROVE  Within(Nr - 1, n) /\ fil.clust = q[(Nr - 1) \div geo.csize]
      BY <1>1, <1>7, <1>10 DEF Within
    <3>1. Within(ClustNr, len) /\ fil.clust = p[ClustNr \div geo.csize]
      BY <1>0, <1>1 DEF ChainOk
    <3>2. Within(Nr - 1, len) /\ fil.clust = p[(Nr - 1) \div geo.csize]
      BY <1>7, <3>1
    <3> QED BY <1>8, <1>9, <3>2
  <2>8. n - 1 = Nr' \div geo.csize /\ q[n - 1] = loc'.ncl
    BY <1>1, <1>2, <1>5, <1>7
  <2>9. fil'.sclust = IF n = 0 \/ (goal' = "c_end" /\ n = 1) THEN 0 ELSE q[0]
    BY <1>0, <1>1, <2>6 DEF n
  <2>10. goal' \notin {"flush", "sector"} \cup Filling
    BY <1>1 DEF Filling
  <2> HIDE DEF goal, ClustNr, Within
  <2> QED BY <1>1, <2>4, <2>7, <2>8, <2>9, <2>10 DEF ChainOk
<1>13. TextOk(q, n)'
  <2>1. TextOk(p, len)'
    BY <1>0, TextOkStep
  <2>2. \A pos \in 0..fil.fptr - 1 : pos \div SectorSize \in Nat
    BY UnitIs
  <2>3. ASSUME NEW pos \in 0..fil'.fptr - 1
        PROVE  /\ Within(pos \div SectorSize, n)'
               /\ \/ Holds(card[Spot(q, pos \div SectorSize)], pos)'
                  \/ fil'.dirty /\ pos \div SectorSize = BufNr'
    <3>1. pos \div SectorSize \in Nat
      BY <1>1, <2>2
    <3>2. /\ Within(pos \div SectorSize, len)'
          /\ \/ Holds(card[Spot(p, pos \div SectorSize)], pos)'
             \/ fil'.dirty /\ pos \div SectorSize = BufNr'
      BY <2>1 DEF TextOk
    <3>3. Within(pos \div SectorSize, n) /\ Spot(q, pos \div SectorSize)' = Spot(p, pos \div SectorSize)'
      BY <1>9, <1>10, <3>1, <3>2
    <3>4. Within(pos \div SectorSize, n)'
      BY <3>3 DEF Within
    <3> QED BY <3>2, <3>3, <3>4 DEF Holds
  <2> HIDE DEF BufNr
  <2> QED BY <2>3 DEF TextOk
<1>14. BufferOk(q, n)'
  <2>1. BufferOk(p, len)'
    BY <1>0, BufferOkStep
  <2>2. ~(goal' \in Filling \/ Off' # 0)
    BY <1>1, <1>7 DEF Filling
  <2>3. fil'.dirty => /\ Within(BufNr, len)' /\ fil'.dsect = Spot(p, BufNr)'
                      /\ fil'.fptr > 0
                      /\ buf'.of = "log" /\ buf'.nr = BufNr'
                      /\ buf'.n >= fil'.fptr - BufNr' * SectorSize
    BY <2>1, <2>2 DEF BufferOk
  <2>4. fil'.dirty => Within(BufNr, n)' /\ fil'.dsect = Spot(q, BufNr)'
    <3> SUFFICES ASSUME fil'.dirty PROVE Within(BufNr, n)' /\ fil'.dsect = Spot(q, BufNr)'
      OBVIOUS
    <3>1. Nr - 1 \in Nat
      BY <1>1, <1>8, <2>3
    <3>2. Within(Nr - 1, len) /\ fil'.dsect = Spot(p, Nr - 1)
      BY <1>7, <2>3 DEF Within, Spot
    <3>3. Within(Nr - 1, n) /\ fil'.dsect = Spot(q, Nr - 1)
      BY <1>9, <3>1, <3>2
    <3> QED BY <1>7, <3>3 DEF Within, Spot
  <2> HIDE DEF goal, BufNr, Within, Spot
  <2> QED BY <2>2, <2>3, <2>4 DEF BufferOk
<1>15. ClaimsOk(q, n)'
  <2>1. ClaimsOk(p, len)'
    BY <1>0, ClaimsStep
  <2> HIDE DEF Before, over
  <2>2. Claimed(card[DirSec], q, n)'
    BY <2>1 DEF ClaimsOk, Claimed
  <2>3. (over = DirSec /\ Writable)' => Claimed(win, q, n)'
    BY <2>1 DEF ClaimsOk, Claimed
  <2> QED BY <2>2, <2>3 DEF ClaimsOk
<1>16. FileOk(q, n)'
  BY <1>11, <1>12, <1>13, <1>14, <1>15 DEF FileOk
<1> QED BY <1>5, <1>16

-----------------------------------------------------------------------------
(***************************************************************************)
(* The file as a whole.                                                    *)
(***************************************************************************)
\* f_open hands over an empty file.
LEMMA OpenedIsOk ==
    ASSUME Inv, OverInv, OldInv, Sound, OthersOk, Opened, geo' = geo,
           NEW p \in [0..0 - 1 -> Cluster]
    PROVE  FileOk(p, 0)'
<1>1. /\ pc = "opened" /\ goal = "opened" /\ goal' = "loop" /\ pc' = "loop"
      /\ UNCHANGED <<card, fs, win>>
      /\ fil'.fptr = 0 /\ fil'.sclust = 0 /\ ~fil'.dirty
  BY DEF Opened, At, Goto, goal, Moving, volume
<1>2. ~opened
  BY <1>1 DEF Inv, StartInv, Starting
<1>9. over = fs.winsect /\ over' = fs.winsect /\ Writable
  BY <1>1, <1>2 DEF over, Writable
<1>3. /\ card[DirSec].kind = "dir" /\ card[DirSec].size = 0
      /\ fs.winsect = DirSec => win.kind = "dir" /\ win.size = 0
  <2>1. card[DirSec].kind = "dir" /\ card[DirSec].size = 0
    BY <1>1, <1>2 DEF OldInv, Inv, StartInv
  <2>2. fs.wflag /\ fs.winsect = DirSec => win = Empty
    BY <1>2, <1>9 DEF OldInv
  <2>3. ~fs.wflag /\ fs.winsect = DirSec => win = card[DirSec]
    BY <1>9, SectorsDiffer DEF OverInv, Clean
  <2>4. Empty.kind = "dir" /\ Empty.size = 0
    BY DEF Empty, DirOf
  <2>5. fs.wflag \in BOOLEAN
    BY DEF Inv, Types, FsType
  <2> QED BY <2>1, <2>2, <2>3, <2>4, <2>5
<1>4. PathOk(p, 0)'
  BY <1>1 DEF PathOk, OthersOk
<1>5. ChainOk(p, 0)'
  <2>1. Linked(p, 0)'
    BY DEF Linked
  <2> HIDE DEF goal
  <2> QED BY <1>1, <2>1 DEF ChainOk, Filling
<1>6. TextOk(p, 0)'
  BY <1>1 DEF TextOk
<1>7. BufferOk(p, 0)'
  <2>1. Off' = 0
    BY <1>1, Numbers DEF Off
  <2> HIDE DEF goal
  <2> QED BY <1>1, <2>1 DEF BufferOk, Filling
<1>8. ClaimsOk(p, 0)'
  BY <1>1, <1>3, <1>9 DEF ClaimsOk, Claimed
<1> QED BY <1>4, <1>5, <1>6, <1>7, <1>8 DEF FileOk

LEMMA FileInvStep ==
    ASSUME Inv, StopInv, WindowInv, SyncInv, ClosedInv, OverInv, FatInv, LineInv, OldInv, FileInv,
           [Next]_vars, geo' = geo
    PROVE  FileInv'
<1> SUFFICES ASSUME Sound' PROVE FileInv'
  BY DEF FileInv
<1>0. Sound /\ opened \in BOOLEAN /\ Clusters \in Nat
  BY SoundStays, VolumeAssumption DEF Inv, Types, FlagType
<1>1. CASE ~opened'
  <2>1. ~opened /\ OthersOk
    BY <1>0, <1>1, OpenedStays DEF FileInv
  <2>2. ~(Flush \/ SyncData)
    BY <2>1 DEF Flush, SyncData, At, In, goal, Moving, Inv, StartInv, Starting, Resting
  <2>3. ASSUME NEW c \in geo.others, NEW off \in 0..geo.csize - 1
        PROVE  card'[DataSec(c, off, geo.csize)].of = "other"
    <3>1. DataSec(c, off, geo.csize) \in Here /\ ~NoData(DataSec(c, off, geo.csize))
      BY HereHas DEF Inv, Types, FlagType, Volume, NoData, DataSec
    <3> QED BY <1>0, <2>1, <2>2, <3>1, DataSteps DEF OthersOk
  <2>4. OthersOk'
    BY <2>3 DEF OthersOk
  <2> QED BY <1>1, <2>4 DEF FileInv
<1>2. CASE Opened
  <2>1. ~opened /\ opened'
    BY <1>2 DEF Opened, At, goal, Moving, Inv, StartInv, Starting
  <2>2. OthersOk
    BY <1>0, <2>1 DEF FileInv
  <2> DEFINE p == [i \in 0..0 - 1 |-> 2]
  <2>3. p \in [0..0 - 1 -> Cluster] /\ 0 \in 0..Clusters
    BY <1>0
  <2> HIDE DEF p
  <2>4. FileOk(p, 0)'
    BY <1>0, <1>2, <2>2, <2>3, OpenedIsOk
  <2>5. \E len \in 0..Clusters : \E q \in [0..len - 1 -> Cluster] : FileOk(q, len)'
    BY <2>3, <2>4
  <2> QED BY <2>1, <2>5 DEF FileInv
<1>3. CASE opened' /\ ~Opened
  <2>1. opened
    BY <1>3, OpenedSteps
  <2>2. PICK len \in 0..Clusters : \E p \in [0..len - 1 -> Cluster] : FileOk(p, len)
    BY <1>0, <2>1 DEF FileInv
  <2>3. PICK p \in [0..len - 1 -> Cluster] : FileOk(p, len)
    BY <2>2
  <2>4. CASE Before' /\ (CreateLinked \/ (CreateMarked /\ loc.clst = 0))
    <3>1. \E n \in 0..Clusters : \E q \in [0..n - 1 -> Cluster] : FileOk(q, n)'
      BY <1>3, <2>1, <2>3, <2>4, ExtendedStep
    <3> QED BY <1>3, <3>1 DEF FileInv
  <2>5. CASE ~(Before' /\ (CreateLinked \/ (CreateMarked /\ loc.clst = 0)))
    <3>0. len \in Nat
      BY <1>0
    <3>1. PathOk(p, len)'
      BY <1>0, <2>1, <2>3, <3>0, PathOkStep
    <3>2. Before' => ChainOk(p, len)'
      BY <1>3, <2>1, <2>3, <2>5, ChainOkStep
    <3>3. Before' => TextOk(p, len)'
      BY <1>0, <1>3, <2>1, <2>3, <3>0, TextOkStep
    <3>4. Before' \/ Flushable' => BufferOk(p, len)'
      BY <1>0, <1>3, <2>1, <2>3, <3>0, BufferOkStep
    <3>5. ClaimsOk(p, len)'
      BY <1>0, <1>3, <2>1, <2>3, <3>0, ClaimsStep
    <3>6. FileOk(p, len)'
      BY <3>1, <3>2, <3>3, <3>4, <3>5 DEF FileOk
    <3> QED BY <1>3, <3>6 DEF FileInv
  <2> QED BY <2>4, <2>5
<1> QED BY <1>1, <1>2, <1>3

-----------------------------------------------------------------------------
(***************************************************************************)
(* The volume as main finds it.                                            *)
(***************************************************************************)
LEMMA FormattedIs ==
    ASSUME Init, FlagType
    PROVE  /\ \A c \in Cluster : /\ FatOk(card[FatSec(c)], c)
                                 /\ c = geo.old => card[FatSec(c)].entry[c] = NFat
           /\ card[DirSec] = Entered
           /\ \A c \in Cluster, off \in 0..geo.csize - 1 :
                 card[DataSec(c, off, geo.csize)] =
                    DataOf(IF c = geo.old THEN "old" ELSE IF c \in geo.others THEN "other" ELSE "none",
                           off, SectorSize)
<1> DEFINE entry == [c \in Cluster |-> IF c \in geo.others \cup {geo.old} THEN NFat ELSE 0]
           owner(c) == IF c = geo.old THEN "old" ELSE IF c \in geo.others THEN "other" ELSE "none"
           content(s) == CASE s[1] = "fat" -> FatOf(s[2], entry)
                           [] s = DirSec -> DirOf("old", geo.old, IF geo.old = 0 THEN 0 ELSE SectorSize)
                           [] s[1] = "data" ->
                                 DataOf(owner(s[2] \div geo.csize), s[2] % geo.csize, SectorSize)
                           [] OTHER -> Info
<1>1. card = [s \in Here |-> content(s)]
  BY DEF Init, Formatted, Here
<1>2. ASSUME NEW c \in Cluster
      PROVE  /\ FatOk(card[FatSec(c)], c)
             /\ c = geo.old => card[FatSec(c)].entry[c] = NFat
  <2>1. FatSec(c) \in Here /\ FatSec(c)[1] = "fat" /\ FatSec(c)[2] = FatNr(c)
        /\ FatSec(c) # DirSec /\ FatSec(c)[1] # "data"
    BY HereHas, SectorsDiffer DEF FatSec
  <2>2. card[FatSec(c)] = FatOf(FatNr(c), entry)
    <3> HIDE DEF entry
    <3> QED BY <1>1, <2>1
  <2>3. /\ FatOf(FatNr(c), entry).kind = "fat" /\ FatOf(FatNr(c), entry).nr = FatNr(c)
        /\ FatOf(FatNr(c), entry).entry[c] = entry[c]
    BY DEF FatOf
  <2> QED BY <2>2, <2>3 DEF FatOk
<1>3. card[DirSec] = Entered
  <2>1. DirSec \in Here /\ DirSec[1] # "fat" /\ DirSec[1] # "data"
    BY HereHas DEF DirSec
  <2>2. content(DirSec) = DirOf("old", geo.old, IF geo.old = 0 THEN 0 ELSE SectorSize)
    BY <2>1
  <2>3. card[DirSec] = content(DirSec)
    <3> HIDE DEF content
    <3> QED BY <1>1, <2>1
  <2> QED BY <2>2, <2>3 DEF Entered
<1>4. ASSUME NEW c \in Cluster, NEW off \in 0..geo.csize - 1
      PROVE  card[DataSec(c, off, geo.csize)] = DataOf(owner(c), off, SectorSize)
  <2> DEFINE s == DataSec(c, off, geo.csize)
  <2>1. s \in Here /\ s[1] = "data" /\ s[1] # "fat" /\ s # DirSec
    BY HereHas DEF DataSec, DirSec
  <2>2. s[2] \div geo.csize = c /\ s[2] % geo.csize = off
    <3>1. geo.csize \in Nat \ {0} /\ c \in Nat
      BY HereHas, Numbers
    <3>2. c * geo.csize + off = geo.csize * c + off
      BY <3>1
    <3>3. \A n : n = geo.csize * c + off => n \div geo.csize = c /\ n % geo.csize = off
      BY <3>1, DivIs
    <3> QED BY <3>2, <3>3 DEF DataSec
  <2> HIDE DEF s
  <2>3. content(s) = DataOf(owner(s[2] \div geo.csize), s[2] % geo.csize, SectorSize)
    BY <2>1
  <2>4. card[s] = content(s)
    <3> HIDE DEF content
    <3> QED BY <1>1, <2>1
  <2> QED BY <2>2, <2>3, <2>4 DEF s
<1> QED BY <1>2, <1>3, <1>4

FileInvs == OverInv /\ FatInv /\ LineInv /\ OldInv /\ FileInv

LEMMA InitFile == Init => FileInvs
<1> SUFFICES ASSUME Init PROVE FileInvs
  OBVIOUS
<1>0. FlagType /\ Inv
  BY InitInv DEF Inv, Types
<1>1. /\ pc = "attach" /\ goal = "attach" /\ isr = "off" /\ ~opened /\ ~fil.fs /\ ~fil.dirty
      /\ ~fs.wflag /\ fs.winsect = NoSec /\ over = NoSec /\ fil.dsect = NoSec
      /\ ~fs.mounted /\ loc = NoLocals
  BY DEF Init, goal, Moving, over
<1>2. NoData(NoSec) /\ \A c : FatSec(c) # NoSec
  BY DEF NoData, NoSec, FatSec
<1>3. NoSec # DirSec
  BY SectorsDiffer
<1>4. OverInv
  <2>1. Heading
    BY <1>1, <1>2 DEF Heading, NoLocals, Moving
  <2> QED BY <1>1, <1>2, <2>1 DEF OverInv, Before, Clean
<1>5. FatInv
  BY <1>0, <1>1, <1>2, FormattedIs DEF FatInv, InWindow, Before
<1>6. LineInv
  BY <1>1 DEF LineInv, Writing, Creating, Before, validate
<1>7. OldInv
  <2>1. geo.old # 0 => /\ card[DataSec(geo.old, 0, geo.csize)] = DataOf("old", 0, SectorSize)
                       /\ card[FatSec(geo.old)].entry[geo.old] = NFat
    <3> SUFFICES ASSUME geo.old # 0
                 PROVE  /\ card[DataSec(geo.old, 0, geo.csize)] = DataOf("old", 0, SectorSize)
                        /\ card[FatSec(geo.old)].entry[geo.old] = NFat
      OBVIOUS
    <3>1. geo.old \in Cluster /\ 0 \in 0..geo.csize - 1
      BY <1>0 DEF FlagType, Volume
    <3> QED BY <1>0, <3>1, FormattedIs
  <2>2. card[DirSec] = Entered
    BY <1>0, FormattedIs
  <2> QED BY <1>1, <1>3, <2>1, <2>2 DEF OldInv
<1>8. FileInv
  <2>1. ASSUME NEW c \in geo.others, NEW off \in 0..geo.csize - 1
        PROVE  card[DataSec(c, off, geo.csize)].of = "other"
    <3>1. c \in Cluster /\ c # geo.old
      <4>1. geo \in Volumes
        BY <1>0 DEF FlagType
      <4> QED BY <1>0, <4>1, SdLogAssumption DEF FlagType, Volume
    <3>2. card[DataSec(c, off, geo.csize)] = DataOf("other", off, SectorSize)
      BY <1>0, <3>1, FormattedIs
    <3> QED BY <3>2 DEF DataOf
  <2> QED BY <1>1, <2>1 DEF FileInv, OthersOk
<1> QED BY <1>4, <1>5, <1>6, <1>7, <1>8 DEF FileInvs

LEMMA FileInvariance == Spec => []FileInvs
<1>1. Inv /\ StopInv /\ CloseInv /\ FileInvs /\ [Next]_vars => FileInvs'
  BY GeoStays, NextInv, OverInvStep, FatInvStep, LineInvStep, OldInvStep,
    FileInvStep DEF CloseInv, FileInvs
<1> QED BY <1>1, InitFile, Invariance, Stopped, CloseInvariance, PTL DEF Spec

-----------------------------------------------------------------------------
(***************************************************************************)
(* The chain that is read off the card.                                    *)
(***************************************************************************)
LEMMA Least == ASSUME NEW T, T \subseteq Nat, T # {} PROVE \E x \in T : \A y \in T : x <= y
<1> DEFINE R == OpToRel(<, Nat)
<1>1. IsWellFoundedOn(R, Nat)
  BY NatLessThanWellFounded, Zenon
<1>2. \A x \in Nat, y \in Nat : x < y => <<x, y>> \in R
  BY DEF OpToRel
<1> HIDE DEF R
<1>3. PICK x \in T : \A y \in T : ~(<<y, x>> \in R)
  BY <1>1, WFMin
<1>4. ASSUME NEW y \in T PROVE x <= y
  <2>1. x \in Nat /\ y \in Nat
    OBVIOUS
  <2>2. ~(y < x)
    BY <1>2, <1>3, <2>1
  <2> QED BY <2>1, <2>2
<1> QED BY <1>4

\* The cluster after v.
After(f, v) == IF ChainEnd(v) THEN NFat ELSE f[FatSec(v)].entry[v]

\* The definition of Chain by recursion defines something.
LEMMA ChainIs ==
    ASSUME NEW f, NEW start
    PROVE  /\ Chain(f, start)[0] = start
           /\ \A k \in 1..Clusters : Chain(f, start)[k] = After(f, Chain(f, start)[k - 1])
<1> DEFINE next(v) == IF ChainEnd(v) THEN NFat ELSE f[FatSec(v)].entry[v]
           Good(n, g) == g = [k \in 0..n |-> IF k = 0 THEN start ELSE next(g[k - 1])]
           T == {n \in Nat : ~\E g : Good(n, g)}
<1>1. \E g : Good(0, g)
  <2> DEFINE g0 == [k \in 0..0 |-> start]
  <2>1. Good(0, g0)
    OBVIOUS
  <2> QED BY <2>1
<1>2. ASSUME NEW n \in Nat, NEW g, Good(n, g) PROVE \E h : Good(n + 1, h)
  <2> HIDE DEF next
  <2> DEFINE h == [k \in 0..n + 1 |-> IF k <= n THEN g[k] ELSE next(g[n])]
  <2>1. ASSUME NEW k \in 0..n + 1 PROVE h[k] = IF k = 0 THEN start ELSE next(h[k - 1])
    <3>1. CASE k = 0
      BY <1>2, <3>1
    <3>2. CASE k # 0 /\ k <= n
      <4>1. k \in 0..n /\ k - 1 \in 0..n + 1 /\ k - 1 <= n
        BY <3>2
      <4> QED BY <1>2, <3>2, <4>1
    <3>3. CASE k = n + 1
      <4>1. k - 1 = n /\ k # 0 /\ ~(k <= n) /\ n \in 0..n + 1
        BY <3>3
      <4> QED BY <4>1
    <3> QED BY <3>1, <3>2, <3>3
  <2>2. Good(n + 1, h)
    <3>1. h = [k \in 0..n + 1 |-> h[k]]
      OBVIOUS
    <3> HIDE DEF h
    <3>2. \A k \in 0..n + 1 : h[k] = IF k = 0 THEN start ELSE next(h[k - 1])
      BY <2>1
    <3> QED BY <3>1, <3>2
  <2> QED BY <2>2
<1> HIDE DEF Good
<1>3. T = {}
  <2> SUFFICES ASSUME T # {} PROVE FALSE
    OBVIOUS
  <2>1. PICK n \in T : \A m \in T : n <= m
    BY Least
  <2>2. n # 0
    BY <1>1
  <2>3. n - 1 \in Nat /\ n - 1 \notin T /\ (n - 1) + 1 = n
    BY <2>1, <2>2
  <2>4. PICK g : Good(n - 1, g)
    BY <2>3
  <2>5. \E h : Good((n - 1) + 1, h)
    <3> HIDE DEF T
    <3> QED BY <1>2, <2>3, <2>4
  <2> QED BY <2>3, <2>5
<1>4. PICK g : Good(Clusters, g)
  <2>1. Clusters \in Nat
    BY VolumeAssumption
  <2> QED BY <1>3, <2>1
<1>5. \A g1 : Good(Clusters, g1) => Good(Clusters, Chain(f, start))
  BY Zenon DEF Good, Chain
<1> DEFINE at == Chain(f, start)
<1> HIDE DEF at, next
<1>6. at = [k \in 0..Clusters |-> IF k = 0 THEN start ELSE next(at[k - 1])]
  <2>1. Good(Clusters, at)
    BY <1>4, <1>5 DEF at
  <2> QED BY <2>1, Zenon DEF Good
<1>7. at[0] = start /\ \A k \in 1..Clusters : at[k] = next(at[k - 1])
  <2>1. 0 \in 0..Clusters /\ \A k \in 1..Clusters : k \in 0..Clusters /\ k # 0
    BY VolumeAssumption
  <2> QED BY <1>6, <2>1, Zenon
<1> QED BY <1>7 DEF at, next, After

LEMMA ChainFollows ==
    ASSUME NEW f, NEW len \in 0..Clusters, NEW p \in [0..len - 1 -> Cluster], len > 0,
           \A i \in 0..len - 2 : f[FatSec(p[i])].entry[p[i]] = p[i + 1]
    PROVE  \A i \in 0..len - 1 : Chain(f, p[0])[i] = p[i]
<1> DEFINE at == Chain(f, p[0])
           T == {i \in 0..len - 1 : at[i] # p[i]}
<1>0. Clusters \in Nat /\ len \in Nat
  BY VolumeAssumption
<1>1. at[0] = p[0] /\ \A k \in 1..len - 1 : at[k] = After(f, at[k - 1])
  <2>1. at[0] = p[0] /\ \A k \in 1..Clusters : at[k] = After(f, at[k - 1])
    BY ChainIs
  <2> HIDE DEF at
  <2>2. \A k \in 1..len - 1 : k \in 1..Clusters
    BY <1>0
  <2> QED BY <2>1, <2>2
<1> HIDE DEF at
<1>2. T = {}
  <2> SUFFICES ASSUME T # {} PROVE FALSE
    OBVIOUS
  <2>1. PICK k \in T : \A m \in T : k <= m
    <3>1. T \subseteq Nat
      BY <1>0
    <3> QED BY <3>1, Least
  <2>2. k # 0
    BY <1>1
  <2>3. k - 1 \in 0..len - 2 /\ k \in 1..len - 1 /\ k - 1 \in 0..len - 1 /\ (k - 1) + 1 = k
    BY <1>0, <2>1, <2>2
  <2>4. k - 1 \notin T
    BY <1>0, <2>1, <2>3
  <2>5. at[k - 1] = p[k - 1] /\ p[k - 1] \in Cluster
    BY <2>3, <2>4
  <2>6. at[k] = f[FatSec(p[k - 1])].entry[p[k - 1]]
    BY <1>1, <2>3, <2>5 DEF ChainEnd, After
  <2>7. at[k] = p[k]
    BY <2>3, <2>6
  <2> QED BY <2>1, <2>7
<1>3. \A i \in 0..len - 1 : at[i] = p[i]
  BY <1>2
<1> QED BY <1>3 DEF at

-----------------------------------------------------------------------------
(***************************************************************************)
(* The card is consistent.                                                 *)
(***************************************************************************)
LEMMA Consistent == ASSUME Inv, FileInvs PROVE CardIsConsistent
<1> SUFFICES ASSUME Sound PROVE WellFormed(card) /\ Covered(card, geo.csize) /\ OtherFilesIntact
  BY DEF CardIsConsistent, Sound
<1>0. FlagType /\ geo.csize \in Nat \ {0} /\ SectorSize \in Nat \ {0} /\ Clusters \in Nat
      /\ opened \in BOOLEAN
  BY HereHas, Numbers, VolumeAssumption DEF Inv, Types, FlagType
<1>1. \A c \in Cluster : FatOk(card[FatSec(c)], c)
  BY DEF FileInvs, FatInv
<1>2. opened => \E len \in 0..Clusters : \E p \in [0..len - 1 -> Cluster] : FileOk(p, len)
  BY DEF FileInvs, FileInv
<1>3. WellFormed(card)
  <2>1. card[DirSec].kind = "dir"
    BY <1>0, <1>2 DEF FileOk, ClaimsOk, Claimed, Inv, StartInv
  <2> QED BY <1>1, <2>1 DEF WellFormed, FatOk
<1>4. OtherFilesIntact
  <2>1. \A c \in geo.others, off \in 0..geo.csize - 1 : card[DataSec(c, off, geo.csize)].of = "other"
    <3>1. CASE opened
      BY <1>2, <3>1 DEF FileOk, PathOk, OthersOk
    <3>2. CASE ~opened
      BY <3>2 DEF FileInvs, FileInv, OthersOk
    <3> QED BY <3>1, <3>2
  <2>2. \A c \in geo.others : c \in Cluster
    BY <1>0 DEF FlagType, Volume
  <2> QED BY <1>1, <2>1, <2>2 DEF OtherFilesIntact, FatOk
<1> DEFINE e == card[DirSec]
           chain == Chain(card, e.start)
           c(pos) == chain[(pos \div SectorSize) \div geo.csize]
           d(pos) == card[DataSec(c(pos), (pos \div SectorSize) % geo.csize, geo.csize)]
<1>5. e.size \in Nat
  <2>1. card[DirSec] \in Content /\ card[DirSec].kind = "dir"
    BY <1>0, <1>3, HereHas DEF Inv, Types, DiskType, WellFormed
  <2> QED BY <2>1, Kinds DEF Dirs
<1>6. ASSUME NEW pos \in 0..e.size - 1
      PROVE  /\ (pos \div SectorSize) \div geo.csize <= Clusters
             /\ ~ChainEnd(c(pos))
             /\ d(pos).kind = "data" /\ d(pos).of = e.of /\ d(pos).nr = pos \div SectorSize
             /\ pos % SectorSize < d(pos).n
  <2>0. pos \in Nat /\ e.size > 0 /\ pos \div SectorSize \in Nat
        /\ (pos \div SectorSize) \div geo.csize \in Nat
    <3>1. pos \in Nat /\ e.size > 0
      BY <1>5
    <3>2. pos \div SectorSize \in Nat
      BY <1>0, <3>1, DivMod
    <3>3. \A n \in Nat : n \div geo.csize \in Nat
      BY <1>0, DivMod
    <3> QED BY <3>1, <3>2, <3>3
  <2>1. CASE opened
    <3>1. PICK len \in 0..Clusters : \E p \in [0..len - 1 -> Cluster] : FileOk(p, len)
      BY <1>2, <2>1
    <3>2. PICK p \in [0..len - 1 -> Cluster] : FileOk(p, len)
      BY <3>1
    <3>3. /\ e.of = "log" /\ len > 0 /\ e.start = p[0]
          /\ OnCard(p, len)
          /\ Within(pos \div SectorSize, len) /\ Holds(card[Spot(p, pos \div SectorSize)], pos)
      BY <2>0, <3>2 DEF FileOk, ClaimsOk, Claimed
    <3>4. \A i \in 0..len - 1 : chain[i] = p[i]
      <4>1. \A i \in 0..len - 2 : card[FatSec(p[i])].entry[p[i]] = p[i + 1]
        BY <3>3 DEF OnCard
      <4>2. \A i \in 0..len - 1 : Chain(card, p[0])[i] = p[i]
        BY <3>3, <4>1, ChainFollows
      <4> QED BY <3>3, <4>2
    <3>5. /\ (pos \div SectorSize) \div geo.csize \in 0..len - 1
          /\ (pos \div SectorSize) \div geo.csize <= Clusters
      <4> DEFINE i == (pos \div SectorSize) \div geo.csize
      <4>1. i \in Nat /\ i < len
        BY <2>0, <3>3 DEF Within
      <4> HIDE DEF i
      <4>2. i \in 0..len - 1 /\ i <= Clusters
        BY <1>0, <4>1
      <4> QED BY <4>2 DEF i
    <3>6. c(pos) = p[(pos \div SectorSize) \div geo.csize] /\ c(pos) \in Cluster
      <4> HIDE DEF chain
      <4> QED BY <3>4, <3>5
    <3>7. d(pos) = card[Spot(p, pos \div SectorSize)]
      <4> HIDE DEF c
      <4> QED BY <3>6 DEF Spot
    <3> HIDE DEF c, d
    <3> QED BY <3>3, <3>5, <3>6, <3>7 DEF Holds, ChainEnd
  <2>2. CASE ~opened
    <3>1. /\ e \in {Empty, Entered}
          /\ geo.old # 0 => card[DataSec(geo.old, 0, geo.csize)] = DataOf("old", 0, SectorSize)
      BY <2>2 DEF FileInvs, OldInv
    <3>2. Empty.size = 0 /\ Entered.of = "old" /\ Entered.start = geo.old
          /\ Entered.size = IF geo.old = 0 THEN 0 ELSE SectorSize
      BY DEF Empty, Entered, DirOf
    <3>3. geo.old # 0 /\ e.of = "old" /\ e.start = geo.old /\ e.size = SectorSize
      BY <2>0, <3>1, <3>2
    <3>4. geo.old \in Cluster
      BY <1>0, <3>3 DEF FlagType, Volume
    <3>5. pos \div SectorSize = 0 /\ pos % SectorSize = pos /\ pos \in 0..SectorSize - 1
      <4>1. pos \in 0..SectorSize - 1
        BY <3>3
      <4>2. pos = SectorSize * 0 + pos
        BY <1>0, <4>1
      <4>3. \A n : n = SectorSize * 0 + pos => n \div SectorSize = 0 /\ n % SectorSize = pos
        BY <1>0, <4>1, DivIs
      <4> QED BY <4>1, <4>2, <4>3
    <3>6. 0 \div geo.csize = 0 /\ 0 % geo.csize = 0
      BY <1>0
    <3>7. chain[0] = geo.old
      BY <3>3, ChainIs
    <3>8. c(pos) = geo.old
      <4> HIDE DEF chain
      <4> QED BY <3>5, <3>6, <3>7
    <3>9. d(pos) = DataOf("old", 0, SectorSize)
      <4> HIDE DEF c
      <4> QED BY <3>1, <3>3, <3>5, <3>6, <3>8
    <3>10. /\ d(pos).kind = "data" /\ d(pos).of = "old" /\ d(pos).nr = 0 /\ d(pos).n = SectorSize
      <4> HIDE DEF d
      <4> QED BY <3>9 DEF DataOf
    <3>11. pos < SectorSize /\ 0 <= Clusters
      BY <1>0, <3>5
    <3> HIDE DEF c, d
    <3> QED BY <3>3, <3>4, <3>5, <3>6, <3>8, <3>10, <3>11 DEF ChainEnd
  <2> QED BY <1>0, <2>1, <2>2
<1>7. Covered(card, geo.csize)
  BY <1>6 DEF Covered
<1> QED BY <1>3, <1>4, <1>7

\* Unless the handler has come into a disk call or into sync_window of main's (ff.c:709-719),
\* or found a window whose sector had been replaced while winsect still named the directory
\* (ff.c:742-746), the card can be taken out at any moment: the FAT and the directory are
\* where they should be, the chain and the sectors of the file hold all the text that the
\* directory claims, and other files are what they were (f_write, create_chain and f_sync of
\* ff.c, interrupted by main.c:89).
THEOREM CardStaysConsistent == Spec => []CardIsConsistent
BY FileInvariance, Invariance, Consistent, PTL
===============================================================================
