------------------------------- MODULE FatVolume -------------------------------
(***************************************************************************)
(* The part of a FAT volume that logging to one file touches: the FAT, one *)
(* sector of the root directory, the FSInfo sector and the data sectors.   *)
(* Cluster numbers are those of ff.c: the first cluster is 2, an entry     *)
(* from NFat (n_fatent) on ends a chain, 0 marks a free cluster.           *)
(*                                                                         *)
(* The contents of a sector are a record with its kind.  A data sector is  *)
(* a sector nr of a file, of which the first n units hold the file's data. *)
(***************************************************************************)
EXTENDS Integers

CONSTANTS Clusters,    \* number of clusters
          PerFat,      \* FAT entries in a sector
          SectorSize   \* units of text in a sector: SS(fs)

ASSUME VolumeAssumption == /\ Clusters \in Nat \ {0}
                           /\ PerFat \in Nat \ {0}
                           /\ SectorSize \in Nat \ {0}

NFat == Clusters + 2
Cluster == 2..NFat - 1

FatNr(c) == c \div PerFat
FatSec(c) == <<"fat", FatNr(c)>>
DirSec == <<"dir", 0>>
InfoSec == <<"info", 0>>
NoSec == <<"none", 0>>    \* a sector number that stands for nothing

\* clust2sect, plus the sector's offset in the cluster
DataSec(c, off, csize) == <<"data", c * csize + off>>

Sector(csize) == {FatSec(c) : c \in Cluster} \cup {DirSec, InfoSec, NoSec}
                   \cup {DataSec(c, off, csize) : c \in Cluster, off \in 0..csize - 1}

\* Contents of a sector
Junk == [kind |-> "junk"]
Info == [kind |-> "info"]
DirOf(file, start, size) == [kind |-> "dir", of |-> file, start |-> start, size |-> size]
DataOf(file, nr, n) == [kind |-> "data", of |-> file, nr |-> nr, n |-> n]
FatOf(nr, entry) == [kind |-> "fat", nr |-> nr,
                     entry |-> [c \in {d \in Cluster : FatNr(d) = nr} |-> entry[c]]]

\* The entry of cluster c in the access window w: anything when w holds some
\* other sector.
Entry(w, c) == IF w.kind = "fat" /\ w.nr = FatNr(c) THEN {w.entry[c]} ELSE 0..NFat

WithEntry(w, c, value) == IF w.kind = "fat" /\ w.nr = FatNr(c)
                          THEN [w EXCEPT !.entry[c] = value] ELSE Junk

\* Sectors 0, 1, ... of a file need the clusters of its chain in this order.
ChainEnd(v) == v \notin Cluster
Chain(card, start) ==
    LET at[k \in 0..Clusters] ==
          IF k = 0 THEN start
          ELSE IF ChainEnd(at[k - 1]) THEN NFat
          ELSE card[FatSec(at[k - 1])].entry[at[k - 1]]
    IN at

\* The FAT and the directory are where they should be, and what the directory
\* says of the file is true: its chain is as long as its size asks for, and all
\* of its sectors hold the file's data.
WellFormed(card) ==
    /\ \A c \in Cluster : card[FatSec(c)].kind = "fat" /\ card[FatSec(c)].nr = FatNr(c)
    /\ card[DirSec].kind = "dir"

Covered(card, csize) ==
    LET file == card[DirSec]
        chain == Chain(card, file.start)
    IN \A pos \in 0..file.size - 1 :
          LET nr == pos \div SectorSize
              c == chain[nr \div csize]
          IN /\ nr \div csize <= Clusters
             /\ ~ChainEnd(c)
             /\ LET d == card[DataSec(c, nr % csize, csize)]
                IN /\ d.kind = "data" /\ d.of = file.of /\ d.nr = nr
                   /\ pos % SectorSize < d.n
=============================================================================
