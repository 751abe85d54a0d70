-------------------------------- MODULE MCSdLog --------------------------------
(***************************************************************************)
(* Three clusters, two FAT entries to a sector (clusters 2 and 3, and 4);  *)
(* lines of two units in sectors of three, so that lines begin at every    *)
(* offset and some cross into the next sector, cluster or FAT sector.      *)
(***************************************************************************)
EXTENDS SdLog

MCVolumes ==
    { \* an empty card
      [csize |-> 1, fat32 |-> FALSE, others |-> {}, old |-> 0, hint |-> 0],
      \* a log of last time, and another file in the way: the chain goes 2, 4
      [csize |-> 1, fat32 |-> TRUE, others |-> {3}, old |-> 2, hint |-> 3],
      \* only one cluster left: the second line fits in half
      [csize |-> 1, fat32 |-> TRUE, others |-> {2, 4}, old |-> 0, hint |-> 3],
      \* two sectors to a cluster; the search begins at the end of the volume
      [csize |-> 2, fat32 |-> TRUE, others |-> {}, old |-> 4, hint |-> 2] }
=============================================================================
