-------------------------------- MODULE Ufat --------------------------------
(***************************************************************************)
(* A file on the FAT32 file system of an SD card (mcu/src/tools/ufat): it  *)
(* is looked up in the root directory, read from its begin sector by       *)
(* sector, or mapped so that any of its sectors can be read and written.   *)
(* read_part_table takes partitions of types 11 and 12 only, which hold    *)
(* FAT32.                                                                  *)
(*                                                                         *)
(* A FAT16 file system in such a partition, which read_boot_sector accepts, *)
(* is left out: its entries are read as if they were four bytes long.       *)
(*                                                                         *)
(* Clusters are numbered as on the disk, from 2.  Entry c of the FAT,      *)
(* which lies in the FAT's block c \div Epb, names the cluster that        *)
(* follows cluster c.  Sizes are in halves of a sector, so that a file may *)
(* end within one.                                                         *)
(***************************************************************************)
EXTENDS Integers, Sequences, SequencesExt

CONSTANTS
  MaxCluster,   \* last cluster of the disk
  Epb,          \* entries in a block of the FAT
  MaxChain,     \* bound: clusters of the file
  MaxPerClus,   \* bound: sectors of a cluster
  MaxDir,       \* bound: entries in the first block of the root directory
  Map,          \* UFAT_MAX_BLK_IO_ENTRIES
  MapEntry,     \* UFAT_CLU_MAP_MAX_ENTRY
  Boots         \* the boot sectors of disks: part, reserved, fats, fatSize, root

UfatAssumption ==
  /\ MaxCluster \in Nat /\ MaxCluster >= 2
  /\ {Epb, MaxPerClus, Map, MapEntry} \subseteq Nat \ {0}
  /\ MaxChain \in Nat
  /\ Boots \subseteq
       [part : Nat, reserved : Nat, fats : Nat, fatSize : Nat, root : Nat]

VARIABLES
  vol,      \* the disk: clusters of the file, the rest of the FAT, the size of
            \* the file and of a cluster, and the first block of the directory
  disk,     \* where ufat_disk_init found the FAT, the directory and the data,
            \* or why it did not
  found,    \* outcome of ufat_root_find, and "no" before it
  rf,       \* the state of a reader of the file, ufat_read_file_t
  bio,      \* its map, ufat_blk_io_t, and the outcome of ufat_blk_io_init
  lba,      \* the sector the last call read or wrote, and what it returned
  reads,    \* history: sectors that were read one after the other
  failed    \* history: a sector could not be read

vars == <<vol, disk, found, rf, bio, lba, reads, failed>>

-------------------------------------------------------------------------------
Unused == 0
EndMark == -1

(* FAT of a disk with one file: clusters of no chain are free, or name each *)
(* other.  Entries 0 and 1 hold marks.                                      *)
Fat == [c \in 0 .. MaxCluster |->
  IF c < 2 THEN EndMark
  ELSE IF \E i \in DOMAIN vol.chain : vol.chain[i] = c
  THEN LET i == CHOOSE j \in DOMAIN vol.chain : vol.chain[j] = c
       IN IF i = Len(vol.chain) THEN EndMark ELSE vol.chain[i + 1]
  ELSE IF vol.others /\ c < MaxCluster THEN c + 1 ELSE Unused]

(* Sector s of cluster c.                                                   *)
Lba(c, s) == disk.data + (c - 2) * vol.perClus + s
PerSector == 2
FileSectors == (vol.size + PerSector - 1) \div PerSector
ChainFor(size, perClus) ==
  LET per == PerSector * perClus IN (size + per - 1) \div per

NoReader == [left |-> 0, clus |-> 0, lba |-> 0, next |-> 0, sec |-> 0, cont |-> 0]
NoMap == [state |-> "none", runs |-> <<>>]
NoDisk == [state |-> "none", fat |-> 0, root |-> 0, data |-> 0]
NoSector == [lba |-> -1, size |-> 0, eof |-> FALSE, block |-> 0, res |-> "none"]

Entries == {"free", "last", "lfn", "hidden", "volume", "other", "file"}
Plain == <<"file", "last">>

Injective(s) == \A i, j \in DOMAIN s : s[i] = s[j] => i = j
Chains == {s \in BoundedSeq(2 .. MaxCluster, MaxChain) : s # <<>> /\ Injective(s)}
Disks ==
  {[chain |-> c, others |-> o, perClus |-> p, size |-> n, dir |-> Plain,
    part |-> 12, sectors |-> 512, boot |-> b] :
     b \in Boots, c \in Chains, o \in BOOLEAN, p \in 1 .. MaxPerClus,
     n \in 1 .. MaxChain * MaxPerClus * PerSector}
    \union
  {[chain |-> <<2>>, others |-> FALSE, perClus |-> 1, size |-> 1, dir |-> d,
    part |-> t, sectors |-> n, boot |-> b] :
     d \in BoundedSeq(Entries, MaxDir), t \in {0, 6, 11}, n \in {0, 512, 4096}, b \in Boots}

(* Disks with a sound FAT.                                                  *)
Init ==
  /\ vol \in {d \in Disks : Len(d.chain) = ChainFor(d.size, d.perClus)}
  /\ disk = NoDisk /\ found = "no" /\ rf = NoReader /\ bio = NoMap
  /\ lba = NoSector /\ reads = 0 /\ failed = FALSE

-------------------------------------------------------------------------------
(* read_boot_sector.                                                        *)
Layout(b) ==
  LET fat == b.part + b.reserved
      data == fat + b.fatSize * b.fats
  IN [state |-> "ok", fat |-> fat, data |-> data,
      root |-> data + (b.root - 2) * vol.perClus]

(* ufat_disk_init.  A first block without a signature is a partition table  *)
(* of type 0 here, a boot sector without one has sectors of size 0.         *)
Mount ==
  /\ disk = NoDisk
  /\ LET Fails(res) == disk' = [NoDisk EXCEPT !.state = res]
     IN \/ vol.part = 0 /\ Fails("no table")
        \/ vol.part \notin {0, 11, 12} /\ Fails("wrong type")
        \/ vol.part \in {11, 12} /\ vol.sectors = 0 /\ Fails("no boot block")
        \/ vol.part \in {11, 12} /\ vol.sectors = 4096 /\ Fails("unsupported")
        \/ vol.part \in {11, 12} /\ vol.sectors = 512 /\ disk' = Layout(vol.boot)
        \/ Fails("read")
  /\ UNCHANGED <<vol, found, rf, bio, lba, reads, failed>>

(* ufat_root_find: dir_scan stops at the first entry that matches or ends   *)
(* the directory.  It never goes on to the next block, but reads the first  *)
(* one again and again when there is nothing to stop at.                    *)
Find ==
  /\ disk.state = "ok" /\ found = "no"
  /\ LET stops == {i \in DOMAIN vol.dir : vol.dir[i] \in {"file", "last"}}
     IN found' = IF stops = {} THEN "searching"
                 ELSE vol.dir[CHOOSE i \in stops : \A j \in stops : i <= j]
  /\ UNCHANGED <<vol, disk, rf, bio, lba, reads, failed>>

-------------------------------------------------------------------------------
(* Reading from the begin.  A file that is read is not mapped: the two work  *)
(* on state of their own.                                                   *)

ReadInit ==
  /\ found = "file" /\ rf = NoReader /\ bio = NoMap
  /\ rf' = [left |-> vol.size, clus |-> vol.chain[1], lba |-> Lba(vol.chain[1], 0),
            next |-> vol.chain[1], sec |-> 0, cont |-> 0]
  /\ UNCHANGED <<vol, disk, found, bio, lba, reads, failed>>

(* find_next_cluster: the entry of r.next names the new cluster; then come  *)
(* the entries behind it in the same block of the FAT, as long as they      *)
(* count on from the new cluster.                                           *)
NextCluster(r) ==
  LET new == Fat[r.next]
      room == Epb - 1 - (r.next % Epb)
      Counts(n) == \A i \in 1 .. n : r.next + i <= MaxCluster
                                     /\ Fat[r.next + i] = new + i
      cont == CHOOSE n \in 0 .. room :
                Counts(n) /\ (n = room \/ ~Counts(n + 1))
      behind == r.next + cont + 1
  IN [r EXCEPT !.clus = new, !.lba = Lba(new, 0), !.cont = cont,
               !.next = IF cont = room THEN new + cont
                        ELSE IF behind <= MaxCluster THEN Fat[behind] ELSE Unused]

(* A mutant: the sector count goes on over the end of a cluster.            *)
AdvanceKeepsSector(r) ==
  IF r.sec + 1 # vol.perClus THEN [r EXCEPT !.sec = @ + 1, !.lba = @ + 1]
  ELSE IF r.cont > 0
  THEN [r EXCEPT !.clus = @ + 1, !.lba = @ + 1, !.cont = @ - 1]
  ELSE NextCluster(r)

(* To the sector behind r.lba, if the file has one.                         *)
Advance(r) ==
  IF r.sec + 1 # vol.perClus THEN [r EXCEPT !.sec = @ + 1, !.lba = @ + 1]
  ELSE IF r.cont > 0
  THEN [r EXCEPT !.sec = 0, !.clus = @ + 1, !.lba = @ + 1, !.cont = @ - 1]
  ELSE NextCluster([r EXCEPT !.sec = 0])

NeedsFat(r) == r.sec + 1 = vol.perClus /\ r.cont = 0

(* ufat_read_file_next.  What the reader counts has changed when a read     *)
(* fails, of the FAT or of the sector, so a caller stops at the first one.  *)
ReadNext ==
  /\ rf # NoReader /\ ~failed
  /\ LET rest == [rf EXCEPT !.left = @ - PerSector]
         last == rf.left <= PerSector
         Done(r, res) ==
           /\ rf' = r
           /\ lba' = [lba |-> rf.lba, block |-> reads, eof |-> last,
                      size |-> IF last THEN rf.left ELSE PerSector, res |-> res]
           /\ reads' = reads + (IF res = "ok" THEN 1 ELSE 0)
           /\ failed' = (res # "ok")
     IN \/ /\ rf.left = 0
           /\ lba' = [NoSector EXCEPT !.eof = TRUE, !.res = "end"]
           /\ UNCHANGED <<rf, reads, failed>>
        \/ /\ rf.left > 0 /\ last
           /\ \E res \in {"ok", "read"} : Done([rf EXCEPT !.left = 0], res)
        \/ /\ ~last /\ (NeedsFat(rf) => rf.next \in DOMAIN Fat)
           /\ \E res \in {"ok", "read"} : Done(Advance(rest), res)
        \/ /\ ~last /\ NeedsFat(rf)
           /\ Done([rest EXCEPT !.sec = 0], "fat")
  /\ UNCHANGED <<vol, disk, found, bio>>

-------------------------------------------------------------------------------
(* The map of a file: runs of clusters that follow each other on the disk.  *)

Run(c) == [cluster |-> c, cont |-> 0]

(* build_clu_map at the entry that names cluster next.  The map has Map     *)
(* entries, and the code makes one more before it finds it full.            *)
ToMap(m, next) ==
  LET r == Last(m.runs)
      new == next # r.cluster + r.cont + 1 \/ r.cont = MapEntry
  IN IF m.state # "ok" THEN m
     ELSE IF ~new THEN [m EXCEPT !.runs[Len(m.runs)].cont = @ + 1]
     ELSE IF Len(m.runs) = Map + 1 THEN [m EXCEPT !.state = "too small"]
     ELSE [m EXCEPT !.runs = Append(@, Run(next))]

(* The map of the clusters 1 to k of the file.                              *)
FirstRun == [state |-> "ok", runs |-> <<Run(vol.chain[1])>>]
MapUpTo[k \in DOMAIN vol.chain] ==
  IF k = 1 THEN FirstRun ELSE ToMap(MapUpTo[k - 1], vol.chain[k])

(* ufat_blk_io_init takes files of whole sectors; one that fits a cluster   *)
(* needs no look at the FAT.                                                *)
MapInit ==
  /\ found = "file" /\ rf = NoReader /\ bio = NoMap
  /\ \/ vol.size % PerSector # 0 /\ bio' = [NoMap EXCEPT !.state = "wrong size"]
     \/ vol.size % PerSector = 0
        /\ bio' = IF FileSectors <= vol.perClus THEN FirstRun
                  ELSE MapUpTo[Len(vol.chain)]
     \/ vol.size % PerSector = 0 /\ FileSectors > vol.perClus
        /\ bio' = [NoMap EXCEPT !.state = "read"]
  /\ UNCHANGED <<vol, disk, found, rf, lba, reads, failed>>

(* The clusters of the runs before run i.                                   *)
Before[i \in DOMAIN bio.runs] ==
  IF i = 1 THEN 0 ELSE Before[i - 1] + bio.runs[i - 1].cont + 1

(* ufat_blk_io_map: run i holds cluster clu of the file.                    *)
Has(i, clu) == clu >= Before[i] /\ clu <= Before[i] + bio.runs[i].cont

(* ufat_blk_io_read and ufat_blk_io_write of block b.                       *)
MapBlock(b) ==
  /\ bio.state = "ok"
  /\ LET clu == b \div vol.perClus
         in == {i \in 1 .. Len(bio.runs) : i <= Map /\ Has(i, clu)}
         r == CHOOSE i \in in : \A j \in in : i <= j
         At(sector, res) == lba' = [NoSector EXCEPT !.lba = sector, !.block = b,
                                                    !.res = res]
     IN IF b >= FileSectors THEN At(-1, "no such block")
        ELSE IF in = {} THEN At(-1, "too small")
        ELSE \E res \in {"mapped", "read"} :
               At(Lba(bio.runs[r].cluster + (clu - Before[r]), b % vol.perClus), res)
  /\ UNCHANGED <<vol, disk, found, rf, bio, reads, failed>>

Next ==
  \/ Mount \/ Find \/ ReadInit \/ ReadNext \/ MapInit
  \/ \E b \in 0 .. MaxChain * MaxPerClus : MapBlock(b)

Spec == Init /\ [][Next]_vars

-------------------------------------------------------------------------------
(* Sector b of the file, by its FAT and the layout of the standard.         *)
Sector(b) ==
  vol.boot.part + vol.boot.reserved + vol.boot.fats * vol.boot.fatSize
    + (vol.chain[1 + b \div vol.perClus] - 2) * vol.perClus + (b % vol.perClus)
InOnePiece == \A i \in DOMAIN vol.chain : vol.chain[i] = vol.chain[1] + i - 1

(* A file that lies in one piece is read sector after sector in its order,  *)
(* over the ends of clusters and of the FAT's blocks, with the last sector  *)
(* marked and no other one, and its size cut to the file's.  A file in two  *)
(* pieces is not: the first cluster of the second one is left out.  Through *)
(* the map of its runs every file is: a block that is mapped is mapped to   *)
(* its own sector, and all blocks of a file in at most Map runs are.        *)
ReadsTheFile ==
  /\ lba.res = "ok" /\ InOnePiece =>
       /\ lba.lba = Sector(lba.block)
       /\ lba.eof <=> lba.block = FileSectors - 1
       /\ lba.size = IF lba.eof THEN vol.size - PerSector * lba.block ELSE PerSector
  /\ lba.res = "mapped" => lba.lba = Sector(lba.block)
  /\ lba.res = "too small" => Len(bio.runs) > Map
===============================================================================
