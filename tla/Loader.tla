-------------------------------- MODULE Loader -------------------------------
(***************************************************************************)
(* The boot loader: stage 1 (boot/stage1/boot.asm) as far as its one read, *)
(* and stage 2 (boot/stage2/stage2.c, disk.asm), which finds the kernel in *)
(* the FAT12 root directory and loads it.  Every call of the BIOS can      *)
(* fail; what is on the disk is arbitrary within the constants, and does   *)
(* not change.  A step is one call of INT 13h with the code up to the next *)
(* one.  File contents are abstracted to the sectors they lie in.  A read  *)
(* that is stored outside the memory meant for it ends the model.          *)
(***************************************************************************)
EXTENDS Chs, Sequences, FiniteSetsExt

CONSTANTS
  Disks,           \* a BIOS parameter block, a root directory (a sequence of entries)
                   \* and an allocation table ([0 .. n -> 12-bit values]) each
  SectorsPerTrack, Heads, Cylinders,   \* the drive, as the BIOS knows it
  SectorSize,      \* the bytes that INT 13h stores per sector: 512
  BpbSectorsPerTrack, BpbHeads,   \* and what the BPB of stage 1 says
  Stage2FirstLba, Stage2Sectors,  \* STAGE2_FIRST_LBA, STAGE2_SECTORS
  DirEntrySize,    \* 32
  NameLength, ExtLength,          \* 8 and 3
  Fat12Limit,      \* 4085
  WordMod,         \* 2^32
  MaxPrinted,      \* 12: the names debug_dump_root_dir prints
  Ds,              \* 0x500, the segment of stage 2
  FatSeg, TableRoom,     \* FAT_SEG, and the bytes from there to the stack of stage 2
  KernelSeg, MemoryEnd,  \* KERNEL_SEG, and the linear address where memory ends
  Garbage          \* what fat12_next_cluster may return from behind the table

ASSUME LoaderAssumption ==
  {SectorsPerTrack, Heads, Cylinders, SectorSize, BpbSectorsPerTrack, BpbHeads,
   Stage2FirstLba, Stage2Sectors, DirEntrySize, NameLength, ExtLength, Fat12Limit, WordMod,
   MaxPrinted, Ds, FatSeg, TableRoom, KernelSeg, MemoryEnd} \subseteq Nat \ {0}

\* A cylinder number has 10 bits in the registers of INT 13h.
Addressable  == 1024 * Heads * SectorsPerTrack
DriveSectors == Cylinders * Heads * SectorsPerTrack

\* The drive is one that INT 13h can address, the BPB of stage 1 describes it, and it
\* has the sectors of stage 2.  Words have 32 bits.
ASSUME GeometryAssumption ==
  /\ SectorsPerTrack < 64 /\ Heads <= 256 /\ Cylinders <= 1024
  /\ BpbSectorsPerTrack = SectorsPerTrack /\ BpbHeads = Heads
  /\ Stage2FirstLba < DriveSectors
  /\ Fat12Limit = 4085
  /\ (WordMod - 1) \div 16777216 < 256

\* destination of fat_load_file, as a linear address.
LoadBase == 16 * Ds + KernelSeg

\* The table is loaded below the kernel and both are in the first megabyte.
ASSUME MemoryAssumption ==
  /\ FatSeg + TableRoom <= KernelSeg /\ KernelSeg < 65536
  /\ LoadBase <= MemoryEnd /\ MemoryEnd <= 1048576

\* Names are padded to NameLength and ExtLength bytes; 0 is the space.
KERNEL     == [k \in 1 .. NameLength + ExtLength |-> IF k = 1 THEN 1 ELSE 0]
KERNEL_BIN == [k \in 1 .. NameLength + ExtLength |->
                 IF k = 1 THEN 1 ELSE IF k > NameLength THEN 2 ELSE 0]
Kinds == {"end", "deleted", "skipped", "file"}   \* "skipped": LFN, directory, label

-----------------------------------------------------------------------------
(***************************************************************************)
(* FAT12 disks: where the parts of a disk of format f are, which formats   *)
(* stage 2 is made for, and what a disk of such a format holds.            *)
(***************************************************************************)
Below(n) == {k \in Nat : k < n}
Byte     == Below(256)
Half     == Below(65536)
Link     == Below(4096)      \* an entry of the table
Formats == [bytesPerSector : Half, sectorsPerCluster : Byte, reserved : Half, fats : Byte,
            rootEntries : Half, total16 : Half, total32 : Below(WordMod), sectorsPerFat : Half]
Entry == [name : [1 .. NameLength -> Nat], ext : [1 .. ExtLength -> Nat], kind : Kinds,
          first : Half, size : Below(WordMod)]

TotalSectors(f) == IF f.total16 = 0 THEN f.total32 ELSE f.total16
RootSectors(f) == (f.rootEntries * DirEntrySize + f.bytesPerSector - 1) \div f.bytesPerSector
RootStart(f) == f.reserved + f.fats * f.sectorsPerFat
DataStart(f) == RootStart(f) + RootSectors(f)
RootLength(f) == RootSectors(f) * (f.bytesPerSector \div DirEntrySize)
Clusters(f) == (TotalSectors(f) - DataStart(f)) \div f.sectorsPerCluster

ValidFormat(f) ==
  /\ 0 \notin {f.bytesPerSector, f.sectorsPerCluster, f.reserved, f.fats,
               f.sectorsPerFat, TotalSectors(f)}
  /\ DataStart(f) <= TotalSectors(f)
  /\ Clusters(f) < Fat12Limit

TableBytes(f) == f.sectorsPerFat * f.bytesPerSector

\* The sector size of the BPB is the drive's, and the drive has the tables and the
\* directory.  (The second conjunct holds for every format if WordMod is 2^32.)
\* root and fat stand for what the sectors of the directory and of the table hold:
\* fat has every entry that begins in the table.
ASSUME DiskAssumption ==
  /\ Garbage \subseteq Link /\ Garbage # {}
  /\ \A d \in Disks :
       /\ d.format \in Formats
       /\ d.format.bytesPerSector # 0 => DataStart(d.format) + 256 * Fat12Limit < WordMod
       /\ ValidFormat(d.format) =>
            /\ d.format.bytesPerSector = SectorSize
            /\ DataStart(d.format) <= DriveSectors
            /\ \A k \in 1 .. RootLength(d.format) : d.root[k] \in Entry
            /\ d.fat \in [0 .. (2 * TableBytes(d.format) - 1) \div 3 -> Link]

VARIABLES
  format, root, fat,   \* what is on the disk
  stage2At,    \* auxiliary: the sector that stage 2 was loaded from
  pc,
  si,          \* attempts disk_read_sector has left
  i,           \* the sector of a loop
  name83,      \* the name fat_find_file looks for
  cluster, remaining,
  linear,      \* where fat_load_file stores the next sector
  loaded,      \* the sectors at KERNEL_SEG, in the order of their addresses
  printed,
  hardError    \* auxiliary: disk_get_params failed, or three reads of a sector
               \* that the drive has

disk == <<format, root, fat>>
file == <<cluster, remaining, linear, loaded>>   \* the state of fat_load_file
vars == <<disk, stage2At, pc, si, i, name83, file, printed, hardError>>

Reading == {"boot sector", "search", "dump", "table", "load"}
Halted  == {"hang", "kernel", "overrun"}

Init ==
  /\ \E d \in Disks : format = d.format /\ root = d.root /\ fat = d.fat
  /\ stage2At = -1
  /\ pc = "stage1"
  /\ si = 3 /\ i = 0
  /\ name83 = KERNEL
  /\ cluster = 0 /\ remaining = 0 /\ linear = 0
  /\ loaded = <<>>
  /\ printed = 0
  /\ hardError = FALSE

-----------------------------------------------------------------------------
(***************************************************************************)
(* The BIOS parameter block: the bytes of the boot sector that hold the    *)
(* fields of the format, the lowest byte of a field first, and what        *)
(* fat_init reads from them and computes.                                  *)
(***************************************************************************)
BootSector(b) ==
  LET ByteOf(field, first) == (field \div <<1, 256, 65536, 16777216>>[b - first + 1]) % 256 IN
  CASE b \in 11 .. 12 -> ByteOf(format.bytesPerSector, 11)
    [] b = 13         -> ByteOf(format.sectorsPerCluster, 13)
    [] b \in 14 .. 15 -> ByteOf(format.reserved, 14)
    [] b = 16         -> ByteOf(format.fats, 16)
    [] b \in 17 .. 18 -> ByteOf(format.rootEntries, 17)
    [] b \in 19 .. 20 -> ByteOf(format.total16, 19)
    [] b \in 22 .. 23 -> ByteOf(format.sectorsPerFat, 22)
    [] b \in 32 .. 35 -> ByteOf(format.total32, 32)

read_le16(p) == BootSector(p) + BootSector(p + 1) * 256
read_le32(p) ==
  BootSector(p) + BootSector(p + 1) * 256 + BootSector(p + 2) * 65536 + BootSector(p + 3) * 16777216

g_bytes_per_sector    == read_le16(11)
g_sectors_per_cluster == BootSector(13)
g_reserved_sectors    == read_le16(14)
g_num_fats            == BootSector(16)
g_root_entry_count    == read_le16(17)
g_sectors_per_fat     == read_le16(22)
g_total_sectors       == IF read_le16(19) = 0 THEN read_le32(32) ELSE read_le16(19)

g_root_dir_sectors ==
  (g_root_entry_count * DirEntrySize + (g_bytes_per_sector - 1)) \div g_bytes_per_sector
g_first_root_dir_sector == g_reserved_sectors + g_num_fats * g_sectors_per_fat
g_first_data_sector == g_first_root_dir_sector + g_root_dir_sectors
g_cluster_count ==
  ((g_total_sectors - g_first_data_sector) % WordMod) \div g_sectors_per_cluster
entries == g_bytes_per_sector \div DirEntrySize

fat_init_rejects ==
  \/ 0 \in {g_bytes_per_sector, g_sectors_per_cluster, g_reserved_sectors,
            g_num_fats, g_sectors_per_fat, g_total_sectors}
  \/ g_cluster_count >= Fat12Limit

(***************************************************************************)
(* disk_read_sector.                                                       *)
(***************************************************************************)
\* The sector that INT 13h reads for an LBA.
Int13(lba) == BiosSector(stage2_lba_to_chs(lba, SectorsPerTrack, Heads), SectorsPerTrack, Heads)

MutClusterLba == g_first_data_sector + ((cluster - 2) % 256) * g_sectors_per_cluster
cluster_lba == g_first_data_sector + (cluster - 2) * g_sectors_per_cluster

\* The argument of the read under way.
Lba ==
  CASE pc = "boot sector"       -> 0
    [] pc \in {"search", "dump"} -> g_first_root_dir_sector + i
    [] pc = "table"             -> g_reserved_sectors + i
    [] pc = "load"              -> cluster_lba + i

OnDrive == Int13(Lba) < DriveSectors

\* A read succeeds only for a sector that the drive has, in the volume or not.
ReadSucceeds(at) ==
  /\ pc = at
  /\ OnDrive
  /\ si' = 3

uint16(n) == n % 65536

\* The linear address that disk_read_sector is given for a linear one: the segment
\* has 16 bits.
Destination(address) == uint16(address \div 16) * 16 + (address % 16)

Hang == pc' = "hang" /\ UNCHANGED <<i, name83, printed>>

\* What stage2_main does next when fat_find_file returns -1: the other name, or
\* the list of what there is.
NotFound ==
  /\ pc' = IF name83 = KERNEL THEN "search" ELSE "dump"
  /\ name83' = KERNEL_BIN
  /\ i' = 0
  /\ UNCHANGED printed

MutAttemptsLeft == si
AttemptsLeft == si - 1

\* An attempt fails: reset, and try again while SI is not 0.
read_again ==
  /\ pc \in Reading
  /\ AttemptsLeft > 0
  /\ si' = AttemptsLeft
  /\ UNCHANGED <<disk, stage2At, pc, i, name83, file, printed, hardError>>

\* The last one fails: the caller returns -1.
read_fails ==
  /\ pc \in Reading
  /\ AttemptsLeft = 0
  /\ si' = 3
  /\ hardError' = (hardError \/ OnDrive)
  /\ IF pc = "search" THEN NotFound ELSE Hang
  /\ UNCHANGED <<disk, stage2At, file>>

-----------------------------------------------------------------------------
(***************************************************************************)
(* Stage 1: one read of all of stage 2, without retries, from the sector   *)
(* its own conversion gives; after an error a key restarts the machine.    *)
(***************************************************************************)
stage1_loads ==
  LET registers == stage1_lba_to_chs(Stage2FirstLba, BpbSectorsPerTrack, BpbHeads) IN
  /\ pc = "stage1" /\ pc' = "params"
  /\ InOneTrack(registers, Stage2Sectors, SectorsPerTrack)
  /\ stage2At' = BiosSector(registers, SectorsPerTrack, Heads)
  /\ UNCHANGED <<disk, si, i, name83, file, printed, hardError>>

stage1_fails ==
  /\ pc = "stage1" /\ pc' = "disk error"
  /\ UNCHANGED <<disk, stage2At, si, i, name83, file, printed, hardError>>

disk_error ==
  /\ pc = "disk error" /\ pc' = "stage1"
  /\ UNCHANGED <<disk, stage2At, si, i, name83, file, printed, hardError>>

(***************************************************************************)
(* fat_init.                                                               *)
(***************************************************************************)
disk_get_params ==
  /\ pc = "params"
  /\ \/ pc' = "boot sector" /\ UNCHANGED hardError
     \/ pc' = "hang" /\ hardError' = TRUE
  /\ UNCHANGED <<disk, stage2At, si, i, name83, file, printed>>

fat_init ==
  /\ ReadSucceeds("boot sector")
  /\ IF fat_init_rejects
     THEN Hang
     ELSE IF g_root_dir_sectors = 0 THEN pc' = "hang" /\ name83' = KERNEL_BIN /\ UNCHANGED <<i, printed>>
     ELSE pc' = "search" /\ UNCHANGED <<i, name83, printed>>
  /\ UNCHANGED <<disk, stage2At, file, hardError>>

(***************************************************************************)
(* fat_find_file, a sector of the directory at a time: the first entry     *)
(* that ends the directory or is a file of the name decides.               *)
(***************************************************************************)
SectorEntries == {i * entries + j : j \in 1 .. entries}

\* The sign of the first difference.
memcmp(a, b, n) ==
  LET differ == {k \in 1 .. n : a[k] # b[k]} IN
  IF differ = {} THEN 0 ELSE IF a[Min(differ)] > b[Min(differ)] THEN 1 ELSE -1

MutMatches(e) == e.kind = "file" /\ memcmp(e.name, name83, NameLength) = 0
Matches(e) ==
  /\ e.kind = "file"
  /\ memcmp(e.name, name83, NameLength) = 0
  /\ memcmp(e.ext, SubSeq(name83, NameLength + 1, Len(name83)), ExtLength) = 0

Deciding == {k \in SectorEntries : root[k].kind = "end" \/ Matches(root[k])}

NextSector(none) ==
  IF i + 1 < g_root_dir_sectors
  THEN i' = i + 1 /\ UNCHANGED <<pc, name83, printed>>
  ELSE none

find_continues ==
  /\ ReadSucceeds("search")
  /\ Deciding = {}
  /\ NextSector(NotFound)
  /\ UNCHANGED <<disk, stage2At, file, hardError>>

find_ends ==
  /\ ReadSucceeds("search")
  /\ Deciding # {} /\ root[Min(Deciding)].kind = "end"
  /\ NotFound
  /\ UNCHANGED <<disk, stage2At, file, hardError>>

\* Found; fat_load_file refuses the clusters 0 and 1, no others, and goes on with
\* the table.
find_succeeds ==
  /\ ReadSucceeds("search")
  /\ Deciding # {} /\ root[Min(Deciding)].kind # "end"
  /\ LET e == root[Min(Deciding)] IN
       /\ cluster' = e.first /\ remaining' = e.size /\ linear' = LoadBase
       /\ pc' = IF e.first < 2 THEN "hang" ELSE "table"
  /\ i' = 0
  /\ UNCHANGED <<disk, stage2At, name83, loaded, printed, hardError>>

\* debug_dump_root_dir lists up to MaxPrinted files; with fewer the end of the
\* directory stops it.
dump ==
  LET ends   == {k \in SectorEntries : root[k].kind = "end"}
      listed == {k \in SectorEntries : root[k].kind = "file" /\ \A e \in ends : k < e}
      sum    == Min({printed + Cardinality(listed), MaxPrinted})
  IN
  /\ ReadSucceeds("dump")
  /\ printed' = sum
  /\ IF (ends # {} /\ sum < MaxPrinted) \/ i + 1 >= g_root_dir_sectors
     THEN pc' = "hang" /\ UNCHANGED i
     ELSE i' = i + 1 /\ UNCHANGED pc
  /\ UNCHANGED <<disk, stage2At, name83, file, hardError>>

-----------------------------------------------------------------------------
(***************************************************************************)
(* fat_load_file.                                                          *)
(***************************************************************************)
\* The table in memory: two 12-bit values in three bytes.
FatByte(b) ==
  LET low  == fat[2 * (b \div 3)]
      high == fat[2 * (b \div 3) + 1]
  IN CASE b % 3 = 0 -> low % 256
       [] b % 3 = 1 -> (low \div 256) + 16 * (high % 16)
       [] b % 3 = 2 -> high \div 16

\* offset is a uint16_t.
FatOffset(c) == uint16(c + (c \div 2))

MutNextCluster(c) == (FatByte(FatOffset(c)) + 256 * (FatByte(FatOffset(c) + 1) % 16)) % 4096
fat12_next_cluster(c) ==
  IF c % 2 = 1
  THEN ((FatByte(FatOffset(c)) \div 16) + 16 * FatByte(FatOffset(c) + 1)) % 4096
  ELSE (FatByte(FatOffset(c)) + 256 * (FatByte(FatOffset(c) + 1) % 16)) % 4096

\* No cluster is compared with the length of the table.
Lookup(c) ==
  IF FatOffset(c) + 1 < g_sectors_per_fat * g_bytes_per_sector
  THEN {fat12_next_cluster(c)}
  ELSE Garbage

\* dstOff is a uint16_t.  A sector stored outside the room for the table overwrites
\* the stack, and what follows is not the program any more.
fat_read_table ==
  LET dstOff == uint16(FatSeg + i * g_bytes_per_sector) IN
  /\ ReadSucceeds("table")
  /\ IF dstOff < FatSeg \/ dstOff + SectorSize > FatSeg + TableRoom
     THEN pc' = "overrun" /\ UNCHANGED i
     ELSE IF i + 1 < g_sectors_per_fat
     THEN i' = i + 1 /\ UNCHANGED pc
     ELSE i' = 0 /\ pc' = IF remaining = 0 THEN "kernel" ELSE "load"
  /\ UNCHANGED <<disk, stage2At, name83, file, printed, hardError>>

chunk == IF g_bytes_per_sector > remaining THEN remaining ELSE g_bytes_per_sector

\* 0xFF7 is a bad cluster; 0, 1 and 0xFF8 and above are no cluster.
ChainStops(c) == c = 4087 \/ c < 2 \/ c >= 4088

\* The sector is stored between KERNEL_SEG and the end of memory.
InMemory == Destination(linear) >= LoadBase /\ Destination(linear) + SectorSize <= MemoryEnd

fat_load_sector ==
  /\ ReadSucceeds("load")
  /\ \/ /\ ~InMemory
        /\ pc' = "overrun" /\ UNCHANGED <<i, file>>
     \/ /\ InMemory
        /\ loaded' = Append(loaded, Int13(Lba))
        /\ linear' = linear + chunk
        /\ remaining' = remaining - chunk
        /\ \/ /\ remaining' = 0
              /\ pc' = "kernel" /\ UNCHANGED <<i, cluster>>
           \/ /\ remaining' # 0 /\ i + 1 < g_sectors_per_cluster
              /\ i' = i + 1 /\ UNCHANGED <<pc, cluster>>
           \/ /\ remaining' # 0 /\ i + 1 >= g_sectors_per_cluster
              /\ cluster' \in Lookup(cluster) /\ i' = 0
              /\ pc' = IF ChainStops(cluster') THEN "hang" ELSE "load"
  /\ UNCHANGED <<disk, stage2At, name83, printed, hardError>>

\* The endless loops of stage2_main, the kernel, and what is not followed.
halted == pc \in Halted /\ UNCHANGED vars

Stage2 ==
  \/ disk_get_params \/ fat_init \/ read_again \/ read_fails
  \/ find_continues \/ find_ends \/ find_succeeds \/ dump
  \/ fat_read_table \/ fat_load_sector

Next == stage1_loads \/ stage1_fails \/ disk_error \/ Stage2 \/ halted

\* INT 13h returns.  Nothing is assumed of its result, nor of the key that
\* disk_error waits for.
Spec == Init /\ [][Next]_vars /\ WF_vars(Stage2)

-----------------------------------------------------------------------------
(***************************************************************************)
(* What is on the disk, read without the loader.                           *)
(***************************************************************************)
\* The first file of a name before the end of the directory.
Files(name) ==
  {k \in 1 .. RootLength(format) :
     /\ root[k].kind = "file" /\ root[k].name \o root[k].ext = name
     /\ \A l \in 1 .. k : root[l].kind # "end"}

KernelFile(name) == root[Min(Files(name))]

SectorsOf(e) == (e.size + format.bytesPerSector - 1) \div format.bytesPerSector
ClustersOf(e) == (SectorsOf(e) + format.sectorsPerCluster - 1) \div format.sectorsPerCluster

\* The sectors of e if its clusters are c.
Contents(e, c) ==
  [n \in 1 .. SectorsOf(e) |->
     DataStart(format) + (c[(n - 1) \div format.sectorsPerCluster] - 2) * format.sectorsPerCluster
       + ((n - 1) % format.sectorsPerCluster)]

InTable(c) == c + (c \div 2) + 1 < TableBytes(format)

\* The chain of e, as long as its size calls for, if the table has one and its
\* sectors are in the volume and on the drive.  The last cluster that begins there
\* may be cut short.
Chains(e) ==
  {c \in [0 .. ClustersOf(e) - 1 -> 2 .. Clusters(format) + 2] :
     /\ ClustersOf(e) > 0 => c[0] = e.first
     /\ \A n \in 1 .. ClustersOf(e) - 1 : InTable(c[n - 1]) /\ c[n] = fat[c[n - 1]]
     /\ \A n \in 1 .. SectorsOf(e) :
          Contents(e, c)[n] < TotalSectors(format) /\ Contents(e, c)[n] < DriveSectors}

Intact(e) == e.first >= 2 /\ Chains(e) # {}

\* The sectors of e end before memory does.
Fits(e) == LoadBase + SectorsOf(e) * SectorSize <= MemoryEnd

\* The volume takes up the drive, its table has an entry for every cluster, and INT
\* 13h can address the sectors that the first cluster of e and any 12-bit number
\* stand for: then a cluster that the volume does not have cannot be read.
Enclosed(e) ==
  /\ TotalSectors(format) >= DriveSectors
  /\ 3 * (Clusters(format) + 2) <= 2 * TableBytes(format)
  /\ \A c \in {4095, e.first} :
       DataStart(format) + (c - 1) * format.sectorsPerCluster <= Addressable

-----------------------------------------------------------------------------
(***************************************************************************)
(* Properties.                                                             *)
(***************************************************************************)
\* The kernel is started only with a file of one of the two names, which fits into
\* memory: if the file is intact, with all of its sectors and in order; and a file
\* that is not is started only if the volume is not Enclosed.  KERNEL.BIN is taken
\* only if there is no KERNEL, or a read failed for good.
StartsWholeKernel ==
  pc = "kernel" =>
    /\ ValidFormat(format)
    /\ Files(name83) # {}
    /\ Fits(KernelFile(name83))
    /\ \A c \in Chains(KernelFile(name83)) : loaded = Contents(KernelFile(name83), c)
    /\ Enclosed(KernelFile(name83)) => Intact(KernelFile(name83))
    /\ name83 = KERNEL_BIN => Files(KERNEL) = {} \/ hardError

\* Stage 2 gives up only with a cause: a read that failed three times, or a disk
\* without an intact kernel.
GivesUpForCause ==
  pc = "hang" /\ ~hardError =>
    \/ ~ValidFormat(format)
    \/ Files(KERNEL) = {} /\ Files(KERNEL_BIN) = {}
    \/ /\ Files(KERNEL) # {} \/ Files(KERNEL_BIN) # {}
       /\ ~Intact(KernelFile(IF Files(KERNEL) # {} THEN KERNEL ELSE KERNEL_BIN))

\* Stage 2 is entered only with its own sectors in memory: the one read of stage 1,
\* at the registers its lba_to_chs leaves, begins at STAGE2_FIRST_LBA.  And no read of
\* its own is stored outside the memory meant for it, unless the table is longer than
\* its room or the file than the memory that is left.
Stage2InPlace ==
  /\ pc \notin {"stage1", "disk error"} => stage2At = Stage2FirstLba
  /\ pc = "overrun" => TableBytes(format) > TableRoom \/ ~Fits(KernelFile(name83))

\* On an Enclosed volume the table is never read beyond its sectors, although no
\* cluster number is compared with the size of the volume: the read of the cluster
\* fails first.
TableLookupsInside ==
  [][/\ pc = "load" /\ remaining' \notin {0, remaining} /\ i + 1 >= format.sectorsPerCluster
     /\ Enclosed(KernelFile(name83))
     => InTable(cluster)]_vars

\* Stage 2 comes to an end, the kernel or an error, whatever the disk returns;
\* also where the chain of the file is a cycle.
Terminates == pc = "params" ~> pc \in Halted
==============================================================================
