----------------------------- MODULE LoaderLemmas -----------------------------
(***************************************************************************)
(* What the operators of Loader compute, for every drive that INT 13h can  *)
(* address and every FAT12 disk: any sizes of sectors, clusters, tables    *)
(* and directory, any directory entries and first clusters, and any        *)
(* chains, also cyclic ones and ones that leave the volume.  The proofs    *)
(* about Loader's steps are in LoaderProofs.                               *)
(***************************************************************************)
EXTENDS Loader, WellFoundedInduction, TLAPS

\* A step is for the SMT solver unless it names another prover.
USE SMTT(60)

\* What DiskAssumption says of the disk in the drive.
DiskInv ==
  /\ format \in Formats
  /\ format.bytesPerSector # 0 => DataStart(format) + 256 * Fat12Limit < WordMod
  /\ ValidFormat(format) =>
       /\ format.bytesPerSector = SectorSize
       /\ DataStart(format) <= DriveSectors
       /\ \A k \in 1 .. RootLength(format) : root[k] \in Entry
       /\ fat \in [0 .. (2 * TableBytes(format) - 1) \div 3 -> Link]

IsFile(k, name) == root[k].kind = "file" /\ root[k].name \o root[k].ext = name

\* The first n entries neither end the directory nor are the file wanted.
Passed(n) == \A k \in 1 .. n : root[k].kind # "end" /\ ~IsFile(k, name83)

\* Sector j, from 0, of cluster current, and sector n, from 1, of a file with the clusters c.
SectorAt(current, j) == DataStart(format) + (current - 2) * format.sectorsPerCluster + j
SectorOf(c, n) ==
  SectorAt(c[(n - 1) \div format.sectorsPerCluster], (n - 1) % format.sectorsPerCluster)

\* The clusters c are a chain of k links in the table, from the first cluster of e to
\* current, and the sectors are theirs.
Followed(e, k, c, current, sectors) ==
  /\ c[0] = e.first /\ c[k] = current
  /\ \A n \in 1 .. k :
       /\ c[n - 1] \in 2 .. Clusters(format) + 1 /\ InTable(c[n - 1])
       /\ c[n] = fat[c[n - 1]]
  /\ \A n \in 1 .. Len(sectors) :
       /\ sectors[n] = SectorOf(c, n)
       /\ sectors[n] < TotalSectors(format) /\ sectors[n] < DriveSectors

\* The loader is at sector j of cluster current, the k-th of e counted from 0, with rem
\* bytes to go.  If e has a chain, that is where it has come to on it; and on an
\* enclosed volume it has followed one so far.
Loading(e, k, j, current, rem, sectors) ==
  /\ j \in Nat /\ j < format.sectorsPerCluster
  /\ current \in Half /\ current >= 2 /\ (current = e.first \/ current \in Link)
  /\ rem \in Nat /\ rem > 0
  /\ sectors \in Seq(Int) /\ Len(sectors) = k * format.sectorsPerCluster + j
  /\ Len(sectors) * format.bytesPerSector + rem = e.size
  /\ \A x \in Chains(e) : x[k] = current /\ \A n \in 1 .. Len(sectors) : sectors[n] = SectorOf(x, n)
  /\ Enclosed(e) => \E c \in [0 .. k -> Nat] : Followed(e, k, c, current, sectors)

\* What is known of the sector at that a read of sector j of cluster current returned.
ReadAs(e, j, current, at) ==
  /\ at \in Int
  /\ Enclosed(e) \/ Chains(e) # {} => at = SectorAt(current, j)
  /\ Enclosed(e) => at < TotalSectors(format) /\ at < DriveSectors

-----------------------------------------------------------------------------
(***************************************************************************)
(* Arithmetic.                                                             *)
(***************************************************************************)
\* The constants, as numbers.
LEMMA Constants ==
  /\ SectorsPerTrack \in Nat /\ 0 < SectorsPerTrack /\ SectorsPerTrack < 64
  /\ Heads \in Nat /\ 0 < Heads /\ Heads <= 256
  /\ BpbSectorsPerTrack = SectorsPerTrack /\ BpbHeads = Heads
  /\ Cylinders \in Nat /\ 0 < Cylinders /\ Cylinders <= 1024
  /\ Stage2FirstLba \in Nat /\ Stage2FirstLba < DriveSectors
  /\ SectorSize \in Nat /\ SectorSize > 0
  /\ DirEntrySize \in Nat /\ DirEntrySize > 0
  /\ NameLength \in Nat /\ NameLength > 0 /\ ExtLength \in Nat /\ ExtLength > 0
  /\ Fat12Limit = 4085
  /\ WordMod \in Nat /\ WordMod > 0 /\ (WordMod - 1) \div 16777216 < 256
  BY LoaderAssumption, GeometryAssumption

\* The addresses, as numbers.
LEMMA Addresses ==
  /\ Ds \in Nat /\ FatSeg \in Nat /\ TableRoom \in Nat /\ KernelSeg \in Nat /\ MemoryEnd \in Nat
  /\ LoadBase \in Nat /\ LoadBase > 0 /\ LoadBase <= MemoryEnd /\ MemoryEnd <= 1048576
  /\ FatSeg + TableRoom < 65536
  BY LoaderAssumption, MemoryAssumption DEF LoadBase

\* Quotient and remainder.
LEMMA Division ==
  ASSUME NEW a \in Nat, NEW n \in Nat, n > 0
  PROVE  /\ a \div n \in Nat /\ a % n \in Nat /\ a % n < n
         /\ a = (a \div n) * n + (a % n)
<1>1. a \div n \in Int /\ a % n \in Nat /\ a % n < n
  OBVIOUS
<1>2. (a \div n) * n + (a % n) = a
  OBVIOUS
<1>3. a \div n >= 0
  <2> PICK d : d = a \div n
    OBVIOUS
  <2> PICK m : m = a % n
    OBVIOUS
  <2>1. d \in Int /\ m \in Nat /\ m < n /\ a = d * n + m
    BY <1>1, <1>2
  <2>2. d < 0 => d * n + n <= 0 * n
    BY <2>1
  <2> QED BY <2>1, <2>2
<1> QED BY <1>1, <1>2, <1>3

\* Multiples keep the order of what they are multiples of.
LEMMA Products ==
  ASSUME NEW a \in Int, NEW b \in Int, NEW n \in Nat, n > 0
  PROVE  /\ a < b => a * n + n <= b * n
         /\ a <= b => a * n <= b * n
<1>1. ASSUME a < b PROVE a * n + n <= b * n
  <2>1. (b - a - 1) * n >= 0
    BY <1>1
  <2> QED BY <2>1
<1> QED BY <1>1

\* A quotient and a remainder are determined by the number they make up.
LEMMA Quotient ==
  ASSUME NEW n \in Nat, n > 0, NEW q \in Nat, NEW r \in Nat, r < n
  PROVE  (q * n + r) \div n = q /\ (q * n + r) % n = r
<1> DEFINE a == q * n + r
<1>1. a \in Nat /\ a \div n \in Nat /\ a % n \in Nat /\ a % n < n /\ a = (a \div n) * n + (a % n)
  <2>1. a \in Nat
    OBVIOUS
  <2> HIDE DEF a
  <2> QED BY <2>1, Division
<1>2. a = q * n + r
  OBVIOUS
<1> PICK d : d = a \div n
  OBVIOUS
<1> PICK m : m = a % n
  OBVIOUS
<1> HIDE DEF a
<1>3. d \in Nat /\ m \in Nat /\ m < n /\ d * n + m = q * n + r
  BY <1>1, <1>2
<1>4. ~(d < q)
  <2> SUFFICES ASSUME d < q PROVE FALSE
    OBVIOUS
  <2>1. d * n + n <= q * n
    BY <1>3, Products
  <2> QED BY <2>1, <1>3
<1>5. ~(q < d)
  <2> SUFFICES ASSUME q < d PROVE FALSE
    OBVIOUS
  <2>1. q * n + n <= d * n
    BY <1>3, Products
  <2> QED BY <2>1, <1>3
<1>6. d = q
  BY <1>3, <1>4, <1>5
<1> QED BY <1>3, <1>6 DEF a

\* The least element of a set of numbers.
LEMMA Least ==
  ASSUME NEW S \in SUBSET Nat, S # {}
  PROVE  Min(S) \in S /\ \A y \in S : Min(S) <= y
<1>1. PICK x \in S : \A y \in S : ~(<<y, x>> \in OpToRel(<, Nat))
  BY NatLessThanWellFounded, WFMin, ZenonT(30)
<1>2. \A y \in S : x <= y
  <2> SUFFICES ASSUME NEW y \in S PROVE x <= y
    OBVIOUS
  <2>1. <<y, x>> \in Nat \X Nat /\ ~(<<y, x>> \in OpToRel(<, Nat))
    BY <1>1, ZenonT(30)
  <2> QED BY <2>1 DEF OpToRel
<1> QED BY <1>2, ZenonT(30) DEF Min

\* An element that no other is less than is the least.
LEMMA LeastIs ==
  ASSUME NEW S \in SUBSET Nat, NEW x \in S, \A y \in S : x <= y
  PROVE  Min(S) = x
<1>1. Min(S) \in S /\ Min(S) <= x
  BY Least
<1>2. Min(S) \in Nat /\ x \in Nat /\ x <= Min(S)
  BY <1>1, ZenonT(30)
<1> QED BY <1>1, <1>2

-----------------------------------------------------------------------------
(***************************************************************************)
(* INT 13h reads the sector that an lba_to_chs was asked for, as long as   *)
(* the drive has it.                                                       *)
(***************************************************************************)
\* Cylinder, head and sector determine the sector number.
LEMMA Coordinates ==
  ASSUME NEW lba \in Nat, NEW spt \in Nat, NEW heads \in Nat, spt > 0, heads > 0,
         lba < 1024 * heads * spt
  PROVE  /\ (lba \div spt) \div heads \in Nat /\ (lba \div spt) \div heads < 1024
         /\ (lba \div spt) % heads \in 0 .. heads - 1
         /\ lba % spt \in 0 .. spt - 1
         /\ (((lba \div spt) \div heads) * heads + ((lba \div spt) % heads)) * spt + (lba % spt) = lba
<1>1. PICK t : t = lba \div spt
  OBVIOUS
<1>2. PICK s : s = lba % spt
  OBVIOUS
<1>3. t \in Nat /\ s \in Nat /\ s < spt /\ lba = t * spt + s
  BY <1>1, <1>2, Division
<1>4. PICK c : c = t \div heads
  OBVIOUS
<1>5. PICK h : h = t % heads
  OBVIOUS
<1>6. c \in Nat /\ h \in Nat /\ h < heads /\ t = c * heads + h
  BY <1>3, <1>4, <1>5, Division
<1>7. t < 1024 * heads
  <2> SUFFICES ASSUME ~(t < 1024 * heads) PROVE FALSE
    OBVIOUS
  <2>1. 1024 * heads \in Int /\ 1024 * heads <= t
    BY <1>3
  <2>2. (1024 * heads) * spt <= t * spt
    BY <1>3, <2>1, Products
  <2> QED BY <1>3, <2>2
<1>8. c < 1024
  <2> SUFFICES ASSUME 1024 <= c PROVE FALSE
    BY <1>6
  <2>1. 1024 * heads <= c * heads
    BY <1>6, Products
  <2> QED BY <1>6, <1>7, <2>1
<1>9. c \in Nat /\ c < 1024 /\ h \in 0 .. heads - 1 /\ s \in 0 .. spt - 1
  BY <1>3, <1>6, <1>8
<1>10. (c * heads + h) * spt + s = lba
  BY <1>3, <1>6
<1> QED BY <1>1, <1>2, <1>4, <1>5, <1>9, <1>10

\* The fields that share CL, as stage 2 and as stage 1 pack them.
LEMMA Packing ==
  ASSUME NEW c \in Nat, c < 1024, NEW s \in Nat, 0 < s, s < 64, NEW cl,
         \/ cl = (((c \div 4) % 256) \div 64) * 64 + (s % 64)
         \/ cl = ((s % 256) % 64) + (((c \div 256) * 64) % 256)
  PROVE  (c % 256) + 256 * (cl \div 64) = c /\ cl % 64 = s
<1>1. PICK q \in Nat : q < 4 /\ c \div 256 = q /\ (c % 256) + 256 * q = c
  OBVIOUS
<1>2. ((c \div 4) % 256) \div 64 = q
  BY <1>1
<1>3. (q * 64) % 256 = q * 64 /\ s % 64 = s /\ (s % 256) % 64 = s
  BY <1>1
<1>4. (q * 64 + s) \div 64 = q /\ (q * 64 + s) % 64 = s /\ s + q * 64 = q * 64 + s
  OBVIOUS
<1> QED BY <1>1, <1>2, <1>3, <1>4

\* The drive has no more sectors than INT 13h can address.
LEMMA DriveSize ==
  /\ Addressable \in Nat /\ DriveSectors \in Nat /\ DriveSectors <= Addressable
<1>1. PICK t : t = Heads * SectorsPerTrack
  OBVIOUS
<1>2. t \in Nat /\ t > 0
  BY <1>1, Constants
<1>3. Addressable = 1024 * t /\ DriveSectors = Cylinders * t
  BY <1>1, Constants DEF Addressable, DriveSectors
<1>4. Cylinders * t <= 1024 * t
  BY <1>2, Constants, Products
<1> QED BY <1>2, <1>3, <1>4, Constants

\* disk_read_sector of stage 2 reads the sector it is asked for.
LEMMA Int13Reads ==
  ASSUME NEW lba \in Nat, lba < Addressable
  PROVE  Int13(lba) = lba
<1>1. PICK c : c = (lba \div SectorsPerTrack) \div Heads
  OBVIOUS
<1>2. PICK h : h = (lba \div SectorsPerTrack) % Heads
  OBVIOUS
<1>3. PICK m : m = lba % SectorsPerTrack
  OBVIOUS
<1>4. c \in Nat /\ c < 1024 /\ h \in 0 .. Heads - 1 /\ m \in 0 .. SectorsPerTrack - 1
  BY <1>1, <1>2, <1>3, Coordinates, Constants DEF Addressable
<1>5. (c * Heads + h) * SectorsPerTrack + m = lba
  BY <1>1, <1>2, <1>3, Coordinates, Constants DEF Addressable
<1>6. PICK cl : cl = (((c \div 4) % 256) \div 64) * 64 + ((m + 1) % 64)
  OBVIOUS
<1>7. h % 256 = h /\ m + 1 \in Nat /\ 0 < m + 1 /\ m + 1 < 64
  BY <1>4, Constants
<1>8. (c % 256) + 256 * (cl \div 64) = c /\ cl % 64 = m + 1
  BY <1>4, <1>6, <1>7, Packing
<1>9. Int13(lba) = BiosSector(Registers(c % 256, cl, h % 256), SectorsPerTrack, Heads)
  BY <1>1, <1>2, <1>3, <1>6 DEF Int13, stage2_lba_to_chs
<1>10. Int13(lba) = (((c % 256) + 256 * (cl \div 64)) * Heads + (h % 256)) * SectorsPerTrack
                     + (cl % 64) - 1
  BY <1>9 DEF BiosSector, Registers
<1>11. Int13(lba) = (c * Heads + h) * SectorsPerTrack + (m + 1) - 1
  BY <1>7, <1>8, <1>10
<1>12. (c * Heads + h) * SectorsPerTrack \in Int /\ m \in Int
  BY <1>4, Constants
<1> QED BY <1>5, <1>11, <1>12

\* Beyond what INT 13h can address, it is some sector.
LEMMA Int13IsInt ==
  ASSUME NEW lba \in Nat
  PROVE  Int13(lba) \in Int
<1>1. PICK t, m : t = lba \div SectorsPerTrack /\ m = lba % SectorsPerTrack
  OBVIOUS
<1>2. t \in Int /\ m \in Int
  BY <1>1, Constants
<1>3. PICK c, h : c = t \div Heads /\ h = t % Heads
  OBVIOUS
<1>4. c \in Int /\ h \in Int
  BY <1>2, <1>3, Constants
<1>5. PICK cl : cl = (((c \div 4) % 256) \div 64) * 64 + ((m + 1) % 64)
  OBVIOUS
<1>6. Int13(lba) = BiosSector(Registers(c % 256, cl, h % 256), SectorsPerTrack, Heads)
  BY <1>1, <1>3, <1>5 DEF Int13, stage2_lba_to_chs
<1>7. Int13(lba) = (((c % 256) + 256 * (cl \div 64)) * Heads + (h % 256)) * SectorsPerTrack
                    + (cl % 64) - 1
  BY <1>6 DEF BiosSector, Registers
<1>8. PICK y : y = (c % 256) + 256 * (cl \div 64)
  OBVIOUS
<1>9. y \in Int /\ cl % 64 \in Int /\ h % 256 \in Int
  BY <1>2, <1>4, <1>5, <1>8
<1>10. y * Heads + (h % 256) \in Int
  BY <1>9, Constants
<1>11. (y * Heads + (h % 256)) * SectorsPerTrack \in Int
  BY <1>10, Constants
<1> QED BY <1>7, <1>8, <1>9, <1>11

\* Stage 1 reads stage 2 where it begins.
LEMMA Stage1Reads ==
  BiosSector(stage1_lba_to_chs(Stage2FirstLba, BpbSectorsPerTrack, BpbHeads), SectorsPerTrack, Heads)
    = Stage2FirstLba
<1>0. PICK lba \in Nat : lba = Stage2FirstLba /\ lba < Addressable
  BY Constants, DriveSize
<1>1. PICK c : c = (lba \div SectorsPerTrack) \div Heads
  OBVIOUS
<1>2. PICK h : h = (lba \div SectorsPerTrack) % Heads
  OBVIOUS
<1>3. PICK m : m = lba % SectorsPerTrack
  OBVIOUS
<1>4. c \in Nat /\ c < 1024 /\ h \in 0 .. Heads - 1 /\ m \in 0 .. SectorsPerTrack - 1
  BY <1>0, <1>1, <1>2, <1>3, Coordinates, Constants DEF Addressable
<1>5. (c * Heads + h) * SectorsPerTrack + m = lba
  BY <1>0, <1>1, <1>2, <1>3, Coordinates, Constants DEF Addressable
<1>6. PICK cl : cl = (((m + 1) % 256) % 64) + (((c \div 256) * 64) % 256)
  OBVIOUS
<1>7. h % 256 = h /\ m + 1 \in Nat /\ 0 < m + 1 /\ m + 1 < 64
  BY <1>4, Constants
<1>8. (c % 256) + 256 * (cl \div 64) = c /\ cl % 64 = m + 1
  BY <1>4, <1>6, <1>7, Packing
<1>9. PICK r : r = stage1_lba_to_chs(lba, SectorsPerTrack, Heads)
  OBVIOUS
<1>10. r = Registers(c % 256, cl, h % 256)
  BY <1>1, <1>2, <1>3, <1>6, <1>9 DEF stage1_lba_to_chs
<1>11. BiosSector(r, SectorsPerTrack, Heads)
        = (((c % 256) + 256 * (cl \div 64)) * Heads + (h % 256)) * SectorsPerTrack + (cl % 64) - 1
  BY <1>10 DEF BiosSector, Registers
<1>12. BiosSector(r, SectorsPerTrack, Heads) = (c * Heads + h) * SectorsPerTrack + (m + 1) - 1
  BY <1>7, <1>8, <1>11
<1>13. (c * Heads + h) * SectorsPerTrack \in Int /\ m \in Int
  BY <1>4, Constants
<1>14. BiosSector(r, SectorsPerTrack, Heads) = lba
  BY <1>5, <1>12, <1>13
<1> QED BY <1>0, <1>9, <1>14, Constants

-----------------------------------------------------------------------------
(***************************************************************************)
(* What fat_init reads and computes is the format of the disk.             *)
(***************************************************************************)
\* A number is put together again from its bytes, as read_le16 and read_le32 do.
LEMMA Words ==
  /\ \A n \in Half : (n % 256) + ((n \div 256) % 256) * 256 = n
  /\ \A n \in Byte : n % 256 = n
  /\ \A n \in Below(WordMod) :
       (n % 256) + ((n \div 256) % 256) * 256 + ((n \div 65536) % 256) * 65536
         + ((n \div 16777216) % 256) * 16777216 = n
<1>1. \A n \in Half : (n % 256) + ((n \div 256) % 256) * 256 = n
  BY DEF Half, Below
<1>2. \A n \in Byte : n % 256 = n
  BY DEF Byte, Below
<1>3. ASSUME NEW n \in Below(WordMod)
      PROVE  (n % 256) + ((n \div 256) % 256) * 256 + ((n \div 65536) % 256) * 65536
               + ((n \div 16777216) % 256) * 16777216 = n
  <2>1. PICK w : w = WordMod - 1
    OBVIOUS
  <2>2. w \in Nat /\ n \in Nat /\ n <= w /\ w \div 16777216 < 256
    BY <2>1, Constants DEF Below
  <2>3. n \div 16777216 \in Nat /\ n \div 16777216 < 256
    BY <2>2
  <2> QED BY <2>2, <2>3
<1> QED BY <1>1, <1>2, <1>3

\* The fields of a format.
LEMMA FieldTypes ==
  ASSUME NEW f \in Formats
  PROVE  /\ f.bytesPerSector \in Half /\ f.reserved \in Half /\ f.rootEntries \in Half
         /\ f.sectorsPerFat \in Half /\ f.total16 \in Half /\ f.total32 \in Below(WordMod)
         /\ f.sectorsPerCluster \in Byte /\ f.fats \in Byte
  BY DEF Formats

\* fat_init reads the fields as they are on the disk.
LEMMA Fields ==
  ASSUME format \in Formats
  PROVE  /\ g_bytes_per_sector = format.bytesPerSector
         /\ g_sectors_per_cluster = format.sectorsPerCluster
         /\ g_reserved_sectors = format.reserved
         /\ g_num_fats = format.fats
         /\ g_root_entry_count = format.rootEntries
         /\ g_sectors_per_fat = format.sectorsPerFat
         /\ g_total_sectors = TotalSectors(format)
<1>1. \A n \in Nat : n \div 1 = n
  OBVIOUS
<1>2. /\ format.bytesPerSector \in Nat /\ format.reserved \in Nat /\ format.rootEntries \in Nat
      /\ format.sectorsPerFat \in Nat /\ format.total16 \in Nat /\ format.total32 \in Nat
      /\ format.sectorsPerCluster \in Nat /\ format.fats \in Nat
  BY FieldTypes DEF Half, Byte, Below
<1>3. /\ BootSector(11) = format.bytesPerSector % 256
      /\ BootSector(12) = (format.bytesPerSector \div 256) % 256
      /\ BootSector(13) = format.sectorsPerCluster % 256
      /\ BootSector(14) = format.reserved % 256
      /\ BootSector(15) = (format.reserved \div 256) % 256
      /\ BootSector(16) = format.fats % 256
  BY <1>1, <1>2 DEF BootSector
<1>4. /\ BootSector(17) = format.rootEntries % 256
      /\ BootSector(18) = (format.rootEntries \div 256) % 256
      /\ BootSector(19) = format.total16 % 256
      /\ BootSector(20) = (format.total16 \div 256) % 256
      /\ BootSector(22) = format.sectorsPerFat % 256
      /\ BootSector(23) = (format.sectorsPerFat \div 256) % 256
  BY <1>1, <1>2 DEF BootSector
<1>5. /\ BootSector(32) = format.total32 % 256
      /\ BootSector(33) = (format.total32 \div 256) % 256
      /\ BootSector(34) = (format.total32 \div 65536) % 256
      /\ BootSector(35) = (format.total32 \div 16777216) % 256
  BY <1>1, <1>2 DEF BootSector
<1>6. /\ read_le16(11) = format.bytesPerSector /\ read_le16(14) = format.reserved
      /\ read_le16(17) = format.rootEntries /\ read_le16(19) = format.total16
      /\ read_le16(22) = format.sectorsPerFat
  BY <1>3, <1>4, FieldTypes, Words DEF read_le16
<1>7. read_le32(32) = format.total32
  BY <1>5, FieldTypes, Words DEF read_le32
<1>8. BootSector(13) = format.sectorsPerCluster /\ BootSector(16) = format.fats
  BY <1>3, FieldTypes, Words
<1> QED BY <1>6, <1>7, <1>8 DEF g_bytes_per_sector, g_sectors_per_cluster, g_reserved_sectors,
          g_num_fats, g_root_entry_count, g_sectors_per_fat, g_total_sectors, TotalSectors

\* The parts of the disk are where the loader takes them to be.
LEMMA Layout ==
  ASSUME format \in Formats
  PROVE  /\ g_root_dir_sectors = RootSectors(format)
         /\ g_first_root_dir_sector = RootStart(format)
         /\ g_first_data_sector = DataStart(format)
         /\ RootLength(format) = RootSectors(format) * entries
<1>1. format.bytesPerSector \in Nat /\ format.rootEntries \in Nat
  BY FieldTypes DEF Half, Below
<1>2. format.rootEntries * DirEntrySize \in Nat
  BY <1>1, Constants
<1>3. PICK x : x = format.rootEntries * DirEntrySize
  OBVIOUS
<1>4. x + (format.bytesPerSector - 1) = x + format.bytesPerSector - 1
  BY <1>1, <1>2, <1>3
<1>5. g_root_dir_sectors = RootSectors(format)
  BY <1>3, <1>4, Fields DEF g_root_dir_sectors, RootSectors
<1>6. g_first_root_dir_sector = RootStart(format)
  BY Fields DEF g_first_root_dir_sector, RootStart
<1>7. g_first_data_sector = DataStart(format)
  BY <1>5, <1>6 DEF g_first_data_sector, DataStart
<1>8. RootLength(format) = RootSectors(format) * entries
  BY Fields DEF RootLength, entries
<1> QED BY <1>5, <1>6, <1>7, <1>8

\* The numbers of a format whose sectors have a size.
LEMMA FormatNumbers ==
  ASSUME DiskInv, format.bytesPerSector # 0
  PROVE  /\ format.bytesPerSector \in Nat /\ format.bytesPerSector > 0
         /\ format.sectorsPerCluster \in Nat /\ format.sectorsPerCluster < 256
         /\ format.reserved \in Nat /\ format.fats \in Nat /\ format.sectorsPerFat \in Nat
         /\ TotalSectors(format) \in Nat /\ TotalSectors(format) < WordMod
         /\ RootSectors(format) \in Nat /\ RootStart(format) \in Nat /\ DataStart(format) \in Nat
         /\ DataStart(format) = RootStart(format) + RootSectors(format)
         /\ format.fats # 0 => format.reserved + format.sectorsPerFat <= RootStart(format)
         /\ DataStart(format) + 1045760 < WordMod
         /\ entries \in Nat
<1>1. /\ format.bytesPerSector \in Nat /\ format.bytesPerSector > 0
      /\ format.sectorsPerCluster \in Nat /\ format.sectorsPerCluster < 256
      /\ format.reserved \in Nat /\ format.fats \in Nat /\ format.sectorsPerFat \in Nat
      /\ format.rootEntries \in Nat /\ format.total16 \in Nat /\ format.total16 < 65536
      /\ format.total32 \in Nat /\ format.total32 < WordMod
  BY FieldTypes DEF DiskInv, Half, Byte, Below
<1>2. PICK x : x = format.rootEntries * DirEntrySize + format.bytesPerSector - 1
  OBVIOUS
<1>3. x \in Nat
  BY <1>1, <1>2, Constants
<1>4. RootSectors(format) \in Nat
  BY <1>1, <1>2, <1>3, Division DEF RootSectors
<1>5. PICK y : y = format.fats * format.sectorsPerFat
  OBVIOUS
<1>6. y \in Nat
  BY <1>1, <1>5
<1>7. RootStart(format) \in Nat /\ RootStart(format) = format.reserved + y
  BY <1>1, <1>5, <1>6 DEF RootStart
<1>8. ASSUME format.fats # 0 PROVE format.sectorsPerFat <= y
  <2>1. (format.fats - 1) * format.sectorsPerFat >= 0
    BY <1>1, <1>8
  <2> QED BY <1>1, <1>5, <2>1
<1>9. DataStart(format) \in Nat /\ DataStart(format) = RootStart(format) + RootSectors(format)
  BY <1>4, <1>7 DEF DataStart
<1>10. DataStart(format) + 1045760 < WordMod
  BY <1>9, Constants DEF DiskInv
<1>11. TotalSectors(format) \in Nat /\ TotalSectors(format) < WordMod
  BY <1>1, <1>9, <1>10, Constants DEF TotalSectors
<1>12. format.fats # 0 => format.reserved + format.sectorsPerFat <= RootStart(format)
  BY <1>1, <1>6, <1>7, <1>8
<1>13. entries \in Nat
  <2>1. entries = format.bytesPerSector \div DirEntrySize
    BY Fields DEF entries, DiskInv
  <2>2. DirEntrySize \in Nat /\ DirEntrySize > 0
    BY Constants
  <2> QED BY <1>1, <2>1, <2>2, Division
<1> QED BY <1>1, <1>4, <1>7, <1>9, <1>10, <1>11, <1>12, <1>13

\* A format that fat_init accepts: the clusters and the sectors there are for them.
LEMMA ValidNumbers ==
  ASSUME DiskInv, ValidFormat(format)
  PROVE  /\ format.bytesPerSector # 0 /\ format.sectorsPerCluster > 0 /\ format.fats # 0
         /\ format.sectorsPerFat > 0
         /\ DataStart(format) <= TotalSectors(format)
         /\ Clusters(format) \in Nat /\ Clusters(format) < 4085
         /\ \E r \in Nat :
              /\ r < format.sectorsPerCluster
              /\ TotalSectors(format) - DataStart(format)
                   = Clusters(format) * format.sectorsPerCluster + r
<1>1. /\ format.bytesPerSector # 0 /\ format.sectorsPerCluster # 0 /\ format.fats # 0
      /\ format.sectorsPerFat # 0
      /\ DataStart(format) <= TotalSectors(format) /\ Clusters(format) < 4085
  BY Constants DEF ValidFormat
<1>2. PICK x : x = TotalSectors(format) - DataStart(format)
  OBVIOUS
<1>3. x \in Nat /\ format.sectorsPerCluster \in Nat /\ format.sectorsPerCluster > 0
      /\ format.sectorsPerFat > 0
  BY <1>1, <1>2, FormatNumbers
<1>4. Clusters(format) = x \div format.sectorsPerCluster
  BY <1>2 DEF Clusters
<1>5. PICK r : r = x % format.sectorsPerCluster
  OBVIOUS
<1>6. /\ Clusters(format) \in Nat /\ r \in Nat /\ r < format.sectorsPerCluster
      /\ x = Clusters(format) * format.sectorsPerCluster + r
  BY <1>3, <1>4, <1>5, Division
<1> QED BY <1>1, <1>2, <1>3, <1>6

\* Clusters have sectors, sectors have bytes, and a table has sectors.
LEMMA ClusterSize ==
  ASSUME DiskInv, ValidFormat(format)
  PROVE  /\ format.sectorsPerCluster \in Nat /\ format.sectorsPerCluster > 0
         /\ format.bytesPerSector \in Nat /\ format.bytesPerSector > 0
         /\ format.sectorsPerFat \in Nat /\ format.sectorsPerFat > 0
  BY FormatNumbers, ValidNumbers

\* fat_init accepts the FAT12 formats and no others; where the directory ends beyond
\* the disk the subtraction wraps, and gives too many clusters.
LEMMA RejectsOthers ==
  ASSUME DiskInv
  PROVE  fat_init_rejects <=> ~ValidFormat(format)
<1>1. format \in Formats /\ Fat12Limit = 4085
  BY Constants DEF DiskInv
<1> DEFINE zero == 0 \in {format.bytesPerSector, format.sectorsPerCluster, format.reserved,
                          format.fats, format.sectorsPerFat, TotalSectors(format)}
<1>2. fat_init_rejects <=> zero \/ g_cluster_count >= 4085
  BY <1>1, Fields DEF fat_init_rejects
<1>3. ValidFormat(format) <=> ~zero /\ DataStart(format) <= TotalSectors(format) /\ Clusters(format) < 4085
  BY <1>1 DEF ValidFormat
<1>4. CASE zero
  BY <1>2, <1>3, <1>4
<1>5. CASE ~zero
  <2>1. format.bytesPerSector # 0 /\ format.sectorsPerCluster # 0
    BY <1>5
  <2> HIDE DEF zero
  <2>2. PICK s, t, d : s = format.sectorsPerCluster /\ t = TotalSectors(format) /\ d = DataStart(format)
    OBVIOUS
  <2>3. s \in Nat /\ 0 < s /\ s < 256 /\ t \in Nat /\ d \in Nat /\ t < WordMod /\ d + 1045760 < WordMod
    BY <2>1, <2>2, FormatNumbers
  <2>4. g_cluster_count = ((t - d) % WordMod) \div s
    BY <1>1, <2>2, Fields, Layout DEF g_cluster_count
  <2>5. CASE d <= t
    <3>1. (t - d) % WordMod = t - d
      BY <2>3, <2>5, Constants
    <3>2. g_cluster_count = Clusters(format)
      BY <2>2, <2>4, <3>1 DEF Clusters
    <3>3. t - d \in Nat
      BY <2>3, <2>5
    <3>4. g_cluster_count \in Nat
      BY <2>3, <2>4, <3>1, <3>3, Division
    <3> QED BY <1>2, <1>3, <1>5, <2>2, <2>5, <3>2, <3>4
  <2>6. CASE ~(d <= t)
    <3>1. PICK m : m = (t - d) % WordMod
      OBVIOUS
    <3>2. m = WordMod + (t - d)
      BY <2>3, <2>6, <3>1, Constants
    <3>3. m \in Nat /\ m > 1045760
      BY <2>3, <3>2, Constants
    <3>4. PICK q : q = m \div s
      OBVIOUS
    <3>5. q \in Nat /\ m < q * s + s
      BY <2>3, <3>3, <3>4, Division
    <3>6. q >= 4085
      <4> SUFFICES ASSUME q < 4085 PROVE FALSE
        BY <3>5
      <4>1. q * s + s <= 4085 * s
        BY <2>3, <3>5, Products
      <4> QED BY <2>3, <3>3, <3>5, <4>1
    <3> QED BY <1>2, <1>3, <2>2, <2>4, <2>6, <3>1, <3>4, <3>6
  <2> QED BY <2>5, <2>6
<1> QED BY <1>4, <1>5

-----------------------------------------------------------------------------
(***************************************************************************)
(* fat12_next_cluster takes a cluster's own 12 bits out of the three bytes *)
(* that it shares with its neighbour.                                      *)
(***************************************************************************)
\* Two 12-bit values in three bytes, and each of them taken out again.
LEMMA Bytes ==
  ASSUME NEW low \in Link, NEW high \in Link
  PROVE  /\ ((low % 256) + 256 * (((low \div 256) + 16 * (high % 16)) % 16)) % 4096 = low
         /\ ((((low \div 256) + 16 * (high % 16)) \div 16) + 16 * (high \div 16)) % 4096 = high
<1> USE DEF Link, Below
<1>1. PICK a : a = low \div 256
  OBVIOUS
<1>2. a \in 0 .. 15 /\ low = 256 * a + (low % 256)
  BY <1>1
<1>3. PICK h \in 0 .. 15 : h = high % 16
  OBVIOUS
<1>4. (a + 16 * h) % 16 = a /\ (a + 16 * h) \div 16 = h
  BY <1>2, <1>3
<1> QED BY <1>1, <1>2, <1>3, <1>4

\* The length of the table.
LEMMA TableLength ==
  ASSUME DiskInv, ValidFormat(format)
  PROVE  /\ TableBytes(format) \in Nat
         /\ g_sectors_per_fat * g_bytes_per_sector = TableBytes(format)
<1>1. format \in Formats
  BY DEF DiskInv
<1> QED BY <1>1, ClusterSize, Fields DEF TableBytes

\* The entries that the bytes of the table belong to.
LEMMA EntriesOfByte ==
  ASSUME NEW t \in Nat, NEW b \in Nat, b < t
  PROVE  /\ 2 * (b \div 3) \in 0 .. (2 * t - 1) \div 3
         /\ b % 3 # 0 => 2 * (b \div 3) + 1 \in 0 .. (2 * t - 1) \div 3
<1>1. PICK q, r : q = b \div 3 /\ r = b % 3
  OBVIOUS
<1>2. q \in Nat /\ r \in 0 .. 2 /\ b = 3 * q + r
  BY <1>1
<1> QED BY <1>1, <1>2

\* A byte of the table is a number.
LEMMA BytesOfTable ==
  ASSUME DiskInv, ValidFormat(format), NEW b \in Nat, b < TableBytes(format)
  PROVE  FatByte(b) \in Int
<1>1. PICK t : t = TableBytes(format)
  OBVIOUS
<1>2. t \in Nat /\ b < t
  BY <1>1, TableLength
<1>3. fat \in [0 .. (2 * t - 1) \div 3 -> Link]
  BY <1>1 DEF DiskInv
<1>4. PICK low, high : low = fat[2 * (b \div 3)] /\ high = fat[2 * (b \div 3) + 1]
  OBVIOUS
<1>5. low \in Int
  <2>1. 2 * (b \div 3) \in 0 .. (2 * t - 1) \div 3
    BY <1>2, EntriesOfByte
  <2>2. low \in Link
    BY <1>3, <1>4, <2>1, ZenonT(30)
  <2> QED BY <2>2 DEF Link, Below
<1>6. ASSUME b % 3 # 0 PROVE high \in Int
  <2>1. 2 * (b \div 3) + 1 \in 0 .. (2 * t - 1) \div 3
    BY <1>2, <1>6, EntriesOfByte
  <2>2. high \in Link
    BY <1>3, <1>4, <2>1, ZenonT(30)
  <2> QED BY <2>2 DEF Link, Below
<1>7. CASE b % 3 = 0
  <2>1. FatByte(b) = low % 256
    BY <1>4, <1>7 DEF FatByte
  <2> QED BY <1>5, <2>1
<1>8. CASE b % 3 = 1
  <2>1. FatByte(b) = (low \div 256) + 16 * (high % 16)
    BY <1>4, <1>8 DEF FatByte
  <2> QED BY <1>5, <1>6, <1>8, <2>1
<1>9. CASE b % 3 = 2
  <2>1. FatByte(b) = high \div 16
    BY <1>4, <1>9 DEF FatByte
  <2> QED BY <1>6, <1>9, <2>1
<1>10. b % 3 \in {0, 1, 2}
  OBVIOUS
<1> QED BY <1>7, <1>8, <1>9, <1>10

\* What fat12_next_cluster returns has 12 bits, for every cluster number.
LEMMA LookupLink ==
  ASSUME DiskInv, ValidFormat(format), NEW c \in Nat
  PROVE  Lookup(c) \subseteq Link
<1>1. Garbage \subseteq Link
  BY DiskAssumption
<1>2. ASSUME FatOffset(c) + 1 < TableBytes(format) PROVE fat12_next_cluster(c) \in Link
  <2>1. PICK b : b = FatOffset(c)
    OBVIOUS
  <2>2. b \in Nat
    BY <2>1 DEF FatOffset, uint16
  <2>3. TableBytes(format) \in Nat
    BY TableLength
  <2>4. b + 1 \in Nat /\ b < TableBytes(format) /\ b + 1 < TableBytes(format)
    BY <1>2, <2>1, <2>2, <2>3
  <2>5. PICK u, v : u = FatByte(b) /\ v = FatByte(b + 1)
    OBVIOUS
  <2>6. u \in Int /\ v \in Int
    BY <2>2, <2>4, <2>5, BytesOfTable
  <2>7. fat12_next_cluster(c) = IF c % 2 = 1 THEN ((u \div 16) + 16 * v) % 4096
                                ELSE (u + 256 * (v % 16)) % 4096
    BY <2>1, <2>5 DEF fat12_next_cluster
  <2>8. ((u \div 16) + 16 * v) % 4096 \in Link /\ (u + 256 * (v % 16)) % 4096 \in Link
    BY <2>6 DEF Link, Below
  <2> QED BY <2>7, <2>8
<1>3. Lookup(c) = IF FatOffset(c) + 1 < TableBytes(format) THEN {fat12_next_cluster(c)} ELSE Garbage
  BY TableLength DEF Lookup
<1> QED BY <1>1, <1>2, <1>3

\* fat12_next_cluster returns the value of a cluster that has one in the table.
LEMMA NextCluster ==
  ASSUME DiskInv, ValidFormat(format), NEW c \in Nat, c < 4096, InTable(c)
  PROVE  Lookup(c) = {fat[c]} /\ fat[c] \in Link
<1>1. PICK t : t = TableBytes(format)
  OBVIOUS
<1>2. t \in Nat /\ c + (c \div 2) + 1 < t
  BY <1>1, TableLength DEF InTable
<1>3. fat \in [0 .. (2 * t - 1) \div 3 -> Link]
  BY <1>1 DEF DiskInv
<1>4. FatOffset(c) = c + (c \div 2)
  BY DEF FatOffset, uint16
<1>5. Lookup(c) = {fat12_next_cluster(c)}
  BY <1>1, <1>2, <1>4, TableLength DEF Lookup
<1>0. PICK h : h = c \div 2
  OBVIOUS
<1>6. h \in Nat /\ (c = 2 * h \/ c = 2 * h + 1)
  BY <1>0
<1>7. 2 * h \in 0 .. (2 * t - 1) \div 3 /\ 2 * h + 1 \in 0 .. (2 * t - 1) \div 3
  BY <1>2, <1>6
<1>8. PICK low, high : low = fat[2 * h] /\ high = fat[2 * h + 1]
  OBVIOUS
<1>9. low \in Link /\ high \in Link
  <2>1. PICK numbers : numbers = 0 .. (2 * t - 1) \div 3
    OBVIOUS
  <2>2. fat \in [numbers -> Link] /\ 2 * h \in numbers /\ 2 * h + 1 \in numbers
    BY <1>3, <1>7, <2>1
  <2> QED BY <1>8, <2>2
<1>10. /\ FatByte(3 * h) = low % 256
       /\ FatByte(3 * h + 1) = (low \div 256) + 16 * (high % 16)
       /\ FatByte(3 * h + 2) = high \div 16
  <2>1. /\ (3 * h) \div 3 = h /\ (3 * h) % 3 = 0
        /\ (3 * h + 1) \div 3 = h /\ (3 * h + 1) % 3 = 1
        /\ (3 * h + 2) \div 3 = h /\ (3 * h + 2) % 3 = 2
    BY <1>6
  <2> QED BY <1>8, <2>1 DEF FatByte
<1>11. CASE c = 2 * h
  <2>1. c % 2 = 0 /\ c + (c \div 2) = 3 * h
    BY <1>6, <1>11
  <2>2. fat12_next_cluster(c) = (FatByte(3 * h) + 256 * (FatByte(3 * h + 1) % 16)) % 4096
    BY <1>4, <2>1 DEF fat12_next_cluster
  <2>3. low = fat[c]
    BY <1>8, <1>11
  <2> QED BY <1>5, <1>9, <1>10, <2>2, <2>3, Bytes
<1>12. CASE c = 2 * h + 1
  <2>1. c % 2 = 1 /\ c + (c \div 2) = 3 * h + 1 /\ (3 * h + 1) + 1 = 3 * h + 2
    BY <1>6, <1>12
  <2>2. fat12_next_cluster(c) = ((FatByte(3 * h + 1) \div 16) + 16 * FatByte(3 * h + 2)) % 4096
    BY <1>4, <2>1 DEF fat12_next_cluster
  <2>3. high = fat[c]
    BY <1>8, <1>12
  <2> QED BY <1>5, <1>9, <1>10, <2>2, <2>3, Bytes
<1> QED BY <1>6, <1>11, <1>12

-----------------------------------------------------------------------------
(***************************************************************************)
(* fat_find_file compares names as the directory spells them.              *)
(***************************************************************************)
Name83s == [1 .. NameLength + ExtLength -> Nat]

\* memcmp returns 0 exactly if the first n characters are the same.
LEMMA Memcmp ==
  ASSUME NEW a, NEW b, NEW n
  PROVE  memcmp(a, b, n) = 0 <=> \A k \in 1 .. n : a[k] = b[k]
<1> DEFINE differ == {k \in 1 .. n : a[k] # b[k]}
<1>1. memcmp(a, b, n) = IF differ = {} THEN 0 ELSE IF a[Min(differ)] > b[Min(differ)] THEN 1 ELSE -1
  BY DEF memcmp
<1>2. differ = {} <=> \A k \in 1 .. n : a[k] = b[k]
  OBVIOUS
<1> HIDE DEF differ
<1> QED BY <1>1, <1>2

\* A function on 1 .. m is a sequence.
LEMMA SequenceOfLength ==
  ASSUME NEW m \in Nat, NEW s \in [1 .. m -> Nat]
  PROVE  s \in Seq(Nat) /\ Len(s) = m /\ DOMAIN s = 1 .. m
  OBVIOUS

\* A concatenation is a sequence, as long as both together.
LEMMA Joined ==
  ASSUME NEW a \in Seq(Nat), NEW b \in Seq(Nat)
  PROVE  a \o b \in Seq(Nat) /\ Len(a \o b) = Len(a) + Len(b)
  OBVIOUS

\* An 8.3 name, compared as a whole and in its two parts.
LEMMA Concatenated ==
  ASSUME NEW a \in [1 .. NameLength -> Nat], NEW b \in [1 .. ExtLength -> Nat], NEW n \in Name83s
  PROVE  a \o b = n <=> /\ \A k \in 1 .. NameLength : a[k] = n[k]
                        /\ \A k \in 1 .. ExtLength : b[k] = n[NameLength + k]
<1>1. NameLength \in Nat /\ ExtLength \in Nat
  BY Constants
<1>2. a \in Seq(Nat) /\ b \in Seq(Nat) /\ Len(a) = NameLength /\ Len(b) = ExtLength
  BY <1>1
<1>3. n \in Seq(Nat) /\ Len(n) = NameLength + ExtLength /\ DOMAIN n = 1 .. NameLength + ExtLength
  <2>1. NameLength + ExtLength \in Nat /\ n \in [1 .. NameLength + ExtLength -> Nat]
    BY <1>1 DEF Name83s
  <2> QED BY <2>1, SequenceOfLength
<1>4. PICK c : c = a \o b
  BY ZenonT(30)
<1>5. /\ c \in Seq(Nat) /\ Len(c) = NameLength + ExtLength
      /\ \A k \in 1 .. NameLength + ExtLength :
           c[k] = IF k <= NameLength THEN a[k] ELSE b[k - NameLength]
  <2>1. c \in Seq(Nat) /\ Len(c) = Len(a) + Len(b)
    BY <1>2, <1>4, Joined, ZenonT(30)
  <2>2. \A k \in 1 .. Len(a) + Len(b) : c[k] = IF k <= Len(a) THEN a[k] ELSE b[k - Len(a)]
    BY <1>2, <1>4
  <2> QED BY <1>2, <2>1, <2>2
<1>6. ASSUME c = n
      PROVE  /\ \A k \in 1 .. NameLength : a[k] = n[k]
             /\ \A k \in 1 .. ExtLength : b[k] = n[NameLength + k]
  <2>1. ASSUME NEW k \in 1 .. NameLength PROVE a[k] = n[k]
    BY <1>1, <1>5, <1>6
  <2>2. ASSUME NEW k \in 1 .. ExtLength PROVE b[k] = n[NameLength + k]
    <3>1. NameLength + k \in 1 .. NameLength + ExtLength /\ (NameLength + k) - NameLength = k
          /\ ~(NameLength + k <= NameLength)
      BY <1>1
    <3> QED BY <1>5, <1>6, <3>1
  <2> QED BY <2>1, <2>2
<1>7. ASSUME \A k \in 1 .. NameLength : a[k] = n[k],
             \A k \in 1 .. ExtLength : b[k] = n[NameLength + k]
      PROVE  c = n
  <2>1. ASSUME NEW k \in 1 .. NameLength + ExtLength PROVE c[k] = n[k]
    <3>1. CASE k <= NameLength
      BY <1>1, <1>5, <1>7, <3>1
    <3>2. CASE ~(k <= NameLength)
      <4>1. k - NameLength \in 1 .. ExtLength /\ NameLength + (k - NameLength) = k
        BY <1>1, <3>2
      <4> QED BY <1>5, <1>7, <3>2, <4>1
    <3> QED BY <3>1, <3>2
  <2> QED BY <1>3, <1>5, <2>1
<1> QED BY <1>4, <1>6, <1>7

\* fat_find_file takes an entry exactly if it is a file of that 8.3 name.
LEMMA MatchesName ==
  ASSUME NEW e \in Entry, name83 \in Name83s
  PROVE  Matches(e) <=> e.kind = "file" /\ e.name \o e.ext = name83
<1>1. NameLength \in Nat /\ ExtLength \in Nat /\ ExtLength > 0
  BY Constants
<1>2. e.name \in [1 .. NameLength -> Nat] /\ e.ext \in [1 .. ExtLength -> Nat]
  BY DEF Entry
<1>3. name83 \in Seq(Nat) /\ Len(name83) = NameLength + ExtLength
  <2>1. NameLength + ExtLength \in Nat /\ name83 \in [1 .. NameLength + ExtLength -> Nat]
    BY <1>1 DEF Name83s
  <2> QED BY <2>1, SequenceOfLength
<1>4. PICK t : t = SubSeq(name83, NameLength + 1, Len(name83))
  BY ZenonT(30)
<1>5. \A k \in 1 .. ExtLength : t[k] = name83[NameLength + k]
  <2>1. \A k \in 1 .. Len(name83) - NameLength : t[k] = name83[NameLength + k]
    <3>1. PICK s, n, m : s = name83 /\ n = NameLength /\ m = Len(name83)
      BY ZenonT(30)
    <3>2. s \in Seq(Nat) /\ n \in Nat /\ m \in Nat /\ t = SubSeq(s, n + 1, m)
      BY <1>1, <1>3, <1>4, <3>1
    <3>3. \A k \in 1 .. m - n : SubSeq(s, n + 1, m)[k] = s[n + k]
      BY <3>2
    <3> QED BY <3>1, <3>2, <3>3, ZenonT(30)
  <2>2. \A k \in 1 .. ExtLength : k \in 1 .. Len(name83) - NameLength
    BY <1>1, <1>3
  <2> QED BY <2>1, <2>2
<1>6. Matches(e) <=> /\ e.kind = "file"
                     /\ \A k \in 1 .. NameLength : e.name[k] = name83[k]
                     /\ \A k \in 1 .. ExtLength : e.ext[k] = t[k]
  <2>1. memcmp(e.name, name83, NameLength) = 0 <=> \A k \in 1 .. NameLength : e.name[k] = name83[k]
    BY Memcmp
  <2>2. memcmp(e.ext, t, ExtLength) = 0 <=> \A k \in 1 .. ExtLength : e.ext[k] = t[k]
    BY Memcmp
  <2>3. Matches(e) <=> /\ e.kind = "file" /\ memcmp(e.name, name83, NameLength) = 0
                       /\ memcmp(e.ext, t, ExtLength) = 0
    BY <1>4, ZenonT(30) DEF Matches
  <2> QED BY <2>1, <2>2, <2>3
<1>7. e.name \o e.ext = name83 <=> /\ \A k \in 1 .. NameLength : e.name[k] = name83[k]
                                   /\ \A k \in 1 .. ExtLength : e.ext[k] = name83[NameLength + k]
  BY <1>2, Concatenated, ZenonT(30)
<1> QED BY <1>5, <1>6, <1>7, ZenonT(30)

\* The two names are names, and not the same.
LEMMA KernelNames == KERNEL \in Name83s /\ KERNEL_BIN \in Name83s /\ KERNEL # KERNEL_BIN
<1>1. NameLength \in Nat /\ ExtLength \in Nat /\ NameLength > 0 /\ ExtLength > 0
  BY Constants
<1>2. KERNEL \in Name83s /\ KERNEL_BIN \in Name83s
  BY <1>1 DEF KERNEL, KERNEL_BIN, Name83s
<1>3. NameLength + 1 \in 1 .. NameLength + ExtLength /\ NameLength + 1 # 1 /\ NameLength + 1 > NameLength
  BY <1>1
<1>4. KERNEL[NameLength + 1] = 0 /\ KERNEL_BIN[NameLength + 1] = 2
  BY <1>1, <1>3 DEF KERNEL, KERNEL_BIN
<1> QED BY <1>2, <1>4

-----------------------------------------------------------------------------
(***************************************************************************)
(* Steps that leave the disk, or everything the invariant is about, alone. *)
(***************************************************************************)
\* What is on the disk depends on nothing else.
LEMMA SameDisk ==
  ASSUME UNCHANGED <<format, root, fat>>
  PROVE  /\ DiskInv => DiskInv'
         /\ ValidFormat(format)' <=> ValidFormat(format)
         /\ RootSectors(format)' = RootSectors(format)
         /\ entries' = entries
         /\ \A n : Files(n)' = Files(n)
         /\ \A e : Chains(e)' = Chains(e)
         /\ \A e : Intact(e)' <=> Intact(e)
         /\ \A e, c : Contents(e, c)' = Contents(e, c)
         /\ \A e : (Enclosed(e)' <=> Enclosed(e)) /\ (Fits(e)' <=> Fits(e))
<1>1. DiskInv => DiskInv'
  BY DEF DiskInv
<1>2. ValidFormat(format)' <=> ValidFormat(format)
  OBVIOUS
<1>3. RootSectors(format)' = RootSectors(format)
  OBVIOUS
<1>4. entries' = entries
  BY DEF entries, g_bytes_per_sector, read_le16, BootSector
<1>5. \A n : Files(n)' = Files(n)
  BY DEF Files
<1>6. \A e, c : Contents(e, c)' = Contents(e, c)
  BY DEF Contents, SectorsOf
<1>7. \A e : Chains(e)' = Chains(e)
  BY <1>6 DEF Chains, SectorsOf, ClustersOf, InTable
<1>8. \A e : Intact(e)' <=> Intact(e)
  BY <1>7 DEF Intact
<1>9. \A e : (Enclosed(e)' <=> Enclosed(e)) /\ (Fits(e)' <=> Fits(e))
  BY DEF Enclosed, Fits, SectorsOf
<1> QED BY <1>1, <1>2, <1>3, <1>4, <1>5, <1>6, <1>7, <1>8, <1>9, ZenonT(30)

-----------------------------------------------------------------------------
(***************************************************************************)
(* Which reads can only fail for good: the drive has the boot sector, the  *)
(* directory and the table; only a cluster may not be there.               *)
(***************************************************************************)
\* The boot sector is on the drive.
LEMMA BootSectorOnDrive == Int13(0) < DriveSectors
<1>1. 0 < DriveSectors /\ 0 < Addressable
  BY Constants, DriveSize
<1>2. Int13(0) = 0
  BY <1>1, Int13Reads
<1> QED BY <1>1, <1>2

\* The sectors of the directory and of the table are on the drive.
LEMMA SystemAreaOnDrive ==
  ASSUME DiskInv, ValidFormat(format), i \in Nat,
         \/ pc \in {"search", "dump"} /\ i < RootSectors(format)
         \/ pc = "table" /\ i < format.sectorsPerFat
  PROVE  OnDrive
<1>1. format \in Formats /\ format.bytesPerSector # 0 /\ format.fats # 0
  BY ValidNumbers DEF DiskInv
<1>2. PICK lba : lba = Lba
  OBVIOUS
<1>3. \/ lba = RootStart(format) + i /\ i < RootSectors(format)
      \/ lba = format.reserved + i /\ i < format.sectorsPerFat
  <2>1. CASE pc \in {"search", "dump"} /\ i < RootSectors(format)
    <3>1. Lba = g_first_root_dir_sector + i
      BY <2>1 DEF Lba
    <3>2. g_first_root_dir_sector = RootStart(format)
      BY <1>1, Layout
    <3> QED BY <1>2, <2>1, <3>1, <3>2
  <2>2. CASE pc = "table" /\ i < format.sectorsPerFat
    BY <1>1, <1>2, <2>2, Fields DEF Lba
  <2> QED BY <2>1, <2>2
<1>4. lba \in Nat /\ lba < DataStart(format) /\ DataStart(format) \in Nat
  BY <1>1, <1>3, FormatNumbers
<1>5. DataStart(format) <= DriveSectors
  BY DEF DiskInv
<1>6. lba < DriveSectors /\ lba < Addressable
  BY <1>4, <1>5, DriveSize
<1>7. Int13(lba) = lba
  BY <1>4, <1>6, Int13Reads
<1> QED BY <1>2, <1>6, <1>7 DEF OnDrive

-----------------------------------------------------------------------------
(***************************************************************************)
(* The search, an entry after the other although it reads sectors.         *)
(***************************************************************************)
\* The entries of sector i of the directory, and of the directory as a whole.
LEMMA SectorRange ==
  ASSUME DiskInv, ValidFormat(format), i \in Nat, i < RootSectors(format)
  PROVE  /\ i * entries \in Nat /\ (i + 1) * entries \in Nat
         /\ (i + 1) * entries <= RootLength(format)
         /\ RootLength(format) \in Nat
         /\ i + 1 >= RootSectors(format) => (i + 1) * entries = RootLength(format)
         /\ SectorEntries = i * entries + 1 .. (i + 1) * entries
<1>1. format \in Formats /\ format.bytesPerSector # 0
  BY ValidNumbers DEF DiskInv
<1>2. entries \in Nat /\ RootSectors(format) \in Nat
  BY <1>1, FormatNumbers
<1>3. PICK n, s : n = entries /\ s = RootSectors(format)
  OBVIOUS
<1>4. RootLength(format) = s * n
  BY <1>1, <1>3, Layout
<1>5. /\ i * n \in Nat /\ (i + 1) * n \in Nat /\ (i + 1) * n = i * n + n /\ s * n \in Nat
  BY <1>2, <1>3
<1>6. (i + 1) * n <= s * n
  <2>1. CASE n = 0
    BY <1>2, <1>3, <2>1
  <2>2. CASE n > 0
    BY <1>2, <1>3, <2>2, Products
  <2> QED BY <1>2, <1>3, <2>1, <2>2
<1>7. i + 1 >= s => i + 1 = s
  BY <1>2, <1>3
<1>8. SectorEntries = i * n + 1 .. i * n + n
  <2>1. SectorEntries = {i * n + j : j \in 1 .. n}
    BY <1>3 DEF SectorEntries
  <2>2. PICK x : x = i * n
    OBVIOUS
  <2>3. ASSUME NEW k \in x + 1 .. x + n PROVE \E j \in 1 .. n : k = x + j
    <3>1. k - x \in 1 .. n /\ k = x + (k - x)
      BY <1>2, <1>3, <1>5, <2>2
    <3> QED BY <3>1
  <2>4. ASSUME NEW j \in 1 .. n PROVE x + j \in x + 1 .. x + n
    BY <1>2, <1>3, <1>5, <2>2
  <2> QED BY <2>1, <2>2, <2>3, <2>4
<1> QED BY <1>3, <1>4, <1>5, <1>6, <1>7, <1>8

\* An entry decides the search if it ends the directory or is the file.
LEMMA WhatDecides ==
  ASSUME DiskInv, ValidFormat(format), i \in Nat, i < RootSectors(format), name83 \in Name83s,
         NEW k \in SectorEntries
  PROVE  /\ k \in 1 .. RootLength(format) /\ root[k] \in Entry
         /\ k \in Deciding <=> root[k].kind = "end" \/ IsFile(k, name83)
<1>1. k \in 1 .. RootLength(format)
  BY SectorRange
<1>2. root[k] \in Entry
  BY <1>1 DEF DiskInv
<1>3. Matches(root[k]) <=> IsFile(k, name83)
  BY <1>2, MatchesName, ZenonT(30) DEF IsFile
<1> QED BY <1>1, <1>2, <1>3 DEF Deciding

\* A sector without an entry that decides is passed.
LEMMA PassedSector ==
  ASSUME DiskInv, ValidFormat(format), i \in Nat, i < RootSectors(format), name83 \in Name83s,
         Passed(i * entries), Deciding = {}
  PROVE  Passed((i + 1) * entries)
<1> SUFFICES ASSUME NEW k \in 1 .. (i + 1) * entries
             PROVE  root[k].kind # "end" /\ ~IsFile(k, name83)
  BY DEF Passed
<1>1. i * entries \in Nat /\ (i + 1) * entries \in Nat
      /\ SectorEntries = i * entries + 1 .. (i + 1) * entries
  BY SectorRange
<1>2. CASE k <= i * entries
  <2>1. k \in 1 .. i * entries
    BY <1>1, <1>2
  <2> QED BY <2>1 DEF Passed
<1>3. CASE ~(k <= i * entries)
  <2>1. k \in SectorEntries
    BY <1>1, <1>3
  <2> QED BY <2>1, WhatDecides
<1> QED BY <1>2, <1>3

\* Nothing is found in a directory that is passed, or passed up to its end.
LEMMA NoFile ==
  ASSUME NEW n \in Nat, Passed(n), RootLength(format) \in Nat,
         n >= RootLength(format) \/ root[n + 1].kind = "end"
  PROVE  Files(name83) = {}
<1> SUFFICES ASSUME NEW k \in Files(name83) PROVE FALSE
  OBVIOUS
<1>1. /\ k \in 1 .. RootLength(format) /\ IsFile(k, name83)
      /\ \A l \in 1 .. k : root[l].kind # "end"
  BY ZenonT(30) DEF Files, IsFile
<1>2. k \notin 1 .. n
  BY <1>1 DEF Passed
<1>3. n + 1 \in 1 .. k
  BY <1>1, <1>2
<1>4. n < RootLength(format)
  BY <1>1, <1>3
<1> QED BY <1>1, <1>3, <1>4

\* The least of the entries that decide is the first in the directory.
LEMMA FirstDeciding ==
  ASSUME DiskInv, ValidFormat(format), i \in Nat, i < RootSectors(format), name83 \in Name83s,
         Passed(i * entries), Deciding # {}
  PROVE  /\ Min(Deciding) \in 1 .. RootLength(format) /\ root[Min(Deciding)] \in Entry
         /\ Passed(Min(Deciding) - 1)
         /\ root[Min(Deciding)].kind = "end" \/ IsFile(Min(Deciding), name83)
<1>1. i * entries \in Nat /\ (i + 1) * entries \in Nat
      /\ SectorEntries = i * entries + 1 .. (i + 1) * entries
  BY SectorRange
<1>2. Deciding \subseteq SectorEntries
  BY DEF Deciding
<1>3. Deciding \in SUBSET Nat
  BY <1>1, <1>2
<1>4. PICK m : m = Min(Deciding)
  OBVIOUS
<1>5. m \in Deciding /\ \A y \in Deciding : m <= y
  BY <1>3, <1>4, Least
<1>6. m \in SectorEntries
  BY <1>2, <1>5, ZenonT(30)
<1>7. m \in 1 .. RootLength(format) /\ root[m] \in Entry /\ (root[m].kind = "end" \/ IsFile(m, name83))
  BY <1>5, <1>6, WhatDecides
<1>8. ASSUME NEW k \in 1 .. m - 1 PROVE root[k].kind # "end" /\ ~IsFile(k, name83)
  <2>1. CASE k <= i * entries
    <3>1. k \in 1 .. i * entries
      BY <1>1, <2>1
    <3> QED BY <3>1 DEF Passed
  <2>2. CASE ~(k <= i * entries)
    <3>1. k \in SectorEntries
      BY <1>1, <1>6, <2>2
    <3>2. k \notin Deciding
      BY <1>5, <1>3
    <3> QED BY <3>1, <3>2, WhatDecides
  <2> QED BY <2>1, <2>2
<1>9. Passed(m - 1)
  BY <1>8 DEF Passed
<1> QED BY <1>4, <1>7, <1>9, ZenonT(30)

\* A file that no entry before it decides against is the one the name stands for.
LEMMA FirstFile ==
  ASSUME DiskInv, ValidFormat(format), NEW m \in 1 .. RootLength(format),
         RootLength(format) \in Nat, Passed(m - 1), IsFile(m, name83)
  PROVE  Files(name83) # {} /\ KernelFile(name83) = root[m]
<1>1. \A k \in 1 .. m - 1 : root[k].kind # "end" /\ ~IsFile(k, name83)
  BY DEF Passed
<1>2. root[m].kind # "end"
  BY DEF IsFile
<1>3. ASSUME NEW l \in 1 .. m PROVE root[l].kind # "end"
  <2>1. CASE l = m
    BY <1>2, <2>1
  <2>2. CASE l # m
    <3>1. l \in 1 .. m - 1
      BY <2>2
    <3> QED BY <1>1, <3>1
  <2> QED BY <2>1, <2>2
<1>4. m \in Files(name83)
  BY <1>3, ZenonT(30) DEF Files, IsFile
<1>5. Files(name83) \in SUBSET Nat
  <2>1. Files(name83) \subseteq 1 .. RootLength(format)
    BY ZenonT(30) DEF Files
  <2>2. 1 .. RootLength(format) \subseteq Nat
    OBVIOUS
  <2> QED BY <2>1, <2>2
<1>6. ASSUME NEW k \in Files(name83) PROVE m <= k
  <2>1. k \in 1 .. RootLength(format) /\ IsFile(k, name83)
    BY ZenonT(30) DEF Files, IsFile
  <2>2. k \notin 1 .. m - 1
    BY <1>1, <2>1
  <2> QED BY <2>1, <2>2
<1>7. Min(Files(name83)) = m
  BY <1>4, <1>5, <1>6, LeastIs
<1> QED BY <1>4, <1>7 DEF KernelFile

-----------------------------------------------------------------------------
(***************************************************************************)
(* The load.  A file of so many bytes has as many sectors, and as many     *)
(* clusters, as begin before its end.                                      *)
(***************************************************************************)
\* Rounding up: m is below the quotient exactly if m * n is below a.
LEMMA Ceiling ==
  ASSUME NEW a \in Nat, NEW n \in Nat, n > 0
  PROVE  /\ (a + n - 1) \div n \in Nat
         /\ \A m \in Nat : m < (a + n - 1) \div n <=> m * n < a
<1>1. a + n - 1 \in Nat
  OBVIOUS
<1>2. PICK q, r : q = (a + n - 1) \div n /\ r = (a + n - 1) % n
  OBVIOUS
<1>3. q \in Nat /\ r \in Nat /\ r < n /\ a + n - 1 = q * n + r
  <2>1. PICK x : x = a + n - 1
    OBVIOUS
  <2>2. x \in Nat
    BY <1>1, <2>1
  <2> QED BY <1>2, <2>1, <2>2, Division
<1>4. ASSUME NEW m \in Nat PROVE m < q <=> m * n < a
  <2>1. ASSUME m < q PROVE m * n < a
    <3>1. m * n + n <= q * n
      BY <1>3, <2>1, Products
    <3>2. m * n \in Nat /\ q * n \in Nat
      BY <1>3
    <3> QED BY <1>3, <3>1, <3>2
  <2>2. ASSUME m * n < a, ~(m < q) PROVE FALSE
    <3>1. q * n <= m * n
      BY <1>3, <2>2, Products
    <3>2. m * n \in Nat /\ q * n \in Nat
      BY <1>3
    <3> QED BY <1>3, <2>2, <3>1, <3>2
  <2> QED BY <2>1, <2>2
<1> QED BY <1>2, <1>3, <1>4

\* The sectors and the clusters of a file.
LEMMA FileSizes ==
  ASSUME DiskInv, ValidFormat(format), NEW e \in Entry
  PROVE  /\ SectorsOf(e) \in Nat /\ ClustersOf(e) \in Nat
         /\ \A n \in Nat : n < SectorsOf(e) <=> n * format.bytesPerSector < e.size
         /\ \A k \in Nat : k < ClustersOf(e) <=> k * format.sectorsPerCluster < SectorsOf(e)
<1>1. /\ format.bytesPerSector \in Nat /\ format.bytesPerSector > 0
      /\ format.sectorsPerCluster \in Nat /\ format.sectorsPerCluster > 0
  BY FormatNumbers, ValidNumbers
<1>2. e.size \in Nat
  BY DEF Entry, Below
<1>3. SectorsOf(e) \in Nat /\ \A n \in Nat : n < SectorsOf(e) <=> n * format.bytesPerSector < e.size
  BY <1>1, <1>2, Ceiling DEF SectorsOf
<1>4. ClustersOf(e) \in Nat
      /\ \A k \in Nat : k < ClustersOf(e) <=> k * format.sectorsPerCluster < SectorsOf(e)
  BY <1>1, <1>3, Ceiling, ZenonT(30) DEF ClustersOf
<1> QED BY <1>3, <1>4

\* Where the next sector of the file is.
LEMMA NextSectorOf ==
  ASSUME DiskInv, ValidFormat(format), NEW e \in Entry, NEW k \in Nat,
         NEW j, NEW current, NEW rem, NEW sectors, Loading(e, k, j, current, rem, sectors)
  PROVE  /\ Len(sectors) \in Nat /\ Len(sectors) + 1 <= SectorsOf(e) /\ k < ClustersOf(e)
         /\ Len(sectors) \div format.sectorsPerCluster = k
         /\ Len(sectors) % format.sectorsPerCluster = j
         /\ SectorAt(current, j) \in Nat
<1>1. PICK s, b, l : s = format.sectorsPerCluster /\ b = format.bytesPerSector /\ l = Len(sectors)
  BY ZenonT(30)
<1>2. s \in Nat /\ s > 0 /\ b \in Nat /\ b > 0 /\ DataStart(format) \in Nat
  BY <1>1, FormatNumbers, ValidNumbers
<1>3. /\ j \in Nat /\ j < s /\ current \in Nat /\ current >= 2 /\ rem \in Nat /\ rem > 0
      /\ l = k * s + j /\ l * b + rem = e.size
  BY <1>1 DEF Loading, Half, Below
<1>4. l \in Nat /\ k * s \in Nat
  BY <1>2, <1>3
<1>5. l * b < e.size
  <2>1. l * b \in Nat
    BY <1>2, <1>4
  <2> QED BY <1>3, <2>1
<1>6. SectorsOf(e) \in Nat /\ l < SectorsOf(e)
  BY <1>1, <1>4, <1>5, FileSizes
<1>7. k * s < SectorsOf(e)
  BY <1>3, <1>4, <1>6
<1>8. k < ClustersOf(e)
  BY <1>1, <1>7, FileSizes
<1>9. l \div s = k /\ l % s = j
  <2>1. l = k * s + j /\ j \in Nat /\ j < s
    BY <1>3, ZenonT(30)
  <2> QED BY <1>2, <2>1, Quotient, ZenonT(30)
<1>10. (current - 2) * s \in Nat
  BY <1>2, <1>3
<1>11. SectorAt(current, j) \in Nat
  <2>1. PICK y : y = (current - 2) * s
    OBVIOUS
  <2>2. y \in Nat /\ DataStart(format) \in Nat /\ j \in Nat
    BY <1>2, <1>3, <1>10, <2>1
  <2>3. DataStart(format) + y + j \in Nat
    BY <2>2
  <2> QED BY <1>1, <2>1, <2>3 DEF SectorAt
<1> QED BY <1>1, <1>4, <1>6, <1>8, <1>9, <1>11

\* A cluster that the disk has, at least in part, and one that it has as a whole.
LEMMA ClusterBounds ==
  ASSUME DiskInv, ValidFormat(format), NEW j \in Nat, j < format.sectorsPerCluster,
         NEW current \in Nat, current >= 2,
         SectorAt(current, j) < TotalSectors(format)
  PROVE  /\ current \in 2 .. Clusters(format) + 2
         /\ j + 1 >= format.sectorsPerCluster => current \in 2 .. Clusters(format) + 1
<1>1. PICK s, d, t : s = format.sectorsPerCluster /\ d = DataStart(format) /\ t = TotalSectors(format)
  OBVIOUS
<1>2. s \in Nat /\ s > 0 /\ d \in Nat /\ t \in Nat
  BY <1>1, FormatNumbers, ValidNumbers
<1>3. PICK n : n = Clusters(format)
  OBVIOUS
<1>4. PICK r \in Nat : r < s /\ t - d = n * s + r
  BY <1>1, <1>3, ValidNumbers
<1>5. n \in Nat
  BY <1>3, ValidNumbers
<1>6. PICK y, z : y = (current - 2) * s /\ z = n * s
  OBVIOUS
<1>7. y \in Nat /\ z \in Nat
  BY <1>2, <1>5, <1>6
<1>8. d + y + j < t
  BY <1>1, <1>6 DEF SectorAt
<1>9. y + j < z + r
  BY <1>2, <1>4, <1>6, <1>7, <1>8
<1>10. current - 2 <= n
  <2> SUFFICES ASSUME n < current - 2 PROVE FALSE
    BY <1>5
  <2>1. z + s <= y
    BY <1>2, <1>5, <1>6, Products
  <2> QED BY <1>2, <1>4, <1>7, <1>9, <2>1
<1>11. ASSUME j + 1 >= s PROVE current - 2 < n
  <2> SUFFICES ASSUME n <= current - 2 PROVE FALSE
    BY <1>5
  <2>1. z <= y
    BY <1>2, <1>5, <1>6, Products
  <2> QED BY <1>2, <1>4, <1>7, <1>9, <1>11, <2>1
<1> QED BY <1>1, <1>3, <1>5, <1>10, <1>11

\* The next sector of a file with a chain is in the volume and on the drive.
LEMMA SectorOfChain ==
  ASSUME DiskInv, ValidFormat(format), NEW e \in Entry, NEW k \in Nat,
         NEW j, NEW current, NEW rem, NEW sectors, Loading(e, k, j, current, rem, sectors),
         Chains(e) # {}
  PROVE  SectorAt(current, j) < TotalSectors(format) /\ SectorAt(current, j) < DriveSectors
<1>0. PICK x \in Chains(e) : TRUE
  BY ZenonT(30)
<1>1. PICK n : n = Len(sectors) + 1
  OBVIOUS
<1>2. n \in 1 .. SectorsOf(e) /\ n - 1 = Len(sectors)
  BY <1>1, NextSectorOf, FileSizes
<1>3. x[k] = current
  BY DEF Loading
<1>4. Contents(e, x)[n] < TotalSectors(format) /\ Contents(e, x)[n] < DriveSectors
  BY <1>2 DEF Chains
<1>5. Contents(e, x)[n] = SectorOf(x, n)
  BY <1>2 DEF Contents, SectorOf, SectorAt
<1>6. (n - 1) \div format.sectorsPerCluster = k /\ (n - 1) % format.sectorsPerCluster = j
  BY <1>2, NextSectorOf
<1>7. Contents(e, x)[n] = SectorAt(current, j)
  BY <1>3, <1>5, <1>6 DEF SectorOf
<1> QED BY <1>4, <1>7

\* On an enclosed volume INT 13h can address the sectors of every cluster that is met.
LEMMA Reached ==
  ASSUME DiskInv, ValidFormat(format), NEW e \in Entry, NEW k \in Nat,
         NEW j, NEW current, NEW rem, NEW sectors, Loading(e, k, j, current, rem, sectors),
         Enclosed(e)
  PROVE  SectorAt(current, j) < Addressable
<1>1. PICK s, d : s = format.sectorsPerCluster /\ d = DataStart(format)
  OBVIOUS
<1>2. s \in Nat /\ s > 0 /\ d \in Nat
  BY <1>1, FormatNumbers, ValidNumbers
<1>3. j \in Nat /\ j < s /\ current \in Nat /\ (current = e.first \/ current <= 4095)
  BY <1>1 DEF Loading, Half, Link, Below
<1>4. d + (4095 - 1) * s <= Addressable /\ d + (e.first - 1) * s <= Addressable
  BY <1>1 DEF Enclosed
<1>5. d + (current - 1) * s <= Addressable
  <2>1. CASE current = e.first
    BY <1>4, <2>1
  <2>2. CASE current <= 4095
    <3>1. (current - 1) * s <= (4095 - 1) * s
      <4>1. current - 1 \in Int /\ 4095 - 1 \in Int /\ current - 1 <= 4095 - 1
        BY <1>3, <2>2
      <4> QED BY <1>2, <4>1, Products
    <3>2. (current - 1) * s \in Int /\ (4095 - 1) * s \in Int
      BY <1>2, <1>3
    <3> QED BY <1>2, <1>4, <3>1, <3>2, DriveSize
  <2> QED BY <1>3, <2>1, <2>2
<1>6. (current - 1) * s = (current - 2) * s + s /\ (current - 2) * s \in Int
  BY <1>2, <1>3
<1>7. PICK y : y = (current - 2) * s
  OBVIOUS
<1>8. d + y + j < Addressable
  BY <1>2, <1>3, <1>5, <1>6, <1>7, DriveSize
<1> QED BY <1>1, <1>7, <1>8 DEF SectorAt

\* The argument of the read of the next sector.
LEMMA LoadLba ==
  ASSUME DiskInv, ValidFormat(format), NEW e \in Entry, NEW k \in Nat,
         NEW j, NEW current, NEW rem, NEW sectors, Loading(e, k, j, current, rem, sectors),
         pc = "load", i = j, cluster = current
  PROVE  Lba = SectorAt(current, j)
<1>1. format \in Formats
  BY DEF DiskInv
<1> QED BY <1>1, Layout, Fields DEF Lba, cluster_lba, SectorAt

\* What a read that succeeds returns: the sector of the cluster, if the file has a
\* chain or the volume is enclosed.
LEMMA ClusterReads ==
  ASSUME DiskInv, ValidFormat(format), NEW e \in Entry, NEW k \in Nat,
         NEW j, NEW current, NEW rem, NEW sectors, Loading(e, k, j, current, rem, sectors),
         pc = "load", i = j, cluster = current, OnDrive
  PROVE  ReadAs(e, j, current, Int13(Lba))
<1>1. PICK lba : lba = Lba
  OBVIOUS
<1>2. lba = SectorAt(current, j) /\ lba \in Nat
  BY <1>1, LoadLba, NextSectorOf
<1>3. Int13(lba) \in Int
  BY <1>2, Int13IsInt
<1>4. ASSUME Enclosed(e) \/ Chains(e) # {} PROVE lba < Addressable
  <2>1. CASE Enclosed(e)
    BY <1>2, <2>1, Reached
  <2>2. CASE Chains(e) # {}
    <3>1. lba < DriveSectors
      BY <1>2, <2>2, SectorOfChain
    <3> QED BY <1>2, <3>1, DriveSize
  <2> QED BY <1>4, <2>1, <2>2
<1>5. Enclosed(e) \/ Chains(e) # {} => Int13(lba) = lba
  BY <1>2, <1>4, Int13Reads
<1>6. ASSUME Enclosed(e) PROVE Int13(lba) < TotalSectors(format) /\ Int13(lba) < DriveSectors
  <2>1. Int13(lba) < DriveSectors
    BY <1>1 DEF OnDrive
  <2>2. TotalSectors(format) >= DriveSectors
    BY <1>6 DEF Enclosed
  <2>3. TotalSectors(format) \in Nat
    BY FormatNumbers, ValidNumbers
  <2> QED BY <1>3, <2>1, <2>2, <2>3, DriveSize
<1> QED BY <1>1, <1>2, <1>3, <1>5, <1>6 DEF ReadAs

\* A file is not intact if the drive does not have its next sector.
LEMMA LostSector ==
  ASSUME DiskInv, ValidFormat(format), NEW e \in Entry, NEW k \in Nat,
         NEW j, NEW current, NEW rem, NEW sectors, Loading(e, k, j, current, rem, sectors),
         pc = "load", i = j, cluster = current, ~OnDrive
  PROVE  Chains(e) = {}
<1> SUFFICES ASSUME Chains(e) # {} PROVE FALSE
  OBVIOUS
<1>1. PICK lba : lba = Lba
  OBVIOUS
<1>2. lba = SectorAt(current, j) /\ lba \in Nat /\ lba < DriveSectors
  BY <1>1, LoadLba, NextSectorOf, SectorOfChain
<1>3. Int13(lba) = lba
  BY <1>2, Int13Reads, DriveSize
<1> QED BY <1>1, <1>2, <1>3 DEF OnDrive

\* The sectors in memory after the next one is read, if the clusters are c.
LEMMA OneMore ==
  ASSUME DiskInv, ValidFormat(format), NEW e \in Entry, NEW k \in Nat,
         NEW j, NEW current, NEW rem, NEW sectors, Loading(e, k, j, current, rem, sectors),
         NEW at \in Int, NEW c, at = SectorAt(current, j), c[k] = current,
         \A n \in 1 .. Len(sectors) : sectors[n] = SectorOf(c, n)
  PROVE  \A n \in 1 .. Len(sectors) + 1 : Append(sectors, at)[n] = SectorOf(c, n)
<1>1. PICK s : s = format.sectorsPerCluster
  OBVIOUS
<1>2. sectors \in Seq(Int)
  BY DEF Loading
<1>3. Len(sectors) \in Nat /\ Len(sectors) \div s = k /\ Len(sectors) % s = j
  BY <1>1, NextSectorOf
<1>4. PICK l : l = Len(sectors)
  BY ZenonT(30)
<1>5. PICK more : more = Append(sectors, at)
  BY ZenonT(30)
<1>6. (\A n \in 1 .. l : more[n] = sectors[n]) /\ more[l + 1] = at
  BY <1>2, <1>4, <1>5
<1>7. ASSUME NEW n \in 1 .. l + 1 PROVE more[n] = SectorOf(c, n)
  <2>1. CASE n = l + 1
    <3>1. n - 1 = l
      BY <1>3, <1>4, <2>1
    <3>2. (n - 1) \div s = k /\ (n - 1) % s = j
      BY <1>3, <1>4, <3>1
    <3>3. SectorOf(c, n) = at
      BY <1>1, <3>2 DEF SectorOf
    <3> QED BY <1>6, <2>1, <3>3
  <2>2. CASE n # l + 1
    <3>1. n \in 1 .. l
      BY <1>3, <1>4, <2>2
    <3> QED BY <1>4, <1>6, <3>1, ZenonT(30)
  <2> QED BY <2>1, <2>2
<1> QED BY <1>4, <1>5, <1>7, ZenonT(30)

\* The clusters of the sectors in memory are among those met so far.
LEMMA MetSoFar ==
  ASSUME DiskInv, ValidFormat(format), NEW e \in Entry, NEW k \in Nat,
         NEW j, NEW current, NEW rem, NEW sectors, Loading(e, k, j, current, rem, sectors),
         NEW n \in 1 .. Len(sectors) + 1
  PROVE  (n - 1) \div format.sectorsPerCluster \in 0 .. k
<1>1. PICK s, l : s = format.sectorsPerCluster /\ l = Len(sectors)
  BY ZenonT(30)
<1>2. s \in Nat /\ s > 0 /\ l \in Nat
  BY <1>1, ClusterSize, NextSectorOf
<1>3. j \in Nat /\ j < s /\ l = k * s + j
  BY <1>1 DEF Loading
<1>4. PICK q, x : q = (n - 1) \div s /\ x = n - 1
  OBVIOUS
<1>5. x \in Nat /\ x <= l
  BY <1>1, <1>2, <1>4
<1>6. q \in Nat /\ q * s <= x
  <2>1. x \div s \in Nat /\ x % s \in Nat /\ x = (x \div s) * s + (x % s)
    BY <1>2, <1>5, Division, ZenonT(30)
  <2>2. (x \div s) * s \in Nat
    <3>1. x \div s \in Nat
      BY <2>1, ZenonT(30)
    <3> QED BY <1>2, <3>1
  <2> QED BY <1>4, <2>1, <2>2
<1>7. ~(k < q)
  <2> SUFFICES ASSUME k < q PROVE FALSE
    OBVIOUS
  <2>1. k * s + s <= q * s
    BY <1>2, <1>6, Products
  <2>2. PICK y, z : y = k * s /\ z = q * s
    OBVIOUS
  <2>3. y \in Nat /\ z \in Nat
    BY <1>2, <1>6, <2>2
  <2>4. l = y + j /\ z <= x /\ y + s <= z
    BY <1>3, <1>6, <2>1, <2>2
  <2> QED BY <1>2, <1>3, <1>5, <2>3, <2>4
<1> QED BY <1>1, <1>4, <1>6, <1>7

\* With one sector more the sectors are still those of the chains of e, and of the
\* clusters that were followed.
Extended(e, k, current, l, more) ==
  /\ more \in Seq(Int) /\ Len(more) = l + 1
  /\ \A x \in Chains(e) : \A n \in 1 .. l + 1 : more[n] = SectorOf(x, n)
  /\ Enclosed(e) => \E c \in [0 .. k -> Nat] : Followed(e, k, c, current, more)

\* What OneMore says of every chain, and of the clusters that were followed.
LEMMA OneMoreRead ==
  ASSUME DiskInv, ValidFormat(format), NEW e \in Entry, NEW k \in Nat,
         NEW j, NEW current, NEW rem, NEW sectors, Loading(e, k, j, current, rem, sectors),
         NEW at, ReadAs(e, j, current, at)
  PROVE  Extended(e, k, current, Len(sectors), Append(sectors, at))
<1>1. sectors \in Seq(Int) /\ at \in Int /\ Len(sectors) \in Nat
  BY NextSectorOf DEF Loading, ReadAs
<1>2. PICK l, more : l = Len(sectors) /\ more = Append(sectors, at)
  BY ZenonT(30)
<1>3. more \in Seq(Int) /\ Len(more) = l + 1 /\ (\A n \in 1 .. l : more[n] = sectors[n]) /\ more[l + 1] = at
  BY <1>1, <1>2
<1>0. ASSUME NEW c, at = SectorAt(current, j), c[k] = current,
             \A n \in 1 .. Len(sectors) : sectors[n] = SectorOf(c, n)
      PROVE  \A n \in 1 .. l + 1 : more[n] = SectorOf(c, n)
  <2>1. \A n \in 1 .. Len(sectors) + 1 : Append(sectors, at)[n] = SectorOf(c, n)
    BY <1>0, <1>1, OneMore
  <2> QED BY <1>2, <2>1, ZenonT(30)
<1>4. ASSUME NEW x \in Chains(e) PROVE \A n \in 1 .. l + 1 : more[n] = SectorOf(x, n)
  <2>1. x[k] = current /\ \A m \in 1 .. Len(sectors) : sectors[m] = SectorOf(x, m)
    BY ZenonT(30) DEF Loading
  <2>2. at = SectorAt(current, j)
    BY ZenonT(30) DEF ReadAs
  <2> QED BY <1>0, <2>1, <2>2, ZenonT(30)
<1>5. ASSUME Enclosed(e)
      PROVE  \E c \in [0 .. k -> Nat] : Followed(e, k, c, current, more)
  <2>1. PICK c \in [0 .. k -> Nat] : Followed(e, k, c, current, sectors)
    BY <1>5, ZenonT(30) DEF Loading
  <2>2. at = SectorAt(current, j) /\ at < TotalSectors(format) /\ at < DriveSectors
    BY <1>5, ZenonT(30) DEF ReadAs
  <2>3. /\ c[0] = e.first /\ c[k] = current
        /\ \A n \in 1 .. k : /\ c[n - 1] \in 2 .. Clusters(format) + 1 /\ InTable(c[n - 1])
                             /\ c[n] = fat[c[n - 1]]
        /\ \A n \in 1 .. l : /\ sectors[n] = SectorOf(c, n)
                             /\ sectors[n] < TotalSectors(format) /\ sectors[n] < DriveSectors
    BY <1>2, <2>1, ZenonT(30) DEF Followed
  <2>4. \A n \in 1 .. l + 1 : more[n] = SectorOf(c, n)
    <3>1. c[k] = current /\ \A n \in 1 .. Len(sectors) : sectors[n] = SectorOf(c, n)
      BY <2>1, ZenonT(30) DEF Followed
    <3> QED BY <1>0, <2>2, <3>1, ZenonT(30)
  <2>5. ASSUME NEW n \in 1 .. l + 1 PROVE more[n] < TotalSectors(format) /\ more[n] < DriveSectors
    <3>1. CASE n = l + 1
      BY <1>3, <2>2, <3>1, ZenonT(30)
    <3>2. CASE n # l + 1
      <4>1. n \in 1 .. l
        BY <1>1, <1>2, <3>2
      <4> QED BY <1>3, <2>3, <4>1, ZenonT(30)
    <3> QED BY <3>1, <3>2
  <2>6. Followed(e, k, c, current, more)
    BY <1>3, <2>3, <2>4, <2>5, ZenonT(30) DEF Followed
  <2> QED BY <2>1, <2>6
<1>6. Extended(e, k, current, l, more)
  BY <1>3, <1>4, <1>5, ZenonT(30) DEF Extended
<1> QED BY <1>2, <1>6

\* The last sector: all of the file is in memory, and it had a chain to follow.
LEMMA LastSector ==
  ASSUME DiskInv, ValidFormat(format), NEW e \in Entry, NEW k \in Nat,
         NEW j, NEW current, NEW rem, NEW sectors, Loading(e, k, j, current, rem, sectors),
         NEW at, ReadAs(e, j, current, at), rem <= format.bytesPerSector
  PROVE  /\ SectorsOf(e) = Len(sectors) + 1
         /\ \A x \in Chains(e) : Append(sectors, at) = Contents(e, x)
         /\ Enclosed(e) => Chains(e) # {}
<1>1. PICK s, b, l : s = format.sectorsPerCluster /\ b = format.bytesPerSector /\ l = Len(sectors)
  BY ZenonT(30)
<1>2. s \in Nat /\ s > 0 /\ b \in Nat /\ b > 0
  BY <1>1, ClusterSize
<1>3. /\ l \in Nat /\ l + 1 <= SectorsOf(e) /\ k < ClustersOf(e)
      /\ SectorsOf(e) \in Nat /\ ClustersOf(e) \in Nat
  BY <1>1, NextSectorOf, FileSizes
<1>4. /\ rem \in Nat /\ rem <= b /\ l * b + rem = e.size /\ l = k * s + j /\ j \in Nat /\ j < s
      /\ current \in Nat /\ current >= 2
  BY <1>1 DEF Loading, Half, Below
<1>5. SectorsOf(e) = l + 1
  <2>1. (l + 1) * b = l * b + b /\ l * b \in Nat
    BY <1>2, <1>3
  <2>2. ~((l + 1) * b < e.size)
    BY <1>2, <1>4, <2>1
  <2>3. ~(l + 1 < SectorsOf(e))
    BY <1>1, <1>3, <2>2, FileSizes
  <2> QED BY <1>3, <2>3
<1>6. ClustersOf(e) = k + 1
  <2>1. (k + 1) * s = k * s + s /\ k * s \in Nat
    BY <1>2
  <2>2. ~((k + 1) * s < SectorsOf(e))
    BY <1>2, <1>4, <1>5, <2>1
  <2>3. ~(k + 1 < ClustersOf(e))
    BY <1>1, <1>3, <2>2, FileSizes
  <2> QED BY <1>3, <2>3
<1>7. PICK more : more = Append(sectors, at)
  BY ZenonT(30)
<1>8. /\ more \in Seq(Int) /\ Len(more) = l + 1
      /\ \A x \in Chains(e) : \A n \in 1 .. l + 1 : more[n] = SectorOf(x, n)
      /\ Enclosed(e) => \E c \in [0 .. k -> Nat] : Followed(e, k, c, current, more)
  <2>1. Extended(e, k, current, Len(sectors), Append(sectors, at))
    BY OneMoreRead, ZenonT(30)
  <2>2. Extended(e, k, current, l, more)
    BY <1>1, <1>7, <2>1, ZenonT(30)
  <2> QED BY <2>2, ZenonT(30) DEF Extended
<1>9. \A x : Contents(e, x) = [n \in 1 .. l + 1 |-> SectorOf(x, n)]
  BY <1>5 DEF Contents, SectorOf, SectorAt
<1>10. ASSUME NEW x \in Chains(e) PROVE more = Contents(e, x)
  <2>1. DOMAIN more = 1 .. l + 1 /\ more = [n \in DOMAIN more |-> more[n]]
    BY <1>8
  <2>2. \A n \in 1 .. l + 1 : more[n] = SectorOf(x, n)
    BY <1>8
  <2>3. Contents(e, x) = [n \in 1 .. l + 1 |-> SectorOf(x, n)]
    BY <1>9
  <2> QED BY <2>1, <2>2, <2>3
<1>11. ASSUME Enclosed(e) PROVE Chains(e) # {}
  <2>1. PICK c \in [0 .. k -> Nat] : Followed(e, k, c, current, more)
    BY <1>8, <1>11, ZenonT(30)
  <2>2. current \in 2 .. Clusters(format) + 2
    <3>1. at = SectorAt(current, j) /\ at < TotalSectors(format)
      BY <1>11, ZenonT(30) DEF ReadAs
    <3> QED BY <1>1, <1>4, <3>1, ClusterBounds
  <2>3. c[0] = e.first /\ c[k] = current
        /\ \A n \in 1 .. k : c[n - 1] \in 2 .. Clusters(format) + 1 /\ InTable(c[n - 1]) /\ c[n] = fat[c[n - 1]]
    BY <2>1, ZenonT(30) DEF Followed
  <2>4. Clusters(format) \in Nat
    BY ValidNumbers
  <2>5. ASSUME NEW n \in 0 .. k PROVE c[n] \in 2 .. Clusters(format) + 2
    <3>1. CASE n = k
      BY <2>2, <2>3, <3>1
    <3>2. CASE n # k
      <4>1. n + 1 \in 1 .. k /\ (n + 1) - 1 = n
        BY <3>2
      <4>2. c[(n + 1) - 1] \in 2 .. Clusters(format) + 1
        BY <2>3, <4>1, ZenonT(30)
      <4> QED BY <2>4, <4>1, <4>2
    <3> QED BY <3>1, <3>2
  <2>6. ClustersOf(e) - 1 = k
    BY <1>6
  <2>7. c \in [0 .. ClustersOf(e) - 1 -> 2 .. Clusters(format) + 2]
    BY <2>5, <2>6
  <2>8. \A n \in 1 .. ClustersOf(e) - 1 : InTable(c[n - 1]) /\ c[n] = fat[c[n - 1]]
    BY <2>3, <2>6
  <2>9. \A n \in 1 .. SectorsOf(e) : Contents(e, c)[n] < TotalSectors(format) /\ Contents(e, c)[n] < DriveSectors
    <3>1. \A n \in 1 .. l + 1 : /\ more[n] = SectorOf(c, n)
                                /\ more[n] < TotalSectors(format) /\ more[n] < DriveSectors
      BY <1>8, <2>1, ZenonT(30) DEF Followed
    <3>2. Contents(e, c) = [n \in 1 .. l + 1 |-> SectorOf(c, n)]
      BY <1>9
    <3> QED BY <1>5, <3>1, <3>2
  <2>10. c \in Chains(e)
    BY <2>3, <2>7, <2>8, <2>9 DEF Chains
  <2> QED BY <2>10
<1> QED BY <1>1, <1>5, <1>7, <1>10, <1>11, ZenonT(30)

\* Another sector of the cluster.
LEMMA SameCluster ==
  ASSUME DiskInv, ValidFormat(format), NEW e \in Entry, NEW k \in Nat,
         NEW j, NEW current, NEW rem, NEW sectors, Loading(e, k, j, current, rem, sectors),
         NEW at, ReadAs(e, j, current, at),
         rem > format.bytesPerSector, j + 1 < format.sectorsPerCluster
  PROVE  Loading(e, k, j + 1, current, rem - format.bytesPerSector, Append(sectors, at))
<1>1. PICK s, b, l : s = format.sectorsPerCluster /\ b = format.bytesPerSector /\ l = Len(sectors)
  BY ZenonT(30)
<1>2. s \in Nat /\ s > 0 /\ b \in Nat /\ b > 0
  BY <1>1, ClusterSize
<1>3. /\ rem \in Nat /\ l * b + rem = e.size /\ l = k * s + j /\ j \in Nat
  BY <1>1 DEF Loading
<1>4. l \in Nat
  BY <1>1, NextSectorOf
<1>5. PICK more : more = Append(sectors, at)
  BY ZenonT(30)
<1>6. /\ more \in Seq(Int) /\ Len(more) = l + 1
      /\ \A x \in Chains(e) : \A n \in 1 .. l + 1 : more[n] = SectorOf(x, n)
      /\ Enclosed(e) => \E c \in [0 .. k -> Nat] : Followed(e, k, c, current, more)
  <2>1. Extended(e, k, current, Len(sectors), Append(sectors, at))
    BY OneMoreRead, ZenonT(30)
  <2>2. Extended(e, k, current, l, more)
    BY <1>1, <1>5, <2>1, ZenonT(30)
  <2> QED BY <2>2, ZenonT(30) DEF Extended
<1>7. j + 1 \in Nat /\ rem - b \in Nat /\ rem - b > 0
  <2>1. j \in Nat /\ rem \in Nat /\ b \in Nat /\ b > 0 /\ rem > b
    BY <1>1, <1>2, <1>3, ZenonT(30)
  <2> QED BY <2>1
<1>8. l + 1 = k * s + (j + 1)
  <2>1. k * s \in Nat
    BY <1>2
  <2> QED BY <1>3, <2>1
<1>9. (l + 1) * b + (rem - b) = e.size
  <2>1. (l + 1) * b = l * b + b /\ l * b \in Nat
    BY <1>2, <1>4
  <2> QED BY <1>2, <1>3, <2>1
<1>10. /\ current \in Half /\ current >= 2 /\ (current = e.first \/ current \in Link)
       /\ \A x \in Chains(e) : x[k] = current
  BY ZenonT(30) DEF Loading
<1> QED BY <1>1, <1>5, <1>6, <1>7, <1>8, <1>9, <1>10, ZenonT(30) DEF Loading

\* All of a cluster is read: every chain goes on with the table's value for it.
LEMMA ChainsGoOn ==
  ASSUME DiskInv, ValidFormat(format), NEW e \in Entry, NEW k \in Nat,
         NEW j, NEW current, NEW rem, NEW sectors, Loading(e, k, j, current, rem, sectors),
         rem > format.bytesPerSector, j + 1 >= format.sectorsPerCluster, NEW x \in Chains(e)
  PROVE  /\ current \in 2 .. Clusters(format) + 2 /\ InTable(current)
         /\ x[k + 1] = fat[current] /\ x[k + 1] \in 2 .. Clusters(format) + 2
<1>1. PICK s, b, l : s = format.sectorsPerCluster /\ b = format.bytesPerSector /\ l = Len(sectors)
  BY ZenonT(30)
<1>2. s \in Nat /\ s > 0 /\ b \in Nat /\ b > 0
  BY <1>1, ClusterSize
<1>3. /\ rem \in Nat /\ l * b + rem = e.size /\ l = k * s + j /\ j \in Nat /\ j < s
  BY <1>1 DEF Loading
<1>4. l \in Nat /\ SectorsOf(e) \in Nat /\ ClustersOf(e) \in Nat
  BY <1>1, NextSectorOf, FileSizes
<1>5. (l + 1) * b < e.size
  <2>1. (l + 1) * b = l * b + b /\ l * b \in Nat
    BY <1>2, <1>4
  <2>2. l * b + rem = e.size /\ rem \in Nat /\ b \in Nat /\ rem > b
    BY <1>1, <1>2, <1>3, ZenonT(30)
  <2> QED BY <2>1, <2>2
<1>6. l + 1 < SectorsOf(e)
  BY <1>1, <1>4, <1>5, FileSizes
<1>7. (k + 1) * s = l + 1
  <2>1. (k + 1) * s = k * s + s /\ k * s \in Nat
    BY <1>2
  <2>2. j + 1 = s
    <3>1. j \in Nat /\ s \in Nat /\ j < s /\ j + 1 >= s
      BY <1>1, <1>2, <1>3, ZenonT(30)
    <3> QED BY <3>1
  <2>3. l = k * s + j
    BY <1>3
  <2> QED BY <1>3, <2>1, <2>2, <2>3
<1>8. k + 1 < ClustersOf(e)
  BY <1>1, <1>6, <1>7, FileSizes
<1>9. /\ k + 1 \in 1 .. ClustersOf(e) - 1 /\ k + 1 \in 0 .. ClustersOf(e) - 1 /\ (k + 1) - 1 = k
      /\ k \in 0 .. ClustersOf(e) - 1
  BY <1>4, <1>8
<1>10. x[k] = current
  BY ZenonT(30) DEF Loading
<1>11. x \in [0 .. ClustersOf(e) - 1 -> 2 .. Clusters(format) + 2]
  BY DEF Chains
<1>12. InTable(x[(k + 1) - 1]) /\ x[k + 1] = fat[x[(k + 1) - 1]]
  BY <1>9 DEF Chains
<1> QED BY <1>9, <1>10, <1>11, <1>12, ZenonT(30)

\* On an enclosed volume a cluster that was read to its end has its entry in the table.
LEMMA EntryOfCluster ==
  ASSUME DiskInv, ValidFormat(format), NEW e \in Entry, NEW k \in Nat,
         NEW j, NEW current, NEW rem, NEW sectors, Loading(e, k, j, current, rem, sectors),
         NEW at, ReadAs(e, j, current, at), j + 1 >= format.sectorsPerCluster, Enclosed(e)
  PROVE  current \in 2 .. Clusters(format) + 1 /\ InTable(current)
<1>1. at = SectorAt(current, j) /\ at < TotalSectors(format)
  BY ZenonT(30) DEF ReadAs
<1>2. j \in Nat /\ j < format.sectorsPerCluster /\ current \in Nat /\ current >= 2
  BY DEF Loading, Half, Below
<1>3. current \in 2 .. Clusters(format) + 1
  BY <1>1, <1>2, ClusterBounds
<1>4. PICK t, n : t = TableBytes(format) /\ n = Clusters(format)
  OBVIOUS
<1>5. t \in Nat /\ n \in Nat /\ 3 * (n + 2) <= 2 * t /\ current \in 2 .. n + 1
  BY <1>3, <1>4, TableLength, ValidNumbers DEF Enclosed
<1>6. current + (current \div 2) + 1 < t
  BY <1>5
<1> QED BY <1>3, <1>4, <1>6 DEF InTable

\* The first sector of the next cluster.
LEMMA OtherCluster ==
  ASSUME DiskInv, ValidFormat(format), NEW e \in Entry, NEW k \in Nat,
         NEW j, NEW current, NEW rem, NEW sectors, Loading(e, k, j, current, rem, sectors),
         NEW at, ReadAs(e, j, current, at),
         rem > format.bytesPerSector, j + 1 >= format.sectorsPerCluster,
         NEW next \in Lookup(current), next >= 2
  PROVE  Loading(e, k + 1, 0, next, rem - format.bytesPerSector, Append(sectors, at))
<1>1. PICK s, b, l : s = format.sectorsPerCluster /\ b = format.bytesPerSector /\ l = Len(sectors)
  BY ZenonT(30)
<1>2. s \in Nat /\ s > 0 /\ b \in Nat /\ b > 0
  BY <1>1, ClusterSize
<1>3. /\ rem \in Nat /\ l * b + rem = e.size /\ l = k * s + j /\ j \in Nat /\ j < s
      /\ current \in Nat /\ current >= 2
  BY <1>1 DEF Loading, Half, Below
<1>4. l \in Nat
  BY <1>1, NextSectorOf
<1>5. PICK more : more = Append(sectors, at)
  BY ZenonT(30)
<1>6. /\ more \in Seq(Int) /\ Len(more) = l + 1
      /\ \A x \in Chains(e) : \A n \in 1 .. l + 1 : more[n] = SectorOf(x, n)
      /\ Enclosed(e) => \E c \in [0 .. k -> Nat] : Followed(e, k, c, current, more)
  <2>1. Extended(e, k, current, Len(sectors), Append(sectors, at))
    BY OneMoreRead, ZenonT(30)
  <2>2. Extended(e, k, current, l, more)
    BY <1>1, <1>5, <2>1, ZenonT(30)
  <2> QED BY <2>2, ZenonT(30) DEF Extended
<1>7. next \in Link /\ next \in Half /\ next \in Nat
  <2>1. next \in Link
    BY <1>3, LookupLink
  <2> QED BY <2>1 DEF Link, Half, Below
<1>8. rem - b \in Nat /\ rem - b > 0
  <2>1. rem \in Nat /\ b \in Nat /\ b > 0 /\ rem > b
    BY <1>1, <1>2, <1>3, ZenonT(30)
  <2> QED BY <2>1
<1>9. l + 1 = (k + 1) * s + 0
  <2>1. (k + 1) * s = k * s + s /\ k * s \in Nat
    BY <1>2
  <2>2. j + 1 = s
    <3>1. j \in Nat /\ s \in Nat /\ j < s /\ j + 1 >= s
      BY <1>1, <1>2, <1>3, ZenonT(30)
    <3> QED BY <3>1
  <2>3. l = k * s + j
    BY <1>3
  <2> QED BY <1>3, <2>1, <2>2, <2>3
<1>10. (l + 1) * b + (rem - b) = e.size
  <2>1. (l + 1) * b = l * b + b /\ l * b \in Nat
    BY <1>2, <1>4
  <2> QED BY <1>2, <1>3, <2>1
<1>11. Clusters(format) \in Nat /\ Clusters(format) < 4085
  BY ValidNumbers
<1>12. ASSUME NEW x \in Chains(e) PROVE x[k + 1] = next
  <2>1. current \in 2 .. Clusters(format) + 2 /\ InTable(current) /\ x[k + 1] = fat[current]
    BY ChainsGoOn
  <2>2. Lookup(current) = {fat[current]}
    BY <1>11, <2>1, NextCluster
  <2> QED BY <2>1, <2>2
<1>13. ASSUME Enclosed(e)
       PROVE  \E d \in [0 .. k + 1 -> Nat] : Followed(e, k + 1, d, next, more)
  <2>1. current \in 2 .. Clusters(format) + 1 /\ InTable(current)
    BY <1>13, EntryOfCluster
  <2>2. next = fat[current]
    <3>1. Lookup(current) = {fat[current]}
      BY <1>11, <2>1, NextCluster
    <3> QED BY <3>1
  <2>3. PICK c \in [0 .. k -> Nat] : Followed(e, k, c, current, more)
    BY <1>6, <1>13, ZenonT(30)
  <2>4. /\ c[0] = e.first /\ c[k] = current
        /\ \A n \in 1 .. k : /\ c[n - 1] \in 2 .. Clusters(format) + 1 /\ InTable(c[n - 1])
                             /\ c[n] = fat[c[n - 1]]
        /\ \A n \in 1 .. l + 1 : /\ more[n] = SectorOf(c, n)
                                 /\ more[n] < TotalSectors(format) /\ more[n] < DriveSectors
    BY <1>6, <2>3, ZenonT(30) DEF Followed
  <2>5. PICK d : d = [n \in 0 .. k + 1 |-> IF n <= k THEN c[n] ELSE next]
    BY ZenonT(30)
  <2>6. d \in [0 .. k + 1 -> Nat] /\ d[k + 1] = next /\ \A n \in 0 .. k : d[n] = c[n]
    BY <1>7, <2>5
  <2>7. d[0] = e.first
    BY <2>4, <2>6
  <2>8. ASSUME NEW n \in 1 .. k + 1
        PROVE  d[n - 1] \in 2 .. Clusters(format) + 1 /\ InTable(d[n - 1]) /\ d[n] = fat[d[n - 1]]
    <3>1. CASE n = k + 1
      <4>1. n - 1 = k /\ k \in 0 .. k
        BY <3>1
      <4>2. d[n - 1] = current
        BY <2>4, <2>6, <4>1, ZenonT(30)
      <4> QED BY <2>1, <2>2, <2>6, <3>1, <4>2, ZenonT(30)
    <3>2. CASE n # k + 1
      <4>1. n \in 1 .. k /\ n \in 0 .. k /\ n - 1 \in 0 .. k
        BY <3>2
      <4> QED BY <2>4, <2>6, <4>1, ZenonT(30)
    <3> QED BY <3>1, <3>2, ZenonT(30)
  <2>9. ASSUME NEW n \in 1 .. l + 1
        PROVE  more[n] = SectorOf(d, n) /\ more[n] < TotalSectors(format) /\ more[n] < DriveSectors
    <3>1. (n - 1) \div s \in 0 .. k
      BY <1>1, MetSoFar, ZenonT(30)
    <3>2. d[(n - 1) \div s] = c[(n - 1) \div s]
      BY <2>6, <3>1
    <3>3. SectorOf(d, n) = SectorOf(c, n)
      BY <1>1, <3>2, ZenonT(30) DEF SectorOf
    <3> QED BY <2>4, <3>3, ZenonT(30)
  <2>10. Followed(e, k + 1, d, next, more)
    BY <1>6, <2>6, <2>7, <2>8, <2>9, ZenonT(30) DEF Followed
  <2> QED BY <2>6, <2>10
<1>14. 0 \in Nat /\ 0 < s
  BY <1>2, ZenonT(30)
<1> QED BY <1>1, <1>5, <1>6, <1>7, <1>8, <1>9, <1>10, <1>12, <1>13, <1>14, ZenonT(30) DEF Loading

==============================================================================
