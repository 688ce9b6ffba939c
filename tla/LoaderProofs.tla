----------------------------- MODULE LoaderProofs -----------------------------
(***************************************************************************)
(* The kernel that stage 2 starts is whole, stage 2 gives up only for a    *)
(* cause, and so on: an inductive invariant of Loader and the theorems     *)
(* that follow from it, for every geometry and every FAT12 disk.           *)
(***************************************************************************)
EXTENDS LoaderLemmas

\* A step is for the SMT solver unless it names another prover.
USE SMTT(60)

(***************************************************************************)
(* The inductive invariant: the entries of the directory that the search   *)
(* has passed, the clusters that the load has followed, which every chain  *)
(* of the file has to begin with, and the address that it has come to.     *)
(***************************************************************************)
SearchInv ==
  /\ pc \in {"stage1", "disk error", "params", "boot sector"} => name83 = KERNEL /\ i = 0
  /\ pc \in {"search", "dump", "table", "load"} => ValidFormat(format)
  /\ name83 = KERNEL_BIN /\ ~hardError /\ ValidFormat(format) => Files(KERNEL) = {}
  /\ pc = "search" => i < RootSectors(format) /\ Passed(i * entries)
  /\ pc = "dump" => /\ i < RootSectors(format) /\ name83 = KERNEL_BIN
                    /\ ~hardError => Files(KERNEL_BIN) = {}

LoadInv ==
  /\ pc \notin {"load", "kernel", "hang", "overrun"} => loaded = <<>>
  /\ pc \in {"table", "load"} => Files(name83) # {} /\ KernelFile(name83).first >= 2
  /\ pc = "table" => /\ i < format.sectorsPerFat /\ linear = LoadBase
                     /\ cluster = KernelFile(name83).first /\ remaining = KernelFile(name83).size
  /\ pc = "load" => /\ linear = LoadBase + Len(loaded) * SectorSize /\ linear <= MemoryEnd
                    /\ \E k \in Nat : Loading(KernelFile(name83), k, i, cluster, remaining, loaded)

Types ==
  /\ pc \in {"stage1", "disk error", "params"} \cup Reading \cup Halted
  /\ i \in Nat /\ name83 \in {KERNEL, KERNEL_BIN} /\ hardError \in BOOLEAN

Inv ==
  /\ Types /\ DiskInv /\ SearchInv /\ LoadInv
  /\ StartsWholeKernel /\ GivesUpForCause /\ Stage2InPlace

-----------------------------------------------------------------------------
(***************************************************************************)
(* The invariant holds initially, and the steps preserve it.               *)
(***************************************************************************)
\* The invariant holds initially.
LEMMA InitInv == Init => Inv
<1> SUFFICES ASSUME Init PROVE Inv
  OBVIOUS
<1>1. PICK d \in Disks : format = d.format /\ root = d.root /\ fat = d.fat
  BY DEF Init
<1>2. DiskInv
  BY <1>1, DiskAssumption DEF DiskInv
<1>3. pc = "stage1" /\ i = 0 /\ name83 = KERNEL /\ loaded = <<>> /\ hardError = FALSE
  BY DEF Init
<1>4. Types
  BY <1>3, ZenonT(30) DEF Types
<1>5. SearchInv
  BY <1>3, KernelNames DEF SearchInv
<1>6. LoadInv
  BY <1>3 DEF LoadInv
<1>7. StartsWholeKernel /\ GivesUpForCause /\ Stage2InPlace
  BY <1>3 DEF StartsWholeKernel, GivesUpForCause, Stage2InPlace
<1> QED BY <1>2, <1>4, <1>5, <1>6, <1>7 DEF Inv

\* The file that a name stands for is an entry of the directory.
LEMMA FileIsEntry ==
  ASSUME DiskInv, ValidFormat(format), NEW n, Files(n) # {}
  PROVE  KernelFile(n) \in Entry
<1>1. RootLength(format) \in Nat
  <2>1. format \in Formats /\ format.bytesPerSector # 0
    BY ValidNumbers DEF DiskInv
  <2>2. RootSectors(format) \in Nat /\ entries \in Nat
    BY <2>1, FormatNumbers
  <2>3. RootLength(format) = RootSectors(format) * entries
    BY <2>1, Layout
  <2> QED BY <2>2, <2>3
<1>2. Files(n) \subseteq 1 .. RootLength(format)
  BY ZenonT(30) DEF Files
<1>3. 1 .. RootLength(format) \subseteq Nat
  BY <1>1
<1>4. Min(Files(n)) \in Files(n)
  BY <1>2, <1>3, Least
<1> QED BY <1>2, <1>4 DEF KernelFile, DiskInv

\* Where the load has come to is a matter of the disk, which does not change.
LEMMA LoadingNext ==
  ASSUME UNCHANGED <<format, root, fat>>, NEW e, NEW k,
         Loading(e, k, i', cluster', remaining', loaded')
  PROVE  Loading(e, k, i, cluster, remaining, loaded)'
<1>1. Chains(e)' = Chains(e) /\ (Enclosed(e)' <=> Enclosed(e))
  BY SameDisk, ZenonT(30)
<1> QED BY <1>1, ZenonT(30) DEF Loading, Followed, SectorOf, SectorAt, InTable

\* Steps that change nothing the invariant is about.
LEMMA Stuttering ==
  ASSUME Inv, UNCHANGED <<format, root, fat, stage2At, pc, i, name83, cluster, remaining, linear,
                          loaded, hardError>>
  PROVE  Inv'
<1>1. DiskInv'
  BY SameDisk DEF Inv
<1>2. Types'
  BY ZenonT(30) DEF Inv, Types
<1>3. \A n : Files(n)' = Files(n)
  BY SameDisk
<1>4. entries' = entries /\ RootSectors(format)' = RootSectors(format)
  BY SameDisk
<1>5. SearchInv'
  BY <1>3, <1>4, ZenonT(30) DEF Inv, SearchInv, Passed, IsFile
<1>6. KernelFile(name83)' = KernelFile(name83)
  BY <1>3 DEF KernelFile
<1>7. \A e : Chains(e)' = Chains(e)
  BY SameDisk
<1>8. LoadInv'
  <2>1. ASSUME NEW k, Loading(KernelFile(name83), k, i, cluster, remaining, loaded)
        PROVE  Loading(KernelFile(name83), k, i, cluster, remaining, loaded)'
    <3>1. PICK e : e = KernelFile(name83)
      OBVIOUS
    <3>2. Loading(e, k, i', cluster', remaining', loaded')
      BY <2>1, <3>1, ZenonT(30)
    <3>3. Loading(e, k, i, cluster, remaining, loaded)'
      BY <3>2, LoadingNext, ZenonT(30)
    <3> QED BY <1>6, <3>1, <3>3, ZenonT(30)
  <2> QED BY <1>3, <1>6, <2>1, ZenonT(30) DEF Inv, LoadInv
<1>9. StartsWholeKernel'
  BY <1>3, <1>6, SameDisk DEF Inv, StartsWholeKernel
<1>10. GivesUpForCause'
  BY <1>3, SameDisk DEF Inv, GivesUpForCause, KernelFile
<1>11. Stage2InPlace'
  <2>1. TableBytes(format)' = TableBytes(format) /\ (Fits(KernelFile(name83))' <=> Fits(KernelFile(name83)))
    BY <1>6, SameDisk
  <2> QED BY <2>1, ZenonT(30) DEF Inv, Stage2InPlace
<1> QED BY <1>1, <1>2, <1>5, <1>8, <1>9, <1>10, <1>11 DEF Inv

\* Stage 1 and disk_get_params, which only set up what the search begins with.
LEMMA BootingInv ==
  ASSUME Inv, stage1_loads \/ stage1_fails \/ disk_error \/ disk_get_params
  PROVE  Inv'
<1>1. /\ UNCHANGED <<format, root, fat, i, name83, loaded>>
      /\ pc \in {"stage1", "disk error", "params"}
      /\ pc' \in {"stage1", "disk error", "params", "boot sector", "hang"}
  BY ZenonT(30) DEF stage1_loads, stage1_fails, disk_error, disk_get_params, disk, file
<1>2. DiskInv'
  BY <1>1, SameDisk, ZenonT(30) DEF Inv
<1>3. i = 0 /\ name83 = KERNEL /\ loaded = <<>>
  BY <1>1, ZenonT(30) DEF Inv, SearchInv, LoadInv
<1>4. hardError' \in BOOLEAN /\ (pc' = "hang" => hardError')
  BY <1>1, ZenonT(30) DEF stage1_loads, stage1_fails, disk_error, disk_get_params, Inv, Types
<1>5. Types'
  BY <1>1, <1>3, <1>4, ZenonT(30) DEF Types, Reading, Halted
<1>6. SearchInv'
  BY <1>1, <1>3, KernelNames, ZenonT(30) DEF SearchInv
<1>7. LoadInv'
  BY <1>1, <1>3, ZenonT(30) DEF LoadInv
<1>8. StartsWholeKernel' /\ GivesUpForCause'
  BY <1>1, <1>4, ZenonT(30) DEF StartsWholeKernel, GivesUpForCause
<1>9. Stage2InPlace'
  <2>1. CASE stage1_loads
    BY <2>1, Stage1Reads, ZenonT(30) DEF stage1_loads, Stage2InPlace
  <2>2. CASE stage1_fails \/ disk_error
    BY <2>2, ZenonT(30) DEF stage1_fails, disk_error, Stage2InPlace
  <2>3. CASE disk_get_params
    BY <2>3, ZenonT(30) DEF disk_get_params, Stage2InPlace, Inv
  <2> QED BY <2>1, <2>2, <2>3
<1> QED BY <1>2, <1>5, <1>6, <1>7, <1>8, <1>9 DEF Inv

\* What no step of stage 2 changes.
LEMMA Stage2Steps ==
  ASSUME Inv, UNCHANGED <<format, root, fat, stage2At>>, pc \notin {"stage1", "disk error"},
         pc' # "overrun"
  PROVE  /\ DiskInv' /\ Stage2InPlace'
         /\ ValidFormat(format)' <=> ValidFormat(format)
         /\ RootSectors(format)' = RootSectors(format)
         /\ entries' = entries
         /\ \A n : Files(n)' = Files(n) /\ KernelFile(n)' = KernelFile(n)
         /\ \A e : Chains(e)' = Chains(e) /\ (Intact(e)' <=> Intact(e))
         /\ \A e, c : Contents(e, c)' = Contents(e, c)
         /\ \A e : (Enclosed(e)' <=> Enclosed(e)) /\ (Fits(e)' <=> Fits(e))
<1>1. DiskInv /\ Stage2InPlace
  BY ZenonT(30) DEF Inv
<1>2. Stage2InPlace'
  BY <1>1, ZenonT(30) DEF Stage2InPlace
<1>3. \A n : Files(n)' = Files(n)
  BY SameDisk, ZenonT(30)
<1>4. \A n : KernelFile(n)' = KernelFile(n)
  BY <1>3, ZenonT(30) DEF KernelFile
<1> QED BY <1>1, <1>2, <1>3, <1>4, SameDisk, ZenonT(30)

\* fat_init: the search begins, with no entry passed, or the format is not one for stage 2.
LEMMA FatInitInv ==
  ASSUME Inv, fat_init
  PROVE  Inv'
<1>1. /\ UNCHANGED <<format, root, fat, stage2At, loaded, hardError, i>> /\ pc = "boot sector"
      /\ pc' # "overrun"
  BY ZenonT(30) DEF fat_init, ReadSucceeds, Hang, disk, file
<1>2. DiskInv' /\ Stage2InPlace' /\ (ValidFormat(format)' <=> ValidFormat(format))
      /\ (\A n : Files(n)' = Files(n)) /\ entries' = entries
      /\ RootSectors(format)' = RootSectors(format)
  BY <1>1, Stage2Steps, ZenonT(30)
<1>3. DiskInv /\ i = 0 /\ name83 = KERNEL /\ loaded = <<>> /\ hardError \in BOOLEAN /\ format \in Formats
  <2>1. i = 0 /\ name83 = KERNEL
    BY <1>1, ZenonT(30) DEF Inv, SearchInv
  <2>2. loaded = <<>>
    BY <1>1, ZenonT(30) DEF Inv, LoadInv
  <2>3. DiskInv /\ Types
    BY DEF Inv
  <2>4. hardError \in BOOLEAN
    BY <2>3, ZenonT(30) DEF Types
  <2>5. format \in Formats
    BY <2>3 DEF DiskInv
  <2> QED BY <2>1, <2>2, <2>3, <2>4, <2>5
<1>4. fat_init_rejects <=> ~ValidFormat(format)
  BY <1>3, RejectsOthers
<1>5. g_root_dir_sectors = RootSectors(format)
  BY <1>3, Layout
<1>6. \/ ~ValidFormat(format) /\ pc' = "hang" /\ name83' = KERNEL
      \/ ValidFormat(format) /\ RootSectors(format) = 0 /\ pc' = "hang" /\ name83' = KERNEL_BIN
      \/ ValidFormat(format) /\ RootSectors(format) # 0 /\ pc' = "search" /\ name83' = KERNEL
  BY <1>3, <1>4, <1>5, ZenonT(30) DEF fat_init, Hang
<1>7. ASSUME ValidFormat(format), RootSectors(format) = 0, NEW n PROVE Files(n) = {}
  <2>1. format.bytesPerSector # 0
    BY <1>3, <1>7, ValidNumbers
  <2>2. entries \in Nat /\ RootLength(format) = RootSectors(format) * entries
    BY <1>3, <2>1, FormatNumbers, Layout
  <2>3. RootLength(format) = 0
    BY <1>7, <2>2
  <2> QED BY <2>3 DEF Files
<1>8. Types'
  BY <1>1, <1>3, <1>6, ZenonT(30) DEF Types, Reading, Halted
<1>9. SearchInv'
  <2>1. CASE pc' = "hang"
    BY <1>1, <1>2, <1>6, <1>7, <2>1, KernelNames, ZenonT(30) DEF SearchInv
  <2>2. CASE pc' = "search"
    <3>1. ValidFormat(format) /\ RootSectors(format) # 0 /\ name83' = KERNEL
      BY <1>6, <2>2
    <3>2. RootSectors(format) \in Nat /\ entries \in Nat
      BY <1>3, <3>1, FormatNumbers, ValidNumbers
    <3>3. 0 < RootSectors(format) /\ 0 * entries = 0
      BY <3>1, <3>2
    <3>4. Passed(i * entries)'
      <4>1. (i * entries)' = 0
        BY <1>1, <1>2, <1>3, <3>3, ZenonT(30)
      <4> QED BY <4>1 DEF Passed
    <3> QED BY <1>1, <1>2, <1>3, <2>2, <3>1, <3>3, <3>4, KernelNames, ZenonT(30) DEF SearchInv
  <2> QED BY <1>6, <2>1, <2>2
<1>10. LoadInv' /\ StartsWholeKernel'
  BY <1>1, <1>3, <1>6, ZenonT(30) DEF LoadInv, StartsWholeKernel
<1>11. GivesUpForCause'
  BY <1>1, <1>2, <1>6, <1>7, ZenonT(30) DEF GivesUpForCause
<1> QED BY <1>2, <1>8, <1>9, <1>10, <1>11 DEF Inv

-----------------------------------------------------------------------------
\* What the invariant says while the directory is read.
LEMMA Searching ==
  ASSUME Inv, pc = "search"
  PROVE  /\ DiskInv /\ ValidFormat(format) /\ format \in Formats
         /\ i \in Nat /\ i < RootSectors(format) /\ Passed(i * entries)
         /\ name83 \in Name83s /\ name83 \in {KERNEL, KERNEL_BIN}
         /\ RootLength(format) \in Nat /\ loaded = <<>> /\ OnDrive
<1>1. DiskInv /\ Types /\ SearchInv /\ LoadInv
  BY DEF Inv
<1>2. ValidFormat(format) /\ i < RootSectors(format) /\ Passed(i * entries)
  BY <1>1 DEF SearchInv
<1>3. i \in Nat /\ name83 \in {KERNEL, KERNEL_BIN}
  BY <1>1 DEF Types
<1>4. format \in Formats
  BY <1>1 DEF DiskInv
<1>5. RootLength(format) \in Nat
  BY <1>1, <1>2, <1>3, SectorRange
<1>6. loaded = <<>>
  BY <1>1 DEF LoadInv
<1>7. OnDrive
  BY <1>1, <1>2, <1>3, SystemAreaOnDrive
<1> QED BY <1>1, <1>2, <1>3, <1>4, <1>5, <1>6, <1>7, KernelNames, ZenonT(30)

\* The search for a name comes to nothing: the file is not there, or a read failed
\* for good.
LEMMA NotFoundInv ==
  ASSUME Inv, pc = "search", NotFound, hardError' \in BOOLEAN, hardError => hardError',
         UNCHANGED <<format, root, fat, stage2At, loaded>>,
         Files(name83) = {} \/ hardError'
  PROVE  Inv'
<1>1. /\ ValidFormat(format) /\ name83 \in {KERNEL, KERNEL_BIN} /\ loaded = <<>>
      /\ i < RootSectors(format) /\ i \in Nat /\ DiskInv
  BY Searching
<1>2. /\ pc' \in {"search", "dump"} /\ (pc' = "dump" => name83 # KERNEL)
      /\ name83' = KERNEL_BIN /\ i' = 0
  BY DEF NotFound
<1>3. DiskInv' /\ Stage2InPlace' /\ (ValidFormat(format)' <=> ValidFormat(format))
      /\ (\A n : Files(n)' = Files(n)) /\ entries' = entries
      /\ RootSectors(format)' = RootSectors(format)
  BY <1>2, Stage2Steps
<1>4. Types'
  BY <1>2, ZenonT(30) DEF Types, Reading
<1>5. ~hardError' => Files(KERNEL) = {}
  <2>1. CASE name83 = KERNEL
    BY <2>1
  <2>2. CASE name83 = KERNEL_BIN
    BY <1>1, <2>2 DEF Inv, SearchInv
  <2> QED BY <1>1, <2>1, <2>2
<1>6. pc' = "dump" => name83 = KERNEL_BIN
  BY <1>1, <1>2
<1>7. RootSectors(format) \in Nat /\ entries \in Nat
  BY <1>1, FormatNumbers, ValidNumbers
<1>8. 0 < RootSectors(format)
  BY <1>1, <1>7
<1>9. Passed(i * entries)'
  <2>1. (i * entries)' = 0
    BY <1>3, <1>2, <1>7
  <2> QED BY <2>1 DEF Passed
<1>10. SearchInv'
  BY <1>1, <1>2, <1>3, <1>5, <1>6, <1>8, <1>9, KernelNames, ZenonT(30) DEF SearchInv
<1>11. LoadInv' /\ StartsWholeKernel' /\ GivesUpForCause'
  BY <1>1, <1>2 DEF LoadInv, StartsWholeKernel, GivesUpForCause
<1> QED BY <1>3, <1>4, <1>10, <1>11 DEF Inv

\* A sector of the directory decides nothing: it is passed, or there is no such file.
LEMMA FindContinuesInv ==
  ASSUME Inv, find_continues
  PROVE  Inv'
<1>1. /\ pc = "search" /\ Deciding = {} /\ UNCHANGED <<format, root, fat, stage2At, loaded, hardError>>
      /\ NextSector(NotFound)
  BY DEF find_continues, ReadSucceeds, disk, file
<1>2. /\ DiskInv /\ ValidFormat(format) /\ format \in Formats
      /\ i \in Nat /\ i < RootSectors(format) /\ Passed(i * entries)
      /\ name83 \in Name83s /\ RootLength(format) \in Nat /\ loaded = <<>>
  BY <1>1, Searching
<1>3. Passed((i + 1) * entries)
  BY <1>1, <1>2, PassedSector
<1>4. g_root_dir_sectors = RootSectors(format)
  BY <1>2, Layout
<1>5. hardError' \in BOOLEAN /\ (hardError => hardError')
  BY <1>1 DEF Inv, Types
<1>6. CASE i + 1 < RootSectors(format)
  <2>1. i' = i + 1 /\ UNCHANGED <<pc, name83>>
    BY <1>1, <1>4, <1>6 DEF NextSector
  <2>2. DiskInv' /\ Stage2InPlace' /\ (ValidFormat(format)' <=> ValidFormat(format))
        /\ (\A n : Files(n)' = Files(n)) /\ entries' = entries
        /\ RootSectors(format)' = RootSectors(format)
    BY <1>1, <2>1, Stage2Steps, ZenonT(30)
  <2>3. Types'
    BY <1>1, <1>2, <2>1 DEF Inv, Types
  <2>4. Passed(i * entries)'
    <3>1. (i * entries)' = (i + 1) * entries
      BY <2>1, <2>2
    <3> QED BY <1>1, <1>3, <2>1, <3>1, ZenonT(30) DEF Passed, IsFile
  <2>5. name83 = KERNEL_BIN /\ ~hardError => Files(KERNEL) = {}
    BY <1>2, ZenonT(30) DEF Inv, SearchInv
  <2>6. SearchInv'
    BY <1>1, <1>2, <1>6, <2>1, <2>2, <2>4, <2>5, ZenonT(30) DEF SearchInv
  <2>7. LoadInv' /\ StartsWholeKernel' /\ GivesUpForCause'
    BY <1>1, <1>2, <2>1, ZenonT(30) DEF LoadInv, StartsWholeKernel, GivesUpForCause
  <2> QED BY <2>2, <2>3, <2>6, <2>7, ZenonT(30) DEF Inv
<1>7. CASE ~(i + 1 < RootSectors(format))
  <2>1. NotFound
    BY <1>1, <1>4, <1>7, ZenonT(30) DEF NextSector
  <2>2. RootSectors(format) \in Nat
    BY <1>2, FormatNumbers, ValidNumbers
  <2>3. (i + 1) * entries = RootLength(format)
    BY <1>2, <1>7, <2>2, SectorRange
  <2>4. Files(name83) = {}
    BY <1>2, <1>3, <2>3, NoFile
  <2> QED BY <1>1, <1>5, <2>1, <2>4, NotFoundInv
<1> QED BY <1>6, <1>7

\* The end of the directory is found: there is no such file.
LEMMA FindEndsInv ==
  ASSUME Inv, find_ends
  PROVE  Inv'
<1>1. /\ pc = "search" /\ Deciding # {} /\ root[Min(Deciding)].kind = "end" /\ NotFound
      /\ UNCHANGED <<format, root, fat, stage2At, loaded, hardError>>
  BY ZenonT(30) DEF find_ends, ReadSucceeds, disk, file
<1>2. /\ DiskInv /\ ValidFormat(format) /\ i \in Nat /\ i < RootSectors(format)
      /\ Passed(i * entries) /\ name83 \in Name83s /\ RootLength(format) \in Nat
  BY <1>1, Searching
<1>3. PICK m : m = Min(Deciding)
  OBVIOUS
<1>4. m \in 1 .. RootLength(format) /\ Passed(m - 1)
  BY <1>1, <1>2, <1>3, FirstDeciding
<1>5. m - 1 \in Nat /\ (m - 1) + 1 = m
  BY <1>2, <1>4
<1>6. Files(name83) = {}
  BY <1>1, <1>2, <1>3, <1>4, <1>5, NoFile, ZenonT(30)
<1>7. hardError' \in BOOLEAN /\ (hardError => hardError')
  BY <1>1 DEF Inv, Types
<1> QED BY <1>1, <1>6, <1>7, NotFoundInv

\* The file is found: it is the one the name stands for.
LEMMA FindSucceedsInv ==
  ASSUME Inv, find_succeeds
  PROVE  Inv'
<1>1. PICK m : m = Min(Deciding)
  OBVIOUS
<1>2. /\ pc = "search" /\ Deciding # {} /\ root[m].kind # "end"
      /\ cluster' = root[m].first /\ remaining' = root[m].size /\ linear' = LoadBase
      /\ pc' = IF root[m].first < 2 THEN "hang" ELSE "table"
      /\ i' = 0
      /\ UNCHANGED <<format, root, fat, stage2At, name83, loaded, hardError>>
  BY <1>1, ZenonT(30) DEF find_succeeds, ReadSucceeds, disk
<1>3. /\ DiskInv /\ ValidFormat(format) /\ i \in Nat /\ i < RootSectors(format)
      /\ Passed(i * entries) /\ name83 \in Name83s /\ name83 \in {KERNEL, KERNEL_BIN}
      /\ RootLength(format) \in Nat /\ loaded = <<>>
  BY <1>2, Searching
<1>4. m \in 1 .. RootLength(format) /\ Passed(m - 1) /\ root[m] \in Entry /\ IsFile(m, name83)
  BY <1>1, <1>2, <1>3, FirstDeciding, ZenonT(30)
<1>5. Files(name83) # {} /\ KernelFile(name83) = root[m]
  BY <1>3, <1>4, FirstFile, ZenonT(30)
<1>6. /\ DiskInv' /\ Stage2InPlace' /\ (ValidFormat(format)' <=> ValidFormat(format))
      /\ \A n : Files(n)' = Files(n) /\ KernelFile(n)' = KernelFile(n)
      /\ \A e : Intact(e)' <=> Intact(e)
  BY <1>2, Stage2Steps
<1>7. name83 = KERNEL_BIN /\ ~hardError => Files(KERNEL) = {}
  BY <1>3, ZenonT(30) DEF Inv, SearchInv
<1>8. Types'
  BY <1>2, ZenonT(30) DEF Inv, Types, Reading, Halted
<1>9. SearchInv'
  BY <1>2, <1>3, <1>6, <1>7, ZenonT(30) DEF SearchInv
<1>10. root[m].first \in Nat
  BY <1>4 DEF Entry, Half, Below
<1>11. format.sectorsPerFat \in Nat /\ 0 < format.sectorsPerFat
  BY <1>3, ClusterSize
<1>12. KernelFile(name83)' = root[m] /\ Files(name83)' # {}
  BY <1>2, <1>5, <1>6, ZenonT(30)
<1>13. LoadInv'
  <2>1. /\ loaded' = <<>> /\ i' = 0 /\ format' = format
        /\ cluster' = root[m].first /\ remaining' = root[m].size /\ linear' = LoadBase
    BY <1>2, <1>3, ZenonT(30)
  <2>2. pc' = "hang" \/ (pc' = "table" /\ root[m].first >= 2)
    BY <1>2, <1>10
  <2> QED BY <1>11, <1>12, <2>1, <2>2, ZenonT(30) DEF LoadInv
<1>14. StartsWholeKernel'
  BY <1>2, ZenonT(30) DEF StartsWholeKernel
<1>15. GivesUpForCause'
  <2> SUFFICES ASSUME pc' = "hang", ~hardError'
               PROVE  /\ Files(KERNEL) # {} \/ Files(KERNEL_BIN) # {}
                      /\ ~Intact(KernelFile(IF Files(KERNEL) # {} THEN KERNEL ELSE KERNEL_BIN))
    BY <1>6 DEF GivesUpForCause
  <2>1. ~Intact(KernelFile(name83))
    <3>1. root[m].first < 2
      BY <1>2
    <3> QED BY <1>5, <1>10, <3>1 DEF Intact
  <2>2. CASE name83 = KERNEL
    BY <1>5, <2>1, <2>2, ZenonT(30)
  <2>3. CASE name83 = KERNEL_BIN
    <3>1. Files(KERNEL) = {}
      BY <1>2, <1>7, <2>3
    <3> QED BY <1>5, <2>1, <2>3, <3>1, ZenonT(30)
  <2> QED BY <1>3, <2>2, <2>3
<1> QED BY <1>6, <1>8, <1>9, <1>13, <1>14, <1>15, ZenonT(30) DEF Inv

\* debug_dump_root_dir, after both searches failed.
LEMMA DumpInv ==
  ASSUME Inv, dump
  PROVE  Inv'
<1>1. /\ pc = "dump" /\ UNCHANGED <<format, root, fat, stage2At, name83, loaded, hardError>>
      /\ \/ pc' = "hang" /\ i' = i
         \/ pc' = "dump" /\ i' = i + 1 /\ i + 1 < g_root_dir_sectors
  <2>1. /\ pc = "dump" /\ UNCHANGED <<format, root, fat, stage2At, name83, loaded, hardError>>
        /\ \/ pc' = "hang" /\ i' = i
           \/ pc' = "dump" /\ i' = i + 1 /\ ~(i + 1 >= g_root_dir_sectors)
    BY DEF dump, ReadSucceeds, disk, file
  <2>2. g_root_dir_sectors \in Nat /\ i \in Nat
    <3>1. DiskInv /\ ValidFormat(format) /\ i \in Nat
      BY <2>1 DEF Inv, SearchInv, Types
    <3>2. format \in Formats /\ RootSectors(format) \in Nat
      BY <3>1, FormatNumbers, ValidNumbers DEF DiskInv
    <3> QED BY <3>1, <3>2, Layout
  <2> QED BY <2>1, <2>2
<1>2. DiskInv /\ ValidFormat(format) /\ i \in Nat /\ loaded = <<>> /\ name83 = KERNEL_BIN
  BY <1>1, KernelNames, ZenonT(30) DEF Inv, SearchInv, Types, LoadInv
<1>3. ~hardError => Files(KERNEL) = {} /\ Files(KERNEL_BIN) = {}
  BY <1>1, <1>2 DEF Inv, SearchInv
<1>4. /\ DiskInv' /\ Stage2InPlace' /\ (ValidFormat(format)' <=> ValidFormat(format))
      /\ RootSectors(format)' = RootSectors(format)
      /\ \A n : Files(n)' = Files(n)
  BY <1>1, Stage2Steps
<1>5. Types'
  <2>1. i' \in Nat
    BY <1>1, <1>2
  <2>2. hardError \in BOOLEAN
    BY ZenonT(30) DEF Inv, Types
  <2> QED BY <1>1, <1>2, <2>1, <2>2, ZenonT(30) DEF Types, Reading, Halted
<1>6. g_root_dir_sectors = RootSectors(format)
  BY <1>2, Layout DEF DiskInv
<1>7. SearchInv'
  BY <1>1, <1>2, <1>3, <1>4, <1>6, ZenonT(30) DEF SearchInv
<1>8. LoadInv' /\ StartsWholeKernel'
  BY <1>1, <1>2 DEF LoadInv, StartsWholeKernel
<1>9. GivesUpForCause'
  BY <1>1, <1>3, <1>4, ZenonT(30) DEF GivesUpForCause
<1> QED BY <1>4, <1>5, <1>7, <1>8, <1>9, ZenonT(30) DEF Inv

-----------------------------------------------------------------------------
\* What the invariant says while the file is loaded.
LEMMA LoadingFile ==
  ASSUME Inv, pc \in {"table", "load"}
  PROVE  /\ DiskInv /\ ValidFormat(format) /\ format \in Formats /\ i \in Nat
         /\ name83 \in {KERNEL, KERNEL_BIN}
         /\ Files(name83) # {} /\ KernelFile(name83) \in Entry /\ KernelFile(name83).first >= 2
         /\ name83 = KERNEL_BIN /\ ~hardError => Files(KERNEL) = {}
<1>1. DiskInv /\ Types /\ SearchInv /\ LoadInv
  BY DEF Inv
<1>2. ValidFormat(format) /\ (name83 = KERNEL_BIN /\ ~hardError => Files(KERNEL) = {})
  BY <1>1, ZenonT(30) DEF SearchInv
<1>3. i \in Nat /\ name83 \in {KERNEL, KERNEL_BIN}
  BY <1>1, ZenonT(30) DEF Types
<1>4. format \in Formats
  BY <1>1 DEF DiskInv
<1>5. Files(name83) # {} /\ KernelFile(name83).first >= 2
  BY <1>1 DEF LoadInv
<1>6. KernelFile(name83) \in Entry
  BY <1>1, <1>2, <1>5, FileIsEntry, ZenonT(30)
<1> QED BY <1>1, <1>2, <1>3, <1>4, <1>5, <1>6, ZenonT(30)

\* The file found is the one to load, so that its fault is the disk's.
LEMMA FileAtFault ==
  ASSUME Inv, pc \in {"table", "load"}, ~Intact(KernelFile(name83)), ~hardError
  PROVE  /\ Files(KERNEL) # {} \/ Files(KERNEL_BIN) # {}
         /\ ~Intact(KernelFile(IF Files(KERNEL) # {} THEN KERNEL ELSE KERNEL_BIN))
<1>1. /\ name83 \in {KERNEL, KERNEL_BIN} /\ Files(name83) # {}
      /\ name83 = KERNEL_BIN => Files(KERNEL) = {}
  BY LoadingFile
<1>2. CASE name83 = KERNEL
  BY <1>1, <1>2
<1>3. CASE name83 = KERNEL_BIN
  BY <1>1, <1>3
<1> QED BY <1>1, <1>2, <1>3

\* A read fails for the third time: for a hard error or because the drive does not have the cluster.
LEMMA ReadFailsInv ==
  ASSUME Inv, read_fails
  PROVE  Inv'
<1>1. /\ pc \in Reading /\ hardError' = (hardError \/ OnDrive)
      /\ UNCHANGED <<format, root, fat, stage2At, loaded>>
      /\ IF pc = "search" THEN NotFound ELSE Hang
  BY DEF read_fails, disk, file
<1>2. hardError' \in BOOLEAN /\ (hardError => hardError')
  BY <1>1, ZenonT(30) DEF Inv, Types
<1>3. CASE pc = "search"
  <2>1. OnDrive
    BY <1>3, Searching
  <2>2. hardError' /\ NotFound
    BY <1>1, <1>3, <2>1, ZenonT(30)
  <2> QED BY <1>1, <1>2, <1>3, <2>2, NotFoundInv, ZenonT(30)
<1>4. CASE pc # "search"
  <2>1. pc' = "hang" /\ UNCHANGED <<i, name83>>
    BY <1>1, <1>4 DEF Hang
  <2>2. pc \in {"boot sector", "dump", "table", "load"} /\ i \in Nat
    BY <1>1, <1>4, ZenonT(30) DEF Reading, Inv, Types
  <2>3. /\ DiskInv' /\ Stage2InPlace' /\ (ValidFormat(format)' <=> ValidFormat(format))
        /\ \A n : Files(n)' = Files(n) /\ KernelFile(n)' = KernelFile(n)
        /\ \A e : Intact(e)' <=> Intact(e)
    BY <1>1, <2>1, <2>2, Stage2Steps, ZenonT(30)
  <2>4. Types'
    BY <1>2, <2>1, ZenonT(30) DEF Inv, Types, Halted
  <2>5. SearchInv'
    <3>1. name83 = KERNEL_BIN /\ ~hardError /\ ValidFormat(format) => Files(KERNEL) = {}
      BY ZenonT(30) DEF Inv, SearchInv
    <3> QED BY <1>2, <2>1, <2>3, <3>1 DEF SearchInv
  <2>6. LoadInv' /\ StartsWholeKernel'
    BY <2>1 DEF LoadInv, StartsWholeKernel
  <2>7. GivesUpForCause'
    <3> SUFFICES ASSUME ~hardError', ValidFormat(format), Files(KERNEL) # {} \/ Files(KERNEL_BIN) # {}
                 PROVE  ~Intact(KernelFile(IF Files(KERNEL) # {} THEN KERNEL ELSE KERNEL_BIN))
      BY <2>3 DEF GivesUpForCause
    <3>1. ~hardError /\ ~OnDrive
      BY <1>1, ZenonT(30)
    <3>2. pc # "boot sector"
      <4> SUFFICES ASSUME pc = "boot sector" PROVE FALSE
        BY ZenonT(30)
      <4>1. Lba = 0
        BY ZenonT(30) DEF Lba
      <4> QED BY <3>1, <4>1, BootSectorOnDrive, ZenonT(30) DEF OnDrive
    <3>3. pc # "dump"
      <4> SUFFICES ASSUME pc = "dump" PROVE FALSE
        OBVIOUS
      <4>1. DiskInv /\ i < RootSectors(format)
        BY DEF Inv, SearchInv
      <4> QED BY <2>2, <3>1, <4>1, SystemAreaOnDrive
    <3>4. pc # "table"
      <4> SUFFICES ASSUME pc = "table" PROVE FALSE
        OBVIOUS
      <4>1. DiskInv /\ i < format.sectorsPerFat
        BY DEF Inv, LoadInv
      <4> QED BY <2>2, <3>1, <4>1, SystemAreaOnDrive
    <3>5. pc = "load"
      BY <2>2, <3>2, <3>3, <3>4, ZenonT(30)
    <3>6. PICK e : e = KernelFile(name83)
      OBVIOUS
    <3>7. DiskInv /\ e \in Entry
      BY <3>5, <3>6, LoadingFile
    <3>8. PICK k \in Nat : Loading(e, k, i, cluster, remaining, loaded)
      BY <3>5, <3>6, ZenonT(30) DEF Inv, LoadInv
    <3>9. Chains(e) = {}
      BY <3>1, <3>5, <3>7, <3>8, LostSector
    <3>10. ~Intact(KernelFile(name83))
      BY <3>6, <3>9 DEF Intact
    <3> QED BY <3>1, <3>5, <3>10, FileAtFault, ZenonT(30)
  <2> QED BY <2>3, <2>4, <2>5, <2>6, <2>7, ZenonT(30) DEF Inv
<1> QED BY <1>3, <1>4

\* An empty file is intact, and nothing is loaded for it.
LEMMA EmptyFile ==
  ASSUME DiskInv, ValidFormat(format), NEW e \in Entry, e.size = 0
  PROVE  Chains(e) # {} /\ (\A c \in Chains(e) : <<>> = Contents(e, c)) /\ Fits(e)
<1>1. SectorsOf(e) \in Nat /\ ClustersOf(e) \in Nat /\ ~(0 < SectorsOf(e)) /\ ~(0 < ClustersOf(e))
  <2>1. SectorsOf(e) \in Nat /\ ClustersOf(e) \in Nat
    BY FileSizes
  <2>2. 0 * format.bytesPerSector = 0 /\ 0 * format.sectorsPerCluster = 0
    BY ClusterSize
  <2>3. ~(0 < SectorsOf(e))
    <3>1. 0 < SectorsOf(e) <=> 0 * format.bytesPerSector < e.size
      BY FileSizes
    <3> QED BY <2>2, <3>1
  <2>4. ~(0 < ClustersOf(e))
    <3>1. 0 < ClustersOf(e) <=> 0 * format.sectorsPerCluster < SectorsOf(e)
      BY FileSizes
    <3> QED BY <2>2, <2>3, <3>1
  <2> QED BY <2>1, <2>3, <2>4
<1>2. SectorsOf(e) = 0 /\ ClustersOf(e) = 0
  BY <1>1
<1>3. PICK c : c = [n \in 0 .. -1 |-> 2]
  OBVIOUS
<1>4. c \in [0 .. ClustersOf(e) - 1 -> 2 .. Clusters(format) + 2]
  BY <1>2, <1>3
<1>5. c \in Chains(e)
  BY <1>2, <1>4 DEF Chains
<1>6. ASSUME NEW x \in Chains(e) PROVE <<>> = Contents(e, x)
  BY <1>2 DEF Contents
<1>7. Fits(e)
  BY <1>2, Constants, Addresses DEF Fits
<1> QED BY <1>5, <1>6, <1>7

\* The load begins with the first cluster.
LEMMA FirstCluster ==
  ASSUME DiskInv, ValidFormat(format), NEW e \in Entry, e.first >= 2, e.size # 0
  PROVE  Loading(e, 0, 0, e.first, e.size, <<>>)
<1>1. /\ format.sectorsPerCluster \in Nat /\ format.sectorsPerCluster > 0
      /\ format.bytesPerSector \in Nat /\ format.bytesPerSector > 0
  BY ClusterSize
<1>2. e.first \in Half /\ e.first \in Nat /\ e.size \in Nat /\ e.size > 0
  BY DEF Entry, Half, Below
<1>3. 0 < ClustersOf(e)
  <2>1. 0 * format.bytesPerSector = 0 /\ 0 * format.sectorsPerCluster = 0
    BY <1>1
  <2>2. 0 < SectorsOf(e) <=> 0 * format.bytesPerSector < e.size
    BY FileSizes
  <2>3. 0 < ClustersOf(e) <=> 0 * format.sectorsPerCluster < SectorsOf(e)
    BY FileSizes
  <2> QED BY <1>2, <2>1, <2>2, <2>3
<1>4. \A x \in Chains(e) : x[0] = e.first
  <2>1. ClustersOf(e) > 0
    BY <1>3, FileSizes
  <2> QED BY <2>1 DEF Chains
<1>5. PICK c : c = [n \in 0 .. 0 |-> e.first]
  BY ZenonT(30)
<1>6. c \in [0 .. 0 -> Nat] /\ c[0] = e.first
  BY <1>2, <1>5
<1>7. <<>> \in Seq(Int) /\ Len(<<>>) = 0
  OBVIOUS
<1>8. 0 = 0 * format.sectorsPerCluster + 0 /\ 0 * format.bytesPerSector + e.size = e.size
  BY <1>1, <1>2
<1>9. PICK none : none = <<>>
  OBVIOUS
<1>10. Followed(e, 0, c, e.first, none)
  BY <1>6, <1>7, <1>9 DEF Followed
<1>11. \A x \in Chains(e) : x[0] = e.first /\ \A n \in 1 .. Len(none) : none[n] = SectorOf(x, n)
  BY <1>4, <1>7, <1>9
<1>12. none \in Seq(Int) /\ Len(none) = 0
  BY <1>7, <1>9
<1>13. Loading(e, 0, 0, e.first, e.size, none)
  BY <1>1, <1>2, <1>6, <1>8, <1>10, <1>11, <1>12 DEF Loading
<1> QED BY <1>9, <1>13

\* A read stored outside its memory, where the table or the file is too long.
LEMMA OverrunInv ==
  ASSUME Inv, pc \in {"table", "load"}, pc' = "overrun", UNCHANGED i,
         UNCHANGED <<format, root, fat, stage2At, name83, hardError>>,
         TableBytes(format) > TableRoom \/ ~Fits(KernelFile(name83))
  PROVE  Inv'
<1>1. /\ DiskInv /\ ValidFormat(format) /\ i \in Nat /\ name83 \in {KERNEL, KERNEL_BIN}
      /\ name83 = KERNEL_BIN /\ ~hardError => Files(KERNEL) = {}
  BY LoadingFile
<1>2. /\ DiskInv' /\ (ValidFormat(format)' <=> ValidFormat(format)) /\ (\A n : Files(n)' = Files(n))
      /\ \A e : Fits(e)' <=> Fits(e)
  BY <1>1, SameDisk, ZenonT(30)
<1>3. Types'
  BY <1>1, ZenonT(30) DEF Inv, Types, Halted
<1>4. SearchInv'
  BY <1>1, <1>2, ZenonT(30) DEF SearchInv
<1>5. LoadInv' /\ StartsWholeKernel' /\ GivesUpForCause'
  BY ZenonT(30) DEF LoadInv, StartsWholeKernel, GivesUpForCause
<1>6. Stage2InPlace'
  <2>1. stage2At = Stage2FirstLba
    BY ZenonT(30) DEF Inv, Stage2InPlace
  <2>2. KernelFile(name83)' = KernelFile(name83) /\ TableBytes(format)' = TableBytes(format)
    BY <1>2 DEF KernelFile
  <2> QED BY <1>2, <2>1, <2>2, ZenonT(30) DEF Stage2InPlace
<1> QED BY <1>2, <1>3, <1>4, <1>5, <1>6, ZenonT(30) DEF Inv

\* A sector of a table that has room is stored in it.
LEMMA TableStored ==
  ASSUME DiskInv, ValidFormat(format), NEW n \in Nat, n < format.sectorsPerFat,
         TableBytes(format) <= TableRoom
  PROVE  LET dstOff == uint16(FatSeg + n * g_bytes_per_sector) IN
         ~(dstOff < FatSeg \/ dstOff + SectorSize > FatSeg + TableRoom)
<1>1. /\ g_bytes_per_sector = SectorSize /\ TableBytes(format) = format.sectorsPerFat * SectorSize
      /\ format.sectorsPerFat \in Nat
  BY Fields, ClusterSize DEF DiskInv, TableBytes
<1>2. n * SectorSize + SectorSize <= format.sectorsPerFat * SectorSize
  BY <1>1, Constants, Products
<1>3. PICK y : y = n * SectorSize
  OBVIOUS
<1>4. y \in Nat /\ TableBytes(format) \in Nat
  BY <1>3, Constants, TableLength
<1>5. y + SectorSize <= TableRoom
  BY <1>1, <1>2, <1>3, <1>4, Constants, Addresses
<1>6. uint16(FatSeg + y) = FatSeg + y
  BY <1>4, <1>5, Constants, Addresses DEF uint16
<1> QED BY <1>1, <1>3, <1>4, <1>5, <1>6, Constants, Addresses

\* A sector of the table is read; after the last one the load begins at the first cluster.
LEMMA FatReadTableInv ==
  ASSUME Inv, fat_read_table
  PROVE  Inv'
<1>1. /\ pc = "table"
      /\ UNCHANGED <<format, root, fat, stage2At, name83, cluster, remaining, linear, loaded, hardError>>
  BY ZenonT(30) DEF fat_read_table, ReadSucceeds, disk, file
<1>2. PICK e : e = KernelFile(name83)
  OBVIOUS
<1>3. /\ DiskInv /\ ValidFormat(format) /\ format \in Formats /\ i \in Nat
      /\ name83 \in {KERNEL, KERNEL_BIN} /\ Files(name83) # {} /\ e \in Entry /\ e.first >= 2
      /\ name83 = KERNEL_BIN /\ ~hardError => Files(KERNEL) = {}
  BY <1>1, <1>2, LoadingFile, ZenonT(30)
<1>4. cluster = e.first /\ remaining = e.size /\ linear = LoadBase /\ loaded = <<>>
  BY <1>1, <1>2, ZenonT(30) DEF Inv, LoadInv
<1>5. \/ /\ pc' = "overrun" /\ i' = i
         /\ LET dstOff == uint16(FatSeg + i * g_bytes_per_sector) IN
            dstOff < FatSeg \/ dstOff + SectorSize > FatSeg + TableRoom
      \/ IF i + 1 < g_sectors_per_fat
         THEN i' = i + 1 /\ pc' = "table"
         ELSE i' = 0 /\ pc' = IF remaining = 0 THEN "kernel" ELSE "load"
  BY <1>1, ZenonT(30) DEF fat_read_table
<1>6. CASE pc' = "overrun"
  <2>1. /\ i' = i
        /\ LET dstOff == uint16(FatSeg + i * g_bytes_per_sector) IN
           dstOff < FatSeg \/ dstOff + SectorSize > FatSeg + TableRoom
    BY <1>5, <1>6
  <2>2. i < format.sectorsPerFat
    BY <1>1, ZenonT(30) DEF Inv, LoadInv
  <2>3. ~(TableBytes(format) <= TableRoom)
    BY <1>3, <2>1, <2>2, TableStored, ZenonT(30)
  <2>4. TableBytes(format) > TableRoom
    BY <1>3, <2>3, TableLength, Addresses
  <2> QED BY <1>1, <1>6, <2>1, <2>4, OverrunInv, ZenonT(30)
<1>7. CASE pc' # "overrun"
  <2>1. /\ DiskInv' /\ Stage2InPlace' /\ (ValidFormat(format)' <=> ValidFormat(format))
        /\ \A n : Files(n)' = Files(n) /\ KernelFile(n)' = KernelFile(n)
        /\ \A x : Chains(x)' = Chains(x) /\ (Intact(x)' <=> Intact(x))
        /\ \A x, c : Contents(x, c)' = Contents(x, c)
        /\ \A x : (Enclosed(x)' <=> Enclosed(x)) /\ (Fits(x)' <=> Fits(x))
    BY <1>1, <1>7, Stage2Steps, ZenonT(30)
  <2>2. KernelFile(name83)' = e /\ Files(name83)' # {}
    BY <1>1, <1>2, <1>3, <2>1, ZenonT(30)
  <2>3. IF i + 1 < g_sectors_per_fat
        THEN i' = i + 1 /\ pc' = "table"
        ELSE i' = 0 /\ pc' = IF remaining = 0 THEN "kernel" ELSE "load"
    BY <1>5, <1>7, ZenonT(30)
  <2>4. g_sectors_per_fat = format.sectorsPerFat
    BY <1>3, Fields
  <2>5. i' \in Nat /\ pc' \in {"table", "load", "kernel"}
    BY <1>3, <2>3
  <2>6. Types'
    BY <1>1, <1>3, <2>5, ZenonT(30) DEF Inv, Types, Reading, Halted
  <2>7. SearchInv'
    BY <1>1, <1>3, <2>1, <2>5, ZenonT(30) DEF SearchInv
  <2>8. LoadInv'
    <3>1. CASE pc' = "table"
      BY <1>1, <1>3, <1>4, <2>2, <2>3, <2>4, <3>1, ZenonT(30) DEF LoadInv
    <3>2. CASE pc' = "load"
      <4>1. i' = 0 /\ e.size # 0
        BY <1>4, <2>3, <3>2, ZenonT(30)
      <4>2. Loading(e, 0, 0, e.first, e.size, <<>>)
        BY <1>3, <4>1, FirstCluster
      <4>3. Loading(e, 0, i, cluster, remaining, loaded)'
        <5>1. Loading(e, 0, i', cluster', remaining', loaded')
          BY <1>1, <1>4, <4>1, <4>2, ZenonT(30)
        <5> QED BY <1>1, <5>1, LoadingNext, ZenonT(30)
      <4>4. linear' = LoadBase + Len(loaded') * SectorSize /\ linear' <= MemoryEnd
        <5>1. Len(loaded') = 0
          BY <1>1, <1>4
        <5> QED BY <1>1, <1>4, <5>1, Constants, Addresses
      <4> QED BY <1>3, <2>2, <3>2, <4>3, <4>4, ZenonT(30) DEF LoadInv
    <3>3. CASE pc' = "kernel"
      BY <3>3 DEF LoadInv
    <3> QED BY <2>5, <3>1, <3>2, <3>3, ZenonT(30)
  <2>9. GivesUpForCause'
    BY <2>5, ZenonT(30) DEF GivesUpForCause
  <2>10. StartsWholeKernel'
    <3> SUFFICES ASSUME pc' = "kernel"
                 PROVE  /\ Chains(e) # {} /\ Fits(e)
                        /\ \A c \in Chains(e) : loaded = Contents(e, c)
                        /\ name83 = KERNEL_BIN => Files(KERNEL) = {} \/ hardError
      BY <1>1, <1>3, <2>1, <2>2, ZenonT(30) DEF StartsWholeKernel, Intact
    <3>1. e.size = 0
      BY <1>4, <2>3
    <3> QED BY <1>3, <1>4, <3>1, EmptyFile, ZenonT(30)
  <2> QED BY <2>1, <2>6, <2>7, <2>8, <2>9, <2>10, ZenonT(30) DEF Inv
<1> QED BY <1>6, <1>7

\* Where the load has come to.
LEMMA LoadedSoFar ==
  ASSUME Inv, pc = "load"
  PROVE  /\ \E k \in Nat : Loading(KernelFile(name83), k, i, cluster, remaining, loaded)
         /\ Len(loaded) \in Nat /\ remaining \in Nat /\ remaining > 0
         /\ linear \in Nat /\ linear = LoadBase + Len(loaded) * SectorSize /\ linear <= MemoryEnd
<1>1. PICK k \in Nat : Loading(KernelFile(name83), k, i, cluster, remaining, loaded)
  BY ZenonT(30) DEF Inv, LoadInv
<1>2. loaded \in Seq(Int) /\ remaining \in Nat /\ remaining > 0
  BY <1>1, ZenonT(30) DEF Loading
<1>3. Len(loaded) \in Nat
  BY <1>2
<1>4. linear = LoadBase + Len(loaded) * SectorSize /\ linear <= MemoryEnd
  BY ZenonT(30) DEF Inv, LoadInv
<1>5. Len(loaded) * SectorSize \in Nat
  BY <1>3, Constants
<1> QED BY <1>1, <1>2, <1>3, <1>4, <1>5, Addresses

\* A sector is stored in memory exactly if memory does not end before it does.
LEMMA Stored ==
  ASSUME Inv, pc = "load"
  PROVE  InMemory <=> linear + SectorSize <= MemoryEnd
<1>1. /\ linear \in Nat /\ linear <= MemoryEnd /\ linear >= LoadBase
  <2>1. Len(loaded) * SectorSize \in Nat
    BY LoadedSoFar, Constants
  <2> QED BY <2>1, LoadedSoFar, Addresses
<1>2. CASE linear < 1048576
  <2>1. Destination(linear) = linear
    BY <1>1, <1>2 DEF Destination, uint16
  <2> QED BY <1>1, <2>1 DEF InMemory
<1>3. CASE linear >= 1048576
  <2>1. linear = 1048576 /\ MemoryEnd = 1048576
    BY <1>1, <1>3, Addresses
  <2>2. Destination(linear) = 0
    BY <2>1 DEF Destination, uint16
  <2> QED BY <2>1, <2>2, Constants, Addresses DEF InMemory
<1> QED BY <1>1, <1>2, <1>3

\* A step of the load, in the terms of the lemmas above.
LEMMA LoadStep ==
  ASSUME Inv, fat_load_sector
  PROVE  /\ pc = "load" /\ OnDrive
         /\ \/ /\ linear + SectorSize > MemoryEnd
               /\ pc' = "overrun" /\ UNCHANGED <<i, remaining>>
            \/ /\ linear + SectorSize <= MemoryEnd
               /\ loaded' = Append(loaded, Int13(Lba))
               /\ \/ /\ remaining <= format.bytesPerSector
                     /\ remaining' = 0 /\ pc' = "kernel" /\ i' = i
                  \/ /\ remaining > format.bytesPerSector
                     /\ remaining' = remaining - format.bytesPerSector
                     /\ linear' = linear + SectorSize
                     /\ i + 1 < format.sectorsPerCluster
                     /\ i' = i + 1 /\ pc' = "load" /\ cluster' = cluster
                  \/ /\ remaining > format.bytesPerSector
                     /\ remaining' = remaining - format.bytesPerSector
                     /\ linear' = linear + SectorSize
                     /\ i + 1 >= format.sectorsPerCluster
                     /\ cluster' \in Lookup(cluster) /\ i' = 0
                     /\ pc' = IF ChainStops(cluster') THEN "hang" ELSE "load"
<1>1. /\ pc = "load" /\ OnDrive
      /\ \/ ~InMemory /\ pc' = "overrun" /\ i' = i /\ remaining' = remaining
         \/ /\ InMemory /\ loaded' = Append(loaded, Int13(Lba))
            /\ linear' = linear + chunk /\ remaining' = remaining - chunk
            /\ \/ remaining' = 0 /\ pc' = "kernel" /\ i' = i
               \/ /\ remaining' # 0 /\ i + 1 < g_sectors_per_cluster
                  /\ i' = i + 1 /\ pc' = "load" /\ cluster' = cluster
               \/ /\ remaining' # 0 /\ i + 1 >= g_sectors_per_cluster
                  /\ cluster' \in Lookup(cluster) /\ i' = 0
                  /\ pc' = IF ChainStops(cluster') THEN "hang" ELSE "load"
  BY ZenonT(30) DEF fat_load_sector, ReadSucceeds, file
<1>2. DiskInv /\ ValidFormat(format) /\ format \in Formats
  BY <1>1, LoadingFile, ZenonT(30)
<1>3. remaining \in Nat /\ remaining > 0 /\ linear \in Nat
  BY <1>1, LoadedSoFar, ZenonT(30)
<1>4. /\ g_sectors_per_cluster = format.sectorsPerCluster
      /\ g_bytes_per_sector = format.bytesPerSector
  BY <1>2, Fields
<1>5. format.bytesPerSector \in Nat /\ format.bytesPerSector > 0 /\ format.bytesPerSector = SectorSize
  BY <1>2, ClusterSize DEF DiskInv
<1>6. \/ remaining - chunk = 0 /\ remaining <= format.bytesPerSector
      \/ /\ remaining - chunk # 0 /\ remaining > format.bytesPerSector
         /\ chunk = format.bytesPerSector
  BY <1>3, <1>4, <1>5 DEF chunk
<1>7. InMemory <=> linear + SectorSize <= MemoryEnd
  BY <1>1, Stored, ZenonT(30)
<1>8. ~InMemory => linear + SectorSize > MemoryEnd
  BY <1>3, <1>7, Constants, Addresses
<1> QED BY <1>1, <1>4, <1>5, <1>6, <1>7, <1>8, ZenonT(30)

\* A sector of the file is read: there is no memory for it, or it is the last one, one
\* within its cluster, or the last of it.
LEMMA FatLoadSectorInv ==
  ASSUME Inv, fat_load_sector
  PROVE  Inv'
<1>1. pc = "load" /\ OnDrive /\ UNCHANGED <<format, root, fat, stage2At, name83, hardError>>
  BY ZenonT(30) DEF fat_load_sector, ReadSucceeds, disk
<1>2. PICK e : e = KernelFile(name83)
  OBVIOUS
<1>3. /\ DiskInv /\ ValidFormat(format) /\ i \in Nat
      /\ name83 \in {KERNEL, KERNEL_BIN} /\ Files(name83) # {} /\ e \in Entry /\ e.first >= 2
      /\ name83 = KERNEL_BIN /\ ~hardError => Files(KERNEL) = {}
  BY <1>1, <1>2, LoadingFile, ZenonT(30)
<1>4. PICK at, more : at = Int13(Lba) /\ more = Append(loaded, at)
  BY ZenonT(30)
<1>5. PICK k \in Nat : Loading(e, k, i, cluster, remaining, loaded)
  BY <1>1, <1>2, LoadedSoFar, ZenonT(30)
<1>6. ReadAs(e, i, cluster, at)
  BY <1>1, <1>3, <1>4, <1>5, ClusterReads
<1>7. /\ Len(loaded) \in Nat /\ Len(loaded) + 1 <= SectorsOf(e) /\ SectorsOf(e) \in Nat
      /\ linear \in Nat /\ linear = LoadBase + Len(loaded) * SectorSize
      /\ linear + SectorSize = LoadBase + (Len(loaded) + 1) * SectorSize
  <2>1. Len(loaded) \in Nat /\ linear \in Nat /\ linear = LoadBase + Len(loaded) * SectorSize
    BY <1>1, LoadedSoFar, ZenonT(30)
  <2>2. Len(loaded) + 1 <= SectorsOf(e) /\ SectorsOf(e) \in Nat
    BY <1>3, <1>5, NextSectorOf, FileSizes
  <2>3. (Len(loaded) + 1) * SectorSize = Len(loaded) * SectorSize + SectorSize
        /\ Len(loaded) * SectorSize \in Nat
    BY <2>1, Constants
  <2> QED BY <2>1, <2>2, <2>3, Constants, Addresses
<1>8. \/ /\ linear + SectorSize > MemoryEnd
         /\ pc' = "overrun" /\ i' = i
      \/ /\ linear + SectorSize <= MemoryEnd
         /\ loaded' = more
         /\ \/ /\ remaining <= format.bytesPerSector
               /\ pc' = "kernel" /\ i' = i
            \/ /\ remaining > format.bytesPerSector
               /\ remaining' = remaining - format.bytesPerSector
               /\ linear' = linear + SectorSize
               /\ i + 1 < format.sectorsPerCluster
               /\ i' = i + 1 /\ pc' = "load" /\ cluster' = cluster
            \/ /\ remaining > format.bytesPerSector
               /\ remaining' = remaining - format.bytesPerSector
               /\ linear' = linear + SectorSize
               /\ i + 1 >= format.sectorsPerCluster
               /\ cluster' \in Lookup(cluster) /\ i' = 0
               /\ pc' = IF ChainStops(cluster') THEN "hang" ELSE "load"
  BY <1>4, LoadStep, ZenonT(30)
<1>9. hardError' \in BOOLEAN /\ name83' \in {KERNEL, KERNEL_BIN}
  BY <1>1, <1>3 DEF Inv, Types
<1>10. ASSUME pc' # "overrun"
       PROVE  /\ DiskInv' /\ Stage2InPlace' /\ (ValidFormat(format)' <=> ValidFormat(format))
              /\ \A n : Files(n)' = Files(n) /\ KernelFile(n)' = KernelFile(n)
              /\ \A x : Chains(x)' = Chains(x) /\ (Intact(x)' <=> Intact(x))
              /\ \A x, c : Contents(x, c)' = Contents(x, c)
              /\ \A x : (Enclosed(x)' <=> Enclosed(x)) /\ (Fits(x)' <=> Fits(x))
              /\ KernelFile(name83)' = e /\ Files(name83)' # {}
  <2>1. /\ DiskInv' /\ Stage2InPlace' /\ (ValidFormat(format)' <=> ValidFormat(format))
        /\ \A n : Files(n)' = Files(n) /\ KernelFile(n)' = KernelFile(n)
        /\ \A x : Chains(x)' = Chains(x) /\ (Intact(x)' <=> Intact(x))
        /\ \A x, c : Contents(x, c)' = Contents(x, c)
        /\ \A x : (Enclosed(x)' <=> Enclosed(x)) /\ (Fits(x)' <=> Fits(x))
    BY <1>1, <1>10, Stage2Steps, ZenonT(30)
  <2>2. KernelFile(name83)' = e /\ Files(name83)' # {}
    BY <1>1, <1>2, <1>3, <2>1, ZenonT(30)
  <2> QED BY <2>1, <2>2, ZenonT(30)
<1>11. ASSUME pc' \in {"kernel", "load", "hang"} PROVE SearchInv'
  <2>1. (ValidFormat(format)' <=> ValidFormat(format)) /\ \A n : Files(n)' = Files(n)
    BY <1>10, <1>11, ZenonT(30)
  <2> QED BY <1>1, <1>3, <1>11, <2>1, ZenonT(30) DEF SearchInv
<1>12. ASSUME NEW m \in Nat, pc' = "load", loaded' = more, linear' = linear + SectorSize,
              linear + SectorSize <= MemoryEnd, Loading(e, m, i', cluster', remaining', more)
       PROVE  LoadInv'
  <2>1. KernelFile(name83)' = e /\ Files(name83)' # {}
    BY <1>10, <1>12, ZenonT(30)
  <2>2. Loading(e, m, i, cluster, remaining, loaded)'
    <3>1. Loading(e, m, i', cluster', remaining', loaded')
      BY <1>12, ZenonT(30)
    <3> QED BY <1>1, <3>1, LoadingNext, ZenonT(30)
  <2>3. Len(more) = Len(loaded) + 1
    <3>1. loaded \in Seq(Int) /\ at \in Int
      BY <1>5, <1>6, ZenonT(30) DEF Loading, ReadAs
    <3> QED BY <1>4, <3>1
  <2>4. linear' = LoadBase + Len(loaded') * SectorSize /\ linear' <= MemoryEnd
    BY <1>7, <1>12, <2>3, ZenonT(30)
  <2> QED BY <1>3, <1>12, <2>1, <2>2, <2>4, ZenonT(30) DEF LoadInv
<1>13. CASE linear + SectorSize > MemoryEnd /\ pc' = "overrun" /\ i' = i
  <2>1. (Len(loaded) + 1) * SectorSize <= SectorsOf(e) * SectorSize
    BY <1>7, Constants, Products
  <2>2. PICK y, z : y = (Len(loaded) + 1) * SectorSize /\ z = SectorsOf(e) * SectorSize
    BY ZenonT(30)
  <2>3. y \in Nat /\ z \in Nat /\ y <= z /\ LoadBase + y > MemoryEnd
    <3>1. y \in Nat /\ z \in Nat
      BY <1>7, <2>2, Constants
    <3> QED BY <1>7, <1>13, <2>1, <2>2, <3>1
  <2>4. ~(LoadBase + z <= MemoryEnd)
    BY <2>3, Addresses
  <2>5. ~Fits(KernelFile(name83))
    BY <1>2, <2>2, <2>4, ZenonT(30) DEF Fits
  <2> QED BY <1>1, <1>13, <2>5, OverrunInv, ZenonT(30)
<1>14. CASE /\ linear + SectorSize <= MemoryEnd /\ loaded' = more
            /\ remaining <= format.bytesPerSector /\ pc' = "kernel" /\ i' = i
  <2>1. /\ SectorsOf(e) = Len(loaded) + 1 /\ (\A x \in Chains(e) : Append(loaded, at) = Contents(e, x))
        /\ Enclosed(e) => Chains(e) # {}
    <3>1. remaining <= format.bytesPerSector
      BY <1>14, ZenonT(30)
    <3> QED BY <1>3, <1>5, <1>6, <3>1, LastSector
  <2>2. Fits(e)
    BY <1>7, <1>14, <2>1, ZenonT(30) DEF Fits
  <2>3. StartsWholeKernel'
    <3>1. /\ \A x \in Chains(e) : loaded' = Contents(e, x)
          /\ Enclosed(e) => Intact(e)
      BY <1>3, <1>4, <1>14, <2>1, ZenonT(30) DEF Intact
    <3>2. pc' # "overrun"
      BY <1>14, ZenonT(30)
    <3>3. /\ ValidFormat(format)' /\ KernelFile(name83)' = e /\ Files(name83)' # {}
          /\ Files(KERNEL)' = Files(KERNEL)
      BY <1>3, <1>10, <3>2, ZenonT(30)
    <3>4. /\ Fits(e)' /\ (Enclosed(e)' => Intact(e)')
          /\ \A x \in Chains(e)' : loaded' = Contents(e, x)'
      BY <1>10, <2>2, <3>1, <3>2, ZenonT(30)
    <3> QED BY <1>1, <1>3, <3>3, <3>4, ZenonT(30) DEF StartsWholeKernel
  <2>4. Types' /\ LoadInv' /\ GivesUpForCause'
    BY <1>3, <1>9, <1>14, ZenonT(30) DEF Types, Halted, LoadInv, GivesUpForCause
  <2> QED BY <1>10, <1>11, <1>14, <2>3, <2>4, ZenonT(30) DEF Inv
<1>15. CASE /\ linear + SectorSize <= MemoryEnd /\ loaded' = more
            /\ remaining > format.bytesPerSector
            /\ remaining' = remaining - format.bytesPerSector
            /\ linear' = linear + SectorSize
            /\ i + 1 < format.sectorsPerCluster
            /\ i' = i + 1 /\ pc' = "load" /\ cluster' = cluster
  <2>1. Loading(e, k, i + 1, cluster, remaining - format.bytesPerSector, Append(loaded, at))
    BY <1>3, <1>5, <1>6, <1>15, SameCluster
  <2>2. Loading(e, k, i', cluster', remaining', more)
    BY <1>4, <1>15, <2>1, ZenonT(30)
  <2>3. LoadInv'
    BY <1>12, <1>15, <2>2, ZenonT(30)
  <2>4. Types' /\ StartsWholeKernel' /\ GivesUpForCause'
    BY <1>3, <1>9, <1>15 DEF Types, Reading, StartsWholeKernel, GivesUpForCause
  <2> QED BY <1>10, <1>11, <1>15, <2>3, <2>4, ZenonT(30) DEF Inv
<1>16. CASE /\ linear + SectorSize <= MemoryEnd /\ loaded' = more
            /\ remaining > format.bytesPerSector
            /\ remaining' = remaining - format.bytesPerSector
            /\ linear' = linear + SectorSize
            /\ i + 1 >= format.sectorsPerCluster
            /\ cluster' \in Lookup(cluster) /\ i' = 0
            /\ pc' = IF ChainStops(cluster') THEN "hang" ELSE "load"
  <2>1. PICK next \in Lookup(cluster) : next = cluster'
    BY <1>16, ZenonT(30)
  <2>2. next \in Nat
    <3>1. cluster \in Nat
      BY <1>5 DEF Loading, Half, Below
    <3> QED BY <1>3, <2>1, <3>1, LookupLink DEF Link, Below
  <2>3. CASE ChainStops(next)
    <3>1. ASSUME NEW x \in Chains(e) PROVE FALSE
      <4>1. /\ cluster \in 2 .. Clusters(format) + 2 /\ InTable(cluster)
            /\ x[k + 1] = fat[cluster] /\ x[k + 1] \in 2 .. Clusters(format) + 2
        BY <1>3, <1>5, <1>16, <3>1, ChainsGoOn
      <4>2. Clusters(format) \in Nat /\ Clusters(format) < 4085
        BY <1>3, ValidNumbers
      <4>3. Lookup(cluster) = {fat[cluster]}
        BY <1>3, <4>1, <4>2, NextCluster
      <4>4. next \in 2 .. Clusters(format) + 2
        BY <2>1, <4>1, <4>3
      <4> QED BY <2>2, <2>3, <4>2, <4>4 DEF ChainStops
    <3>2. ~Intact(KernelFile(name83))
      BY <1>2, <3>1 DEF Intact
    <3>3. pc' = "hang"
      BY <1>16, <2>1, <2>3, ZenonT(30)
    <3>4. GivesUpForCause'
      <4>1. \A n : Files(n)' = Files(n) /\ KernelFile(n)' = KernelFile(n)
        BY <1>10, <3>3, ZenonT(30)
      <4>2. \A x : Intact(x)' <=> Intact(x)
        BY <1>10, <3>3, ZenonT(30)
      <4> SUFFICES ASSUME ~hardError
                   PROVE  /\ Files(KERNEL) # {} \/ Files(KERNEL_BIN) # {}
                          /\ ~Intact(KernelFile(IF Files(KERNEL) # {} THEN KERNEL ELSE KERNEL_BIN))
        BY <1>1, <4>1, <4>2, ZenonT(30) DEF GivesUpForCause
      <4> QED BY <1>1, <3>2, FileAtFault, ZenonT(30)
    <3>5. Types' /\ LoadInv' /\ StartsWholeKernel'
      BY <1>9, <1>16, <3>3, ZenonT(30) DEF Types, Halted, LoadInv, StartsWholeKernel
    <3> QED BY <1>10, <1>11, <3>3, <3>4, <3>5, ZenonT(30) DEF Inv
  <2>4. CASE ~ChainStops(next)
    <3>1. next >= 2
      BY <2>2, <2>4 DEF ChainStops
    <3>2. pc' = "load"
      BY <1>16, <2>1, <2>4, ZenonT(30)
    <3>3. Loading(e, k + 1, 0, next, remaining - format.bytesPerSector, Append(loaded, at))
      BY <1>3, <1>5, <1>6, <1>16, <2>1, <3>1, OtherCluster
    <3>4. Loading(e, k + 1, i', cluster', remaining', more) /\ k + 1 \in Nat
      <4>1. k + 1 \in Nat
        OBVIOUS
      <4> QED BY <1>4, <1>16, <2>1, <3>3, <4>1, ZenonT(30)
    <3>5. LoadInv'
      BY <1>12, <1>16, <3>2, <3>4, ZenonT(30)
    <3>6. Types' /\ StartsWholeKernel' /\ GivesUpForCause'
      BY <1>9, <1>16, <3>2, ZenonT(30) DEF Types, Reading, StartsWholeKernel, GivesUpForCause
    <3> QED BY <1>10, <1>11, <3>2, <3>5, <3>6, ZenonT(30) DEF Inv
  <2> QED BY <2>3, <2>4, ZenonT(30)
<1> QED BY <1>8, <1>13, <1>14, <1>15, <1>16, ZenonT(30)

\* Every step preserves the invariant.
LEMMA NextInv == Inv /\ [Next]_vars => Inv'
<1> SUFFICES ASSUME Inv, [Next]_vars PROVE Inv'
  OBVIOUS
<1>1. CASE stage1_loads \/ stage1_fails \/ disk_error \/ disk_get_params
  BY <1>1, BootingInv
<1>2. CASE fat_init
  BY <1>2, FatInitInv
<1>3. CASE read_again
  BY <1>3, Stuttering, ZenonT(30) DEF read_again, disk, file
<1>4. CASE read_fails
  BY <1>4, ReadFailsInv
<1>5. CASE find_continues
  BY <1>5, FindContinuesInv
<1>6. CASE find_ends
  BY <1>6, FindEndsInv
<1>7. CASE find_succeeds
  BY <1>7, FindSucceedsInv
<1>8. CASE dump
  BY <1>8, DumpInv
<1>9. CASE fat_read_table
  BY <1>9, FatReadTableInv
<1>10. CASE fat_load_sector
  BY <1>10, FatLoadSectorInv
<1>11. CASE halted
  BY <1>11, Stuttering, ZenonT(30) DEF halted, vars, disk, file
<1>12. CASE UNCHANGED vars
  BY <1>12, Stuttering, ZenonT(30) DEF vars, disk, file
<1> QED BY <1>1, <1>2, <1>3, <1>4, <1>5, <1>6, <1>7, <1>8, <1>9, <1>10, <1>11, <1>12, ZenonT(30) DEF Next, Stage2

-----------------------------------------------------------------------------
(***************************************************************************)
(* The theorems.                                                           *)
(***************************************************************************)
\* The invariant holds always.
LEMMA Invariance == Spec => []Inv
  BY InitInv, NextInv, PTL DEF Spec

\* The kernel is started only with a file that fits into memory, and if the file is
\* intact with all of its sectors and in order (StartsWholeKernel): for every drive that
\* INT 13h can address, every FAT12 format, every directory, with first clusters of 16
\* bits, and every table.  On an Enclosed volume the file is intact.
THEOREM KernelIsWhole == Spec => []StartsWholeKernel
<1>1. Inv => StartsWholeKernel
  BY ZenonT(30) DEF Inv
<1> QED BY <1>1, Invariance, PTL

\* Stage 2 gives up only because a read failed three times or the disk has no intact
\* kernel (GivesUpForCause), for the same drives and disks.
THEOREM GivesUpRightly == Spec => []GivesUpForCause
<1>1. Inv => GivesUpForCause
  BY DEF Inv
<1> QED BY <1>1, Invariance, PTL

\* The registers that stage 1 leaves for INT 13h stand for STAGE2_FIRST_LBA, so that
\* what is entered is stage 2, and it stores a sector outside the memory meant for it
\* only if the table or the file is too long (Stage2InPlace), for every drive and disk.
THEOREM Stage2IsInPlace == Spec => []Stage2InPlace
<1>1. Inv => Stage2InPlace
  BY DEF Inv
<1> QED BY <1>1, Invariance, PTL

\* On an Enclosed volume fat12_next_cluster only reads bytes of the table
\* (TableLookupsInside): a cluster whose last sector could be read has an entry in it.
\* This holds for every drive, every FAT12 format and every first cluster of 16 bits.
THEOREM LookupsInside == Spec => TableLookupsInside
<1> DEFINE A == /\ pc = "load" /\ remaining' \notin {0, remaining}
                /\ i + 1 >= format.sectorsPerCluster /\ Enclosed(KernelFile(name83))
                => InTable(cluster)
<1>1. ASSUME Inv, Next PROVE A
  <2> SUFFICES ASSUME pc = "load", remaining' \notin {0, remaining},
                      i + 1 >= format.sectorsPerCluster, Enclosed(KernelFile(name83))
               PROVE  InTable(cluster)
    OBVIOUS
  <2>1. fat_load_sector
    BY <1>1, ZenonT(30) DEF Next, Stage2, halted, vars, file, stage1_loads, stage1_fails, disk_error,
       disk_get_params, fat_init, read_again, read_fails, find_continues, find_ends, find_succeeds,
       dump, fat_read_table, ReadSucceeds
  <2>2. PICK e : e = KernelFile(name83)
    OBVIOUS
  <2>3. DiskInv /\ ValidFormat(format) /\ e \in Entry
    BY <1>1, <2>2, LoadingFile, ZenonT(30)
  <2>4. PICK k \in Nat : Loading(e, k, i, cluster, remaining, loaded)
    BY <1>1, <2>2, LoadedSoFar, ZenonT(30)
  <2>5. OnDrive
    BY <1>1, <2>1, LoadStep, ZenonT(30)
  <2>6. PICK at : at = Int13(Lba)
    BY ZenonT(30)
  <2>7. ReadAs(e, i, cluster, at)
    BY <2>3, <2>4, <2>5, <2>6, ClusterReads
  <2> QED BY <2>2, <2>3, <2>4, <2>7, EntryOfCluster
<1>2. Inv /\ [Next]_vars => [A]_vars
  BY <1>1
<1> QED BY <1>2, Invariance, PTL DEF TableLookupsInside, Spec
==============================================================================
