------------------------------ MODULE MCLoader -------------------------------
(***************************************************************************)
(* Instances of Loader for TLC: sectors of 8 bytes, directory entries of   *)
(* 4, four clusters of one sector or three of two, and a drive of 3120     *)
(* sectors whose last cylinders need more than 8 bits.                     *)
(***************************************************************************)
EXTENDS Loader

\* A volume that takes up the drive, most of it as reserved sectors.
Good == [bytesPerSector |-> 8, sectorsPerCluster |-> 1, reserved |-> 3110, fats |-> 2,
         rootEntries |-> 3, total16 |-> 3120, total32 |-> 0, sectorsPerFat |-> 2]

\* Clusters of two sectors, the last one cut short, and the 32-bit sector count.
Cut == [Good EXCEPT !.sectorsPerCluster = 2, !.reserved = 3109, !.total16 = 0, !.total32 = 3120]

\* Volumes on a drive that goes on behind them, one with a table that lacks the entry
\* of its last cluster, and one with a table longer than its room.
Small      == [Good EXCEPT !.reserved = 1, !.total16 = 11]
SmallCut   == [Small EXCEPT !.sectorsPerCluster = 2, !.total16 = 12]
ShortTable == [Good EXCEPT !.reserved = 3112, !.sectorsPerFat = 1]
LongTable  == [Good EXCEPT !.reserved = 3106, !.sectorsPerFat = 4]

\* Zero fields, too many clusters by one and by the third byte of the 32-bit
\* sector count, fewer sectors than the directory ends at, and no directory.
Hopeless ==
  {[Small EXCEPT !.bytesPerSector = 0],
   [Small EXCEPT !.total16 = 0],
   [Small EXCEPT !.total16 = 4092],
   [Small EXCEPT !.total16 = 0, !.total32 = 65547],
   [Small EXCEPT !.total16 = 5],
   [Small EXCEPT !.rootEntries = 0, !.total16 = 9]}

E(name, kind, first, size) ==
  [name |-> SubSeq(name, 1, NameLength), ext |-> SubSeq(name, NameLength + 1, Len(name)),
   kind |-> kind, first |-> first, size |-> size]

\* Names that share the first character or the extension with the wanted ones.
Other == <<1, 3, 0>>
Doc   == <<3, 0, 2>>

End == E(Doc, "end", 0, 0)
K(size)   == E(KERNEL, "file", 3, size)
Bin(size) == E(KERNEL_BIN, "file", 4, size)

\* The fifth sector of a file is behind the end of memory.
MCRoots ==
  {<<E(Doc, "skipped", 0, 0), K(size), End, End>> : size \in {0, 8, 17, 30, 33}} \cup
  {<<E(KERNEL, "deleted", 2, 8), Bin(20), K(24), End>>,
   <<E(KERNEL, "skipped", 2, 8), E(Other, "file", 2, 8), Bin(9), End>>,
   <<E(Other, "file", 2, 8), End, K(8), End>>,
   <<E(KERNEL, "file", 0, 0), End, End, End>>,
   <<E(Other, "file", 2, 8), E(Doc, "file", 3, 8), E(KERNEL, "deleted", 2, 8), E(Doc, "file", 4, 8)>>}

\* First clusters of more than 12 bits: one beyond the drive, ones whose sector wraps
\* around to one that the drive has, with the offset in the table behind its end and
\* wrapped around to its beginning, and the marks for a bad cluster and for an end.
WideRoots ==
  {<<E(KERNEL, "file", first, size), End, End, End>> :
     first \in {4087, 4095, 5000, 9174, 43691}, size \in {8, 17}}

\* Tables with these values in the clusters that a chain can reach: free, a
\* cluster on and one beyond the disk, bad, end.  Some chains are cycles.
Table(two, f) ==
  [c \in 0 .. 21 |-> CASE c = 2 -> two [] c \in 3 .. 5 -> f[c] [] OTHER -> 4095]
MCFats ==
  {Table(5, f) : f \in [3 .. 5 -> {0, 2, 5, 258, 4087, 4095}]} \cup
  {Table(4095, f) : f \in [3 .. 5 -> {2, 5, 4095}]}
OtherFats == {Table(5, f) : f \in [3 .. 5 -> {5, 258, 4095}]}

\* A disk has as many entries as its table has room for.
D(f, r, t) == [format |-> f, root |-> r, fat |-> [c \in 0 .. (2 * TableBytes(f) - 1) \div 3 |-> t[c]]]

MCDisks ==
  {D(f, r, t) : f \in {Good, Cut}, r \in MCRoots, t \in MCFats} \cup
  {D(f, r, t) : f \in {Small, SmallCut, ShortTable, LongTable}, r \in MCRoots \cup WideRoots, t \in OtherFats} \cup
  {D(f, r, t) : f \in {Good, Cut}, r \in WideRoots, t \in OtherFats} \cup
  {D(f, <<K(8), End, End, End>>, [c \in 0 .. 21 |-> 4095]) : f \in Hopeless}
==============================================================================
