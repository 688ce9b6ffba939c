--------------------------------- MODULE Chs ---------------------------------
(***************************************************************************)
(* Sector numbers as the BIOS takes them: the two lba_to_chs routines      *)
(* (boot/stage1/boot.asm, boot/stage2/disk.asm) down to the registers they *)
(* leave, and the BIOS's reading of the registers.  Fields share bytes, so *)
(* each register is computed modulo its width.                             *)
(***************************************************************************)
EXTENDS Integers

Registers(ch, cl, dh) == [ch |-> ch, cl |-> cl, dh |-> dh]

\* Stage 1, in 16 bits: AX is divided by the geometry of the BPB; AH, the high
\* part of the cylinder, is shifted in 8 bits.
MutStage1(lba, spt, heads) ==
  LET track == lba \div spt
  IN  Registers((track \div heads) % 256, (lba % spt) % 64, (track % heads) % 256)
stage1_lba_to_chs(lba, spt, heads) ==
  LET track    == lba \div spt
      cylinder == track \div heads
      ah       == cylinder \div 256
      cl       == ((lba % spt) + 1) % 256
  IN  Registers(cylinder % 256, (cl % 64) + ((ah * 64) % 256), (track % heads) % 256)

\* Stage 2, in 32 bits: lba_to_chs leaves sector, cylinder and head in EBX, ESI
\* and EDI, and disk_read_sector packs them.  "and al, 0xC0" keeps bits 6 and 7.
stage2_lba_to_chs(lba, spt, heads) ==
  LET ebx == (lba % spt) + 1
      esi == (lba \div spt) \div heads
      edi == (lba \div spt) % heads
      al  == (esi \div 4) % 256
  IN  Registers(esi % 256, (al \div 64) * 64 + (ebx % 64), edi % 256)

\* INT 13h: CL holds the sector, from 1, and bits 8 and 9 of the cylinder.
BiosSector(r, spt, heads) ==
  LET cylinder == r.ch + 256 * (r.cl \div 64)
  IN  (cylinder * heads + r.dh) * spt + (r.cl % 64) - 1

\* A read of n sectors does not go beyond the track.
InOneTrack(r, n, spt) == (r.cl % 64) + n - 1 <= spt
==============================================================================
