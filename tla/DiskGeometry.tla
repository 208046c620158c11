---------------------------- MODULE DiskGeometry ----------------------------
(***************************************************************************)
(* Where a sector is on the disk: flpydsk_lba_to_chs of drivers/floppy.c   *)
(* and load_sector of boot.asm, which read the same image.                 *)
(***************************************************************************)
EXTENDS Integers, TLAPS

FLPY_SECTORS_PER_TRACK == 18

\* Division and remainder of C truncate towards zero.
CDiv(a, b) == IF a >= 0 THEN a \div b ELSE -((-a) \div b)
CMod(a, b) == IF a >= 0 THEN a % b ELSE -((-a) % b)

flpydsk_lba_to_chs(lba) ==
  [head   |-> CDiv(CMod(lba, FLPY_SECTORS_PER_TRACK * 2), FLPY_SECTORS_PER_TRACK),
   track  |-> CDiv(lba, FLPY_SECTORS_PER_TRACK * 2),
   sector |-> CMod(lba, FLPY_SECTORS_PER_TRACK) + 1]

(***************************************************************************)
(* Every block number is a sector that the disk has: a head, a sector from *)
(* 1 to 18, and a track from which the number can be computed back, so no  *)
(* two blocks share a sector.                                              *)
(***************************************************************************)
THEOREM BlocksAreSectors ==
  ASSUME NEW lba \in Nat
  PROVE  LET chs == flpydsk_lba_to_chs(lba)
         IN  /\ chs.head \in 0..1 /\ chs.track \in Nat /\ chs.sector \in 1..18
             /\ lba = (2 * chs.track + chs.head) * 18 + chs.sector - 1
BY DEF flpydsk_lba_to_chs, CDiv, CMod, FLPY_SECTORS_PER_TRACK

\* The boot loader has the geometry from the BIOS.
load_sector(lba, sector_per_track, head_count) ==
  [head   |-> (lba \div sector_per_track) % head_count,
   track  |-> (lba \div sector_per_track) \div head_count,
   sector |-> (lba % sector_per_track) + 1]

(***************************************************************************)
(* For a disk with 18 sectors and 2 heads the boot loader and the kernel's *)
(* driver go to the same place for every block, along different divisions. *)
(***************************************************************************)
THEOREM SameSectors ==
  ASSUME NEW lba \in Nat
  PROVE  load_sector(lba, FLPY_SECTORS_PER_TRACK, 2) = flpydsk_lba_to_chs(lba)
<1>1. (lba \div 18) % 2 = (lba % 36) \div 18
  OBVIOUS
<1>2. (lba \div 18) \div 2 = lba \div 36
  OBVIOUS
<1>. QED
  BY <1>1, <1>2 DEF load_sector, flpydsk_lba_to_chs, CDiv, CMod, FLPY_SECTORS_PER_TRACK
=============================================================================
