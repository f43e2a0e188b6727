-------------------------------- MODULE Lba --------------------------------
(***************************************************************************)
(* Blocks and bytes (class SCSI, src/include/common.h): requests count in  *)
(* blocks, PDUs and buffers in bytes.  A number of bytes that is not a     *)
(* whole number of blocks is cut down on its way to blocks.                *)
(***************************************************************************)
EXTENDS Integers

CONSTANT Unit  \* LBAUNIT, the bytes of a block

ASSUME UnitAssumption == Unit \in Nat \ {0}

LBA2OFFSET(lba) == lba * Unit
OFFSET2LBA(offset) == offset \div Unit
=============================================================================
