---------------------------- MODULE MCDiskWriter ----------------------------
(* Instance of DiskWriter for TLC.                                         *)
EXTENDS DiskWriter

(* All writes on a volume of three blocks.                                 *)
ThreeBlocks == {e \in (0 .. 2) \X (1 .. 3) : e[1] + e[2] <= 3}
=============================================================================
