--------------------------- MODULE MCWriteTransfer ---------------------------
(* WriteTransfer on a volume of five blocks of two cells.  A buffer holds  *)
(* a header and a block: PDUs end before, at and across the edge of a      *)
(* buffer, and so do headers.  The longest WRITE exceeds MaxBurstLength.   *)
EXTENDS WriteTransfer

MCCommands == {<<0, 1>>, <<1, 2>>, <<0, 3>>}
MCBadCommands == {<<0, 0>>, <<TotalSize - 1, 2>>}
=============================================================================
