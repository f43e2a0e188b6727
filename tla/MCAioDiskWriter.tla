-------------------------- MODULE MCAioDiskWriter --------------------------
(* Instances of AioDiskWriter for TLC.                                     *)
EXTENDS AioDiskWriter

(* Writes of one or two blocks on a volume of three: they overlap in every *)
(* way but never fall inside one another.                                  *)
ShortExtents == {<<0, 1>>, <<1, 1>>, <<2, 1>>, <<0, 2>>, <<1, 2>>}

(* A long write, one inside it and one across its end.                     *)
SplitExtents == {<<0, 3>>, <<1, 1>>, <<1, 2>>}

(* A long write, its first block, and a block inside the rest.             *)
ResplitExtents == {<<0, 4>>, <<0, 1>>, <<2, 1>>}
=============================================================================
