----------------------------- MODULE VolumeMap -----------------------------
(***************************************************************************)
(* Logical volumes (src/volume.cpp, src/filehandle.cpp): the blocks of a   *)
(* logical volume are those of its physical volumes, one after another,    *)
(* and each physical volume is a range of a file.                          *)
(***************************************************************************)
EXTENDS Lba, Sequences, SequencesExt

CONSTANT Parts  \* the physical volumes of "Main": [path, start, count]

ASSUME PartsAssumption ==
  /\ Len(Parts) \in Nat /\ DOMAIN Parts = 1 .. Len(Parts)
  /\ \A i \in 1 .. Len(Parts) : Parts[i].start \in Nat /\ Parts[i].count \in Nat \ {0}

(* sector: the bytes of a physical volume.                                 *)
Sector(p) == LBA2OFFSET(p.count)

Total(ns) ==
  LET sum[i \in 0 .. Len(ns)] == IF i = 0 THEN 0 ELSE sum[i - 1] + ns[i] IN sum[Len(ns)]

(* getTotalSize(): the blocks of a volume array.                           *)
getTotalSize == Total([i \in DOMAIN Parts |-> Parts[i].count])

(* How many bytes from offset on are in this physical volume.              *)
getCoverage(p, offset, length) ==
  IF offset > Sector(p) THEN 0
  ELSE IF offset + length < Sector(p) THEN length
  ELSE Sector(p) - offset

(* The start of a physical volume is in blocks (volume.h); it is added to  *)
(* an offset in bytes.                                                     *)
LowHandle(p, cur, length) ==
  [path |-> p.path, offset |-> p.start + cur, length |-> length]

(* One turn of the loop of getLowHandles(): what a physical volume holds   *)
(* of the remaining bytes, from cur on.                                    *)
Cover(acc, p) ==
  LET covered == getCoverage(p, acc.cur, acc.remain) IN
    CASE acc.remain = 0 -> acc
      [] acc.remain > 0 /\ covered > 0 ->
           [ret    |-> Append(acc.ret, LowHandle(p, acc.cur, covered)),
            remain |-> acc.remain - covered,
            cur    |-> 0]
      [] OTHER -> [acc EXCEPT !.cur = @ - Sector(p)]

(* getLowHandles(): the ranges of files that hold length bytes from offset *)
(* on.                                                                     *)
getLowHandles(offset, length) ==
  LET after[i \in 0 .. Len(Parts)] ==
        IF i = 0 THEN [ret |-> << >>, remain |-> length, cur |-> offset]
        ELSE Cover(after[i - 1], Parts[i])
  IN after[Len(Parts)].ret
=============================================================================
