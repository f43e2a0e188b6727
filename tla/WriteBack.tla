------------------------------ MODULE WriteBack ------------------------------
(***************************************************************************)
(* What a write cache with its disk writer promises, without its indices,  *)
(* READ extents, copies, threads and counters: accepted writes reach the   *)
(* disk in the order in which they were accepted, block by block, and a    *)
(* write is forgotten only when all of it is there, and everything before  *)
(* it.  A block whose write fails is never written again: later writes may *)
(* then reach the disk ahead of it, and neither it nor anything behind it  *)
(* is forgotten.  DiskWriter and AioDiskWriter implement this              *)
(* specification; DiskWriter, which stops at a failure, without Lose.      *)
(***************************************************************************)
EXTENDS Integers

CONSTANT Blocks  \* the blocks of the volume

VARIABLES
  pending,  \* accepted write -> its blocks that are not on disk
  lost,     \* <<write, block>> of the pending ones that failed
  disk,     \* block -> the write it holds, 0 initially
  latest    \* block -> the last write accepted for it

vars == <<pending, lost, disk, latest>>

Init ==
  /\ pending = [w \in {} |-> {}]
  /\ lost = {}
  /\ disk = [b \in Blocks |-> 0]
  /\ latest = [b \in Blocks |-> 0]

(* Writes are numbered in the order of their acceptance, with gaps.        *)
Fresh(w) ==
  /\ w \in Nat \ {0}
  /\ \A v \in DOMAIN pending : v < w
  /\ \A b \in Blocks : latest[b] < w

Accept(w, R) ==
  /\ Fresh(w)
  /\ pending' = [v \in DOMAIN pending \cup {w} |-> IF v = w THEN R ELSE pending[v]]
  /\ latest' = [b \in Blocks |-> IF b \in R THEN w ELSE latest[b]]
  /\ UNCHANGED <<lost, disk>>

Waits(w) == {b \in pending[w] : <<w, b>> \notin lost}

(* The turn of block b of w: whatever was accepted before w has ended.     *)
IsNext(w, b) == b \in Waits(w) /\ \A v \in DOMAIN pending : v < w => Waits(v) = {}

Land(w, b) ==
  /\ IsNext(w, b)
  /\ pending' = [pending EXCEPT ![w] = @ \ {b}]
  /\ disk' = [disk EXCEPT ![b] = w]
  /\ UNCHANGED <<lost, latest>>

Lose(w, b) ==
  /\ IsNext(w, b)
  /\ lost' = lost \cup {<<w, b>>}
  /\ UNCHANGED <<pending, disk, latest>>

Retire(w) ==
  /\ pending[w] = {}
  /\ \A v \in DOMAIN pending : w <= v
  /\ pending' = [v \in DOMAIN pending \ {w} |-> pending[v]]
  /\ UNCHANGED <<lost, disk, latest>>

Next ==
  \/ \E R \in SUBSET Blocks, w \in DOMAIN pending' : Accept(w, R)
  \/ \E w \in DOMAIN pending : Retire(w) \/ \E b \in Blocks : Land(w, b) \/ Lose(w, b)

Spec == Init /\ [][Next]_vars
-----------------------------------------------------------------------------
(* Type correctness: pending writes have sets of blocks, blocks have the   *)
(* numbers of writes.                                                      *)
TypeOK ==
  /\ DOMAIN pending \subseteq Nat \ {0}
  /\ pending \in [DOMAIN pending -> SUBSET Blocks]
  /\ lost \subseteq Nat \X Blocks
  /\ disk \in [Blocks -> Nat]
  /\ latest \in [Blocks -> Nat]

(* A block that differs from its last accepted write is still pending in   *)
(* that write, and no other write of it comes later.                       *)
Durable ==
  \A b \in Blocks :
    /\ disk[b] # latest[b] => latest[b] \in DOMAIN pending /\ b \in pending[latest[b]]
    /\ \A w \in DOMAIN pending : b \in Waits(w) =>
         w <= latest[b] /\ latest[b] \in DOMAIN pending /\ b \in pending[latest[b]]
=============================================================================
