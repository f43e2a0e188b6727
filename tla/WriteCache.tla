----------------------------- MODULE WriteCache -----------------------------
(***************************************************************************)
(* The per-session, per-LUN write-back cache (include/writecache.h and     *)
(* src/writecache.cpp): a boost::multi_index container of WriteSegments    *)
(* with three indices:                                                     *)
(*                                                                         *)
(*   wq      the by_fifo index, the order in which segments are written    *)
(*           to disk;                                                      *)
(*   lbaidx  the by_lba index, ordered by the READ address rlba;           *)
(*   by_ptr  identity: a segment's pointer is its number, and seg maps     *)
(*           the pointers that are alive to the segments.                  *)
(*                                                                         *)
(* A segment has a WRITE extent (lba, len), never changed, and a READ      *)
(* extent (rlba, rlen), the part of it that a newer write has not covered. *)
(* The data of a block is the number of the segment that wrote it.         *)
(*                                                                         *)
(* push() holds wq_guard for its whole loop.  The model takes one step per *)
(* loop iteration; `pushing` is the state of that loop and also says that  *)
(* wq_guard is held, so every other operation waits for it (Unlocked).     *)
(***************************************************************************)
EXTENDS Integers, Sequences, FiniteSets

CONSTANTS
  Extents,   \* the <<lba, length>> pairs that initiators write
  MaxWrites  \* bound on the number of writes

ASSUME ExtentsAssumption == Extents \subseteq Nat \X (Nat \ {0})
ASSUME MaxWritesAssumption == MaxWrites \in Nat

VARIABLES
  seg,      \* pointer -> WriteSegment, for the segments in the container
  wq,       \* by_fifo: sequence of pointers
  lbaidx,   \* by_lba: sequence of pointers
  alloc,    \* pointers given out so far
  pushing,  \* the loop of push(), and wq_guard
  writes,   \* number of completed pushes
  latest    \* history: the last write accepted for each block

wcvars == <<seg, wq, lbaidx, alloc, pushing, writes, latest>>

Blocks == UNION {e[1] .. (e[1] + e[2] - 1) : e \in Extents}

(* What a READ returns that is neither a write's data nor the disk's: the  *)
(* bytes next to a data segment.                                           *)
Garbage == -1

(* A data segment follows its 48-byte header in the receive buffer         *)
(* (iSCSIParser::getDataSegmentOffset): its offset is never 0.             *)
DsOffset == 48

Segment ==
  [lba : Nat, len : Nat \ {0}, rlba : Nat, rlen : Nat, copy : BOOLEAN,
   src : Nat, ds_offset : {0, DsOffset}]

Queued == {wq[i] : i \in DOMAIN wq}

Idle == [on |-> FALSE]
Unlocked == pushing.on = FALSE

NewSegment(lba, len, ptr) ==
  [lba |-> lba, len |-> len, rlba |-> lba, rlen |-> len, copy |-> FALSE,
   src |-> ptr, ds_offset |-> DsOffset]

(* The copy constructor shares the buffers but starts with ds_offset(0).   *)
CopySegment(s) == [s EXCEPT !.copy = TRUE, !.ds_offset = 0]

ReadEnd(s) == s.rlba + s.rlen
Covers(s, b) == s.rlba <= b /\ b < ReadEnd(s)
-----------------------------------------------------------------------------
(* The ordered index.  PushHit changes rlba in place, behind the index's   *)
(* back, so lbaidx need not be sorted.  A descent in the red-black tree    *)
(* ends between two neighbours that fit the key; on a sorted index there   *)
(* is one such gap, on an unsorted one the shape of the tree decides.      *)

LowerBounds(key) ==
  {k \in 1 .. Len(lbaidx) + 1 :
     /\ k > 1 => seg[lbaidx[k - 1]].rlba < key
     /\ k <= Len(lbaidx) => key <= seg[lbaidx[k]].rlba}

InsertPoints(idx, s, key) ==
  {k \in 1 .. Len(idx) + 1 :
     /\ k > 1 => s[idx[k - 1]].rlba <= key
     /\ k <= Len(idx) => key < s[idx[k]].rlba}

InsertedAt(idx, k, p) ==
  SubSeq(idx, 1, k - 1) \o <<p>> \o SubSeq(idx, k, Len(idx))

(* The segments of S, in the order in which an index has them.             *)
Kept(idx, S) ==
  LET kept[i \in 0 .. Len(idx)] ==
        IF i = 0 THEN << >>
        ELSE IF idx[i] \in S THEN Append(kept[i - 1], idx[i]) ELSE kept[i - 1]
  IN kept[Len(idx)]

MaxOr(S, default) == IF S = {} THEN default ELSE CHOOSE m \in S : \A x \in S : x <= m
MinOr(S, default) == IF S = {} THEN default ELSE CHOOSE m \in S : \A x \in S : m <= x

(* The live segments: a segment that newer writes cover has length 0.      *)
Live == {p \in DOMAIN seg : seg[p].rlen > 0}

(* _search(): from the lower bound k the scan runs back to the first live  *)
(* segment that starts at or before lba; the earliest live segment it saw  *)
(* that ends after lba is the first candidate.                             *)
FirstHit(lba, k) ==
  LET s(j) == seg[lbaidx[j]]
      back == MaxOr({j \in 1 .. k : j <= Len(lbaidx) /\ s(j).rlba <= lba /\ s(j).rlen > 0}, 1)
  IN MinOr({j \in back .. (k - 1) : s(j).rlen > 0 /\ lba < ReadEnd(s(j))}, k)

(* From there it runs forward to the first segment that starts at or after *)
(* the end of the range, and returns the live segments on its way.         *)
HitsFrom(first, tail) ==
  LET n == Len(lbaidx)
      end == MinOr({j \in first .. n : tail <= seg[lbaidx[j]].rlba}, n + 1)
  IN {lbaidx[j] : j \in first .. (end - 1)} \cap Live

(* Mutants: the forward scan takes the segment behind the range along; the *)
(* scan starts at the lower bound.                                         *)
SearchInclusive(lba, len, k) == HitsFrom(FirstHit(lba, k), lba + len + 1)
SearchNoBackScan(lba, len, k) == HitsFrom(k, lba + len)

Search(lba, len, k) == HitsFrom(FirstHit(lba, k), lba + len)

(* p is the first of the hits, in the order of the index.                  *)
IsFirst(p, hits) ==
  \E i \in DOMAIN lbaidx : lbaidx[i] = p /\ \A j \in 1 .. (i - 1) : lbaidx[j] \notin hits

(* What READ answers for one block: the first hit of search(b, 1), or the  *)
(* disk when there is none (ReadHandler::handle, sendCache case 1).  A hit *)
(* is sent from its buffers at ds_offset.                                  *)
ReadBlock(disk, b) ==
  UNION {LET hits == Search(b, 1, k) IN
           IF hits = {} THEN {disk[b]}
           ELSE {IF Covers(seg[p], b) /\ seg[p].ds_offset = DsOffset
                 THEN seg[p].src ELSE Garbage : p \in {h \in hits : IsFirst(h, hits)}}
         : k \in LowerBounds(b)}
-----------------------------------------------------------------------------
WCInit ==
  /\ seg = << >>
  /\ wq = << >>
  /\ lbaidx = << >>
  /\ alloc = 0
  /\ pushing = Idle
  /\ writes = 0
  /\ latest = [b \in Blocks |-> 0]

(* push() takes wq_guard and searches the segments the write overlaps.     *)
PushBegin(lba, len) ==
  /\ Unlocked
  /\ writes < MaxWrites
  /\ \E k \in LowerBounds(lba) :
       pushing' = [on |-> TRUE, lba |-> lba, len |-> len, hits |-> Search(lba, len, k)]
  /\ UNCHANGED <<seg, wq, lbaidx, alloc, writes, latest>>

(* Mutants: the end of the hit is not looked at; a hit that ends with the  *)
(* write is missed.                                                        *)
OverwrittenHead(h, w) == w.lba <= h.rlba
CutsTailStrict(h, w) ==
  h.rlba < w.lba /\ w.lba < ReadEnd(h) /\ ReadEnd(h) < w.lba + w.len

(* The four cases of push() for a hit h against the write w.               *)
Overwritten(h, w) == w.lba <= h.rlba /\ ReadEnd(h) <= w.lba + w.len
Splits(h, w) == h.rlba < w.lba /\ w.lba + w.len < ReadEnd(h)
CutsTail(h, w) == h.rlba < w.lba /\ w.lba < ReadEnd(h) /\ ReadEnd(h) <= w.lba + w.len
CutsHead(h, w) ==
  w.lba <= h.rlba /\ h.rlba < w.lba + w.len /\ w.lba + w.len < ReadEnd(h)

(* The hit's READ extent after the write.  In the last case ("never reach  *)
(* here") the code only logs.                                              *)
Trimmed(h, w) ==
  CASE Overwritten(h, w) -> [h EXCEPT !.rlen = 0]
    [] Splits(h, w) \/ CutsTail(h, w) -> [h EXCEPT !.rlen = w.lba - h.rlba]
    [] CutsHead(h, w) ->
         [h EXCEPT !.rlba = w.lba + w.len, !.rlen = ReadEnd(h) - (w.lba + w.len)]
    [] OTHER -> h

(* The copy that keeps the part of a split segment behind the write.  Its  *)
(* address is computed from the segment's lba, not from its rlba.          *)
SplitRest(h, w) ==
  [CopySegment(h) EXCEPT !.rlba = h.lba + (w.lba + w.len) - h.rlba,
                         !.rlen = ReadEnd(h) - (w.lba + w.len)]

(* wq.push_back(s) joins the segment to all three indices.                 *)
PushBack(s, segs) ==
  /\ alloc' = alloc + 1
  /\ seg' = [p \in DOMAIN segs \cup {alloc + 1} |-> IF p = alloc + 1 THEN s ELSE segs[p]]
  /\ wq' = Append(wq, alloc + 1)
  /\ \E k \in InsertPoints(lbaidx, seg, s.rlba) : lbaidx' = InsertedAt(lbaidx, k, alloc + 1)

(* One iteration of push()'s loop over the hits.                           *)
PushHit ==
  /\ pushing.on
  /\ \E p \in pushing.hits :
       LET trimmed == [seg EXCEPT ![p] = Trimmed(seg[p], pushing)] IN
         /\ IsFirst(p, pushing.hits)
         /\ IF Splits(seg[p], pushing)
            THEN PushBack(SplitRest(seg[p], pushing), trimmed)
            ELSE seg' = trimmed /\ UNCHANGED <<alloc, wq, lbaidx>>
         /\ pushing' = [pushing EXCEPT !.hits = @ \ {p}]
  /\ UNCHANGED <<writes, latest>>

(* The end of push(): the new segment goes to the end of the FIFO and the  *)
(* lock is released; the command is answered from here on.                 *)
PushEnd ==
  /\ pushing.on
  /\ pushing.hits = {}
  /\ PushBack(NewSegment(pushing.lba, pushing.len, alloc + 1), seg)
  /\ pushing' = Idle
  /\ writes' = writes + 1
  /\ latest' = [b \in Blocks |->
                  IF b \in pushing.lba .. (pushing.lba + pushing.len - 1)
                  THEN alloc + 1 ELSE latest[b]]

Push ==
  \/ \E e \in Extents : PushBegin(e[1], e[2])
  \/ PushHit
  \/ PushEnd
-----------------------------------------------------------------------------
(* The consumer's side, used by the disk writers.                          *)

Originals == {p \in Queued : ~seg[p].copy}
Extent(p) == seg[p].lba .. (seg[p].lba + seg[p].len - 1)

(* Mutants: a segment that is popped stays in by_lba, or in by_ptr.        *)
DropFrontInLba(n) ==
  /\ wq' = SubSeq(wq, n + 1, Len(wq))
  /\ seg' = [p \in {wq[i] : i \in (n + 1) .. Len(wq)} |-> seg[p]]
  /\ UNCHANGED <<lbaidx, alloc, pushing, writes, latest>>
DropFrontInPtr(n) ==
  /\ wq' = SubSeq(wq, n + 1, Len(wq))
  /\ UNCHANGED <<lbaidx, seg, alloc, pushing, writes, latest>>

(* wq.pop_front(), n times.                                                *)
DropFront(n) ==
  LET rest == {wq[i] : i \in (n + 1) .. Len(wq)}
  IN /\ wq' = SubSeq(wq, n + 1, Len(wq))
     /\ lbaidx' = Kept(lbaidx, rest)
     /\ seg' = [p \in rest |-> seg[p]]
     /\ UNCHANGED <<alloc, pushing, writes, latest>>

(* Position of the first segment that is not a copy.  _front() would run   *)
(* off the queue if there were none.                                       *)
FrontPos ==
  CHOOSE f \in DOMAIN wq : ~seg[wq[f]].copy /\ \A j \in 1 .. (f - 1) : seg[wq[j]].copy

(* Mutants: the original is dropped too; the copies stay.                  *)
FrontDropsAll == Unlocked /\ DropFront(FrontPos)
FrontKeepsCopies == Unlocked /\ UNCHANGED wcvars

(* front() drops the copies before the first original and returns that     *)
(* original, wq[FrontPos].                                                 *)
Front == Unlocked /\ DropFront(FrontPos - 1)

(* Mutants: pop() removes two segments; it removes the newest one.         *)
PopTwo ==
  /\ Unlocked
  /\ IF wq = << >> THEN UNCHANGED wcvars ELSE DropFront(IF Len(wq) = 1 THEN 1 ELSE 2)
PopBack ==
  LET Keep(p) == p # wq[Len(wq)] IN
    /\ Unlocked
    /\ wq' = SelectSeq(wq, Keep)
    /\ lbaidx' = SelectSeq(lbaidx, Keep)
    /\ seg' = [p \in {q \in DOMAIN seg : Keep(q)} |-> seg[p]]
    /\ UNCHANGED <<alloc, pushing, writes, latest>>

(* pop() removes whatever is in front.                                     *)
Pop == Unlocked /\ IF wq = << >> THEN UNCHANGED wcvars ELSE DropFront(1)

(* Mutant: the last original behind cur.                                   *)
GetNextPosLast(cur) ==
  IF wq # << >> /\ cur \notin Queued THEN FrontPos
  ELSE MaxOr({i \in DOMAIN wq : ~seg[wq[i]].copy /\ \E j \in 1 .. (i - 1) : wq[j] = cur}, 0)

(* getNext(cur): the first original behind cur in the queue, or, when cur  *)
(* is NULL or has been popped, the front.  0 if there is none.             *)
GetNextPos(cur) ==
  IF wq # << >> /\ cur \notin Queued THEN FrontPos
  ELSE MinOr({i \in DOMAIN wq : ~seg[wq[i]].copy /\ \E j \in 1 .. (i - 1) : wq[j] = cur}, 0)

(* In the second case _front() also drops the copies it skips.             *)
GetNext(cur) ==
  /\ Unlocked
  /\ GetNextPos(cur) # 0
  /\ IF cur \notin Queued THEN Front ELSE UNCHANGED wcvars
-----------------------------------------------------------------------------
(* Type correctness of the container: by_ptr holds exactly the segments of *)
(* by_fifo, and what push() has still to trim is in it.                    *)
WCTypeOK ==
  /\ alloc \in Nat
  /\ wq \in Seq(1 .. alloc)
  /\ DOMAIN seg = Queued
  /\ \A p \in Queued : seg[p] \in Segment
  /\ pushing = Idle \/ pushing \in [on : {TRUE}, lba : Nat, len : Nat \ {0}, hits : SUBSET Queued]
  /\ writes \in 0 .. MaxWrites
  /\ latest \in [Blocks -> 0 .. alloc]

(* The three indices of the container hold the same segments, each once.   *)
IndicesAgree ==
  /\ {lbaidx[i] : i \in DOMAIN lbaidx} = Queued
  /\ Len(lbaidx) = Len(wq) /\ Cardinality(Queued) = Len(wq)

(* _front(): "last WriteSegment is NOT copied one, always": whenever the   *)
(* lock is free, a non-empty queue ends in an original, so the loop that   *)
(* skips copies stops.                                                     *)
LastIsOriginal == Unlocked /\ wq # << >> => ~seg[wq[Len(wq)]].copy

(* push(): "never reach here": every segment that _search returns overlaps *)
(* the write it was searched for.                                          *)
HitsOverlap ==
  pushing.on =>
    \A p \in pushing.hits :
      seg[p].rlba < pushing.lba + pushing.len /\ pushing.lba < ReadEnd(seg[p])

(* The READ extents of the queued segments never overlap: at most one      *)
(* segment answers for a block.                                            *)
OneOwner ==
  Unlocked => \A p, q \in Queued, b \in Blocks :
                 Covers(seg[p], b) /\ Covers(seg[q], b) => p = q

(* search(): a range that overlaps a live segment is a cache hit, and the  *)
(* hits include every such segment.                                        *)
SearchComplete ==
  Unlocked =>
    \A e \in Extents : \A k \in LowerBounds(e[1]) :
      \A p \in Queued :
        (seg[p].rlen > 0 /\ seg[p].rlba < e[1] + e[2] /\ e[1] < ReadEnd(seg[p]))
          => p \in Search(e[1], e[2], k)

(* search(): "Cache MISS" is not the answer for a block whose last write   *)
(* is still in the cache.                                                  *)
DirtyHits ==
  Unlocked => \A b \in Blocks : \A k \in LowerBounds(b) :
                latest[b] \in Queued => Search(b, 1, k) # {}

(* A segment that READ sends from is read at its data.                     *)
HitsAtData ==
  Unlocked => \A b \in Blocks : \A k \in LowerBounds(b) :
    \A p \in Search(b, 1, k) : seg[p].ds_offset = DsOffset
=============================================================================
