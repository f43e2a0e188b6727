-------------------------- MODULE WriteCacheProofs --------------------------
(***************************************************************************)
(* Proofs about the queue of WriteCache that both disk writers rest on:    *)
(* its segments are in the order in which they were allocated, it ends in  *)
(* an original whenever wq_guard is free, and no operation changes the     *)
(* WRITE extent of a segment that stays queued.  Then that the indices     *)
(* agree for any extents, and that the cache is coherent for extents of    *)
(* which none has more than one boundary of others inside.                 *)
(***************************************************************************)
EXTENDS WriteCache, TLAPS, WellFoundedInduction, SequenceTheorems, FiniteSetTheorems,
        FunctionTheorems

Ordered == \A i, j \in DOMAIN wq : i < j => wq[i] < wq[j]

KnownExtents ==
  /\ \A p \in Queued : <<seg[p].lba, seg[p].len>> \in Extents
  /\ pushing.on => <<pushing.lba, pushing.len>> \in Extents

Room == pushing.on => writes < MaxWrites

WCInv == WCTypeOK /\ Ordered /\ LastIsOriginal /\ KnownExtents /\ Room

(* What a step keeps of a segment that is queued before and after it.      *)
SameWrite(p) ==
  seg'[p].lba = seg[p].lba /\ seg'[p].len = seg[p].len /\ seg'[p].copy = seg[p].copy
-----------------------------------------------------------------------------
(* Every nonempty set of naturals has a least element.                     *)
Less == {pair \in Nat \X Nat : pair[1] < pair[2]}

LEMMA LessWellFounded == IsWellFoundedOn(Less, Nat)
  BY NatLessThanWellFounded DEF OpToRel, Less

LEMMA Least ==
  ASSUME NEW S \in SUBSET Nat, S # {}
  PROVE  \E m \in S : \A x \in S : m <= x
<1>1. PICK m \in S : \A x \in S : ~ (<<x, m>> \in Less)
  BY LessWellFounded, WFMin, Zenon
<1>2. \A x \in S : <<x, m>> \in Nat \X Nat /\ x \in Nat /\ m \in Nat
  OBVIOUS
<1>3. \A x \in S : ~ (x < m)
  BY <1>1, <1>2 DEF Less
<1> QED BY <1>2, <1>3

LEMMA MinOrLeast ==
  ASSUME NEW S \in SUBSET Nat, NEW d
  PROVE  /\ S # {} => MinOr(S, d) \in S /\ \A x \in S : MinOr(S, d) <= x
         /\ S = {} => MinOr(S, d) = d
BY Least DEF MinOr

(* push() changes only the READ extent of a hit.                           *)
LEMMA TrimmedSegment ==
  ASSUME NEW h \in Segment, NEW w, w.lba \in Nat, w.len \in Nat
  PROVE  /\ Trimmed(h, w) \in Segment
         /\ Trimmed(h, w).lba = h.lba
         /\ Trimmed(h, w).len = h.len
         /\ Trimmed(h, w).copy = h.copy
<1> USE DEF Segment, Overwritten, Splits, CutsTail, CutsHead, ReadEnd
<1>1. CASE Overwritten(h, w)
  <2>1. Trimmed(h, w) = [h EXCEPT !.rlen = 0]
    BY <1>1 DEF Trimmed
  <2> QED BY <2>1
<1>2. CASE Splits(h, w) \/ CutsTail(h, w)
  <2>1. Trimmed(h, w) = [h EXCEPT !.rlen = w.lba - h.rlba]
    BY <1>2 DEF Trimmed
  <2>2. w.lba - h.rlba \in Nat
    BY <1>2
  <2> QED BY <2>1, <2>2
<1>3. CASE CutsHead(h, w)
  <2>1. Trimmed(h, w) = [h EXCEPT !.rlba = w.lba + w.len,
                                  !.rlen = ReadEnd(h) - (w.lba + w.len)]
    BY <1>3 DEF Trimmed
  <2>2. w.lba + w.len \in Nat /\ ReadEnd(h) - (w.lba + w.len) \in Nat
    BY <1>3
  <2> QED BY <2>1, <2>2
<1>4. CASE ~ (Overwritten(h, w) \/ Splits(h, w) \/ CutsTail(h, w) \/ CutsHead(h, w))
  <2>1. Trimmed(h, w) = h
    BY <1>4 DEF Trimmed
  <2> QED BY <2>1
<1> QED BY <1>1, <1>2, <1>3, <1>4

LEMMA SplitRestSegment ==
  ASSUME NEW h \in Segment, NEW w, w.lba \in Nat, w.len \in Nat, Splits(h, w)
  PROVE  /\ SplitRest(h, w) \in Segment
         /\ SplitRest(h, w).lba = h.lba
         /\ SplitRest(h, w).len = h.len
         /\ SplitRest(h, w).copy = TRUE
<1>1. /\ h.lba + (w.lba + w.len) - h.rlba \in Nat
      /\ ReadEnd(h) - (w.lba + w.len) \in Nat
  BY DEF Segment, Splits, ReadEnd
<1> QED BY <1>1 DEF SplitRest, CopySegment, Segment
-----------------------------------------------------------------------------
LEMMA WCInitInv == WCInit => WCInv
  BY MaxWritesAssumption
     DEF WCInit, WCInv, WCTypeOK, Queued, Ordered, LastIsOriginal, KnownExtents, Room, Idle

(* _front() finds an original, the oldest one: the loop that skips copies  *)
(* stops at the end of the queue at the latest.                            *)
LEMMA HasOriginal ==
  ASSUME WCInv, Unlocked, wq # << >>
  PROVE  Originals # {}
<1>1. Len(wq) \in DOMAIN wq
  BY DEF WCInv, WCTypeOK
<1> QED BY <1>1 DEF WCInv, LastIsOriginal, Originals, Queued

LEMMA FrontPosFirst ==
  ASSUME WCInv, Originals # {}
  PROVE  /\ FrontPos \in DOMAIN wq
         /\ ~seg[wq[FrontPos]].copy
         /\ \A j \in 1 .. (FrontPos - 1) : seg[wq[j]].copy
         /\ wq[FrontPos] \in Originals
         /\ \A q \in Originals : wq[FrontPos] <= q
<1> DEFINE S == {f \in DOMAIN wq : ~seg[wq[f]].copy}
<1>1. /\ Len(wq) \in Nat /\ DOMAIN wq = 1 .. Len(wq)
      /\ \A i \in DOMAIN wq : wq[i] \in Nat
  BY DEF WCInv, WCTypeOK
<1>2. S # {}
  BY DEF Originals, Queued
<1>3. S \in SUBSET Nat
  BY <1>1
<1>4. PICK m \in S : \A x \in S : m <= x
  BY <1>2, <1>3, Least
<1>5. \A j \in 1 .. (m - 1) : seg[wq[j]].copy
  BY <1>1, <1>4
<1>6. /\ FrontPos \in DOMAIN wq
      /\ ~seg[wq[FrontPos]].copy
      /\ \A j \in 1 .. (FrontPos - 1) : seg[wq[j]].copy
  BY <1>4, <1>5, Zenon DEF FrontPos
<1>7. ASSUME NEW q \in Originals PROVE wq[FrontPos] <= q
  <2>1. PICK i \in DOMAIN wq : q = wq[i] /\ ~seg[wq[i]].copy
    BY DEF Originals, Queued
  <2>2. ~ (i < FrontPos)
    BY <2>1, <1>1, <1>6
  <2>3. i = FrontPos \/ FrontPos < i
    BY <2>2, <1>1, <1>6
  <2> QED BY <2>1, <2>3, <1>1, <1>6 DEF WCInv, Ordered
<1> QED BY <1>6, <1>7 DEF Originals, Queued

LEMMA PushBeginInv ==
  ASSUME WCInv, NEW e \in Extents, PushBegin(e[1], e[2])
  PROVE  /\ WCInv'
         /\ UNCHANGED <<seg, wq, alloc, latest>>
<1>1. e[1] \in Nat /\ e[2] \in Nat \ {0} /\ e = <<e[1], e[2]>>
  BY ExtentsAssumption
<1>2. PICK k \in LowerBounds(e[1]) :
        pushing' = [on |-> TRUE, lba |-> e[1], len |-> e[2], hits |-> Search(e[1], e[2], k)]
  BY DEF PushBegin
<1>3. Search(e[1], e[2], k) \subseteq Queued
  BY DEF Search, HitsFrom, Live, WCInv, WCTypeOK
<1>4. Queued' = Queued
  BY DEF PushBegin, Queued
<1> QED BY <1>1, <1>2, <1>3, <1>4
        DEF PushBegin, WCInv, WCTypeOK, Ordered, LastIsOriginal, KnownExtents, Room, Unlocked, Segment

(* push_back() joins a segment to the end of the queue.                    *)
LEMMA PushBackEffect ==
  ASSUME WCTypeOK, Ordered, NEW s, NEW segs, DOMAIN segs = Queued, PushBack(s, segs)
  PROVE  /\ alloc' = alloc + 1 /\ alloc' \in Nat
         /\ Len(wq') = Len(wq) + 1 /\ wq'[Len(wq')] = alloc + 1
         /\ wq' \in Seq(1 .. alloc')
         /\ Queued' = Queued \cup {alloc + 1} /\ alloc + 1 \notin Queued
         /\ DOMAIN seg' = Queued'
         /\ seg'[alloc + 1] = s
         /\ \A p \in Queued : seg'[p] = segs[p]
         /\ Ordered'
<1>1. /\ alloc' = alloc + 1 /\ alloc \in Nat
      /\ wq \in Seq(1 .. alloc)
      /\ wq' = Append(wq, alloc + 1)
  BY DEF PushBack, WCTypeOK
<1>2. /\ Len(wq) \in Nat /\ DOMAIN wq = 1 .. Len(wq)
      /\ \A i \in 1 .. Len(wq) : wq[i] \in 1 .. alloc
  BY <1>1
<1>3. /\ Len(wq') = Len(wq) + 1
      /\ DOMAIN wq' = 1 .. (Len(wq) + 1)
      /\ wq'[Len(wq) + 1] = alloc + 1
      /\ \A i \in 1 .. Len(wq) : wq'[i] = wq[i]
  BY <1>1, <1>2
<1>4. wq' \in Seq(1 .. alloc')
  <2>1. wq \in Seq(1 .. (alloc + 1))
    BY <1>1, <1>2
  <2> QED BY <1>1, <2>1
<1>5. Queued' = Queued \cup {alloc + 1}
  BY <1>2, <1>3 DEF Queued
<1>6. alloc + 1 \notin Queued
  BY <1>1, <1>2 DEF Queued
<1>7. Ordered'
  BY <1>1, <1>2, <1>3 DEF Ordered
<1>8. /\ DOMAIN seg' = Queued'
      /\ seg'[alloc + 1] = s
      /\ \A p \in Queued : seg'[p] = segs[p]
  BY <1>5, <1>6 DEF PushBack
<1> QED BY <1>1, <1>3, <1>4, <1>5, <1>6, <1>7, <1>8

LEMMA PushHitInv ==
  ASSUME WCInv, PushHit
  PROVE  /\ WCInv'
         /\ alloc <= alloc'
         /\ Queued \subseteq Queued' /\ Queued' \subseteq Queued \cup {alloc + 1}
         /\ \A p \in Queued : SameWrite(p)
         /\ Originals' = Originals
         /\ latest' = latest
<1> USE DEF WCInv
<1>1. PICK p \in pushing.hits :
        /\ IF Splits(seg[p], pushing)
           THEN PushBack(SplitRest(seg[p], pushing),
                         [seg EXCEPT ![p] = Trimmed(seg[p], pushing)])
           ELSE /\ seg' = [seg EXCEPT ![p] = Trimmed(seg[p], pushing)]
                /\ UNCHANGED <<alloc, wq, lbaidx>>
        /\ pushing' = [pushing EXCEPT !.hits = @ \ {p}]
  BY DEF PushHit
<1> DEFINE segs == [seg EXCEPT ![p] = Trimmed(seg[p], pushing)]
<1>2. pushing \in [on : {TRUE}, lba : Nat, len : Nat \ {0}, hits : SUBSET Queued]
  <2>1. pushing.on
    BY DEF PushHit
  <2>2. pushing # Idle
    BY <2>1 DEF Idle
  <2> QED BY <2>2 DEF WCTypeOK
<1>3. pushing.lba \in Nat /\ pushing.len \in Nat /\ p \in Queued /\ pushing.on
  BY <1>2
<1>4. seg[p] \in Segment /\ DOMAIN seg = Queued
  BY <1>3 DEF WCTypeOK
<1>5. /\ DOMAIN segs = Queued
      /\ \A q \in Queued : segs[q] \in Segment /\ segs[q].lba = seg[q].lba
                           /\ segs[q].len = seg[q].len /\ segs[q].copy = seg[q].copy
  BY <1>3, <1>4, TrimmedSegment DEF WCTypeOK
<1>6. /\ pushing'.on /\ pushing'.lba = pushing.lba /\ pushing'.len = pushing.len
      /\ pushing' \in [on : {TRUE}, lba : Nat, len : Nat \ {0}, hits : SUBSET Queued]
  BY <1>1, <1>2
<1>7. /\ writes' = writes /\ latest' = latest
      /\ alloc \in Nat /\ latest \in [Blocks -> 0 .. alloc]
  BY DEF PushHit, WCTypeOK
<1>8. CASE Splits(seg[p], pushing)
  <2> DEFINE s == SplitRest(seg[p], pushing)
  <2>1. PushBack(s, segs)
    BY <1>1, <1>8
  <2>2. s \in Segment /\ s.lba = seg[p].lba /\ s.len = seg[p].len /\ s.copy = TRUE
    BY <1>3, <1>4, <1>8, SplitRestSegment
  <2> HIDE DEF s, segs
  <2>3. /\ alloc' = alloc + 1 /\ alloc' \in Nat
        /\ wq' \in Seq(1 .. alloc')
        /\ Queued' = Queued \cup {alloc + 1} /\ alloc + 1 \notin Queued
        /\ DOMAIN seg' = Queued'
        /\ seg'[alloc + 1] = s
        /\ \A q \in Queued : seg'[q] = segs[q]
        /\ Ordered'
    BY <2>1, <1>5, PushBackEffect
  <2>4. WCTypeOK'
    <3>1. latest' \in [Blocks -> 0 .. alloc']
      BY <2>3, <1>7
    <3>2. pushing' \in [on : {TRUE}, lba : Nat, len : Nat \ {0}, hits : SUBSET Queued']
      BY <2>3, <1>6
    <3>3. \A q \in Queued' : seg'[q] \in Segment
      BY <2>2, <2>3, <1>5
    <3> QED BY <2>3, <1>7, <3>1, <3>2, <3>3 DEF WCTypeOK
  <2>5. KnownExtents'
    BY <2>2, <2>3, <1>3, <1>5, <1>6 DEF KnownExtents
  <2>6. LastIsOriginal' /\ Room'
    BY <1>3, <1>6, <1>7 DEF LastIsOriginal, Unlocked, Room
  <2>7. \A q \in Queued : SameWrite(q)
    BY <2>3, <1>5 DEF SameWrite
  <2>8. Originals' = Originals
    BY <2>2, <2>3, <2>7 DEF Originals, SameWrite
  <2> QED BY <2>3, <2>4, <2>5, <2>6, <2>7, <2>8, <1>7
<1>9. CASE ~Splits(seg[p], pushing)
  <2>1. seg' = segs /\ UNCHANGED <<alloc, wq>>
    BY <1>1, <1>9
  <2>2. Queued' = Queued
    BY <2>1 DEF Queued
  <2> HIDE DEF segs
  <2>3. WCTypeOK'
    BY <2>1, <2>2, <1>5, <1>6, <1>7 DEF WCTypeOK
  <2>4. KnownExtents' /\ Ordered'
    BY <2>1, <2>2, <1>3, <1>5, <1>6 DEF KnownExtents, Ordered
  <2>5. LastIsOriginal' /\ Room'
    BY <1>3, <1>6, <1>7 DEF LastIsOriginal, Unlocked, Room
  <2>6. \A q \in Queued : SameWrite(q)
    BY <2>1, <1>5 DEF SameWrite
  <2>7. Originals' = Originals
    BY <2>2, <2>6 DEF Originals, SameWrite
  <2> QED BY <2>1, <2>2, <2>3, <2>4, <2>5, <2>6, <2>7, <1>7
<1> QED BY <1>8, <1>9

LEMMA PushEndInv ==
  ASSUME WCInv, PushEnd
  PROVE  /\ WCInv'
         /\ alloc' = alloc + 1
         /\ Queued' = Queued \cup {alloc + 1}
         /\ \A p \in Queued : SameWrite(p)
         /\ Originals' = Originals \cup {alloc + 1}
         /\ <<pushing.lba, pushing.len>> \in Extents
         /\ seg'[alloc + 1].lba = pushing.lba /\ seg'[alloc + 1].len = pushing.len
<1> DEFINE s == NewSegment(pushing.lba, pushing.len, alloc + 1)
<1> USE DEF WCInv
<1>1. pushing \in [on : {TRUE}, lba : Nat, len : Nat \ {0}, hits : SUBSET Queued]
  <2>1. pushing.on
    BY DEF PushEnd
  <2>2. pushing # Idle
    BY <2>1 DEF Idle
  <2> QED BY <2>2 DEF WCTypeOK
<1>2. <<pushing.lba, pushing.len>> \in Extents
  BY <1>1 DEF KnownExtents
<1>3. DOMAIN seg = Queued /\ PushBack(s, seg) /\ alloc \in Nat
  BY DEF PushEnd, WCTypeOK
<1>4. /\ s \in Segment /\ s.lba = pushing.lba /\ s.len = pushing.len /\ s.copy = FALSE
  BY <1>1, <1>3 DEF NewSegment, Segment
<1> HIDE DEF s
<1>5. /\ alloc' = alloc + 1 /\ alloc' \in Nat
      /\ Len(wq') = Len(wq) + 1 /\ wq'[Len(wq')] = alloc + 1
      /\ wq' \in Seq(1 .. alloc')
      /\ Queued' = Queued \cup {alloc + 1} /\ alloc + 1 \notin Queued
      /\ DOMAIN seg' = Queued'
      /\ seg'[alloc + 1] = s
      /\ \A q \in Queued : seg'[q] = seg[q]
      /\ Ordered'
  BY <1>3, PushBackEffect
<1>6. pushing' = Idle /\ pushing'.on = FALSE /\ writes' = writes + 1
  BY DEF PushEnd, Idle
<1>7. latest' \in [Blocks -> 0 .. alloc']
  <2>1. latest \in [Blocks -> 0 .. alloc]
    BY DEF WCTypeOK
  <2>2. latest' = [b \in Blocks |-> IF b \in pushing.lba .. (pushing.lba + pushing.len - 1)
                                    THEN alloc + 1 ELSE latest[b]]
    BY DEF PushEnd
  <2> QED BY <2>1, <2>2, <1>3, <1>5
<1>8. writes' \in 0 .. MaxWrites
  <2>1. writes < MaxWrites
    BY <1>1 DEF Room
  <2>2. writes \in 0 .. MaxWrites
    BY DEF WCTypeOK
  <2> QED BY <2>1, <2>2, <1>6, MaxWritesAssumption
<1>9. WCTypeOK'
  BY <1>4, <1>5, <1>6, <1>7, <1>8 DEF WCTypeOK
<1>10. KnownExtents'
  BY <1>2, <1>4, <1>5, <1>6 DEF KnownExtents
<1>11. LastIsOriginal' /\ Room'
  BY <1>4, <1>5, <1>6 DEF LastIsOriginal, Room
<1>12. \A q \in Queued : SameWrite(q)
  BY <1>5 DEF SameWrite
<1>13. Originals' = Originals \cup {alloc + 1}
  BY <1>4, <1>5 DEF Originals
<1> QED BY <1>2, <1>4, <1>5, <1>9, <1>10, <1>11, <1>12, <1>13
-----------------------------------------------------------------------------
(* The consumer's side: segments leave the queue at its front.             *)
LEMMA DropFrontInv ==
  ASSUME WCInv, Unlocked, NEW n \in 0 .. Len(wq), DropFront(n)
  PROVE  /\ WCInv'
         /\ Len(wq') = Len(wq) - n
         /\ \A i \in 1 .. Len(wq') : wq'[i] = wq[i + n]
         /\ Queued' = {wq[i] : i \in (n + 1) .. Len(wq)}
         /\ Queued' \subseteq Queued
         /\ \A p \in Queued' : seg'[p] = seg[p]
         /\ UNCHANGED <<alloc, pushing, writes, latest>>
<1> USE DEF WCInv
<1>1. /\ wq \in Seq(1 .. alloc) /\ alloc \in Nat
      /\ Len(wq) \in Nat /\ DOMAIN wq = 1 .. Len(wq)
      /\ \A i \in 1 .. Len(wq) : wq[i] \in 1 .. alloc
  BY DEF WCTypeOK
<1>2. /\ wq' = SubSeq(wq, n + 1, Len(wq))
      /\ seg' = [p \in {wq[i] : i \in (n + 1) .. Len(wq)} |-> seg[p]]
      /\ UNCHANGED <<alloc, pushing, writes, latest>>
  BY DEF DropFront
<1>3. /\ wq' \in Seq(1 .. alloc)
      /\ Len(wq') = Len(wq) - n
      /\ DOMAIN wq' = 1 .. (Len(wq) - n)
      /\ \A i \in 1 .. (Len(wq) - n) : wq'[i] = wq[i + n]
  <2>1. n + 1 \in Int /\ Len(wq) \in Int /\ n \in Nat /\ n <= Len(wq)
    BY <1>1
  <2>2. \A i \in (n + 1) .. Len(wq) : wq[i] \in 1 .. alloc
    BY <1>1
  <2>3. /\ wq' \in Seq(1 .. alloc)
        /\ Len(wq') = IF n + 1 <= Len(wq) THEN Len(wq) - (n + 1) + 1 ELSE 0
        /\ \A i \in 1 .. (Len(wq) - (n + 1) + 1) : wq'[i] = wq[(n + 1) + i - 1]
    BY <2>1, <2>2, <1>2, SubSeqProperties
  <2>4. Len(wq') = Len(wq) - n
    BY <2>1, <2>3
  <2>5. \A i \in 1 .. (Len(wq) - n) : wq'[i] = wq[i + n]
    <3> TAKE i \in 1 .. (Len(wq) - n)
    <3>1. i \in 1 .. (Len(wq) - (n + 1) + 1) /\ (n + 1) + i - 1 = i + n
      BY <2>1
    <3> QED BY <3>1, <2>3
  <2> QED BY <2>3, <2>4, <2>5
<1>4. Queued' = {wq[i] : i \in (n + 1) .. Len(wq)}
  <2>1. ASSUME NEW i \in (n + 1) .. Len(wq)
        PROVE  i - n \in DOMAIN wq' /\ wq'[i - n] = wq[i]
    <3>1. n \in Nat /\ Len(wq) \in Nat
      BY <1>1
    <3>2. i - n \in 1 .. (Len(wq) - n) /\ (i - n) + n = i
      BY <3>1
    <3> QED BY <1>3, <3>2
  <2>2. ASSUME NEW i \in DOMAIN wq'
        PROVE  i + n \in (n + 1) .. Len(wq) /\ wq'[i] = wq[i + n]
    <3>1. i \in 1 .. (Len(wq) - n) /\ n \in Nat /\ Len(wq) \in Nat
      BY <1>1, <1>3
    <3>2. i + n \in (n + 1) .. Len(wq)
      BY <3>1
    <3> QED BY <1>3, <3>1, <3>2
  <2> QED BY <2>1, <2>2 DEF Queued
<1>5. Queued' \subseteq Queued
  <2>1. (n + 1) .. Len(wq) \subseteq DOMAIN wq
    BY <1>1
  <2> QED BY <2>1, <1>4 DEF Queued
<1>6. DOMAIN seg' = Queued' /\ \A p \in Queued' : seg'[p] = seg[p]
  BY <1>2, <1>4
<1>7. pushing = Idle
  <2>1. pushing.on = FALSE
    BY DEF Unlocked
  <2> QED BY <2>1 DEF WCTypeOK
<1>8. WCTypeOK'
  <2>1. \A p \in Queued' : seg'[p] \in Segment
    BY <1>5, <1>6 DEF WCTypeOK
  <2> QED BY <2>1, <1>2, <1>3, <1>6, <1>7 DEF WCTypeOK
<1>9. Ordered'
  <2> SUFFICES ASSUME NEW i \in DOMAIN wq', NEW j \in DOMAIN wq', i < j
               PROVE  wq'[i] < wq'[j]
    BY DEF Ordered
  <2>1. i \in 1 .. (Len(wq) - n) /\ j \in 1 .. (Len(wq) - n)
    BY <1>3
  <2>2. i + n \in 1 .. Len(wq) /\ j + n \in 1 .. Len(wq) /\ i + n < j + n
    <3>1. n \in Nat /\ Len(wq) \in Nat
      BY <1>1
    <3> QED BY <3>1, <2>1
  <2>3. wq'[i] = wq[i + n] /\ wq'[j] = wq[j + n]
    BY <2>1, <1>3
  <2> QED BY <2>2, <2>3, <1>1 DEF Ordered
<1>10. LastIsOriginal'
  <2> SUFFICES ASSUME wq' # << >> PROVE ~seg'[wq'[Len(wq')]].copy
    BY DEF LastIsOriginal
  <2>1. Len(wq') \in 1 .. (Len(wq) - n) /\ Len(wq') \in DOMAIN wq'
    BY <1>1, <1>3
  <2>2. Len(wq') + n = Len(wq) /\ wq'[Len(wq')] = wq[Len(wq') + n]
    BY <2>1, <1>1, <1>3
  <2>3. wq'[Len(wq')] = wq[Len(wq)]
    BY <2>2
  <2>4. wq'[Len(wq')] \in Queued'
    BY <2>1 DEF Queued
  <2>5. wq # << >>
    BY <2>1, <1>1
  <2> QED BY <2>3, <2>4, <2>5, <1>6 DEF LastIsOriginal
<1>11. KnownExtents' /\ Room'
  BY <1>2, <1>5, <1>6, <1>7 DEF KnownExtents, Room, Idle
<1> QED BY <1>2, <1>3, <1>4, <1>5, <1>6, <1>8, <1>9, <1>10, <1>11

(* front() drops copies only, and leaves an original in front.             *)
LEMMA FrontInv ==
  ASSUME WCInv, wq # << >>, Front
  PROVE  /\ WCInv'
         /\ Queued' \subseteq Queued
         /\ \A p \in Queued' : seg'[p] = seg[p]
         /\ Originals' = Originals
         /\ wq' # << >> /\ wq'[1] = wq[FrontPos] /\ wq'[1] \in Originals
         /\ UNCHANGED <<alloc, pushing, writes, latest>>
<1>1. /\ Unlocked /\ DropFront(FrontPos - 1)
      /\ Len(wq) \in Nat /\ DOMAIN wq = 1 .. Len(wq)
  BY DEF Front, WCInv, WCTypeOK
<1>2. /\ FrontPos \in 1 .. Len(wq)
      /\ ~seg[wq[FrontPos]].copy
      /\ \A j \in 1 .. (FrontPos - 1) : seg[wq[j]].copy
  BY <1>1, HasOriginal, FrontPosFirst
<1>3. FrontPos - 1 \in 0 .. Len(wq)
  BY <1>1, <1>2
<1> DEFINE n == FrontPos - 1
<1> HIDE DEF n
<1>4. /\ WCInv'
      /\ Len(wq') = Len(wq) - n
      /\ \A i \in 1 .. Len(wq') : wq'[i] = wq[i + n]
      /\ Queued' = {wq[i] : i \in (n + 1) .. Len(wq)}
      /\ Queued' \subseteq Queued
      /\ \A p \in Queued' : seg'[p] = seg[p]
      /\ UNCHANGED <<alloc, pushing, writes, latest>>
  BY <1>1, <1>3, DropFrontInv DEF n
<1>5. Originals' = Originals
  <2>1. ASSUME NEW p \in Originals PROVE p \in Queued'
    <3>1. PICK i \in 1 .. Len(wq) : p = wq[i] /\ ~seg[wq[i]].copy
      BY <1>1 DEF Originals, Queued
    <3>2. ~ (i < FrontPos)
      BY <3>1, <1>2
    <3> QED BY <3>1, <3>2, <1>1, <1>2, <1>4 DEF n
  <2> QED BY <2>1, <1>4 DEF Originals
<1>6. Len(wq') \in Nat /\ 1 \in 1 .. Len(wq') /\ wq' # << >>
  BY <1>1, <1>2, <1>4 DEF n
<1>7. wq'[1] = wq[FrontPos]
  BY <1>2, <1>4, <1>6 DEF n
<1>8. wq'[1] \in Originals
  BY <1>1, <1>2, <1>7 DEF Originals, Queued
<1> QED BY <1>4, <1>5, <1>6, <1>7, <1>8

(* pop() takes away the segment with the smallest number.                  *)
LEMMA PopInv ==
  ASSUME WCInv, wq # << >>, Pop
  PROVE  /\ WCInv'
         /\ Queued' = Queued \ {wq[1]}
         /\ \A p \in Queued' : wq[1] < p /\ seg'[p] = seg[p]
         /\ UNCHANGED <<alloc, pushing, writes, latest>>
<1>1. /\ Unlocked /\ DropFront(1)
      /\ Len(wq) \in Nat /\ DOMAIN wq = 1 .. Len(wq) /\ 1 \in 0 .. Len(wq)
      /\ \A i \in 1 .. Len(wq) : wq[i] \in Nat
  BY DEF Pop, WCInv, WCTypeOK
<1>2. /\ WCInv'
      /\ Queued' = {wq[i] : i \in (1 + 1) .. Len(wq)}
      /\ \A p \in Queued' : seg'[p] = seg[p]
      /\ UNCHANGED <<alloc, pushing, writes, latest>>
  BY <1>1, DropFrontInv
<1>3. \A p \in Queued' : wq[1] < p
  BY <1>1, <1>2 DEF WCInv, Ordered
<1>4. Queued' = Queued \ {wq[1]}
  <2>1. wq[1] \notin Queued'
    BY <1>1, <1>2, <1>3
  <2>2. 1 .. Len(wq) = {1} \cup ((1 + 1) .. Len(wq))
    BY <1>1
  <2>3. Queued = {wq[1]} \cup {wq[i] : i \in (1 + 1) .. Len(wq)}
    BY <2>2, <1>1 DEF Queued
  <2> QED BY <2>1, <2>3, <1>2
<1> QED BY <1>2, <1>3, <1>4

(* A step that leaves the cache alone.                                     *)
LEMMA QueueUnchanged ==
  ASSUME WCInv, UNCHANGED wcvars
  PROVE  /\ WCInv' /\ WCTypeOK'
         /\ Queued' = Queued
         /\ Originals' = Originals
         /\ \A p : Extent(p)' = Extent(p)
<1>1. UNCHANGED <<seg, wq, lbaidx, alloc, pushing, writes, latest>>
  BY DEF wcvars
<1>2. Queued' = Queued /\ Unlocked' = Unlocked
  BY <1>1 DEF Queued, Unlocked
<1>3. WCTypeOK'
  BY <1>1, <1>2 DEF WCInv, WCTypeOK
<1>4. Ordered' /\ LastIsOriginal' /\ KnownExtents' /\ Room'
  BY <1>1, <1>2 DEF WCInv, Ordered, LastIsOriginal, KnownExtents, Room
<1> QED BY <1>1, <1>2, <1>3, <1>4 DEF WCInv, Originals, Extent
-----------------------------------------------------------------------------
(* The by_lba index.  Kept() is a recursive function: an induction over it *)
(* is an argument about the least place where a claim would fail.          *)
KeepsTo(idx, S, n, f) ==
  f = [i \in 0 .. n |-> IF i = 0 THEN << >>
                        ELSE IF idx[i] \in S THEN Append(f[i - 1], idx[i]) ELSE f[i - 1]]
Keeps(idx, S) == CHOOSE f : KeepsTo(idx, S, Len(idx), f)

LEMMA KeepsExist ==
  ASSUME NEW T, NEW idx \in Seq(T), NEW S, NEW n \in 0 .. Len(idx)
  PROVE  \E f \in [0 .. n -> Seq(T)] : KeepsTo(idx, S, n, f)
<1> DEFINE Bad == {k \in 0 .. Len(idx) : ~ \E f \in [0 .. k -> Seq(T)] : KeepsTo(idx, S, k, f)}
<1>1. SUFFICES ASSUME Bad # {} PROVE FALSE
  OBVIOUS
<1>2. PICK k \in Bad : \A x \in Bad : k <= x
  <2>1. Bad \in SUBSET Nat
    OBVIOUS
  <2> HIDE DEF Bad
  <2> QED BY <1>1, <2>1, Least
<1>3. CASE k = 0
  <2> DEFINE f == [i \in 0 .. 0 |-> << >>]
  <2>1. f \in [0 .. 0 -> Seq(T)] /\ KeepsTo(idx, S, 0, f)
    BY DEF KeepsTo
  <2> QED BY <1>2, <1>3, <2>1
<1>4. CASE k # 0
  <2>1. k - 1 \in 0 .. Len(idx) /\ k - 1 \notin Bad
    <3>1. k \in 0 .. Len(idx) /\ Len(idx) \in Nat
      BY <1>2
    <3> HIDE DEF Bad
    <3>2. k - 1 \in 0 .. Len(idx) /\ ~ (k <= k - 1)
      BY <3>1, <1>4
    <3> QED BY <3>2, <1>2
  <2>2. PICK g \in [0 .. (k - 1) -> Seq(T)] : KeepsTo(idx, S, k - 1, g)
    BY <2>1
  <2> DEFINE new == IF idx[k] \in S THEN Append(g[k - 1], idx[k]) ELSE g[k - 1]
             f == [i \in 0 .. k |-> IF i = k THEN new ELSE g[i]]
  <2>3. idx[k] \in T /\ k \in Nat /\ g[k - 1] \in Seq(T)
    BY <1>2, <1>4
  <2>4. new \in Seq(T)
    BY <2>3
  <2>5. f \in [0 .. k -> Seq(T)]
    <3> HIDE DEF new
    <3> QED BY <2>3, <2>4
  <2>6. \A i \in 0 .. k : f[i] = IF i = 0 THEN << >>
                                 ELSE IF idx[i] \in S THEN Append(f[i - 1], idx[i]) ELSE f[i - 1]
    <3> TAKE i \in 0 .. k
    <3>1. CASE i = k
      <4>1. f[k] = new
        BY <2>3
      <4>2. f[k - 1] = g[k - 1]
        BY <2>3, <1>4
      <4> QED BY <3>1, <1>4, <4>1, <4>2
    <3>2. CASE i # k
      <4>1. f[i] = g[i] /\ i \in 0 .. (k - 1)
        BY <3>2, <2>3
      <4>2. g[i] = IF i = 0 THEN << >>
                   ELSE IF idx[i] \in S THEN Append(g[i - 1], idx[i]) ELSE g[i - 1]
        BY <2>2, <4>1 DEF KeepsTo
      <4>3. i # 0 => f[i - 1] = g[i - 1]
        BY <3>2, <2>3
      <4> QED BY <4>1, <4>2, <4>3
    <3> QED BY <3>1, <3>2
  <2>7. KeepsTo(idx, S, k, f)
    BY <2>6 DEF KeepsTo
  <2> QED BY <1>2, <2>5, <2>7
<1> QED BY <1>3, <1>4

(* What is kept of the first segments of an index: those of S, each, and   *)
(* in their order.                                                         *)
KeptOf(idx, S, i, s) ==
  /\ \A a \in DOMAIN s : \E j \in 1 .. i : idx[j] = s[a] /\ idx[j] \in S
  /\ \A j \in 1 .. i : idx[j] \in S => \E a \in DOMAIN s : s[a] = idx[j]
  /\ \A a, b \in DOMAIN s : a < b => \E j, k \in 1 .. i : j < k /\ idx[j] = s[a] /\ idx[k] = s[b]

LEMMA KeptSeq ==
  ASSUME NEW T, NEW idx \in Seq(T), NEW S
  PROVE  Kept(idx, S) \in Seq(T) /\ KeptOf(idx, S, Len(idx), Kept(idx, S))
<1>1. KeepsTo(idx, S, Len(idx), Keeps(idx, S))
  <2>1. Len(idx) \in 0 .. Len(idx)
    OBVIOUS
  <2>2. \E f : KeepsTo(idx, S, Len(idx), f)
    BY <2>1, KeepsExist, Zenon
  <2> QED BY <2>2, Zenon DEF Keeps
<1>2. Kept(idx, S) = Keeps(idx, S)[Len(idx)]
  BY Zenon DEF Kept, Keeps, KeepsTo
<1> DEFINE f == Keeps(idx, S)
           Bad == {k \in 0 .. Len(idx) : ~ (f[k] \in Seq(T) /\ KeptOf(idx, S, k, f[k]))}
<1> HIDE DEF f
<1>3. /\ f[0] = << >>
      /\ \A i \in 1 .. Len(idx) : /\ idx[i] \in S => f[i] = Append(f[i - 1], idx[i])
                                  /\ idx[i] \notin S => f[i] = f[i - 1]
  <2>1. f = [i \in 0 .. Len(idx) |->
               IF i = 0 THEN << >>
               ELSE IF idx[i] \in S THEN Append(f[i - 1], idx[i]) ELSE f[i - 1]]
    BY <1>1, Zenon DEF f, KeepsTo
  <2>2. \A i \in 0 .. Len(idx) : f[i] = IF i = 0 THEN << >>
               ELSE IF idx[i] \in S THEN Append(f[i - 1], idx[i]) ELSE f[i - 1]
    BY <2>1, Zenon
  <2>3. 0 \in 0 .. Len(idx) /\ \A i \in 1 .. Len(idx) : i \in 0 .. Len(idx) /\ i # 0
    OBVIOUS
  <2> QED BY <2>2, <2>3, Zenon
<1>4. Bad = {}
  <2> SUFFICES ASSUME Bad # {} PROVE FALSE
    OBVIOUS
  <2>1. PICK k \in Bad : \A x \in Bad : k <= x
    <3>1. Bad \in SUBSET Nat
      OBVIOUS
    <3> HIDE DEF Bad
    <3> QED BY <3>1, Least
  <2>2. k # 0
    <3>1. f[0] \in Seq(T) /\ KeptOf(idx, S, 0, f[0])
      BY <1>3 DEF KeptOf
    <3> QED BY <3>1, <2>1
  <2>3. /\ k \in 1 .. Len(idx) /\ k - 1 \in 0 .. Len(idx)
        /\ f[k - 1] \in Seq(T) /\ KeptOf(idx, S, k - 1, f[k - 1]) /\ idx[k] \in T
    BY <2>1, <2>2
  <2> DEFINE s == f[k - 1]
  <2>4. k \in Nat /\ \A j \in 1 .. (k - 1) : j \in 1 .. k /\ j < k
    BY <2>3
  <2>5. CASE idx[k] \notin S
    <3>1. f[k] = s
      BY <2>3, <2>5, <1>3
    <3>2. \A j \in 1 .. k : idx[j] \in S => j \in 1 .. (k - 1)
      BY <2>4, <2>5
    <3> HIDE DEF s
    <3>3. KeptOf(idx, S, k, s)
      <4>1. KeptOf(idx, S, k - 1, s)
        BY <2>3 DEF s
      <4> QED BY <4>1, <3>2, <2>4 DEF KeptOf
    <3> QED BY <3>1, <3>3, <2>1, <2>3 DEF s
  <2>6. CASE idx[k] \in S
    <3> DEFINE t == Append(s, idx[k])
               m == Len(s) + 1
    <3>1. f[k] = t
      BY <2>3, <2>6, <1>3
    <3>2. s \in Seq(T) /\ KeptOf(idx, S, k - 1, s)
      BY <2>3
    <3> HIDE DEF s
    <3>3. /\ t \in Seq(T) /\ m \in DOMAIN t /\ t[m] = idx[k]
          /\ \A a \in DOMAIN s : a \in DOMAIN t /\ t[a] = s[a] /\ a < m
          /\ \A a \in DOMAIN t : a \in DOMAIN s \/ a = m
          /\ m \in Nat /\ \A a \in DOMAIN t : a \in Nat /\ a <= m
      BY <3>2, <2>3
    <3> HIDE DEF t, m
    <3>4. \A a \in DOMAIN t : \E j \in 1 .. k : idx[j] = t[a] /\ idx[j] \in S
      <4> TAKE a \in DOMAIN t
      <4>1. CASE a \in DOMAIN s
        <5>1. PICK j \in 1 .. (k - 1) : idx[j] = s[a] /\ idx[j] \in S
          BY <4>1, <3>2 DEF KeptOf
        <5> QED BY <5>1, <4>1, <3>3, <2>4
      <4>2. CASE a = m
        <5>1. k \in 1 .. k
          BY <2>3
        <5> QED BY <5>1, <4>2, <3>3, <2>6
      <4> QED BY <4>1, <4>2, <3>3
    <3>5. ASSUME NEW j \in 1 .. k, idx[j] \in S PROVE \E a \in DOMAIN t : t[a] = idx[j]
      <4>1. j = k \/ j \in 1 .. (k - 1)
        BY <2>4
      <4> QED BY <4>1, <3>2, <3>3, <3>5 DEF KeptOf
    <3>6. ASSUME NEW a \in DOMAIN t, NEW b \in DOMAIN t, a < b
          PROVE  \E i, j \in 1 .. k : i < j /\ idx[i] = t[a] /\ idx[j] = t[b]
      <4>1. a \in DOMAIN s
        BY <3>3, <3>6
      <4>2. CASE b = m
        <5>1. PICK i \in 1 .. (k - 1) : idx[i] = s[a]
          BY <4>1, <3>2 DEF KeptOf
        <5>2. i \in 1 .. k /\ i < k /\ idx[i] = t[a] /\ idx[k] = t[b] /\ k \in 1 .. k
          BY <5>1, <4>1, <4>2, <3>3, <2>3, <2>4
        <5> QED BY <5>2
      <4>3. CASE b \in DOMAIN s
        <5>1. PICK i \in 1 .. (k - 1), j \in 1 .. (k - 1) : i < j /\ idx[i] = s[a] /\ idx[j] = s[b]
          BY <4>1, <4>3, <3>2, <3>6 DEF KeptOf
        <5>2. t[a] = s[a] /\ t[b] = s[b]
          BY <4>1, <4>3, <3>3
        <5> QED BY <5>1, <5>2, <2>4
      <4> QED BY <4>2, <4>3, <3>3
    <3>7. KeptOf(idx, S, k, t)
      BY <3>4, <3>5, <3>6 DEF KeptOf
    <3> QED BY <3>1, <3>3, <3>7, <2>1
  <2> QED BY <2>5, <2>6
<1>5. Len(idx) \in 0 .. Len(idx)
  OBVIOUS
<1>6. f[Len(idx)] \in Seq(T) /\ KeptOf(idx, S, Len(idx), f[Len(idx)])
  BY <1>4, <1>5
<1> QED BY <1>2, <1>6 DEF f

LEMMA InsertedSeq ==
  ASSUME NEW T, NEW idx \in Seq(T), NEW k \in 1 .. (Len(idx) + 1), NEW p \in T
  PROVE  /\ InsertedAt(idx, k, p) \in Seq(T)
         /\ Len(InsertedAt(idx, k, p)) = Len(idx) + 1
         /\ \A i \in 1 .. (k - 1) : InsertedAt(idx, k, p)[i] = idx[i]
         /\ InsertedAt(idx, k, p)[k] = p
         /\ \A i \in (k + 1) .. (Len(idx) + 1) : InsertedAt(idx, k, p)[i] = idx[i - 1]
<1> DEFINE n == Len(idx)
           u == SubSeq(idx, 1, k - 1)
           v == SubSeq(idx, k, n)
           m == u \o <<p>>
<1>1. n \in Nat /\ k \in Nat /\ k <= n + 1 /\ 1 <= k /\ \A i \in 1 .. n : idx[i] \in T
  OBVIOUS
<1>2. u \in Seq(T) /\ Len(u) = k - 1 /\ \A i \in 1 .. (k - 1) : u[i] = idx[i]
  <2>1. /\ u \in Seq(T) /\ Len(u) = (IF 1 <= k - 1 THEN k - 1 - 1 + 1 ELSE 0)
        /\ \A i \in 1 .. (k - 1 - 1 + 1) : u[i] = idx[1 + i - 1]
    <3>1. 1 \in Int /\ k - 1 \in Int /\ \A i \in 1 .. (k - 1) : idx[i] \in T
      BY <1>1
    <3> QED BY <3>1, SubSeqProperties
  <2> HIDE DEF u
  <2>2. \A i \in 1 .. (k - 1) : i \in 1 .. (k - 1 - 1 + 1) /\ 1 + i - 1 = i
    BY <1>1
  <2> QED BY <2>1, <2>2, <1>1
<1>3. v \in Seq(T) /\ Len(v) = n - k + 1 /\ \A i \in 1 .. (n - k + 1) : v[i] = idx[k + i - 1]
  <2>1. /\ v \in Seq(T) /\ Len(v) = (IF k <= n THEN n - k + 1 ELSE 0)
        /\ \A i \in 1 .. (n - k + 1) : v[i] = idx[k + i - 1]
    <3>1. k \in Int /\ n \in Int /\ \A i \in k .. n : idx[i] \in T
      BY <1>1
    <3> QED BY <3>1, SubSeqProperties
  <2> HIDE DEF v, n
  <2> QED BY <2>1, <1>1
<1>4. <<p>> \in Seq(T) /\ Len(<<p>>) = 1 /\ <<p>>[1] = p
  OBVIOUS
<1> HIDE DEF u, v, n
<1>5. /\ m \in Seq(T) /\ Len(m) = k /\ m[k] = p
      /\ \A i \in 1 .. (k - 1) : m[i] = idx[i]
  BY <1>1, <1>2, <1>4
<1> DEFINE r == InsertedAt(idx, k, p)
<1>6. r = m \o v
  BY DEF InsertedAt, u, v, n
<1> HIDE DEF m, r
<1>7. /\ r \in Seq(T) /\ Len(r) = Len(m) + Len(v)
      /\ \A i \in 1 .. (Len(m) + Len(v)) : r[i] = IF i <= Len(m) THEN m[i] ELSE v[i - Len(m)]
  BY <1>3, <1>5, <1>6, ConcatProperties
<1>8. Len(r) = n + 1
  BY <1>1, <1>3, <1>5, <1>7
<1>9. \A i \in 1 .. k : r[i] = m[i]
  BY <1>1, <1>3, <1>5, <1>7
<1>10. ASSUME NEW i \in (k + 1) .. (n + 1) PROVE r[i] = idx[i - 1]
  <2>1. /\ i \in 1 .. (Len(m) + Len(v)) /\ ~ (i <= Len(m))
        /\ i - k \in 1 .. (n - k + 1) /\ k + (i - k) - 1 = i - 1
    BY <1>1, <1>3, <1>5
  <2>2. r[i] = v[i - k]
    BY <2>1, <1>5, <1>7
  <2>3. v[i - k] = idx[k + (i - k) - 1]
    BY <2>1, <1>3
  <2> QED BY <2>1, <2>2, <2>3
<1>11. r[k] = p /\ \A i \in 1 .. (k - 1) : r[i] = idx[i]
  <2>1. k \in 1 .. k /\ \A i \in 1 .. (k - 1) : i \in 1 .. k
    BY <1>1
  <2> QED BY <2>1, <1>5, <1>9
<1>12. r \in Seq(T)
  BY <1>7
<1> QED BY <1>8, <1>10, <1>11, <1>12 DEF r, n

LEMMA MaxOrLast ==
  ASSUME NEW k \in Nat, NEW S \in SUBSET (0 .. k), NEW d
  PROVE  /\ S # {} => MaxOr(S, d) \in S /\ \A x \in S : x <= MaxOr(S, d)
         /\ S = {} => MaxOr(S, d) = d
<1>1. ASSUME S # {} PROVE \E m \in S : \A x \in S : x <= m
  <2> DEFINE T == {y \in 0 .. k : k - y \in S}
  <2>1. PICK z \in S : TRUE
    BY <1>1
  <2>2. k - z \in T
    BY <2>1
  <2>3. PICK y \in T : \A x \in T : y <= x
    <3>1. T \in SUBSET Nat
      OBVIOUS
    <3> HIDE DEF T
    <3> QED BY <2>2, <3>1, Least
  <2>4. ASSUME NEW x \in S PROVE x <= k - y
    <3>1. k - x \in T
      OBVIOUS
    <3>2. y <= k - x
      BY <2>3, <3>1
    <3> QED BY <2>3, <3>2
  <2> QED BY <2>3, <2>4
<1> QED BY <1>1 DEF MaxOr
-----------------------------------------------------------------------------
(* The index holds the queued segments, each once, for any extents.        *)
Index ==
  /\ lbaidx \in Seq(Queued)
  /\ \A p \in Queued : \E i \in DOMAIN lbaidx : lbaidx[i] = p
  /\ \A i, j \in DOMAIN lbaidx : lbaidx[i] = lbaidx[j] => i = j

(* What the threads do to the cache.                                       *)
CacheStep ==
  \/ Push
  \/ \E n \in 0 .. Len(wq) : Unlocked /\ DropFront(n)
  \/ UNCHANGED wcvars

LEMMA CountOnce ==
  ASSUME NEW S, NEW s \in Seq(S),
         \A i, j \in DOMAIN s : s[i] = s[j] => i = j,
         \A x \in S : \E i \in DOMAIN s : s[i] = x
  PROVE  Cardinality(S) = Len(s)
<1>1. DOMAIN s = 1 .. Len(s) /\ Len(s) \in Nat /\ s \in [1 .. Len(s) -> S]
  OBVIOUS
<1>2. s \in Bijection(1 .. Len(s), S)
  BY <1>1, Fun_IsBij
<1>3. ExistsBijection(1 .. Len(s), S)
  BY <1>2 DEF ExistsBijection
<1>4. IsFiniteSet(1 .. Len(s)) /\ Cardinality(1 .. Len(s)) = Len(s)
  BY <1>1, FS_Interval
<1> QED BY <1>3, <1>4, FS_Bijection

LEMMA IndexAgrees == ASSUME WCInv, Index PROVE IndicesAgree
<1>1. /\ wq \in Seq(1 .. alloc) /\ DOMAIN wq = 1 .. Len(wq) /\ Len(wq) \in Nat
      /\ \A i \in DOMAIN wq : wq[i] \in Nat
  BY DEF WCInv, WCTypeOK
<1>2. wq \in Seq(Queued)
  BY <1>1 DEF Queued
<1>3. \A i, j \in DOMAIN wq : wq[i] = wq[j] => i = j
  <2> SUFFICES ASSUME NEW i \in DOMAIN wq, NEW j \in DOMAIN wq, wq[i] = wq[j] PROVE i = j
    OBVIOUS
  <2>1. ~ (i < j) /\ ~ (j < i)
    BY <1>1 DEF WCInv, Ordered
  <2> QED BY <2>1, <1>1
<1>4. Cardinality(Queued) = Len(wq)
  <2>1. \A p \in Queued : \E i \in DOMAIN wq : wq[i] = p
    BY DEF Queued
  <2> QED BY <1>2, <1>3, <2>1, CountOnce
<1>5. Cardinality(Queued) = Len(lbaidx)
  BY CountOnce DEF Index
<1>6. {lbaidx[i] : i \in DOMAIN lbaidx} = Queued
  <2>1. \A i \in DOMAIN lbaidx : lbaidx[i] \in Queued
    BY DEF Index
  <2> QED BY <2>1 DEF Index
<1> QED BY <1>4, <1>5, <1>6 DEF IndicesAgree

(* push_back() inserts the new segment at one place of the index.          *)
LEMMA PushBackIndex ==
  ASSUME WCTypeOK, Ordered, Index, NEW s, NEW segs, DOMAIN segs = Queued, PushBack(s, segs)
  PROVE  /\ Index'
         /\ \E k \in InsertPoints(lbaidx, seg, s.rlba) :
              /\ k \in 1 .. (Len(lbaidx) + 1) /\ lbaidx'[k] = alloc + 1
              /\ DOMAIN lbaidx' = 1 .. (Len(lbaidx) + 1)
              /\ \A i \in 1 .. (k - 1) : lbaidx'[i] = lbaidx[i]
              /\ \A i \in (k + 1) .. (Len(lbaidx) + 1) : lbaidx'[i] = lbaidx[i - 1]
<1> DEFINE n == Len(lbaidx)
           q == alloc + 1
<1>1. /\ lbaidx \in Seq(Queued) /\ n \in Nat /\ DOMAIN lbaidx = 1 .. n
      /\ \A i \in 1 .. n : lbaidx[i] \in Queued
  BY DEF Index
<1>2. Queued' = Queued \cup {q} /\ q \notin Queued
  BY PushBackEffect
<1>3. PICK k \in InsertPoints(lbaidx, seg, s.rlba) : lbaidx' = InsertedAt(lbaidx, k, q)
  BY DEF PushBack
<1>4. k \in 1 .. (n + 1)
  BY <1>3 DEF InsertPoints
<1> HIDE DEF n, q
<1>5. lbaidx \in Seq(Queued') /\ q \in Queued'
  BY <1>1, <1>2 DEF n
<1>6. /\ lbaidx' \in Seq(Queued') /\ Len(lbaidx') = n + 1 /\ lbaidx'[k] = q
      /\ \A i \in 1 .. (k - 1) : lbaidx'[i] = lbaidx[i]
      /\ \A i \in (k + 1) .. (n + 1) : lbaidx'[i] = lbaidx[i - 1]
  <2> DEFINE T == Queued'
             r == InsertedAt(lbaidx, k, q)
  <2>1. lbaidx \in Seq(T) /\ q \in T /\ k \in 1 .. (Len(lbaidx) + 1)
    BY <1>4, <1>5 DEF n
  <2> HIDE DEF T
  <2>2. /\ r \in Seq(T) /\ Len(r) = Len(lbaidx) + 1
        /\ \A i \in 1 .. (k - 1) : r[i] = lbaidx[i]
        /\ r[k] = q
        /\ \A i \in (k + 1) .. (Len(lbaidx) + 1) : r[i] = lbaidx[i - 1]
    BY <2>1, InsertedSeq
  <2> HIDE DEF r
  <2>3. lbaidx' = r
    BY <1>3 DEF r
  <2> QED BY <2>2, <2>3 DEF n, T
<1>7. DOMAIN lbaidx' = 1 .. (n + 1)
  BY <1>6, <1>1
<1> DEFINE Old(i) == IF i < k THEN i ELSE i - 1
<1>8. ASSUME NEW i \in 1 .. (n + 1), i # k
      PROVE  /\ Old(i) \in 1 .. n /\ lbaidx'[i] = lbaidx[Old(i)] /\ lbaidx'[i] # q
  <2>1. CASE i < k
    <3>1. i \in 1 .. (k - 1) /\ i \in 1 .. n
      BY <2>1, <1>1, <1>4
    <3> QED BY <2>1, <3>1, <1>1, <1>2, <1>6
  <2>2. CASE ~ (i < k)
    <3>1. i \in (k + 1) .. (n + 1) /\ i - 1 \in 1 .. n
      BY <2>2, <1>1, <1>4, <1>8
    <3> QED BY <2>2, <3>1, <1>1, <1>2, <1>6
  <2> QED BY <2>1, <2>2
<1>9. \A i, j \in DOMAIN lbaidx' : lbaidx'[i] = lbaidx'[j] => i = j
  <2> SUFFICES ASSUME NEW i \in 1 .. (n + 1), NEW j \in 1 .. (n + 1), lbaidx'[i] = lbaidx'[j]
               PROVE  i = j
    BY <1>7
  <2>1. CASE i = k \/ j = k
    BY <2>1, <1>6, <1>8
  <2>2. CASE i # k /\ j # k
    <3>1. Old(i) \in 1 .. n /\ Old(j) \in 1 .. n /\ lbaidx[Old(i)] = lbaidx[Old(j)]
      BY <2>2, <1>8
    <3>2. Old(i) = Old(j)
      BY <3>1, <1>1 DEF Index
    <3> QED BY <3>2, <2>2, <1>1, <1>4
  <2> QED BY <2>1, <2>2
<1>10. ASSUME NEW p \in Queued' PROVE \E i \in DOMAIN lbaidx' : lbaidx'[i] = p
  <2>1. CASE p = q
    BY <2>1, <1>4, <1>6, <1>7
  <2>2. CASE p \in Queued
    <3>1. PICK i \in 1 .. n : lbaidx[i] = p
      BY <2>2, <1>1 DEF Index
    <3>2. CASE i < k
      <4>1. i \in 1 .. (k - 1) /\ i \in 1 .. (n + 1)
        BY <3>2, <1>1, <1>4
      <4> QED BY <4>1, <3>1, <1>6, <1>7
    <3>3. CASE ~ (i < k)
      <4>1. i + 1 \in (k + 1) .. (n + 1) /\ i + 1 \in 1 .. (n + 1) /\ (i + 1) - 1 = i
        BY <3>3, <1>1, <1>4
      <4> QED BY <4>1, <3>1, <1>6, <1>7
    <3> QED BY <3>2, <3>3
  <2> QED BY <2>1, <2>2, <1>2
<1>11. Index'
  BY <1>6, <1>9, <1>10 DEF Index
<1> QED BY <1>3, <1>4, <1>6, <1>7, <1>11 DEF n, q

(* The places of a cut index come from places of the index, in order.      *)
LEMMA DropFrontIndex ==
  ASSUME WCInv, Index, Unlocked, NEW n \in 0 .. Len(wq), DropFront(n)
  PROVE  /\ Index'
         /\ \A i, j \in DOMAIN lbaidx' : i < j =>
              \E a, b \in DOMAIN lbaidx : a < b /\ lbaidx[a] = lbaidx'[i] /\ lbaidx[b] = lbaidx'[j]
<1>1. /\ Queued' = {wq[i] : i \in (n + 1) .. Len(wq)} /\ Queued' \subseteq Queued
  BY DropFrontInv
<1>2. lbaidx' = Kept(lbaidx, Queued')
  BY <1>1 DEF DropFront
<1>3. lbaidx \in Seq(Queued) /\ DOMAIN lbaidx = 1 .. Len(lbaidx)
  BY DEF Index
<1>4. lbaidx' \in Seq(Queued) /\ KeptOf(lbaidx, Queued', Len(lbaidx), lbaidx')
  BY <1>2, <1>3, KeptSeq
<1>5. /\ \A a \in DOMAIN lbaidx' : lbaidx'[a] \in Queued'
      /\ \A j \in DOMAIN lbaidx : lbaidx[j] \in Queued' =>
           \E a \in DOMAIN lbaidx' : lbaidx'[a] = lbaidx[j]
      /\ \A a, b \in DOMAIN lbaidx' : a < b =>
           \E j, k \in DOMAIN lbaidx : j < k /\ lbaidx[j] = lbaidx'[a] /\ lbaidx[k] = lbaidx'[b]
  <2> DEFINE T == Queued'
             r == lbaidx'
  <2>1. KeptOf(lbaidx, T, Len(lbaidx), r)
    BY <1>4
  <2> HIDE DEF T, r
  <2>2. \A a \in DOMAIN r : \E j \in DOMAIN lbaidx : lbaidx[j] = r[a] /\ lbaidx[j] \in T
    BY <2>1, <1>3, Zenon DEF KeptOf
  <2>3. \A j \in DOMAIN lbaidx : lbaidx[j] \in T => \E a \in DOMAIN r : r[a] = lbaidx[j]
    BY <2>1, <1>3, Zenon DEF KeptOf
  <2>4. \A a, b \in DOMAIN r : a < b =>
          \E j, k \in DOMAIN lbaidx : j < k /\ lbaidx[j] = r[a] /\ lbaidx[k] = r[b]
    <3> SUFFICES ASSUME NEW a \in DOMAIN r, NEW b \in DOMAIN r, a < b
                 PROVE  \E j, k \in DOMAIN lbaidx : j < k /\ lbaidx[j] = r[a] /\ lbaidx[k] = r[b]
      BY Zenon
    <3>1. PICK j \in 1 .. Len(lbaidx), k \in 1 .. Len(lbaidx) :
            j < k /\ lbaidx[j] = r[a] /\ lbaidx[k] = r[b]
      BY <2>1 DEF KeptOf
    <3>2. j \in DOMAIN lbaidx /\ k \in DOMAIN lbaidx
      BY <1>3
    <3> QED BY <3>1, <3>2, Zenon
  <2>5. \A a \in DOMAIN r : r[a] \in T
    BY <2>2, Zenon
  <2> QED BY <2>3, <2>4, <2>5 DEF T, r
<1>6. lbaidx' \in Seq(Queued') /\ DOMAIN lbaidx' \subseteq Nat
  <2> DEFINE T == Queued'
             r == lbaidx'
  <2>1. r \in Seq(Queued) /\ \A a \in DOMAIN r : r[a] \in T
    BY <1>4, <1>5
  <2> HIDE DEF T, r
  <2>2. r \in Seq(T) /\ DOMAIN r \subseteq Nat
    BY <2>1
  <2> QED BY <2>2 DEF T, r
<1>7. ASSUME NEW p \in Queued' PROVE \E i \in DOMAIN lbaidx' : lbaidx'[i] = p
  <2>1. p \in Queued
    BY <1>1
  <2>2. PICK j \in DOMAIN lbaidx : lbaidx[j] = p
    BY <2>1, Zenon DEF Index
  <2> QED BY <2>2, <1>5, <1>7, Zenon
<1>8. \A i, j \in DOMAIN lbaidx' : lbaidx'[i] = lbaidx'[j] => i = j
  <2>1. ASSUME NEW i \in DOMAIN lbaidx', NEW j \in DOMAIN lbaidx', lbaidx'[i] = lbaidx'[j], i < j
        PROVE  FALSE
    <3>1. PICK a \in DOMAIN lbaidx, b \in DOMAIN lbaidx :
            a < b /\ lbaidx[a] = lbaidx'[i] /\ lbaidx[b] = lbaidx'[j]
      BY <2>1, <1>5
    <3>2. a = b
      BY <2>1, <3>1 DEF Index
    <3> QED BY <3>1, <3>2, <1>3
  <2>2. \A i, j \in DOMAIN lbaidx' : i = j \/ i < j \/ j < i
    BY <1>6
  <2> QED BY <2>1, <2>2
<1> QED BY <1>5, <1>6, <1>7, <1>8 DEF Index

(* front() and pop() are such steps.                                       *)
LEMMA FrontDrops ==
  ASSUME WCInv, wq # << >>, Front
  PROVE  CacheStep
<1>1. Unlocked /\ DropFront(FrontPos - 1) /\ Len(wq) \in Nat /\ DOMAIN wq = 1 .. Len(wq)
  BY DEF Front, WCInv, WCTypeOK
<1>2. FrontPos \in 1 .. Len(wq)
  BY <1>1, HasOriginal, FrontPosFirst
<1>3. FrontPos - 1 \in 0 .. Len(wq)
  BY <1>1, <1>2
<1> QED BY <1>1, <1>3 DEF CacheStep

LEMMA PopDrops ==
  ASSUME WCInv, Pop
  PROVE  CacheStep
<1>1. CASE wq = << >>
  BY <1>1 DEF Pop, CacheStep
<1>2. CASE wq # << >>
  <2>1. Unlocked /\ DropFront(1) /\ 1 \in 0 .. Len(wq)
    BY <1>2 DEF Pop, WCInv, WCTypeOK
  <2> QED BY <2>1 DEF CacheStep
<1> QED BY <1>1, <1>2

LEMMA WCInitIndex == ASSUME WCInit PROVE Index
<1>1. lbaidx = << >> /\ wq = << >>
  BY DEF WCInit
<1>2. Queued = {}
  BY <1>1 DEF Queued
<1> QED BY <1>1, <1>2 DEF Index

LEMMA IndexStep ==
  ASSUME WCInv, Index, CacheStep
  PROVE  Index'
<1>1. ASSUME UNCHANGED <<wq, lbaidx>> PROVE Index'
  BY <1>1 DEF Index, Queued
<1>2. CASE \E e \in Extents : PushBegin(e[1], e[2])
  BY <1>1, <1>2 DEF PushBegin
<1>3. CASE PushHit
  <2>1. PICK p \in pushing.hits :
          IF Splits(seg[p], pushing)
          THEN PushBack(SplitRest(seg[p], pushing), [seg EXCEPT ![p] = Trimmed(seg[p], pushing)])
          ELSE UNCHANGED <<alloc, wq, lbaidx>>
    BY <1>3 DEF PushHit
  <2>2. CASE ~ Splits(seg[p], pushing)
    BY <2>1, <2>2, <1>1
  <2>3. CASE Splits(seg[p], pushing)
    <3> DEFINE segs == [seg EXCEPT ![p] = Trimmed(seg[p], pushing)]
               s == SplitRest(seg[p], pushing)
    <3>1. DOMAIN segs = Queued
      BY DEF WCInv, WCTypeOK
    <3>2. PushBack(s, segs)
      BY <2>1, <2>3
    <3> HIDE DEF segs, s
    <3> QED BY <3>1, <3>2, PushBackIndex DEF WCInv
  <2> QED BY <2>2, <2>3
<1>4. CASE PushEnd
  <2>1. DOMAIN seg = Queued /\ PushBack(NewSegment(pushing.lba, pushing.len, alloc + 1), seg)
    BY <1>4 DEF PushEnd, WCInv, WCTypeOK
  <2> QED BY <2>1, PushBackIndex DEF WCInv
<1>5. CASE \E n \in 0 .. Len(wq) : Unlocked /\ DropFront(n)
  BY <1>5, DropFrontIndex
<1>6. CASE UNCHANGED wcvars
  BY <1>1, <1>6 DEF wcvars
<1> QED BY <1>2, <1>3, <1>4, <1>5, <1>6 DEF CacheStep, Push
-----------------------------------------------------------------------------
(* What a READ gets.  The index is searched as if it were sorted, and push *)
(* moves rlba, its key, in place: it stays sorted, and no segment splits,  *)
(* when no write has more than one boundary of writes inside it, as with   *)
(* writes of one or two cells of a grid.                                   *)
Boundaries == {e[1] : e \in Extents} \cup {e[1] + e[2] : e \in Extents}
Inside(x, e) == e[1] < x /\ x < e[1] + e[2]
OneInside ==
  \A e \in Extents : \A x, y \in Boundaries : Inside(x, e) /\ Inside(y, e) => x = y

(* A segment is an original, is read at its data, and answers for a part   *)
(* of its write that starts at a boundary.                                 *)
Whole(p) ==
  /\ ~seg[p].copy /\ seg[p].src = p /\ seg[p].ds_offset = DsOffset
  /\ seg[p].lba <= seg[p].rlba /\ ReadEnd(seg[p]) <= seg[p].lba + seg[p].len
  /\ seg[p].rlba \in Boundaries

(* The index is sorted; of two segments at the same address the first is   *)
(* covered, or has lost its head and loses no more of it.                  *)
At(i) == seg[lbaidx[i]]
Sorted ==
  \A i, j \in DOMAIN lbaidx : i < j =>
    /\ At(i).rlba <= At(j).rlba
    /\ At(i).rlba = At(j).rlba /\ At(i).rlen > 0 => At(i).lba < At(i).rlba

(* What push() has still to trim is what overlaps the new write.           *)
Overlaps(s, lba, len) == s.rlba < lba + len /\ lba < ReadEnd(s)
HitsExact ==
  pushing.on => pushing.hits = {p \in Live : Overlaps(seg[p], pushing.lba, pushing.len)}

(* A block is covered by the segment of its last write, if that is queued, *)
(* and by no other one; while push() trims, the blocks it writes may be    *)
(* covered by none.                                                        *)
Writing(b) == pushing.on /\ pushing.lba <= b /\ b < pushing.lba + pushing.len
Owned ==
  \A b \in Blocks :
    /\ \A p \in Queued : Covers(seg[p], b) => latest[b] = p
    /\ latest[b] \in Queued /\ ~Writing(b) => Covers(seg[latest[b]], b)

CInv == (\A p \in Queued : Whole(p)) /\ Sorted /\ HitsExact /\ Owned

(* The scalars of a queued segment.                                        *)
LEMMA SegmentNats ==
  ASSUME WCInv, NEW p \in Queued
  PROVE  /\ seg[p].lba \in Nat /\ seg[p].len \in Nat \ {0}
         /\ seg[p].rlba \in Nat /\ seg[p].rlen \in Nat
         /\ ReadEnd(seg[p]) \in Nat /\ ReadEnd(seg[p]) = seg[p].rlba + seg[p].rlen
         /\ <<seg[p].lba, seg[p].len>> \in Extents
         /\ \A b \in Nat : seg[p].lba <= b /\ b < seg[p].lba + seg[p].len => b \in Blocks
<1>1. seg[p] \in Segment /\ <<seg[p].lba, seg[p].len>> \in Extents
  BY DEF WCInv, WCTypeOK, KnownExtents
<1>2. /\ seg[p].lba \in Nat /\ seg[p].len \in Nat \ {0}
      /\ seg[p].rlba \in Nat /\ seg[p].rlen \in Nat
  BY <1>1 DEF Segment
<1> DEFINE e == <<seg[p].lba, seg[p].len>>
<1>3. e \in Extents /\ e[1] = seg[p].lba /\ e[2] = seg[p].len
  BY <1>1
<1>4. ASSUME NEW b \in Nat, seg[p].lba <= b, b < seg[p].lba + seg[p].len PROVE b \in Blocks
  <2>1. b \in e[1] .. (e[1] + e[2] - 1)
    BY <1>2, <1>3, <1>4
  <2> QED BY <1>3, <2>1 DEF Blocks
<1> QED BY <1>1, <1>2, <1>4 DEF ReadEnd

(* Two live segments do not overlap.                                       *)
LEMMA LiveDisjoint ==
  ASSUME WCInv, CInv, NEW p \in Live, NEW q \in Live, p # q
  PROVE  ReadEnd(seg[p]) <= seg[q].rlba \/ ReadEnd(seg[q]) <= seg[p].rlba
<1>1. p \in Queued /\ q \in Queued /\ seg[p].rlen > 0 /\ seg[q].rlen > 0
  BY DEF Live, WCInv, WCTypeOK
<1> DEFINE b == IF seg[p].rlba <= seg[q].rlba THEN seg[q].rlba ELSE seg[p].rlba
<1>2. /\ seg[p].rlba \in Nat /\ seg[p].rlen \in Nat /\ seg[q].rlba \in Nat /\ seg[q].rlen \in Nat
      /\ ReadEnd(seg[p]) = seg[p].rlba + seg[p].rlen
      /\ ReadEnd(seg[q]) = seg[q].rlba + seg[q].rlen
      /\ seg[p].lba \in Nat /\ seg[p].len \in Nat
      /\ seg[p].lba <= seg[p].rlba /\ ReadEnd(seg[p]) <= seg[p].lba + seg[p].len
  BY <1>1, SegmentNats DEF CInv, Whole
<1>3. SUFFICES ASSUME seg[q].rlba < ReadEnd(seg[p]), seg[p].rlba < ReadEnd(seg[q])
               PROVE  FALSE
  BY <1>2
<1>4. Covers(seg[p], b) /\ Covers(seg[q], b) /\ b \in Nat
  BY <1>1, <1>2, <1>3 DEF Covers
<1>5. b \in Blocks
  <2>1. seg[p].lba <= b /\ b < seg[p].lba + seg[p].len
    BY <1>2, <1>4 DEF Covers
  <2> QED BY <2>1, <1>1, <1>4, SegmentNats
<1> HIDE DEF b
<1> QED BY <1>1, <1>4, <1>5 DEF CInv, Owned

(* The places of the index.                                                *)
LEMMA Places ==
  ASSUME WCInv, Index
  PROVE  /\ Len(lbaidx) \in Nat /\ DOMAIN lbaidx = 1 .. Len(lbaidx)
         /\ \A i \in 1 .. Len(lbaidx) :
              /\ lbaidx[i] \in Queued
              /\ At(i).rlba \in Nat /\ At(i).rlen \in Nat /\ At(i).lba \in Nat
              /\ ReadEnd(At(i)) = At(i).rlba + At(i).rlen /\ ReadEnd(At(i)) \in Nat
              /\ lbaidx[i] \in Live <=> At(i).rlen > 0
<1>1. lbaidx \in Seq(Queued) /\ Len(lbaidx) \in Nat /\ DOMAIN lbaidx = 1 .. Len(lbaidx)
      /\ \A i \in 1 .. Len(lbaidx) : lbaidx[i] \in Queued
  BY DEF Index
<1>2. Live = {p \in Queued : seg[p].rlen > 0}
  BY DEF Live, WCInv, WCTypeOK
<1>3. ASSUME NEW i \in 1 .. Len(lbaidx)
      PROVE  /\ lbaidx[i] \in Queued
             /\ At(i).rlba \in Nat /\ At(i).rlen \in Nat /\ At(i).lba \in Nat
             /\ ReadEnd(At(i)) = At(i).rlba + At(i).rlen /\ ReadEnd(At(i)) \in Nat
             /\ lbaidx[i] \in Live <=> At(i).rlen > 0
  <2>1. lbaidx[i] \in Queued
    BY <1>1
  <2> QED BY <2>1, <1>2, SegmentNats DEF At
<1> QED BY <1>1, <1>3

(* A descent in a sorted index ends at the only lower bound.               *)
LEMMA LowerBoundSplits ==
  ASSUME WCInv, Index, Sorted, NEW a \in Nat, NEW k \in LowerBounds(a)
  PROVE  /\ k \in 1 .. (Len(lbaidx) + 1)
         /\ \A j \in 1 .. Len(lbaidx) : j < k => At(j).rlba < a
         /\ \A j \in 1 .. Len(lbaidx) : k <= j => a <= At(j).rlba
<1> DEFINE n == Len(lbaidx)
<1>1. /\ n \in Nat /\ DOMAIN lbaidx = 1 .. n
      /\ \A i \in 1 .. n : At(i).rlba \in Nat
  BY Places
<1>2. /\ k \in 1 .. (n + 1)
      /\ k > 1 => At(k - 1).rlba < a
      /\ k <= n => a <= At(k).rlba
  BY DEF LowerBounds, At
<1>3. \A i, j \in 1 .. n : i < j => At(i).rlba <= At(j).rlba
  BY <1>1 DEF Sorted
<1> HIDE DEF n
<1>4. ASSUME NEW j \in 1 .. n, j < k PROVE At(j).rlba < a
  <2>1. k - 1 \in 1 .. n /\ k > 1 /\ (j = k - 1 \/ j < k - 1)
    BY <1>1, <1>2, <1>4
  <2>2. At(j).rlba <= At(k - 1).rlba
    BY <2>1, <1>1, <1>3
  <2> QED BY <2>1, <2>2, <1>1, <1>2
<1>5. ASSUME NEW j \in 1 .. n, k <= j PROVE a <= At(j).rlba
  <2>1. k \in 1 .. n /\ k <= n /\ (j = k \/ k < j)
    BY <1>1, <1>2, <1>5
  <2>2. At(k).rlba <= At(j).rlba
    BY <2>1, <1>1, <1>3
  <2> QED BY <2>1, <2>2, <1>1, <1>2
<1> QED BY <1>2, <1>4, <1>5 DEF n

LEMMA LowerBoundExists ==
  ASSUME WCInv, Index, NEW a \in Nat
  PROVE  LowerBounds(a) # {}
<1> DEFINE n == Len(lbaidx)
           K == {k \in 1 .. (n + 1) : k <= n => a <= At(k).rlba}
<1>1. n \in Nat /\ \A i \in 1 .. n : At(i).rlba \in Nat
  BY Places
<1> HIDE DEF n
<1>2. n + 1 \in K /\ K \in SUBSET Nat
  BY <1>1
<1>3. PICK k \in K : \A x \in K : k <= x
  <2> HIDE DEF K
  <2> QED BY <1>2, Least
<1>4. k \in 1 .. (n + 1) /\ (k <= n => a <= At(k).rlba)
  BY <1>3
<1>5. k > 1 => At(k - 1).rlba < a
  <2> SUFFICES ASSUME k > 1 PROVE At(k - 1).rlba < a
    OBVIOUS
  <2>1. k - 1 \in 1 .. n /\ ~ (k <= k - 1)
    BY <1>1, <1>4
  <2>2. k - 1 \notin K
    BY <2>1, <1>3
  <2>3. ~ (a <= At(k - 1).rlba)
    BY <2>1, <2>2, <1>1
  <2> QED BY <2>1, <2>3, <1>1
<1>6. k \in LowerBounds(a)
  BY <1>4, <1>5 DEF LowerBounds, At, n
<1> QED BY <1>6

(* _search() returns the live segments that overlap the range.             *)
LEMMA SearchExact ==
  ASSUME WCInv, Index, CInv, NEW a \in Nat, NEW len \in Nat \ {0}, NEW k \in LowerBounds(a)
  PROVE  Search(a, len, k) = {p \in Live : Overlaps(seg[p], a, len)}
<1> DEFINE n == Len(lbaidx)
           tail == a + len
           B == {j \in 1 .. k : j <= n /\ At(j).rlba <= a /\ At(j).rlen > 0}
           back == MaxOr(B, 1)
           C == {j \in back .. (k - 1) : At(j).rlen > 0 /\ a < ReadEnd(At(j))}
           first == MinOr(C, k)
           E == {j \in first .. n : tail <= At(j).rlba}
           end == MinOr(E, n + 1)
<1>1. Search(a, len, k) = {lbaidx[j] : j \in first .. (end - 1)} \cap Live
  BY DEF Search, HitsFrom, FirstHit, At
<1>2. /\ n \in Nat /\ DOMAIN lbaidx = 1 .. n
      /\ \A i \in 1 .. n :
           /\ lbaidx[i] \in Queued
           /\ At(i).rlba \in Nat /\ At(i).rlen \in Nat
           /\ ReadEnd(At(i)) = At(i).rlba + At(i).rlen
           /\ lbaidx[i] \in Live <=> At(i).rlen > 0
  BY Places
<1>3. /\ k \in 1 .. (n + 1)
      /\ \A j \in 1 .. n : j < k => At(j).rlba < a
      /\ \A j \in 1 .. n : k <= j => a <= At(j).rlba
  BY LowerBoundSplits DEF CInv
<1>4. \A i, j \in 1 .. n : i < j => At(i).rlba <= At(j).rlba
  BY <1>2 DEF CInv, Sorted
<1>5. /\ B # {} => back \in B /\ \A x \in B : x <= back
      /\ B = {} => back = 1
  <2>1. B \in SUBSET (0 .. k) /\ k \in Nat
    BY <1>2, <1>3
  <2> HIDE DEF B
  <2> QED BY <2>1, MaxOrLast
<1>6. \A j : j \in B <=> j \in 1 .. k /\ j <= n /\ At(j).rlba <= a /\ At(j).rlen > 0
  OBVIOUS
<1> HIDE DEF n, B, back
<1>7. back \in 1 .. k
  BY <1>3, <1>2, <1>5, <1>6
<1>8. /\ C # {} => first \in C /\ \A x \in C : first <= x
      /\ C = {} => first = k
  <2>1. C \in SUBSET Nat
    BY <1>7, <1>2, <1>3
  <2> HIDE DEF C
  <2> QED BY <2>1, MinOrLeast
<1>9. \A j : j \in C <=> j \in back .. (k - 1) /\ At(j).rlen > 0 /\ a < ReadEnd(At(j))
  OBVIOUS
<1> HIDE DEF C, first
<1>10. first \in back .. k /\ first \in Nat /\ 1 <= first
  BY <1>2, <1>3, <1>7, <1>8, <1>9
<1>11. /\ E # {} => end \in E /\ \A x \in E : end <= x
       /\ E = {} => end = n + 1
  <2>1. E \in SUBSET Nat
    BY <1>2, <1>10
  <2> HIDE DEF E
  <2> QED BY <2>1, MinOrLeast
<1>12. \A j : j \in E <=> j \in first .. n /\ tail <= At(j).rlba
  OBVIOUS
<1>13. tail \in Nat /\ a < tail /\ tail = a + len
  OBVIOUS
<1> HIDE DEF E, end, tail
<1>14. \A j : j \in first .. (end - 1) <=> j \in first .. n /\ At(j).rlba < tail
  <2>1. ASSUME NEW j \in first .. (end - 1) PROVE j \in first .. n /\ At(j).rlba < tail
    <3>1. end \in Nat /\ end <= n + 1
      BY <1>2, <1>10, <1>11, <1>12
    <3>2. j \in first .. n /\ j \in 1 .. n
      BY <3>1, <1>2, <1>10
    <3>3. j \notin E
      BY <3>1, <3>2, <1>2, <1>10, <1>11
    <3> QED BY <3>2, <3>3, <1>2, <1>12, <1>13
  <2>2. ASSUME NEW j \in first .. n, At(j).rlba < tail PROVE j \in first .. (end - 1)
    <3>1. j \in 1 .. n /\ j \in Nat
      BY <1>2, <1>10
    <3>2. CASE E = {}
      BY <3>2, <3>1, <1>2, <1>10, <1>11
    <3>3. CASE E # {}
      <4>1. end \in first .. n /\ end \in 1 .. n /\ tail <= At(end).rlba
        BY <3>3, <1>2, <1>10, <1>11, <1>12
      <4>2. ~ (end <= j)
        <5> SUFFICES ASSUME end <= j PROVE FALSE
          OBVIOUS
        <5>1. At(end).rlba <= At(j).rlba
          BY <3>1, <4>1, <1>2, <1>4
        <5> QED BY <5>1, <4>1, <3>1, <2>2, <1>2, <1>13
      <4> QED BY <4>1, <4>2, <3>1, <1>10
    <3> QED BY <3>2, <3>3
  <2> QED BY <2>1, <2>2
<1>15. ASSUME NEW j \in 1 .. n, lbaidx[j] \in Live
       PROVE  j \in first .. (end - 1) <=> Overlaps(At(j), a, len)
  <2>1. /\ At(j).rlba \in Nat /\ At(j).rlen \in Nat /\ At(j).rlen > 0
        /\ ReadEnd(At(j)) = At(j).rlba + At(j).rlen
    BY <1>2, <1>15
  <2>2. CASE k <= j
    <3>1. a <= At(j).rlba /\ j \in first .. n
      BY <2>2, <1>2, <1>3, <1>10
    <3> QED BY <3>1, <2>1, <1>13, <1>14 DEF Overlaps
  <2>3. CASE j < k
    <3>1. At(j).rlba < a /\ j \in B
      BY <2>1, <2>3, <1>2, <1>3, <1>6
    <3>2. back \in B /\ j <= back /\ back \in 1 .. n /\ back \in Nat
      BY <3>1, <1>2, <1>3, <1>5, <1>6
    <3>3. ASSUME a < ReadEnd(At(j)) PROVE back = j
      <4> SUFFICES ASSUME j < back PROVE FALSE
        BY <3>2
      <4>1. lbaidx[back] \in Live /\ lbaidx[back] # lbaidx[j]
        <5>1. lbaidx[back] \in Live
          BY <3>2, <1>2, <1>6
        <5>2. back # j
          BY <3>2
        <5> QED BY <5>1, <5>2, <3>2, <1>2 DEF Index
      <4>2. ReadEnd(At(j)) <= At(back).rlba \/ ReadEnd(At(back)) <= At(j).rlba
        BY <4>1, <1>15, LiveDisjoint DEF At
      <4>3. At(j).rlba <= At(back).rlba /\ At(back).rlba <= a /\ At(back).rlen > 0
        BY <3>2, <1>4, <1>6
      <4>4. At(back).rlba \in Nat /\ At(back).rlen \in Nat
            /\ ReadEnd(At(back)) = At(back).rlba + At(back).rlen
        BY <3>2, <1>2
      <4> QED BY <4>2, <4>3, <4>4, <3>3, <2>1
    <3>4. ASSUME a < ReadEnd(At(j)) PROVE first <= j
      <4>1. j \in C
        BY <3>3, <3>4, <2>1, <2>3, <1>2, <1>3, <1>9
      <4> QED BY <4>1, <1>8
    <3>5. ASSUME first <= j PROVE a < ReadEnd(At(j))
      <4>1. first \in C
        BY <3>5, <2>3, <1>2, <1>3, <1>8
      <4>2. first = j
        BY <4>1, <3>2, <3>5, <1>9, <1>10
      <4> QED BY <4>1, <4>2, <1>9
    <3>6. At(j).rlba < tail
      BY <3>1, <2>1, <1>13
    <3>7. first <= j <=> j \in first .. n
      BY <1>2, <1>10
    <3> QED BY <3>4, <3>5, <3>6, <3>7, <1>13, <1>14 DEF Overlaps
  <2> QED BY <2>2, <2>3, <1>2, <1>3
<1>16. \A p \in Live : \E j \in 1 .. n : lbaidx[j] = p
  <2>1. Live \subseteq Queued
    BY DEF Live, WCInv, WCTypeOK
  <2> QED BY <2>1, <1>2 DEF Index
<1>17. \A j \in first .. (end - 1) : j \in 1 .. n
  BY <1>2, <1>10, <1>14
<1>18. \A p \in Live : (\E j \in first .. (end - 1) : lbaidx[j] = p) <=> Overlaps(seg[p], a, len)
  <2> TAKE p \in Live
  <2>1. PICK j \in 1 .. n : lbaidx[j] = p
    BY <1>16
  <2>2. \A i \in 1 .. n : lbaidx[i] = p => i = j
    BY <2>1, <1>2 DEF Index
  <2>3. j \in first .. (end - 1) <=> Overlaps(seg[p], a, len)
    BY <2>1, <1>15 DEF At
  <2> QED BY <2>1, <2>2, <2>3, <1>17
<1> QED BY <1>1, <1>18

LEMMA NoSplit ==
  ASSUME OneInside, WCInv, CInv, pushing.on, NEW p \in Queued
  PROVE  ~Splits(seg[p], pushing)
<1> SUFFICES ASSUME Splits(seg[p], pushing) PROVE FALSE
  OBVIOUS
<1> DEFINE e == <<seg[p].lba, seg[p].len>>
           w == <<pushing.lba, pushing.len>>
           x == pushing.lba
           y == pushing.lba + pushing.len
<1>1. e \in Extents /\ w \in Extents
  BY SegmentNats DEF WCInv, KnownExtents
<1>2. pushing.lba \in Nat /\ pushing.len \in Nat \ {0}
  BY <1>1, ExtentsAssumption
<1>3. x \in Boundaries /\ y \in Boundaries
  <2>1. w[1] = x /\ w[1] + w[2] = y
    OBVIOUS
  <2> HIDE DEF w, x, y
  <2> QED BY <1>1, <2>1 DEF Boundaries
<1>4. e[1] = seg[p].lba /\ e[2] = seg[p].len /\ x # y
  BY <1>2
<1>5. Inside(x, e) /\ Inside(y, e)
  <2>1. /\ seg[p].lba <= seg[p].rlba /\ ReadEnd(seg[p]) <= seg[p].lba + seg[p].len
        /\ seg[p].lba \in Nat /\ seg[p].len \in Nat /\ seg[p].rlba \in Nat
        /\ ReadEnd(seg[p]) \in Nat
    BY SegmentNats DEF CInv, Whole
  <2>2. seg[p].rlba < x /\ y < ReadEnd(seg[p]) /\ x < y /\ x \in Nat /\ y \in Nat
    BY <1>2 DEF Splits
  <2> QED BY <2>1, <2>2, <1>4 DEF Inside
<1> QED BY <1>1, <1>3, <1>4, <1>5 DEF OneInside

(* What is left of a hit: it does not overlap the write any more, answers  *)
(* for the blocks outside the write as before, and starts where it did or  *)
(* behind the write.                                                       *)
LEMMA TrimmedHit ==
  ASSUME NEW h \in Segment, NEW w, w.lba \in Nat, w.len \in Nat \ {0},
         h.rlen > 0, Overlaps(h, w.lba, w.len), ~Splits(h, w),
         NEW t, t = Trimmed(h, w)
  PROVE  /\ t.lba = h.lba /\ t.len = h.len /\ t.copy = h.copy
         /\ t.src = h.src /\ t.ds_offset = h.ds_offset
         /\ t.rlba \in Nat /\ t.rlen \in Nat
         /\ t.rlen = 0 \/ ~Overlaps(t, w.lba, w.len)
         /\ h.rlba <= t.rlba /\ ReadEnd(t) <= ReadEnd(h)
         /\ t.rlba = h.rlba \/ (t.rlba = w.lba + w.len /\ h.rlba < t.rlba /\ t.rlba < ReadEnd(h))
         /\ \A b \in Nat : Covers(t, b) => Covers(h, b)
         /\ \A b \in Nat : Covers(h, b) /\ ~(w.lba <= b /\ b < w.lba + w.len) => Covers(t, b)
<1> DEFINE y == w.lba + w.len
<1>1. /\ h.lba \in Nat /\ h.len \in Nat /\ h.rlba \in Nat /\ h.rlen \in Nat /\ y \in Nat
      /\ w.lba < y /\ h.rlba < y /\ w.lba < h.rlba + h.rlen
      /\ ReadEnd(h) = h.rlba + h.rlen
  BY DEF Segment, Overlaps, ReadEnd
<1>2. Overwritten(h, w) \/ CutsTail(h, w) \/ CutsHead(h, w)
  BY <1>1 DEF Overwritten, Splits, CutsTail, CutsHead
<1>3. CASE Overwritten(h, w)
  <2>0. ~CutsTail(h, w) /\ ~CutsHead(h, w) /\ ~Splits(h, w)
    BY <1>1, <1>3 DEF Overwritten, CutsTail, CutsHead
  <2>1. t = [h EXCEPT !.rlen = 0]
    BY <1>3, <2>0 DEF Trimmed
  <2>2. /\ t.lba = h.lba /\ t.len = h.len /\ t.copy = h.copy
        /\ t.src = h.src /\ t.ds_offset = h.ds_offset /\ t.rlba = h.rlba /\ t.rlen = 0
    BY <2>1 DEF Segment
  <2>3. w.lba <= h.rlba /\ h.rlba + h.rlen <= y
    BY <1>1, <1>3 DEF Overwritten
  <2> HIDE DEF y
  <2>4. \A b \in Nat : Covers(h, b) => w.lba <= b /\ b < y
    BY <2>3, <1>1 DEF Covers
  <2> QED BY <2>2, <2>4, <1>1 DEF Covers, ReadEnd, y
<1>4. CASE CutsTail(h, w)
  <2>0. ~Overwritten(h, w) /\ ~CutsHead(h, w) /\ ~Splits(h, w)
    BY <1>1, <1>4 DEF Overwritten, CutsTail, CutsHead
  <2>1. t = [h EXCEPT !.rlen = w.lba - h.rlba]
    BY <1>4, <2>0 DEF Trimmed
  <2>2. /\ t.lba = h.lba /\ t.len = h.len /\ t.copy = h.copy
        /\ t.src = h.src /\ t.ds_offset = h.ds_offset /\ t.rlba = h.rlba
        /\ t.rlen = w.lba - h.rlba
    BY <2>1 DEF Segment
  <2>3. h.rlba < w.lba /\ h.rlba + h.rlen <= y
    BY <1>1, <1>4 DEF CutsTail
  <2> HIDE DEF y
  <2>4. ReadEnd(t) = w.lba /\ t.rlen \in Nat
    BY <2>2, <2>3, <1>1 DEF ReadEnd
  <2>5. \A b \in Nat : Covers(t, b) => Covers(h, b)
    BY <2>2, <2>3, <2>4, <1>1 DEF Covers
  <2>6. \A b \in Nat : Covers(h, b) /\ ~(w.lba <= b /\ b < y) => Covers(t, b)
    BY <2>2, <2>3, <2>4, <1>1 DEF Covers
  <2>7. ~Overlaps(t, w.lba, w.len) /\ ReadEnd(t) <= ReadEnd(h)
    BY <2>4, <1>1 DEF Overlaps
  <2> QED BY <2>2, <2>4, <2>5, <2>6, <2>7, <1>1 DEF y
<1>5. CASE CutsHead(h, w)
  <2>0. ~Overwritten(h, w) /\ ~CutsTail(h, w) /\ ~Splits(h, w)
    BY <1>1, <1>5 DEF Overwritten, CutsTail, CutsHead, Splits
  <2>1. t = [h EXCEPT !.rlba = w.lba + w.len, !.rlen = ReadEnd(h) - (w.lba + w.len)]
    BY <1>5, <2>0 DEF Trimmed
  <2>2. /\ t.lba = h.lba /\ t.len = h.len /\ t.copy = h.copy
        /\ t.src = h.src /\ t.ds_offset = h.ds_offset /\ t.rlba = y
        /\ t.rlen = ReadEnd(h) - y
    BY <2>1 DEF Segment
  <2>3. w.lba <= h.rlba /\ h.rlba < y /\ y < ReadEnd(h)
    BY <1>1, <1>5 DEF CutsHead
  <2>4. y = w.lba + w.len
    OBVIOUS
  <2> HIDE DEF y
  <2>5. ReadEnd(t) = ReadEnd(h) /\ t.rlen \in Nat /\ t.rlba \in Nat
    BY <2>2, <2>3, <1>1 DEF ReadEnd
  <2>6. \A b \in Nat : Covers(t, b) => Covers(h, b)
    BY <2>2, <2>3, <2>5, <1>1 DEF Covers
  <2>7. \A b \in Nat : Covers(h, b) /\ ~(w.lba <= b /\ b < y) => Covers(t, b)
    BY <2>2, <2>3, <2>5, <1>1 DEF Covers
  <2>8. ~Overlaps(t, w.lba, w.len)
    BY <2>2, <2>4, <1>1 DEF Overlaps
  <2> QED BY <2>2, <2>3, <2>4, <2>5, <2>6, <2>7, <2>8, <1>1
<1> QED BY <1>2, <1>3, <1>4, <1>5

LEMMA PushBeginCoheres ==
  ASSUME WCInv, Index, CInv, NEW e \in Extents, PushBegin(e[1], e[2])
  PROVE  CInv'
<1>1. e[1] \in Nat /\ e[2] \in Nat \ {0}
  BY ExtentsAssumption
<1>2. PICK k \in LowerBounds(e[1]) :
        pushing' = [on |-> TRUE, lba |-> e[1], len |-> e[2], hits |-> Search(e[1], e[2], k)]
  BY DEF PushBegin
<1>3. UNCHANGED <<seg, wq, lbaidx, latest>> /\ Unlocked
  BY DEF PushBegin
<1>4. Queued' = Queued /\ Live' = Live
  BY <1>3 DEF Queued, Live
<1>5. pushing'.hits = {p \in Live : Overlaps(seg[p], e[1], e[2])}
  BY <1>1, <1>2, SearchExact
<1>6. HitsExact'
  <2>1. pushing'.lba = e[1] /\ pushing'.len = e[2]
    BY <1>2
  <2> QED BY <2>1, <1>3, <1>4, <1>5 DEF HitsExact, Overlaps
<1>7. (\A p \in Queued : Whole(p))'
  BY <1>3, <1>4 DEF CInv, Whole
<1>8. Sorted'
  BY <1>3 DEF CInv, Sorted, At
<1>9. Owned'
  <2>1. \A b : ~Writing(b)
    BY <1>3 DEF Writing, Unlocked
  <2> QED BY <2>1, <1>3, <1>4 DEF CInv, Owned
<1> QED BY <1>6, <1>7, <1>8, <1>9 DEF CInv

LEMMA PushHitCoheres ==
  ASSUME OneInside, WCInv, Index, CInv, PushHit
  PROVE  CInv'
<1>1. pushing.on /\ pushing \in [on : {TRUE}, lba : Nat, len : Nat \ {0}, hits : SUBSET Queued]
  <2>1. pushing.on
    BY DEF PushHit
  <2>2. pushing # Idle
    BY <2>1 DEF Idle
  <2> QED BY <2>1, <2>2 DEF WCInv, WCTypeOK
<1>2. /\ pushing.lba \in Nat /\ pushing.len \in Nat \ {0}
      /\ <<pushing.lba, pushing.len>> \in Extents
  BY <1>1 DEF WCInv, KnownExtents
<1>3. PICK p \in pushing.hits :
        /\ IF Splits(seg[p], pushing)
           THEN PushBack(SplitRest(seg[p], pushing),
                         [seg EXCEPT ![p] = Trimmed(seg[p], pushing)])
           ELSE /\ seg' = [seg EXCEPT ![p] = Trimmed(seg[p], pushing)]
                /\ UNCHANGED <<alloc, wq, lbaidx>>
        /\ pushing' = [pushing EXCEPT !.hits = @ \ {p}]
  BY DEF PushHit
<1>4. p \in Queued /\ ~Splits(seg[p], pushing)
  BY <1>1, <1>3, NoSplit
<1> DEFINE h == seg[p]
           t == Trimmed(seg[p], pushing)
           y == pushing.lba + pushing.len
<1>5. /\ seg' = [seg EXCEPT ![p] = t] /\ UNCHANGED <<wq, lbaidx, latest>>
      /\ DOMAIN seg = Queued /\ Queued' = Queued
  BY <1>3, <1>4 DEF PushHit, WCInv, WCTypeOK, Queued
<1>6. seg'[p] = t /\ \A q \in Queued : q # p => seg'[q] = seg[q]
  BY <1>4, <1>5
<1>7. /\ pushing'.on /\ pushing'.lba = pushing.lba /\ pushing'.len = pushing.len
      /\ pushing'.hits = pushing.hits \ {p}
  BY <1>1, <1>3
<1>8. p \in Live /\ h.rlen > 0 /\ Overlaps(h, pushing.lba, pushing.len)
  <2>1. p \in Live /\ Overlaps(seg[p], pushing.lba, pushing.len)
    BY <1>1, <1>3 DEF CInv, HitsExact
  <2> QED BY <2>1 DEF Live
<1>9. h \in Segment
  BY <1>4 DEF WCInv, WCTypeOK
<1>10. /\ t.lba = h.lba /\ t.len = h.len /\ t.copy = h.copy
       /\ t.src = h.src /\ t.ds_offset = h.ds_offset
       /\ t.rlba \in Nat /\ t.rlen \in Nat
       /\ t.rlen = 0 \/ ~Overlaps(t, pushing.lba, pushing.len)
       /\ h.rlba <= t.rlba /\ ReadEnd(t) <= ReadEnd(h)
       /\ t.rlba = h.rlba \/ (t.rlba = y /\ h.rlba < t.rlba /\ t.rlba < ReadEnd(h))
       /\ \A b \in Nat : Covers(t, b) => Covers(h, b)
       /\ \A b \in Nat : Covers(h, b) /\ ~(pushing.lba <= b /\ b < y) => Covers(t, b)
  BY <1>2, <1>4, <1>8, <1>9, TrimmedHit
<1>11. /\ h.lba \in Nat /\ h.len \in Nat \ {0} /\ h.rlba \in Nat /\ h.rlen \in Nat
       /\ ReadEnd(h) \in Nat /\ <<h.lba, h.len>> \in Extents
       /\ h.lba <= h.rlba /\ ReadEnd(h) <= h.lba + h.len /\ Whole(p)
       /\ ReadEnd(t) = t.rlba + t.rlen /\ ReadEnd(h) = h.rlba + h.rlen
  <2>1. Whole(p)
    BY <1>4 DEF CInv
  <2>2. /\ h.lba \in Nat /\ h.len \in Nat \ {0} /\ h.rlba \in Nat /\ h.rlen \in Nat
        /\ ReadEnd(h) \in Nat /\ <<h.lba, h.len>> \in Extents
    BY <1>4, SegmentNats
  <2> HIDE DEF t
  <2> QED BY <2>1, <2>2 DEF Whole, ReadEnd
<1>12. y \in Boundaries /\ y \in Nat
  <2> DEFINE w == <<pushing.lba, pushing.len>>
  <2>1. w \in Extents /\ w[1] + w[2] = y
    BY <1>2
  <2>2. y \in Nat
    BY <1>2
  <2> HIDE DEF w, y
  <2> QED BY <2>1, <2>2 DEF Boundaries
<1> HIDE DEF t, y, h
<1>13. (\A q \in Queued : Whole(q))'
  <2> SUFFICES ASSUME NEW q \in Queued PROVE Whole(q)'
    BY <1>5
  <2>1. CASE q = p
    <3>1. seg'[q] = t
      BY <2>1, <1>6
    <3>2. ~h.copy /\ h.src = p /\ h.ds_offset = DsOffset /\ h.rlba \in Boundaries
      BY <1>11 DEF Whole, h
    <3>3. t.lba <= t.rlba /\ ReadEnd(t) <= t.lba + t.len
      BY <1>10, <1>11
    <3>4. t.rlba \in Boundaries
      BY <3>2, <1>10, <1>12
    <3> QED BY <2>1, <3>1, <3>2, <3>3, <3>4, <1>10 DEF Whole
  <2>2. CASE q # p
    BY <2>2, <1>6 DEF CInv, Whole
  <2> QED BY <2>1, <2>2
<1>14. HitsExact'
  <2>1. Live = {q \in Queued : seg[q].rlen > 0} /\ Live' = {q \in Queued : seg'[q].rlen > 0}
    BY <1>5 DEF Live
  <2>2. ASSUME NEW q \in Queued
        PROVE  q \in pushing.hits \ {p}
                 <=> q \in Live' /\ Overlaps(seg'[q], pushing.lba, pushing.len)
    <3>1. CASE q = p
      <4>1. ~ (seg'[q].rlen > 0 /\ Overlaps(seg'[q], pushing.lba, pushing.len))
        BY <3>1, <1>6, <1>10
      <4> QED BY <3>1, <4>1, <2>1
    <3>2. CASE q # p
      <4>1. q \in pushing.hits <=> q \in Live /\ Overlaps(seg[q], pushing.lba, pushing.len)
        BY <1>1 DEF CInv, HitsExact
      <4> QED BY <3>2, <4>1, <2>1, <1>6
    <3> QED BY <3>1, <3>2
  <2>3. pushing.hits \ {p} = {q \in Live' : Overlaps(seg'[q], pushing.lba, pushing.len)}
    BY <2>1, <2>2, <1>1
  <2>4. {q \in Live : Overlaps(seg[q], pushing.lba, pushing.len)}'
          = {q \in Live' : Overlaps(seg'[q], pushing.lba, pushing.len)}
    BY <1>7 DEF Overlaps, ReadEnd
  <2> QED BY <2>3, <2>4, <1>7 DEF HitsExact
<1>15. Owned'
  <2> SUFFICES ASSUME NEW b \in Blocks
               PROVE  /\ \A q \in Queued : Covers(seg'[q], b) => latest[b] = q
                      /\ latest[b] \in Queued /\ ~Writing(b) => Covers(seg'[latest[b]], b)
    BY <1>5, <1>7 DEF Owned, Writing, Covers, ReadEnd
  <2>1. b \in Nat
    BY ExtentsAssumption DEF Blocks
  <2>2. /\ \A q \in Queued : Covers(seg[q], b) => latest[b] = q
        /\ latest[b] \in Queued /\ ~Writing(b) => Covers(seg[latest[b]], b)
    BY DEF CInv, Owned
  <2>3. Covers(t, b) => Covers(seg[p], b)
    BY <2>1, <1>10 DEF h
  <2>4. ~Writing(b) /\ Covers(seg[p], b) => Covers(t, b)
    BY <2>1, <1>1, <1>10 DEF h, y, Writing
  <2>5. \A q \in Queued : Covers(seg'[q], b) => latest[b] = q
    BY <2>2, <2>3, <1>6
  <2>6. latest[b] \in Queued /\ ~Writing(b) => Covers(seg'[latest[b]], b)
    BY <2>2, <2>4, <1>6
  <2> QED BY <2>5, <2>6
<1>16. Sorted'
  <2>1. PICK m \in DOMAIN lbaidx : lbaidx[m] = p
    BY <1>4 DEF Index
  <2>2. /\ DOMAIN lbaidx = 1 .. Len(lbaidx) /\ Len(lbaidx) \in Nat
        /\ \A i \in DOMAIN lbaidx :
             /\ lbaidx[i] \in Queued /\ At(i).rlba \in Nat /\ At(i).rlen \in Nat
             /\ At(i).lba \in Nat
    BY Places
  <2>3. /\ At(m) = h /\ seg'[lbaidx[m]] = t
        /\ \A i \in DOMAIN lbaidx : i # m => seg'[lbaidx[i]] = At(i)
    BY <2>1, <2>2, <1>6 DEF Index, At, h
  <2>4. ASSUME NEW i \in DOMAIN lbaidx, NEW j \in DOMAIN lbaidx, i < j
        PROVE  /\ At(i).rlba <= At(j).rlba
               /\ At(i).rlba = At(j).rlba /\ At(i).rlen > 0 => At(i).lba < At(i).rlba
    BY <2>4 DEF CInv, Sorted
  <2>5. ASSUME NEW i \in DOMAIN lbaidx, NEW j \in DOMAIN lbaidx, i < j
        PROVE  /\ seg'[lbaidx[i]].rlba <= seg'[lbaidx[j]].rlba
               /\ seg'[lbaidx[i]].rlba = seg'[lbaidx[j]].rlba /\ seg'[lbaidx[i]].rlen > 0
                    => seg'[lbaidx[i]].lba < seg'[lbaidx[i]].rlba
    <3>1. CASE i # m /\ j # m
      BY <3>1, <2>3, <2>4, <2>5
    <3>2. CASE j = m
      <4>1. i # m /\ seg'[lbaidx[i]] = At(i) /\ seg'[lbaidx[j]] = t
        BY <3>2, <2>2, <2>3, <2>5
      <4>2. /\ At(i).rlba <= h.rlba
            /\ At(i).rlba = h.rlba /\ At(i).rlen > 0 => At(i).lba < At(i).rlba
        BY <3>2, <2>3, <2>4, <2>5
      <4> QED BY <4>1, <4>2, <2>2, <1>10, <1>11
    <3>3. CASE i = m
      <4>1. j # m /\ seg'[lbaidx[i]] = t /\ seg'[lbaidx[j]] = At(j)
        BY <3>3, <2>2, <2>3, <2>5
      <4>2. /\ h.rlba <= At(j).rlba
            /\ h.rlba = At(j).rlba => h.lba < h.rlba
        BY <3>3, <2>3, <2>4, <2>5, <1>8 DEF h
      <4>3. At(j).rlba \in Nat
        BY <2>2
      <4>4. CASE t.rlba = h.rlba
        BY <4>1, <4>2, <4>4, <1>10
      <4>5. CASE t.rlba = y /\ h.rlba < t.rlba /\ t.rlba < ReadEnd(h)
        <5> DEFINE x == At(j).rlba
                   e == <<h.lba, h.len>>
        <5>1. x \in Boundaries
          BY <2>2 DEF CInv, Whole, At
        <5>2. e \in Extents /\ e[1] = h.lba /\ e[2] = h.len
          BY <1>11
        <5> HIDE DEF x, e
        <5>3. Inside(y, e)
          BY <4>5, <5>2, <1>11, <1>12 DEF Inside
        <5>4. ~ (x < y)
          <6> SUFFICES ASSUME x < y PROVE FALSE
            OBVIOUS
          <6>1. x \in Nat /\ h.lba < x /\ x < h.lba + h.len
            BY <4>2, <4>3, <4>5, <1>11, <1>12 DEF x
          <6>2. Inside(x, e)
            BY <6>1, <5>2 DEF Inside
          <6>3. x = y
            BY <6>2, <5>1, <5>2, <5>3, <1>12 DEF OneInside
          <6> QED BY <6>1, <6>3, <1>12
        <5>5. t.lba < t.rlba
          BY <4>5, <1>10, <1>11, <1>12
        <5>6. t.rlba <= At(j).rlba
          BY <4>3, <4>5, <5>4, <1>12 DEF x
        <5> QED BY <4>1, <5>5, <5>6
      <4> QED BY <4>4, <4>5, <1>10
    <3> QED BY <3>1, <3>2, <3>3
  <2>6. \A i : At(i)' = seg'[lbaidx[i]]
    BY <1>5 DEF At
  <2> QED BY <2>5, <2>6, <1>5 DEF Sorted
<1> QED BY <1>13, <1>14, <1>15, <1>16 DEF CInv

LEMMA PushEndCoheres ==
  ASSUME WCInv, Index, CInv, PushEnd
  PROVE  CInv'
<1> DEFINE s == NewSegment(pushing.lba, pushing.len, alloc + 1)
           n == Len(lbaidx)
           q == alloc + 1
           a == pushing.lba
           y == pushing.lba + pushing.len
<1>1. pushing.on /\ pushing \in [on : {TRUE}, lba : Nat, len : Nat \ {0}, hits : SUBSET Queued]
  <2>1. pushing.on
    BY DEF PushEnd
  <2>2. pushing # Idle
    BY <2>1 DEF Idle
  <2> QED BY <2>1, <2>2 DEF WCInv, WCTypeOK
<1>2. /\ pushing.lba \in Nat /\ pushing.len \in Nat \ {0}
      /\ <<pushing.lba, pushing.len>> \in Extents
  BY <1>1 DEF WCInv, KnownExtents
<1>3. /\ DOMAIN seg = Queued /\ PushBack(s, seg) /\ alloc \in Nat /\ WCTypeOK /\ Ordered
      /\ pushing.hits = {} /\ pushing' = Idle /\ pushing'.on = FALSE
  BY DEF PushEnd, WCInv, WCTypeOK, Idle
<1>4. /\ s.lba = a /\ s.len = pushing.len /\ s.rlba = a /\ s.rlen = pushing.len
      /\ ~s.copy /\ s.src = q /\ s.ds_offset = DsOffset
  BY DEF NewSegment
<1>5. ReadEnd(s) = y /\ y \in Nat /\ a \in Nat /\ a < y
  BY <1>2, <1>4 DEF ReadEnd
<1>6. a \in Boundaries
  <2> DEFINE w == <<pushing.lba, pushing.len>>
  <2>1. w \in Extents /\ w[1] = a
    BY <1>2
  <2> HIDE DEF w, a
  <2> QED BY <2>1 DEF Boundaries
<1>7. \A b \in Blocks : b \in Nat => latest'[b] = IF a <= b /\ b < y THEN q ELSE latest[b]
  <2> TAKE b \in Blocks
  <2>1. latest'[b] = IF b \in pushing.lba .. (pushing.lba + pushing.len - 1)
                     THEN q ELSE latest[b]
    BY DEF PushEnd
  <2>2. b \in Nat => (b \in pushing.lba .. (pushing.lba + pushing.len - 1) <=> a <= b /\ b < y)
    BY <1>2
  <2> QED BY <2>1, <2>2
<1>8. latest \in [Blocks -> 0 .. alloc]
  BY <1>3 DEF WCTypeOK
<1>9. \A p \in Live : ~Overlaps(seg[p], pushing.lba, pushing.len)
  BY <1>1, <1>3 DEF CInv, HitsExact
<1> HIDE DEF s
<1>10. /\ Queued' = Queued \cup {q} /\ q \notin Queued
       /\ seg'[q] = s /\ \A p \in Queued : seg'[p] = seg[p]
  BY <1>3, PushBackEffect
<1>11. PICK k \in InsertPoints(lbaidx, seg, s.rlba) :
         /\ k \in 1 .. (n + 1) /\ lbaidx'[k] = q
         /\ DOMAIN lbaidx' = 1 .. (n + 1)
         /\ \A i \in 1 .. (k - 1) : lbaidx'[i] = lbaidx[i]
         /\ \A i \in (k + 1) .. (n + 1) : lbaidx'[i] = lbaidx[i - 1]
  BY <1>3, PushBackIndex
<1>12. /\ k > 1 => At(k - 1).rlba <= a
       /\ k <= n => a < At(k).rlba
  BY <1>4, <1>11 DEF InsertPoints, At
<1>13. /\ n \in Nat /\ DOMAIN lbaidx = 1 .. n
       /\ \A i \in 1 .. n : /\ lbaidx[i] \in Queued
                            /\ At(i).rlba \in Nat /\ At(i).rlen \in Nat /\ At(i).lba \in Nat
                            /\ ReadEnd(At(i)) = At(i).rlba + At(i).rlen
                            /\ lbaidx[i] \in Live <=> At(i).rlen > 0
  BY Places
<1>14. ASSUME NEW p \in Queued, seg[p].rlen > 0
       PROVE  seg[p].rlba < y => ReadEnd(seg[p]) <= a
  <2>1. p \in Live
    BY <1>3, <1>14 DEF Live
  <2>2. ~ (seg[p].rlba < y /\ a < ReadEnd(seg[p]))
    BY <2>1, <1>9 DEF Overlaps
  <2>3. ReadEnd(seg[p]) \in Nat
    BY SegmentNats
  <2> QED BY <2>2, <2>3, <1>5
<1> HIDE DEF n, q, a, y
<1>15. (\A p \in Queued : Whole(p))'
  <2> SUFFICES ASSUME NEW p \in Queued' PROVE Whole(p)'
    BY Zenon
  <2>1. CASE p = q
    <3>1. seg'[p] = s
      BY <2>1, <1>10
    <3>2. a <= a /\ y <= a + pushing.len
      BY <1>2, <1>5 DEF a, y
    <3> QED BY <2>1, <3>1, <3>2, <1>4, <1>5, <1>6 DEF Whole
  <2>2. CASE p \in Queued
    BY <2>2, <1>10 DEF CInv, Whole
  <2> QED BY <2>1, <2>2, <1>10
<1>16. HitsExact'
  BY <1>3 DEF HitsExact
<1>17. Owned'
  <2> SUFFICES ASSUME NEW b \in Blocks
               PROVE  /\ \A p \in Queued' : Covers(seg'[p], b) => latest'[b] = p
                      /\ latest'[b] \in Queued' => Covers(seg'[latest'[b]], b)
    BY DEF Owned, Covers, ReadEnd
  <2>1. b \in Nat
    BY ExtentsAssumption DEF Blocks
  <2>2. /\ \A p \in Queued : Covers(seg[p], b) => latest[b] = p
        /\ latest[b] \in Queued /\ ~Writing(b) => Covers(seg[latest[b]], b)
    BY DEF CInv, Owned
  <2>3. Covers(s, b) <=> a <= b /\ b < y
    BY <1>4, <1>5 DEF Covers
  <2>4. CASE a <= b /\ b < y
    <3>1. latest'[b] = q
      BY <2>1, <2>4, <1>7
    <3>2. ASSUME NEW p \in Queued PROVE ~Covers(seg[p], b)
      <4> SUFFICES ASSUME Covers(seg[p], b) PROVE FALSE
        OBVIOUS
      <4>1. /\ seg[p].rlba \in Nat /\ seg[p].rlen \in Nat
            /\ ReadEnd(seg[p]) = seg[p].rlba + seg[p].rlen
        BY SegmentNats
      <4>2. seg[p].rlba <= b /\ b < ReadEnd(seg[p])
        BY DEF Covers
      <4>3. seg[p].rlen > 0 /\ seg[p].rlba < y
        BY <4>1, <4>2, <2>1, <2>4, <1>5
      <4> QED BY <4>1, <4>2, <4>3, <2>1, <2>4, <1>5, <1>14
    <3> QED BY <2>3, <2>4, <3>1, <3>2, <1>10
  <2>5. CASE ~ (a <= b /\ b < y)
    <3>1. latest'[b] = latest[b]
      BY <2>1, <2>5, <1>7
    <3>2. ~Writing(b)
      BY <2>5 DEF Writing, a, y
    <3>3. latest[b] # q
      BY <1>3, <1>8 DEF q
    <3> QED BY <2>2, <2>3, <2>5, <3>1, <3>2, <3>3, <1>10
  <2> QED BY <2>4, <2>5
<1>18. Sorted'
  <2>1. \A i, j \in 1 .. n : i < j =>
          /\ At(i).rlba <= At(j).rlba
          /\ At(i).rlba = At(j).rlba /\ At(i).rlen > 0 => At(i).lba < At(i).rlba
    BY <1>13 DEF CInv, Sorted
  <2>2. ASSUME NEW i \in 1 .. n, i < k PROVE At(i).rlba <= a
    <3>1. k - 1 \in 1 .. n /\ k > 1 /\ (i = k - 1 \/ i < k - 1)
      BY <2>2, <1>11, <1>13
    <3>2. At(i).rlba <= At(k - 1).rlba
      BY <3>1, <2>1, <1>13
    <3> QED BY <3>1, <3>2, <1>5, <1>12, <1>13
  <2>3. ASSUME NEW i \in 1 .. n, k <= i PROVE a < At(i).rlba
    <3>1. k \in 1 .. n /\ k <= n /\ (i = k \/ k < i)
      BY <2>3, <1>11, <1>13
    <3>2. At(k).rlba <= At(i).rlba
      BY <3>1, <2>1, <1>13
    <3> QED BY <3>1, <3>2, <1>5, <1>12, <1>13
  <2>4. ASSUME NEW i \in 1 .. n PROVE ~ (At(i).rlba = a /\ At(i).rlen > 0)
    <3> SUFFICES ASSUME At(i).rlba = a, At(i).rlen > 0 PROVE FALSE
      OBVIOUS
    <3>1. lbaidx[i] \in Queued /\ ReadEnd(At(i)) = At(i).rlba + At(i).rlen /\ At(i).rlen \in Nat
      BY <1>13
    <3>2. ReadEnd(At(i)) <= a
      BY <3>1, <1>5, <1>14 DEF At
    <3> QED BY <3>1, <3>2, <1>5
  <2> DEFINE New(i) == seg'[lbaidx'[i]]
             Old(i) == IF i < k THEN i ELSE i - 1
  <2>5. New(k) = s
    BY <1>10, <1>11
  <2>6. ASSUME NEW i \in 1 .. (n + 1), i # k
        PROVE  Old(i) \in 1 .. n /\ New(i) = At(Old(i))
    <3>1. CASE i < k
      <4>1. i \in 1 .. (k - 1) /\ i \in 1 .. n
        BY <3>1, <1>11, <1>13
      <4> QED BY <3>1, <4>1, <1>10, <1>11, <1>13 DEF At
    <3>2. CASE ~ (i < k)
      <4>1. i \in (k + 1) .. (n + 1) /\ i - 1 \in 1 .. n
        BY <3>2, <2>6, <1>11, <1>13
      <4> QED BY <3>2, <4>1, <1>10, <1>11, <1>13 DEF At
    <3> QED BY <3>1, <3>2
  <2> HIDE DEF New
  <2>7. ASSUME NEW i \in 1 .. (n + 1), NEW j \in 1 .. (n + 1), i < j
        PROVE  /\ New(i).rlba <= New(j).rlba
               /\ New(i).rlba = New(j).rlba /\ New(i).rlen > 0 => New(i).lba < New(i).rlba
    <3>1. CASE i = k
      <4>1. Old(j) \in 1 .. n /\ New(j) = At(Old(j)) /\ k <= Old(j)
        BY <3>1, <2>6, <2>7, <1>11, <1>13
      <4>2. a < At(Old(j)).rlba /\ At(Old(j)).rlba \in Nat
        BY <4>1, <2>3, <1>13
      <4> HIDE DEF Old
      <4> QED BY <3>1, <4>1, <4>2, <2>5, <1>4, <1>5
    <3>2. CASE j = k
      <4>1. Old(i) \in 1 .. n /\ New(i) = At(Old(i)) /\ Old(i) < k
        BY <3>2, <2>6, <2>7, <1>11, <1>13
      <4> HIDE DEF Old
      <4>2. At(Old(i)).rlba <= a /\ ~ (At(Old(i)).rlba = a /\ At(Old(i)).rlen > 0)
        BY <4>1, <2>2, <2>4
      <4> QED BY <3>2, <4>1, <4>2, <2>5, <1>4
    <3>3. CASE i # k /\ j # k
      <4>1. /\ Old(i) \in 1 .. n /\ New(i) = At(Old(i))
            /\ Old(j) \in 1 .. n /\ New(j) = At(Old(j))
        BY <3>3, <2>6
      <4>2. Old(i) < Old(j)
        BY <3>3, <2>7, <1>11, <1>13
      <4> HIDE DEF Old
      <4> QED BY <4>1, <4>2, <2>1
    <3> QED BY <3>1, <3>2, <3>3
  <2> QED BY <2>7, <1>11 DEF Sorted, At, New
<1> QED BY <1>15, <1>16, <1>17, <1>18 DEF CInv

LEMMA DropFrontCoheres ==
  ASSUME WCInv, Index, CInv, Unlocked, NEW n \in 0 .. Len(wq), DropFront(n)
  PROVE  CInv'
<1>1. /\ Queued' = {wq[i] : i \in (n + 1) .. Len(wq)} /\ Queued' \subseteq Queued
  BY DropFrontInv
<1>2. \A p \in Queued' : seg'[p] = seg[p]
  BY <1>1 DEF DropFront
<1>3. latest' = latest /\ pushing' = pushing /\ pushing.on = FALSE
  BY DEF DropFront, Unlocked
<1>4. (\A p \in Queued : Whole(p))'
  BY <1>1, <1>2 DEF CInv, Whole
<1>5. HitsExact'
  BY <1>3 DEF HitsExact
<1>6. Owned'
  <2> SUFFICES ASSUME NEW b \in Blocks
               PROVE  /\ \A p \in Queued' : Covers(seg'[p], b) => latest[b] = p
                      /\ latest[b] \in Queued' => Covers(seg'[latest[b]], b)
    BY <1>3 DEF Owned, Covers, ReadEnd
  <2>1. /\ \A p \in Queued : Covers(seg[p], b) => latest[b] = p
        /\ latest[b] \in Queued => Covers(seg[latest[b]], b)
    BY <1>3 DEF CInv, Owned, Writing
  <2> QED BY <2>1, <1>1, <1>2
<1>7. Sorted'
  <2>1. ASSUME NEW i \in DOMAIN lbaidx', NEW j \in DOMAIN lbaidx', i < j
        PROVE  /\ seg'[lbaidx'[i]].rlba <= seg'[lbaidx'[j]].rlba
               /\ seg'[lbaidx'[i]].rlba = seg'[lbaidx'[j]].rlba /\ seg'[lbaidx'[i]].rlen > 0
                    => seg'[lbaidx'[i]].lba < seg'[lbaidx'[i]].rlba
    <3>1. PICK c \in DOMAIN lbaidx, d \in DOMAIN lbaidx :
            c < d /\ lbaidx[c] = lbaidx'[i] /\ lbaidx[d] = lbaidx'[j]
      BY <2>1, DropFrontIndex
    <3>2. lbaidx'[i] \in Queued' /\ lbaidx'[j] \in Queued'
      BY DropFrontIndex DEF Index
    <3>3. seg'[lbaidx'[i]] = At(c) /\ seg'[lbaidx'[j]] = At(d)
      BY <3>1, <3>2, <1>2 DEF At
    <3> QED BY <3>1, <3>3 DEF CInv, Sorted
  <2> QED BY <2>1 DEF Sorted, At
<1> QED BY <1>4, <1>5, <1>6, <1>7 DEF CInv

LEMMA WCInitCoheres == ASSUME WCInit PROVE CInv
<1>1. lbaidx = << >> /\ wq = << >> /\ pushing.on = FALSE
  BY DEF WCInit, Idle
<1>2. Queued = {} /\ DOMAIN lbaidx = {}
  BY <1>1 DEF Queued
<1> QED BY <1>1, <1>2 DEF CInv, Sorted, HitsExact, Owned

LEMMA CoherenceStep ==
  ASSUME OneInside, WCInv, Index, CInv, CacheStep
  PROVE  CInv'
<1>1. CASE \E e \in Extents : PushBegin(e[1], e[2])
  BY <1>1, PushBeginCoheres
<1>2. CASE PushHit
  BY <1>2, PushHitCoheres
<1>3. CASE PushEnd
  BY <1>3, PushEndCoheres
<1>4. CASE \E n \in 0 .. Len(wq) : Unlocked /\ DropFront(n)
  BY <1>4, DropFrontCoheres
<1>5. CASE UNCHANGED wcvars
  BY <1>5 DEF wcvars, CInv, Whole, Sorted, At, HitsExact, Live, Overlaps, Owned, Writing,
              Queued, Covers, ReadEnd
<1> QED BY <1>1, <1>2, <1>3, <1>4, <1>5 DEF CacheStep, Push
-----------------------------------------------------------------------------
(* What the searches and the READs rely on follows.                        *)
LEMMA CoherentHits == ASSUME WCInv, CInv PROVE HitsOverlap
  BY DEF CInv, HitsExact, Overlaps, HitsOverlap

LEMMA CoherentOwner == ASSUME CInv PROVE OneOwner
  BY DEF CInv, Owned, OneOwner

LEMMA CoherentSearch == ASSUME WCInv, Index, CInv PROVE SearchComplete
<1> SUFFICES ASSUME NEW e \in Extents, NEW k \in LowerBounds(e[1]), NEW p \in Queued,
                    seg[p].rlen > 0, seg[p].rlba < e[1] + e[2], e[1] < ReadEnd(seg[p])
             PROVE  p \in Search(e[1], e[2], k)
  BY DEF SearchComplete
<1>1. e[1] \in Nat /\ e[2] \in Nat \ {0}
  BY ExtentsAssumption
<1>2. p \in Live
  BY DEF Live, WCInv, WCTypeOK
<1>3. Search(e[1], e[2], k) = {q \in Live : Overlaps(seg[q], e[1], e[2])}
  BY <1>1, SearchExact
<1> QED BY <1>2, <1>3 DEF Overlaps

(* A READ of a block gets its last write from the cache, or the disk.      *)
LEMMA ReadsLatest ==
  ASSUME WCInv, Index, CInv, Unlocked, NEW b \in Blocks, NEW d,
         latest[b] \notin Queued => d[b] = latest[b]
  PROVE  ReadBlock(d, b) = {latest[b]}
<1> DEFINE V(k) == LET hits == Search(b, 1, k) IN
                     IF hits = {} THEN {d[b]}
                     ELSE {IF Covers(seg[p], b) /\ seg[p].ds_offset = DsOffset
                           THEN seg[p].src ELSE Garbage : p \in {h \in hits : IsFirst(h, hits)}}
<1>1. b \in Nat
  BY ExtentsAssumption DEF Blocks
<1>2. ReadBlock(d, b) = UNION {V(k) : k \in LowerBounds(b)}
  BY DEF ReadBlock
<1>3. LowerBounds(b) # {}
  BY <1>1, LowerBoundExists
<1>4. /\ \A p \in Queued : Covers(seg[p], b) => latest[b] = p
      /\ latest[b] \in Queued => Covers(seg[latest[b]], b)
  BY DEF CInv, Owned, Writing, Unlocked
<1>5. ASSUME NEW k \in LowerBounds(b) PROVE V(k) = {latest[b]}
  <2> DEFINE hits == Search(b, 1, k)
  <2>1. hits = {p \in Live : Overlaps(seg[p], b, 1)}
    BY <1>1, <1>5, SearchExact
  <2>2. hits = {p \in Queued : Covers(seg[p], b)}
    <3>1. Live = {p \in Queued : seg[p].rlen > 0}
      BY DEF Live, WCInv, WCTypeOK
    <3>2. ASSUME NEW p \in Queued
          PROVE  seg[p].rlen > 0 /\ Overlaps(seg[p], b, 1) <=> Covers(seg[p], b)
      <4>1. /\ seg[p].rlba \in Nat /\ seg[p].rlen \in Nat
            /\ ReadEnd(seg[p]) = seg[p].rlba + seg[p].rlen
        BY SegmentNats
      <4> QED BY <4>1, <1>1 DEF Overlaps, Covers
    <3> HIDE DEF hits
    <3> QED BY <2>1, <3>1, <3>2
  <2>3. V(k) = IF hits = {} THEN {d[b]}
               ELSE {IF Covers(seg[p], b) /\ seg[p].ds_offset = DsOffset
                     THEN seg[p].src ELSE Garbage : p \in {h \in hits : IsFirst(h, hits)}}
    OBVIOUS
  <2> HIDE DEF hits, V
  <2>4. CASE latest[b] \notin Queued
    <3>1. hits = {}
      BY <2>2, <2>4, <1>4
    <3> QED BY <2>3, <2>4, <3>1
  <2>5. CASE latest[b] \in Queued
    <3> DEFINE q == latest[b]
    <3>1. hits = {q}
      BY <2>2, <2>5, <1>4
    <3>2. Covers(seg[q], b) /\ seg[q].ds_offset = DsOffset /\ seg[q].src = q
      BY <2>5, <1>4 DEF CInv, Whole
    <3>3. IsFirst(q, hits)
      <4>1. PICK i \in DOMAIN lbaidx : lbaidx[i] = q
        BY <2>5 DEF Index
      <4>2. DOMAIN lbaidx = 1 .. Len(lbaidx) /\ Len(lbaidx) \in Nat
        BY Places
      <4>3. \A j \in 1 .. (i - 1) : j \in DOMAIN lbaidx /\ j # i
        BY <4>1, <4>2
      <4>4. \A j \in 1 .. (i - 1) : lbaidx[j] \notin hits
        BY <4>1, <4>3, <3>1 DEF Index
      <4> QED BY <4>1, <4>4 DEF IsFirst
    <3>4. {h \in hits : IsFirst(h, hits)} = {q}
      BY <3>1, <3>3
    <3> HIDE DEF q
    <3>5. V(k) = {q}
      BY <2>3, <3>1, <3>2, <3>4
    <3> QED BY <3>5 DEF q
  <2> QED BY <2>4, <2>5
<1> HIDE DEF V
<1>6. UNION {V(k) : k \in LowerBounds(b)} = {latest[b]}
  BY <1>3, <1>5
<1> QED BY <1>2, <1>6
=============================================================================
