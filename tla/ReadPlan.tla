------------------------------ MODULE ReadPlan ------------------------------
(***************************************************************************)
(* READ(10) (src/scsi/read.cpp): the blocks of one READ are queued for     *)
(* sending as DataIn PDUs, each a header followed by pieces that come from *)
(* write cache segments (SendCacheTask) or from the file (SendfileTask).   *)
(* The pieces of a PDU are as many whole blocks as the initiator's         *)
(* MaxRecvDataSegmentLength has; the header says that length itself.       *)
(*                                                                         *)
(* The handler searches the cache once, at its start, and runs in the      *)
(* thread that also pushes: until it returns, the READ extents of the      *)
(* segments it found do not change.  They are disjoint, as OneOwner of     *)
(* WriteCache has it for writes that do not split; search() returns them   *)
(* in the order of their addresses, in which First takes them from a set.  *)
(***************************************************************************)
EXTENDS Lba, Sequences, SequencesExt

CONSTANTS
  Size,         \* getTotalSize(): the blocks of the volume
  Mrds,         \* the initiators' values of MaxRecvDataSegmentLength, in bytes
  PAD_WORD_LEN  \* the bytes of a word, to which PDUs are padded

ASSUME SizeAssumption == Size \in Nat \ {0}
(* Login accepts no value below a block (SEGMENT_LEN_MIN).                 *)
ASSUME MrdsAssumption == \A m \in Mrds : m \in Nat /\ Unit <= m
ASSUME WordAssumption == PAD_WORD_LEN \in Nat \ {0} /\ Unit % PAD_WORD_LEN = 0

VARIABLES
  segments,         \* the live segments of the cache
  first, total,     \* LBA and transfer length of the request
  byte_mrds,        \* the initiator's MaxRecvDataSegmentLength
  pc,               \* "check", "pdu", "hits", "done", "error"
  cache,            \* the segments that search() returned
  lba,              \* address of the next block to send
  transfer_length,  \* blocks from the current PDU on, 0 in the last one
  length,           \* blocks of the current PDU
  hits,             \* sendCache(): the segments not looked at yet
  left,             \* sendCache(): the blocks of the PDU not queued yet
  pdus              \* the DataIn PDUs queued

request == <<segments, first, total, byte_mrds>>
vars == <<request, pc, cache, lba, transfer_length, length, hits, left, pdus>>

ReadEnd(s) == s.rlba + s.rlen

Segments == {s \in [rlba : 0 .. (Size - 1), rlen : 1 .. Size] : ReadEnd(s) <= Size}
Disjoint(S) == \A s, t \in S : s = t \/ ReadEnd(s) <= t.rlba \/ ReadEnd(t) <= s.rlba

Init ==
  /\ segments \in {S \in SUBSET Segments : Disjoint(S)}
  /\ first \in 0 .. Size
  /\ total \in 0 .. Size
  /\ byte_mrds \in Mrds
  /\ pc = "check"
  /\ cache = {}
  /\ lba = first
  /\ transfer_length = total
  /\ length = 0
  /\ hits = {}
  /\ left = 0
  /\ pdus = << >>
-----------------------------------------------------------------------------
(* WriteCache::search(), for disjoint segments.                            *)
search(a, n) == {s \in segments : s.rlba < a + n /\ a < ReadEnd(s)}

(* The requests that leave the volume are refused.                         *)
InVolume == first < Size /\ total > 0 /\ first + total <= Size

Refuse ==
  /\ pc = "check"
  /\ ~InVolume
  /\ pc' = "error"
  /\ UNCHANGED <<request, cache, lba, transfer_length, length, hits, left, pdus>>

Accept ==
  /\ pc = "check"
  /\ InVolume
  /\ cache' = search(lba, transfer_length)
  /\ pc' = "pdu"
  /\ UNCHANGED <<request, lba, transfer_length, length, hits, left, pdus>>

(* The blocks of the next PDU.                                             *)
transfer_mrds == OFFSET2LBA(byte_mrds)
IsLast == transfer_length <= transfer_mrds
PduLength == IF IsLast THEN transfer_length ELSE transfer_mrds

File(a, n) == [seg |-> {}, lba |-> a, len |-> n]
Cache(s, a, n) == [seg |-> {s}, lba |-> a, len |-> n]

(* The header, with the bytes it says, what its buffer has behind it, the  *)
(* blocks it is for and the first pieces.  serialize() pads the buffer for *)
(* a dlength that is not in whole words, when the header is queued and,    *)
(* after all but the last one, when the next header is made from a copy:   *)
(* that one starts with all of the padding so far.                         *)
Pad(n) == IF n % PAD_WORD_LEN = 0 THEN 0 ELSE PAD_WORD_LEN - (n % PAD_WORD_LEN)
padding == IF pdus = << >> THEN 0 ELSE pdus[Len(pdus)].pad
Header(pieces) ==
  [dlength |-> IF IsLast THEN LBA2OFFSET(transfer_length) ELSE byte_mrds,
   pad     |-> padding + (IF IsLast THEN 0 ELSE 2 * Pad(byte_mrds)),
   length  |-> PduLength,
   pieces  |-> pieces]
Queue(pieces) ==
  pdus' = [pdus EXCEPT ![Len(pdus)].pieces = @ \o pieces]

(* Cache miss: the PDU is one piece of the file.                           *)
MissPdu ==
  /\ pc = "pdu"
  /\ cache = {}
  /\ pdus' = Append(pdus, Header(<<File(lba, PduLength)>>))
  /\ length' = PduLength
  /\ IF IsLast
     THEN pc' = "done" /\ transfer_length' = 0 /\ UNCHANGED lba
     ELSE /\ pc' = "pdu"
          /\ transfer_length' = transfer_length - transfer_mrds
          /\ lba' = lba + transfer_mrds
  /\ UNCHANGED <<request, cache, hits, left>>

(* Mutant: a hit that starts before the PDU is forgotten.                  *)
getHitSegmentsInside(a, n) == {s \in cache : a <= s.rlba /\ s.rlba <= a + n}

(* getHitSegments(): the found segments that concern a PDU, and the one    *)
(* that starts right behind it.                                            *)
getHitSegments(a, n) ==
  {s \in cache : \/ a <= s.rlba /\ s.rlba <= a + n
                 \/ s.rlba < a /\ a < ReadEnd(s)}

(* Cache hit: the header is queued, then sendCache() goes over the hits;   *)
(* "CacheHit but no hits!" fails the command.                              *)
HitPdu ==
  LET found == getHitSegments(lba, PduLength) IN
    /\ pc = "pdu"
    /\ cache # {}
    /\ pdus' = Append(pdus, Header(<< >>))
    /\ length' = PduLength
    /\ left' = PduLength
    /\ transfer_length' = IF IsLast THEN 0 ELSE transfer_length
    /\ hits' = found
    /\ pc' = IF found = {} THEN "error" ELSE "hits"
    /\ UNCHANGED <<request, cache, lba>>

(* The loop of sendCache() takes the hits by their addresses.              *)
First(S) == CHOOSE s \in S : \A t \in S : s.rlba <= t.rlba

(* Mutant: the hit is not cut at the end of the PDU.                       *)
SendHeadUncut ==
  LET s == First(hits)
      hit_length == s.rlen - (lba - s.rlba)
  IN /\ pc = "hits" /\ hits # {} /\ left > 0
     /\ s.rlba <= lba
     /\ Queue(<<Cache(s, lba, hit_length)>>)
     /\ left' = left - hit_length
     /\ lba' = lba + hit_length
     /\ hits' = hits \ {s}
     /\ UNCHANGED <<request, pc, cache, transfer_length, length>>

(* Case 1: the hit starts at or before the next block.                     *)
SendHead ==
  LET s == First(hits)
      overrun == ReadEnd(s) - lba - left
      hit_length == s.rlen - (lba - s.rlba) - (IF overrun > 0 THEN overrun ELSE 0)
  IN /\ pc = "hits" /\ hits # {} /\ left > 0
     /\ s.rlba <= lba
     /\ Queue(<<Cache(s, lba, hit_length)>>)
     /\ left' = left - hit_length
     /\ lba' = lba + hit_length
     /\ hits' = hits \ {s}
     /\ UNCHANGED <<request, pc, cache, transfer_length, length>>

(* Case 2: a gap, then the last hit of the PDU.  The next PDU is to start  *)
(* at the address computed here.                                           *)
SendLast ==
  LET s == First(hits)
      miss_length == s.rlba - lba
  IN /\ pc = "hits" /\ hits # {} /\ left > 0
     /\ s.rlba > lba /\ lba + left <= ReadEnd(s)
     /\ Queue(<<File(lba, miss_length), Cache(s, s.rlba, left - miss_length)>>)
     /\ left' = 0
     /\ lba' = ReadEnd(s) - miss_length
     /\ hits' = {}
     /\ UNCHANGED <<request, pc, cache, transfer_length, length>>

(* Mutant: the gap is not counted.                                         *)
SendInnerNoGap ==
  LET s == First(hits) IN
    /\ pc = "hits" /\ hits # {} /\ left > 0
    /\ s.rlba > lba /\ lba + left > ReadEnd(s)
    /\ Queue(<<File(lba, s.rlba - lba), Cache(s, s.rlba, s.rlen)>>)
    /\ left' = left - s.rlen
    /\ lba' = ReadEnd(s)
    /\ hits' = hits \ {s}
    /\ UNCHANGED <<request, pc, cache, transfer_length, length>>

(* Case 3: a gap, then a hit that ends inside the PDU.                     *)
SendInner ==
  LET s == First(hits) IN
    /\ pc = "hits" /\ hits # {} /\ left > 0
    /\ s.rlba > lba /\ lba + left > ReadEnd(s)
    /\ Queue(<<File(lba, s.rlba - lba), Cache(s, s.rlba, s.rlen)>>)
    /\ left' = left - (s.rlba - lba) - s.rlen
    /\ lba' = ReadEnd(s)
    /\ hits' = hits \ {s}
    /\ UNCHANGED <<request, pc, cache, transfer_length, length>>

(* sendCache() ends with the last miss, if any; handle() goes on with the  *)
(* next PDU or is done.                                                    *)
EndPdu ==
  /\ pc = "hits"
  /\ hits = {} \/ left <= 0
  /\ IF left > 0 THEN Queue(<<File(lba, left)>>) /\ lba' = lba + left
     ELSE UNCHANGED <<pdus, lba>>
  /\ left' = 0
  /\ hits' = {}
  /\ IF transfer_length = 0 THEN pc' = "done" /\ UNCHANGED transfer_length
     ELSE pc' = "pdu" /\ transfer_length' = transfer_length - length
  /\ UNCHANGED <<request, cache, length>>

Next ==
  \/ Refuse \/ Accept \/ MissPdu \/ HitPdu
  \/ SendHead \/ SendLast \/ SendInner \/ EndPdu

Spec == Init /\ [][Next]_vars
-----------------------------------------------------------------------------
Pieces == [seg : {{}} \cup {{s} : s \in Segments}, lba : Nat, len : Nat]

(* Type correctness: no difference of lengths that the code computes in    *)
(* uint32_t goes below zero, in PDUs that follow a wrong address too.      *)
TypeOK ==
  /\ pc \in {"check", "pdu", "hits", "done", "error"}
  /\ lba \in Nat /\ transfer_length \in Nat /\ length \in Nat /\ left \in Nat
  /\ \A i \in DOMAIN pdus : /\ pdus[i].dlength \in 1 .. byte_mrds /\ pdus[i].pad \in Nat
                            /\ pdus[i].length \in 1 .. transfer_mrds
  /\ \A i \in DOMAIN pdus : \A j \in DOMAIN pdus[i].pieces : pdus[i].pieces[j] \in Pieces

Sum(ns) ==
  LET sum[i \in 0 .. Len(ns)] == IF i = 0 THEN 0 ELSE sum[i - 1] + ns[i] IN sum[Len(ns)]
Lengths(pieces) == [j \in DOMAIN pieces |-> pieces[j].len]

(* What follows a DataIn header is as long as the header says, whatever    *)
(* pieces sendCache() makes of it: otherwise the initiator takes data for  *)
(* the next header, and the connection is lost.  That holds of the last    *)
(* PDU of a READ; the ones before it lack what MaxRecvDataSegmentLength    *)
(* has beyond whole blocks.  Together the PDUs have the blocks of the READ,*)
(* and nothing is between a header and its data if the length is in words. *)
Lacking(p) == p.dlength - LBA2OFFSET(Sum(Lengths(p.pieces)))
Framed ==
  pc \in {"pdu", "done"} =>
    /\ \A i \in DOMAIN pdus :
         Lacking(pdus[i]) = IF pc = "done" /\ i = Len(pdus) THEN 0 ELSE byte_mrds % Unit
    /\ Sum([i \in DOMAIN pdus |-> pdus[i].length]) = total - transfer_length
    /\ byte_mrds % PAD_WORD_LEN = 0 => \A i \in DOMAIN pdus : pdus[i].pad = 0

(* The block-by-block reading of a list of pieces, and what it ought to be:*)
(* each block from the segment that covers it, else from the file.         *)
PieceBlocks(p) ==
  [i \in 1 .. p.len |-> [block |-> p.lba + i - 1, seg |-> p.seg]]
Sent == FlattenSeq([i \in DOMAIN pdus |->
          FlattenSeq([j \in DOMAIN pdus[i].pieces |-> PieceBlocks(pdus[i].pieces[j])])])
Wanted ==
  [i \in 1 .. total |-> [block |-> first + i - 1, seg |-> search(first + i - 1, 1)]]

(* READ queues the blocks it was asked for, in order, each from the only   *)
(* place that has its last write: sendCache() leaves lba at the next block.*)
Exact == pc = "done" => Sent = Wanted

(* When the data fits into one DataIn PDU, or none of it is cached, READ   *)
(* is exact, it refuses no range of the volume, and no piece is empty:     *)
(* SendCacheTask::run() with nothing to write would wait for the socket    *)
(* and run again, forever.                                                 *)
ExactInOnePdu ==
  total <= transfer_mrds \/ cache = {} =>
    /\ Exact
    /\ pc = "error" => ~InVolume
    /\ \A i \in DOMAIN pdus : \A j \in DOMAIN pdus[i].pieces : pdus[i].pieces[j].len > 0
=============================================================================
