------------------------------ MODULE Tokenizer ------------------------------
(***************************************************************************)
(* The receiving side of a connection: readv() into the common buffers of  *)
(* an IovecContainer (ioveccontainer.cpp) and the iSCSITokenizer           *)
(* (iscsi/tokenizer.cpp) that cuts the stream into PDUs without copying.   *)
(*                                                                         *)
(* The stream is a sequence of PDUs, each with its place in the stream.  A *)
(* cell stands for bytes of whole words, so that PDUs need no padding, and *)
(* what it holds is its position in the stream.  A block is Unit cells.    *)
(***************************************************************************)
EXTENDS Lba, Sequences, SequencesExt

CONSTANTS
  HEADER,           \* sizeof(iSCSIHeader)
  COMMON_BUF_SIZE,  \* the size of a common buffer
  MRDS              \* the target's MaxRecvDataSegmentLength

ASSUME SizesAssumption ==
  /\ HEADER \in Nat \ {0}
  /\ COMMON_BUF_SIZE \in Nat /\ COMMON_BUF_SIZE >= HEADER
  /\ MRDS \in Nat /\ Unit <= MRDS

VARIABLES
  stream,    \* the PDUs that were sent, each with its dlength and place (at)
  taken,     \* the number of cells that readv() has returned
  mem,       \* the contents of the common buffers, in the order of allocation
  cbufs,     \* the buffers of the container: id, offset (read), tail (written)
  vec,       \* the iovecs: buffer, base and length of free space
  overflow,  \* cbufs.size() - count
  status,    \* TOKEN_HEAD or TOKEN_PARTIAL
  offset,    \* cells received and not yet in a token
  bhss       \* the tokens: PDU, place of the header, buffers

tvars == <<stream, taken, mem, cbufs, vec, overflow, status, offset, bhss>>

B == COMMON_BUF_SIZE
Blank == [i \in 0 .. (B + HEADER - 1) |-> 0]  \* with room behind the edge

GetPDULength(pdu) == HEADER + pdu.dlength
Sent == IF stream = << >> THEN 0 ELSE Last(stream).at + GetPDULength(Last(stream))

(* reserve(): the number of iovecs, at least two.                          *)
count == IF MRDS \div B + 1 > 2 THEN MRDS \div B + 1 ELSE 2

GetRemain(c) == c.tail - c.offset
GetCapacity(c) == B - c.tail
End(c) == c.offset = B
NewBuf(id) == [id |-> id, offset |-> 0, tail |-> 0]
Iovec(c) == [id |-> c.id, base |-> c.tail, len |-> GetCapacity(c)]

TokenizerInit ==
  /\ stream = << >>
  /\ taken = 0
  /\ mem = [b \in 1 .. count |-> Blank]
  /\ cbufs = [b \in 1 .. count |-> NewBuf(b)]
  /\ vec = [b \in 1 .. count |-> Iovec(NewBuf(b))]
  /\ overflow = 0
  /\ status = "TOKEN_HEAD"
  /\ offset = 0
  /\ bhss = << >>
-----------------------------------------------------------------------------
Min2(a, b) == IF a < b THEN a ELSE b
Max2(a, b) == IF a > b THEN a ELSE b
Sums(ns) == LET s[i \in 0 .. Len(ns)] == IF i = 0 THEN 0 ELSE s[i - 1] + ns[i] IN s
Before(ns, j) == Sums(ns)[j - 1]
Sum(ns) == Sums(ns)[Len(ns)]
Lens(places) == [j \in DOMAIN places |-> places[j].len]

(* How much of n each of the given spaces takes when they fill in order.   *)
Shares(ns, n) ==
  LET sums == Sums(ns)
  IN [j \in DOMAIN ns |-> Min2(ns[j], Max2(0, n - sums[j - 1]))]

(* readv(): the next n cells of the stream go where the iovecs point, into *)
(* the last one that covers a place.                                       *)
Filled(n) ==
  LET lens == Lens(vec)
      part == Shares(lens, n)
      Hits(b, i) == {j \in DOMAIN vec : vec[j].id = b /\ i \in vec[j].base .. (vec[j].base + part[j] - 1)}
      Cell(j, i) == taken + Before(lens, j) + i - vec[j].base + 1
  IN [b \in DOMAIN mem |->
        [i \in DOMAIN mem[b] |->
           IF Hits(b, i) = {} THEN mem[b][i]
           ELSE Cell(CHOOSE j \in Hits(b, i) : \A h \in Hits(b, i) : h <= j, i)]]

(* IovecContainer::stepForwardTail().                                      *)
StepForwardTail(n) ==
  LET part == Shares([j \in DOMAIN cbufs |-> GetCapacity(cbufs[j])], n)
  IN [j \in DOMAIN cbufs |-> [cbufs[j] EXCEPT !.tail = @ + part[j]]]

Readv(n) ==
  /\ n \in 1 .. Min2(Sent - taken, Sum(Lens(vec)))
  /\ mem' = Filled(n)
  /\ cbufs' = StepForwardTail(n)
  /\ taken' = taken + n
  /\ offset' = offset + n
  /\ UNCHANGED <<stream, vec, overflow, status, bhss>>
-----------------------------------------------------------------------------
(* What update() works on.                                                 *)
Container(m, cs) == [mem |-> m, cbufs |-> << >> \o cs, vec |-> vec, overflow |-> overflow]

(* rotate(): a new buffer at the end; count - index - 1 iovecs move down.  *)
Rotate(c, index) ==
  LET new == NewBuf(Len(c.mem) + 1)
  IN [mem |-> Append(c.mem, Blank), cbufs |-> Append(c.cbufs, new), overflow |-> c.overflow,
      vec |-> SubSeq(c.vec, 2, count - index) \o SubSeq(c.vec, count - index, count - 1)
                \o <<Iovec(new)>>]

(* The length of the run of buffers from position p on that satisfy P.     *)
RunLength(cs, p, P(_)) ==
  LET ends == {j \in p .. Len(cs) : ~P(cs[j])}
  IN (IF ends = {} THEN Len(cs) + 1 ELSE CHOOSE j \in ends : \A i \in ends : j <= i) - p

(* Mutant: a new buffer for every one that leaves.                         *)
DroppedReplaced(c, index) == Rotate([c EXCEPT !.cbufs = Tail(@)], index)

(* update(), first loop: buffers read to their end leave the container.    *)
Dropped(c, index) ==
  LET d == [c EXCEPT !.cbufs = Tail(@)]
  IN IF c.overflow > 0 THEN [d EXCEPT !.overflow = @ - 1] ELSE Rotate(d, index)

DropEnded(c) ==
  LET after[i \in 0 .. Len(c.cbufs)] == IF i = 0 THEN c ELSE Dropped(after[i - 1], i - 1)
  IN after[RunLength(c.cbufs, 1, End)]

(* update(), second loop: buffers that are full and still unread stay, and *)
(* new ones are added for the iovecs; then the first iovec is set.         *)
Refill(c) ==
  LET itr == c.overflow + 1
      Full(b) == GetCapacity(b) = 0
      full == IF c.vec[1].id = c.cbufs[itr].id THEN RunLength(c.cbufs, itr, Full) ELSE 0
      after[i \in 0 .. full] ==
        IF i = 0 THEN c ELSE [Rotate(after[i - 1], i - 1) EXCEPT !.overflow = @ + 1]
      grown == after[full]
  IN [grown EXCEPT !.vec[1] = Iovec(grown.cbufs[itr + full])]

Update(m, cs) ==
  LET c == Refill(DropEnded(Container(m, cs)))
  IN mem' = c.mem /\ cbufs' = c.cbufs /\ vec' = c.vec /\ overflow' = c.overflow
-----------------------------------------------------------------------------
(* The header at the read position of the first buffer.  One that crosses  *)
(* the edge is completed behind the edge from the head of the second.      *)
IsEdge(off) == B - off < HEADER

Joined ==
  LET f == cbufs[1]
      over == HEADER - (B - f.offset)
  IN IF IsEdge(f.offset)
     THEN [mem EXCEPT ![f.id] =
             [i \in DOMAIN @ |-> IF i >= B /\ i < B + over THEN mem[cbufs[2].id][i - B] ELSE @[i]]]
     ELSE mem

HeaderCells(m, id, off) == [i \in 1 .. HEADER |-> m[id][off + i - 1]]

(* stepForwardOffset() until the PDU is used up.                           *)
StepForwardOffset(n) ==
  LET part == Shares([j \in DOMAIN cbufs |-> GetRemain(cbufs[j])], n)
  IN [j \in DOMAIN cbufs |-> [cbufs[j] EXCEPT !.offset = @ + part[j]]]

(* One round of push(): the header is not complete, its PDU is not, or the *)
(* PDU becomes a token.  What is at the read position is a header as long  *)
(* as Buffered holds; there is no step without one.                        *)
PartialHead ==
  /\ status = "TOKEN_HEAD" /\ offset < HEADER
  /\ Update(mem, cbufs)
  /\ UNCHANGED <<stream, taken, status, offset, bhss>>

Token(k, at) ==
  LET n == GetPDULength(stream[k])
      unread == [j \in DOMAIN cbufs |-> GetRemain(cbufs[j])]
      used == {j \in DOMAIN cbufs : Before(unread, j) < n}
  IN /\ bhss' = Append(bhss, [pdu |-> k, id |-> at.id, off |-> at.offset,
                              bufs |-> [j \in used |-> cbufs[j].id]])
     /\ offset' = offset - n
     /\ Update(Joined, StepForwardOffset(n))

ParsedHeader ==
  LET f == cbufs[1]
      cells == HeaderCells(Joined, f.id, f.offset)
      starts == {k \in DOMAIN stream : stream[k].at + 1 = cells[1]}
      k == CHOOSE p \in starts : TRUE
  IN /\ status = "TOKEN_PARTIAL" \/ offset >= HEADER
     /\ starts # {} /\ \A i \in 2 .. HEADER : cells[i] = cells[1] + i - 1
     /\ \/ /\ GetPDULength(stream[k]) > offset
           /\ status' = "TOKEN_PARTIAL"
           /\ Update(Joined, cbufs) /\ UNCHANGED <<offset, bhss>>
        \/ /\ GetPDULength(stream[k]) <= offset
           /\ status' = "TOKEN_HEAD"
           /\ Token(k, f)
     /\ UNCHANGED <<stream, taken>>

(* frontDataSegment(): there is none when the PDU has no data or more than *)
(* transfer_length blocks, to which set1stDataSegment() or addDataSegment()*)
(* add it up; else the buffers of the data, and where it starts.           *)
HasSegment(dlength, transfer_length) == dlength > 0 /\ dlength <= LBA2OFFSET(transfer_length)

FrontDataSegment(lba, transfer_length) ==
  LET t == Head(bhss) IN
  [lba |-> lba, len |-> transfer_length,
   bufs |-> IF IsEdge(t.off) THEN Tail(t.bufs) ELSE t.bufs,
   ds_offset |-> IF IsEdge(t.off) THEN HEADER - (B - t.off) ELSE HEADER + t.off,
   stored |-> stream[t.pdu].dlength]

(* Cell i of a segment's data, as the writers and READs take it.           *)
SegmentCell(seg, i) ==
  LET place == seg.ds_offset + i - 1
  IN mem[seg.bufs[1 + place \div B]][place % B]
-----------------------------------------------------------------------------
(* What is in the buffers and in no token is the end of what was received: *)
(* the stream is never lost, whatever sizes readv() returns.               *)
Buffered ==
  LET unread == [j \in DOMAIN cbufs |-> GetRemain(cbufs[j])] IN
  /\ Sum(unread) = offset
  /\ \A j \in DOMAIN cbufs : \A i \in 1 .. unread[j] :
       mem[cbufs[j].id][cbufs[j].offset + i - 1] = taken - offset + Before(unread, j) + i

(* Where the n-th cell of the regions goes: the buffer and its cell.       *)
FreeCell(places, n) ==
  LET lens == Lens(places)
      j == CHOOSE p \in DOMAIN places : Before(lens, p) < n /\ n <= Before(lens, p) + lens[p]
  IN <<places[j].id, places[j].base + n - Before(lens, j) - 1>>

(* The iovecs are the free space of the buffers, in their order, and       *)
(* overflow counts what its comment says: readv() continues where the      *)
(* last one stopped and overwrites nothing.                                *)
IovecsFree ==
  LET free == [j \in DOMAIN cbufs |-> Iovec(cbufs[j])] IN
  /\ overflow = Len(cbufs) - count
  /\ Sum(Lens(vec)) = Sum(Lens(free))
  /\ \A n \in 1 .. Sum(Lens(vec)) : FreeCell(vec, n) = FreeCell(free, n)
=============================================================================
