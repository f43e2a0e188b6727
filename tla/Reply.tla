------------------------------- MODULE Reply -------------------------------
(***************************************************************************)
(* A command and its way out: READ(10) (ReadPlan) or an information        *)
(* command (ScsiInfo) queues its reply (SendQueue), the socket takes it    *)
(* piece by piece, and later requests of the connection queue theirs       *)
(* behind it.                                                              *)
(***************************************************************************)
EXTENDS ReadPlan, ScsiInfo, SendQueue

CONSTANTS
  Requests,  \* the requests for information
  BhsSize,   \* bytes of a PDU header
  CbufSize,  \* bytes of a receive buffer, in which cached data lies
  MaxLater   \* bound: later requests on the connection

ASSUME RequestsAssumption ==
  \A r \in Requests :
    /\ r.cmd \in Commands /\ DOMAIN r = CommandReqHeader \cup Cdb(r.cmd)
    /\ r.exp \in Nat /\ ("alloc" \in Cdb(r.cmd) => r.alloc \in Nat)
ASSUME ReplyAssumption ==
  /\ BhsSize \in Nat \ {0} /\ CbufSize \in Nat \ {0} /\ MaxLater \in Nat
  /\ Size = getTotalSize

VARIABLES
  info,    \* <<r>>: the command is r and not a READ
  reply,   \* <<g>>: what its handler made of it
  phase,   \* "handle": the handler is at work; "sent": its reply is queued
  later,   \* later requests
  merged,  \* a list of tasks was pushed while others were pending
  owed     \* the bytes that the handlers mean to send, in order

command == <<info, reply, phase, later, merged, owed>>
replyVars == <<vars, queue, command>>

ReplyInit ==
  /\ QueueInit
  /\ reply = << >> /\ phase = "handle" /\ later = 0 /\ merged = FALSE /\ owed = << >>
  /\ \/ info = << >> /\ Init
     \/ /\ info \in {<<r>> : r \in Requests}
        /\ segments = {} /\ first = 0 /\ total = 0 /\ byte_mrds \in {m \in Mrds : OFFSET2LBA(m) = Size}
        /\ pc = "check" /\ cache = {} /\ lba = 0 /\ transfer_length = 0
        /\ length = 0 /\ hits = {} /\ left = 0 /\ pdus = << >>
-----------------------------------------------------------------------------
(* The buffer that a PDU header is in.                                     *)
Pdu(of, n) == [pdu |-> <<of, n>>]

(* The buffers of a segment: its data starts behind a header in the first  *)
(* one, and a segment that another one touches in front has lost its first *)
(* block to it.                                                            *)
DsOffset == 1
WriteSegment(s) ==
  LET lost == IF \E t \in segments : ReadEnd(t) = s.rlba THEN 1 ELSE 0
      bytes == DsOffset + LBA2OFFSET(s.rlen + lost)
  IN [id |-> s.rlba, lba |-> s.rlba - lost, ds_offset |-> DsOffset,
      sizes |-> [i \in 1 .. ((bytes + CbufSize - 1) \div CbufSize) |-> CbufSize]]

PieceTask(p) ==
  IF p.seg = {} THEN SendfileTask(p.lba, p.len)
  ELSE SendCacheTask(WriteSegment(First(p.seg)), p.lba, p.len)

(* The tasks of a READ: a header and the pieces behind it, PDU by PDU.     *)
ReadTasks ==
  <<CorkTask>>
    \o FlattenSeq([i \in DOMAIN pdus |->
         <<SendTask(Pdu("read", i), BhsSize + pdus[i].pad)>>
           \o [j \in DOMAIN pdus[i].pieces |-> PieceTask(pdus[i].pieces[j])]])
    \o <<UncorkTask>>

(* Where byte j of block b is, by its address alone.                       *)
CachedByte(s, b, j) ==
  LET ws == WriteSegment(s)
      at == DsOffset + LBA2OFFSET(b - ws.lba) + j
  IN [place |-> [seg |-> s.rlba, cbuf |-> at \div CbufSize], at |-> at % CbufSize]
BlocksBefore(i) == Total([k \in 1 .. (i - 1) |-> Parts[k].count])
FileByte(b, j) ==
  LET inside == {k \in DOMAIN Parts : BlocksBefore(k) <= b /\ b < BlocksBefore(k + 1)}
      i == IF inside = {} THEN Len(Parts) ELSE CHOOSE k \in inside : TRUE
  IN [place |-> [path |-> Parts[i].path],
      at    |-> LBA2OFFSET(Parts[i].start + b - BlocksBefore(i)) + j]
PieceOwed(p) ==
  [k \in 1 .. LBA2OFFSET(p.len) |->
     LET b == p.lba + (k - 1) \div Unit
         j == (k - 1) % Unit
     IN IF p.seg = {} THEN FileByte(b, j) ELSE CachedByte(First(p.seg), b, j)]
ReadOwed ==
  FlattenSeq([i \in DOMAIN pdus |->
    Bytes(Pdu("read", i), 0, BhsSize + pdus[i].pad)
      \o FlattenSeq([j \in DOMAIN pdus[i].pieces |-> PieceOwed(pdus[i].pieces[j])])])

-----------------------------------------------------------------------------
(* The steps of ReadHandler::handle().                                     *)
ReadStep ==
  /\ info = << >> /\ phase = "handle"
  /\ Next
  /\ UNCHANGED <<queue, command>>

(* handle() is done, and recv() invokes the tasks.                         *)
ReadHandled ==
  /\ info = << >> /\ phase = "handle" /\ pc = "done"
  /\ phase' = "sent"
  /\ Push(ReadTasks)
  /\ owed' = owed \o ReadOwed
  /\ invoking' = TRUE
  /\ UNCHANGED <<vars, info, reply, later, merged, wire, waiting, conn, crashed>>

(* The handler of an information command.                                  *)
InfoHandled ==
  /\ info # << >> /\ phase = "handle"
  /\ LET g == CommandReply(info[1])
         n == BhsSize + (IF g.tail > 0 THEN 1 ELSE 0)
     IN /\ reply' = <<g>>
        /\ IF g.what = "reply"
           THEN /\ Push(<<SendTask(Pdu("info", 0), n)>>)
                /\ owed' = Bytes(Pdu("info", 0), 0, n)
                /\ phase' = "sent" /\ invoking' = TRUE
           ELSE /\ phase' = "failed"
                /\ UNCHANGED <<tasks, owed, invoking>>
  /\ UNCHANGED <<vars, info, later, merged, wire, waiting, conn, crashed>>

(* A later request is answered with one PDU: its reply goes to the end.    *)
Later ==
  /\ phase = "sent" /\ ~invoking /\ conn /\ ~crashed /\ later < MaxLater
  /\ later' = later + 1
  /\ Push(<<SendTask(Pdu("later", 0), BhsSize)>>)
  /\ owed' = owed \o Bytes(Pdu("later", 0), 0, BhsSize)
  /\ invoking' = TRUE
  /\ UNCHANGED <<vars, info, reply, phase, merged, wire, waiting, conn, crashed>>

(* LogoutHandler::handle() that closes the connection: a list of tasks.    *)
LogoutTasks == <<SendTask(Pdu("logout", 0), BhsSize), CloseConnectionTask>>
Logout ==
  /\ phase = "sent" /\ ~invoking /\ conn /\ ~crashed /\ later < MaxLater
  /\ later' = MaxLater
  /\ PushList(LogoutTasks)
  /\ merged' = (tasks # << >>)
  /\ owed' = owed \o Bytes(Pdu("logout", 0), 0, BhsSize)
  /\ invoking' = TRUE
  /\ UNCHANGED <<vars, info, reply, phase, wire, waiting, conn, crashed>>

SendStep == QueueNext /\ UNCHANGED <<vars, command>>

ReplyNext == ReadStep \/ ReadHandled \/ InfoHandled \/ Later \/ Logout \/ SendStep
ReplySpec == ReplyInit /\ [][ReplyNext]_replyVars
-----------------------------------------------------------------------------
(* A READ that needs several PDUs and finds cached data goes on at a wrong *)
(* address (run read_many): the pieces it plans may then be empty, or not  *)
(* in the volume or the segment they name.                                 *)
Plannable ==
  \A i \in DOMAIN pdus : \A j \in DOMAIN pdus[i].pieces :
    LET p == pdus[i].pieces[j] IN
      /\ p.len > 0
      /\ p.seg = {} => p.lba + p.len <= Size
      /\ p.seg # {} => First(p.seg).rlba <= p.lba /\ p.lba + p.len <= ReadEnd(First(p.seg))

(* However the socket cuts the pieces, and however often a task is run     *)
(* again, the bytes on the wire are the ones that the handlers meant, each *)
(* from its place and in their order, none twice and none left out; and no *)
(* task finds its connection gone.  (A list that is merged into pending    *)
(* tasks may do both, session.h:150.)                                      *)
InOrder ==
  ~merged /\ Plannable =>
    /\ IsPrefix(wire, owed)
    /\ tasks = << >> => wire = owed
    /\ ~crashed

(* Nobody forgets the queue: while there is a task and invoke() is not at  *)
(* work, the port is watched for writability.                              *)
Watched == tasks # << >> /\ ~invoking => waiting

(* Every information command is answered with a PDU that is framed, fits   *)
(* and accounts for what the initiator expected, except where the code     *)
(* says otherwise (Sound), and stops the program only as CrashCause says.  *)
InfoSound == reply # << >> => Sound(info[1], reply[1]) /\ CrashCause(info[1], reply[1])
=============================================================================
