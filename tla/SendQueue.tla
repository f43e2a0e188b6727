----------------------------- MODULE SendQueue -----------------------------
(***************************************************************************)
(* The tasks a session has to run on a connection (src/session.cpp,        *)
(* SessionSendTask; src/send.cpp, sendcache.cpp, sendfile.cpp, task.cpp).  *)
(* A task that the socket takes only a part of stays at the head of the    *)
(* queue, remembers how far it came, and is run again when the socket is   *)
(* writable.                                                               *)
(*                                                                         *)
(* A byte on the wire is named by the place it was read from: a header     *)
(* buffer, a buffer of a cache segment, or a file.                         *)
(***************************************************************************)
EXTENDS VolumeMap, FiniteSets

VARIABLES
  tasks,     \* SessionSendTask::tasks
  wire,      \* the bytes the sockets took, in order
  invoking,  \* invoke() is at work
  waiting,   \* the port is watched for writability
  conn,      \* the connection is in the session's map
  crashed    \* a task used a connection that is not there any more

queue == <<tasks, wire, invoking, waiting, conn, crashed>>

QueueInit ==
  /\ tasks = << >>
  /\ wire = << >>
  /\ invoking = FALSE
  /\ waiting = FALSE
  /\ conn = TRUE
  /\ crashed = FALSE
-----------------------------------------------------------------------------
least(a, b) == IF a < b THEN a ELSE b

(* Bytes n .. n + len - 1 of a place.                                      *)
Bytes(place, n, len) == [i \in 1 .. len |-> [place |-> place, at |-> n + i - 1]]

(* SendTask: one PDU in one or more common buffers.                        *)
SendTask(id, n) == [kind |-> "send", cbufs |-> <<[id |-> id, offset |-> 0, tail |-> n]>>]
SendRemain(t) == Total([i \in DOMAIN t.cbufs |-> t.cbufs[i].tail - t.cbufs[i].offset])
SendBytes(t) ==
  FlattenSeq([i \in DOMAIN t.cbufs |->
    Bytes(t.cbufs[i].id, t.cbufs[i].offset, t.cbufs[i].tail - t.cbufs[i].offset)])

(* SendTask::stepForward(): buffers that are out are dropped, the next one *)
(* is entered.                                                             *)
SendEnter(acc, c) ==
  LET remain == c.tail - c.offset IN
    IF acc.tmp > 0 /\ remain <= acc.tmp
    THEN [acc EXCEPT !.tmp = @ - remain]
    ELSE [tmp   |-> 0,
          cbufs |-> Append(acc.cbufs, [c EXCEPT !.offset = @ + acc.tmp])]
SendStepForward(t, size) ==
  LET after[i \in 0 .. Len(t.cbufs)] ==
        IF i = 0 THEN [tmp |-> size, cbufs |-> << >>]
        ELSE SendEnter(after[i - 1], t.cbufs[i])
  IN [t EXCEPT !.cbufs = after[Len(t.cbufs)].cbufs]

(* SendCacheTask: blocks of a segment.  ws.sizes are the sizes of the      *)
(* buffers that the segment's data runs through, from ws.ds_offset of the  *)
(* first one on; the last one may hold more than the segment.              *)
Skipped(t) == IF t.cur_index = 0 THEN t.ws.ds_offset ELSE 0

(* Mutant: the offset of the data in the first buffer is forgotten.        *)
InCbufHead(t) == least(t.total_remain, t.ws.sizes[t.cur_index + 1] - t.offset)

(* What is left of the current buffer, and of the task if that is less.    *)
InCbuf(t) == least(t.total_remain, t.ws.sizes[t.cur_index + 1] - t.offset - Skipped(t))

(* SendCacheTask::_stepForward(): the turn of its loop for buffer i.       *)
CacheEnter(acc, i) ==
  CASE acc.tmp = 0 \/ i # acc.t.cur_index -> acc
    [] acc.tmp > 0 /\ i = acc.t.cur_index /\ InCbuf(acc.t) <= acc.tmp ->
         [t   |-> [acc.t EXCEPT !.cur_index = i + 1, !.offset = 0],
          tmp |-> acc.tmp - InCbuf(acc.t)]
    [] OTHER -> [t |-> [acc.t EXCEPT !.offset = @ + acc.tmp], tmp |-> 0]
CacheStepForward(t, size) ==
  LET after[i \in 0 .. Len(t.ws.sizes)] ==
        IF i = 0 THEN [t |-> t, tmp |-> size] ELSE CacheEnter(after[i - 1], i - 1)
  IN after[Len(t.ws.sizes)].t

(* The constructor goes forward to the first block wanted, with as many    *)
(* bytes more to send while it does.                                       *)
SendCacheTask(ws, lba, length) ==
  LET ahead == IF ws.lba < lba THEN LBA2OFFSET(lba - ws.lba) ELSE 0
      remain == LBA2OFFSET(length)
      t == [kind |-> "cache", ws |-> ws, total_remain |-> remain + ahead,
            cur_index |-> 0, offset |-> 0]
  IN [CacheStepForward(t, ahead) EXCEPT !.total_remain = remain]

(* IovecContainer(SendCacheTask): the rest of the current buffer, then     *)
(* whole buffers, as long as there is something to send.                   *)
AddIovec(t, acc, i) ==
  LET offset == IF i = t.cur_index THEN t.offset + Skipped(t) ELSE 0
      len == least(t.total_remain - Len(acc), t.ws.sizes[i + 1] - offset)
  IN IF i < t.cur_index THEN acc
     ELSE acc \o Bytes([seg |-> t.ws.id, cbuf |-> i], offset, len)
CacheBytes(t) ==
  LET upto[i \in 0 .. Len(t.ws.sizes)] ==
        IF i = 0 THEN << >> ELSE AddIovec(t, upto[i - 1], i - 1)
  IN upto[Len(t.ws.sizes)]

(* SendfileTask: blocks of the volume.                                     *)
SendfileTask(lba, length) ==
  [kind |-> "file", offset |-> LBA2OFFSET(lba), remain |-> LBA2OFFSET(length)]

CorkTask == [kind |-> "cork"]
UncorkTask == [kind |-> "uncork"]
CloseConnectionTask == [kind |-> "close"]
-----------------------------------------------------------------------------
(* push() of a task, or of several, one after another.                     *)
Push(ts) == tasks' = tasks \o ts

(* push() of a list is a merge of two lists that are "sorted" by the       *)
(* addresses of their tasks: any interleaving of the two.                  *)
Interleavings(s, t) ==
  LET n == Len(s) + Len(t) IN
    {[i \in 1 .. n |-> LET before == Cardinality({j \in ps : j < i}) IN
                         IF i \in ps THEN t[before + 1] ELSE s[i - before]] :
       ps \in {q \in SUBSET (1 .. n) : Cardinality(q) = Len(t)}}
PushList(ts) == tasks' \in Interleavings(tasks, ts)

(* What runs next, and invoke() goes on as long as there is a task.        *)
Head1 == Head(tasks)
Running(kind) == invoking /\ tasks # << >> /\ Head1.kind = kind
Pop == tasks' = Tail(tasks) /\ invoking' = (Tail(tasks) # << >>)

(* Mutant: a task that is not done yet does not ask for the socket.        *)
TryAgainSilently == invoking' = FALSE /\ UNCHANGED waiting

(* run() returns false: the port is watched, invoke() ends.                *)
TryAgain == invoking' = FALSE /\ waiting' = TRUE

(* One writev() of SendTask::run() or SendCacheTask::run(): the socket     *)
(* takes n of the bytes.                                                   *)
Writev(bytes, remain, rest(_, _)) ==
  /\ conn
  /\ \E n \in 0 .. Len(bytes) :
       /\ wire' = wire \o SubSeq(bytes, 1, n)
       /\ \/ n = 0 /\ TryAgain /\ UNCHANGED tasks
          \/ n > 0 /\ n = remain /\ Pop /\ waiting' = FALSE
          \/ /\ n > 0 /\ n # remain
             /\ tasks' = [tasks EXCEPT ![1] = rest(@, n)]
             /\ UNCHANGED <<invoking, waiting>>
  /\ UNCHANGED <<conn, crashed>>

RunSend == Running("send") /\ Writev(SendBytes(Head1), SendRemain(Head1), SendStepForward)

CacheRest(t, n) == [CacheStepForward(t, n) EXCEPT !.total_remain = t.total_remain - n]
RunCache ==
  Running("cache") /\ Writev(CacheBytes(Head1), Head1.total_remain, CacheRest)

(* One sendfile() of SendfileTask::run().  Less than the range asked for   *)
(* means that the socket is full; after the last range the task is done,   *)
(* whether the ranges were long enough or not.                             *)
RunFile ==
  LET t == Head1
      lhs == getLowHandles(t.offset, t.remain)
      lh == IF lhs = << >> THEN [path |-> "", offset |-> 0, length |-> 0] ELSE Head(lhs)
  IN /\ Running("file")
     /\ conn
     /\ \E n \in 0 .. lh.length :
          LET done == t.remain > 0 /\ n = lh.length /\ Len(lhs) <= 1
              again == n # lh.length \/ t.remain = 0
          IN /\ wire' = wire \o Bytes([path |-> lh.path], lh.offset, n)
             /\ IF done THEN Pop /\ waiting' = FALSE
                ELSE /\ tasks' = [tasks EXCEPT ![1].offset = @ + n, ![1].remain = @ - n]
                     /\ IF again THEN TryAgain ELSE UNCHANGED <<invoking, waiting>>
     /\ UNCHANGED <<conn, crashed>>

(* TCPCorkTask and TCPUncorkTask: a failing setsockopt() is only logged.   *)
RunCork ==
  /\ Running("cork") \/ Running("uncork")
  /\ Pop
  /\ UNCHANGED <<wire, waiting, conn, crashed>>

(* CloseConnectionTask: the connection is destroyed with its entry.        *)
RunClose ==
  /\ Running("close")
  /\ Pop
  /\ conn' = FALSE
  /\ waiting' = FALSE
  /\ UNCHANGED <<wire, crashed>>

(* A data task that finds no connection calls a method of a null pointer.  *)
RunOrphan ==
  /\ Running("send") \/ Running("cache") \/ Running("file")
  /\ ~conn
  /\ crashed' = TRUE
  /\ invoking' = FALSE
  /\ tasks' = << >>
  /\ UNCHANGED <<wire, waiting, conn>>

(* send(): the socket is writable and the port is watched for it.          *)
Writable ==
  /\ waiting /\ ~invoking
  /\ invoking' = (tasks # << >>)
  /\ UNCHANGED <<tasks, wire, waiting, conn, crashed>>

QueueNext ==
  RunSend \/ RunCache \/ RunFile \/ RunCork \/ RunClose \/ RunOrphan \/ Writable
=============================================================================
