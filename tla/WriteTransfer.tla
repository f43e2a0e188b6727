---------------------------- MODULE WriteTransfer ----------------------------
(***************************************************************************)
(* A WRITE(10) from the initiator's PDUs to the write cache: the session's *)
(* receive loop (session.cpp doRecv, doWork) on top of the tokenizer,      *)
(* WriteHandler::handle (scsi/write.cpp) and DataOutHandler::handle        *)
(* (iscsi/dataout.cpp).  The initiator is external: it keeps to the        *)
(* negotiated parameters, with bursts cut anywhere, except where Bad says. *)
(*                                                                         *)
(* The length of a WRITE and of a segment is in blocks, any other in cells *)
(* and unsigned.  The initiator moves only while the session waits in      *)
(* readv(): the other steps of the session read nothing of it.             *)
(***************************************************************************)
EXTENDS Tokenizer

CONSTANTS
  ITTS,              \* initiator task tags, numbers
  FirstBurstLength,
  MaxBurstLength,
  InitiatorMRDS,     \* the initiator's MaxRecvDataSegmentLength
  TotalSize,         \* blocks of the volume
  Commands,          \* the <<lba, length>> of WRITEs that may be sent
  BadCommands,       \* and of WRITEs that the handler must refuse
  Word,              \* how many values a uint32_t has
  MaxSends           \* bound on WRITEs and PDUs that break the rules

ASSUME TransferAssumption ==
  /\ FirstBurstLength \in Nat \ {0} /\ MaxBurstLength \in Nat
  /\ MaxBurstLength >= FirstBurstLength
  /\ InitiatorMRDS \in Nat \ {0} /\ TotalSize \in Nat /\ ITTS \subseteq Nat
  /\ MaxSends \in Nat /\ Word \in Nat /\ MRDS < Word
  /\ \A c \in Commands \cup BadCommands :
       c[1] \in Nat /\ c[2] \in Nat /\ LBA2OFFSET(c[2]) < Word
  /\ \A c \in Commands : c[2] > 0 /\ c[1] + c[2] <= TotalSize
  /\ \A c \in BadCommands : c[2] = 0 \/ c[1] + c[2] > TotalSize

VARIABLES
  pc,        \* where the session is: recv, parse, work
  session,   \* up or down
  initialR2T, immediateEnabled,
  recvinfo,  \* the DataOutInfo of each pending tag
  pushed,    \* the segments given to the write cache, with their WRITE
  sendtask,  \* replies not sent yet
  wire,      \* replies on their way to the initiator
  writes,    \* the initiator's record of its WRITEs
  bad        \* how many bad PDUs it has sent

rvars == <<pc, session, recvinfo, pushed, sendtask>>
ivars == <<wire, writes, bad>>
modes == <<initialR2T, immediateEnabled>>
vars == <<tvars, rvars, ivars, modes>>

Init ==
  /\ TokenizerInit
  /\ pc = "recv" /\ session = "up"
  /\ initialR2T \in BOOLEAN /\ immediateEnabled \in BOOLEAN
  /\ recvinfo = << >> /\ pushed = << >> /\ sendtask = << >>
  /\ wire = << >> /\ writes = << >> /\ bad = 0
-----------------------------------------------------------------------------
(* What is told of a WRITE(10) command PDU and of a DataOut; w is the      *)
(* initiator's own number of the WRITE, at the place in the stream.        *)
WritePdu(w, itt, lba, len, dlength, final) ==
  [op |-> "WRITE", w |-> w, itt |-> itt, lba |-> lba, len |-> len,
   off |-> 0, at |-> 0, dlength |-> dlength, final |-> final]
DataPdu(w, itt, off, dlength, final) ==
  [op |-> "DATA", w |-> w, itt |-> itt, lba |-> 0, len |-> 0,
   off |-> off, at |-> 0, dlength |-> dlength, final |-> final]

(* The initiator.                                                          *)
Send(pdu) == /\ stream' = Append(stream, [pdu EXCEPT !.at = Sent])
             /\ UNCHANGED <<taken, mem, cbufs, vec, overflow, status, offset, bhss>>

Idle == pc = "recv" /\ session = "up"

(* The tags of WRITEs with more immediate data than they write.            *)
Spoiled == {stream[k].itt : k \in
              {j \in DOMAIN stream : /\ stream[j].w = 0 /\ stream[j].op = "WRITE"
                                     /\ stream[j].dlength > LBA2OFFSET(stream[j].len)}}

(* A tag is used again once its task is done; a spoiled one never is.      *)
Busy(itt) ==
  itt \in Spoiled \/ \E w \in DOMAIN writes : writes[w].itt = itt /\ ~writes[w].done

NextTag(itt) == ~Busy(itt) /\ \A t \in ITTS : t < itt => Busy(t)

(* A WRITE with immediate data of length imm.  Without F the rest of the   *)
(* first burst follows unsolicited.                                        *)
SendWrite(itt, lba, len, imm, final) ==
  LET burst == Min2(LBA2OFFSET(len), FirstBurstLength) IN
  /\ Idle /\ Len(writes) + bad < MaxSends /\ NextTag(itt)
  /\ imm <= Min2(burst, IF immediateEnabled THEN MRDS ELSE 0)
  /\ final \/ (~initialR2T /\ imm < burst)
  /\ Send(WritePdu(Len(writes) + 1, itt, lba, len, imm, final))
  /\ writes' = Append(writes, [itt |-> itt, lba |-> lba, len |-> LBA2OFFSET(len), sent |-> imm,
                               grant |-> IF final THEN 0 ELSE burst - imm,
                               waits |-> ~initialR2T /\ final /\ imm < burst, done |-> FALSE])
  /\ UNCHANGED <<rvars, wire, bad, modes>>

SendData(w, d) ==
  /\ Idle /\ d <= Min2(writes[w].grant, MRDS)
  /\ Send(DataPdu(w, writes[w].itt, writes[w].sent, d, d = writes[w].grant))
  /\ writes' = [writes EXCEPT ![w].sent = @ + d, ![w].grant = @ - d]
  /\ UNCHANGED <<rvars, wire, bad, modes>>

(* A PDU that breaks the rules: a WRITE of nothing, behind the volume, all *)
(* of it there without F, or with more immediate data than it writes; a    *)
(* DataOut of no task or beyond its task.                                  *)
Bad(pdu) ==
  /\ Idle /\ Len(writes) + bad < MaxSends
  /\ Send(pdu)
  /\ bad' = bad + 1
  /\ UNCHANGED <<rvars, wire, writes, modes>>

SendBadWrite(itt, lba, len) ==
  /\ NextTag(itt)
  /\ Bad(WritePdu(0, itt, lba, len, 0, TRUE))

SendEndless(itt) ==
  /\ NextTag(itt) /\ immediateEnabled
  /\ Bad(WritePdu(0, itt, 0, 1, LBA2OFFSET(1), FALSE))

SendOverlong(itt, lba, len, d) ==
  /\ NextTag(itt) /\ d > LBA2OFFSET(len)
  /\ Bad(WritePdu(0, itt, lba, len, d, TRUE))

SendBadData(itt, d) ==
  /\ \A w \in DOMAIN writes : writes[w].itt = itt /\ ~writes[w].done
                                => d > writes[w].len - writes[w].sent
  /\ Bad(DataPdu(0, itt, 0, d, TRUE))

(* The reply to a spoiled WRITE is of no use.                              *)
TakeReply ==
  /\ Idle /\ wire # << >>
  /\ LET reply == Head(wire)
         open == {v \in DOMAIN writes : writes[v].itt = reply.itt /\ ~writes[v].done}
         w == CHOOSE v \in open : TRUE
     IN writes' = IF open = {} THEN writes
                  ELSE IF reply.op = "R2T"
                  THEN [writes EXCEPT ![w].sent = reply.offset, ![w].grant = reply.length]
                  ELSE [writes EXCEPT ![w].done = TRUE]
  /\ wire' = Tail(wire)
  /\ UNCHANGED <<tvars, rvars, bad, modes>>
-----------------------------------------------------------------------------
(* doRecv(): readv, tokenize, work, until EAGAIN; then sendtask.invoke().  *)
Receive ==
  /\ Idle
  /\ \E n \in 1 .. (count * B) : Readv(n)
  /\ pc' = "parse"
  /\ UNCHANGED <<session, recvinfo, pushed, sendtask, ivars, modes>>

Parse ==
  /\ pc = "parse" /\ session = "up"
  /\ PartialHead \/ ParsedHeader
  /\ pc' = IF Len(bhss') > Len(bhss) /\ offset' > 0 THEN "parse" ELSE "work"
  /\ UNCHANGED <<session, recvinfo, pushed, sendtask, ivars, modes>>

Invoke ==
  /\ Idle /\ taken = Sent /\ sendtask # << >>
  /\ wire' = wire \o sendtask /\ sendtask' = << >>
  /\ UNCHANGED <<tvars, pc, session, recvinfo, pushed, writes, bad, modes>>
-----------------------------------------------------------------------------
Rsp(itt) == [op |-> "RSP", itt |-> itt, offset |-> 0, length |-> 0, r2tsn |-> 0]
R2T(itt, dinfo, remain) ==
  [op |-> "R2T", itt |-> itt, offset |-> (dinfo.total - remain) % Word,
   length |-> Min2(remain, InitiatorMRDS), r2tsn |-> dinfo.r2tsn]

(* A handler returns false: the session is cleaned up.                     *)
Refuse == session' = "down" /\ UNCHANGED <<recvinfo, pushed, sendtask>>

(* parent->wcaches[lun_id]->push(): the segment and the WRITE it is of.    *)
Pushed(req, seg) == Append(pushed, [w |-> req.w, itt |-> req.itt, seg |-> seg])

(* The PDU's data as the handlers cut it, or none: the length is rounded   *)
(* down to blocks, which then have no room for all of it.                  *)
Cut(req, lba) == FrontDataSegment(lba, OFFSET2LBA(req.dlength))
IsCut(req) == HasSegment(req.dlength, OFFSET2LBA(req.dlength))

DataOutInfo(lba, total, remain) == [lba |-> lba, total |-> total, remain |-> remain, r2tsn |-> 0]

(* SessionRecvInfo::put() keeps an entry that is there already.            *)
Put(infos, itt, dinfo) ==
  IF itt \in DOMAIN infos THEN infos
  ELSE [t \in DOMAIN infos \cup {itt} |-> IF t = itt THEN dinfo ELSE infos[t]]

(* Mutant: an R2T follows every command.                                   *)
AsksAlways(req) == TRUE

(* Mutant: immediate data that fills the first burst gets no R2T.          *)
AsksBeyondBurst(req) == initialR2T \/ req.dlength > FirstBurstLength

Asks(req) == initialR2T \/ req.dlength >= FirstBurstLength

(* The part of WriteHandler::handle() behind the immediate data.           *)
AskForRest(req, remain) ==
  LET dinfo == DataOutInfo(req.lba, LBA2OFFSET(req.len), remain)
  IN /\ sendtask' = IF Asks(req) THEN Append(sendtask, R2T(req.itt, dinfo, remain)) ELSE sendtask
     /\ recvinfo' = Put(recvinfo, req.itt,
                        [dinfo EXCEPT !.r2tsn = IF Asks(req) THEN @ + 1 ELSE @])

(* Mutant: a WRITE of just MaxBurstLength is refused.                      *)
InvalidAtBurst(req) ==
  \/ LBA2OFFSET(req.len) >= MaxBurstLength
  \/ req.lba >= TotalSize \/ req.len = 0 \/ req.lba + req.len > TotalSize
  \/ immediateEnabled /\ ~IsCut(req)

(* What WriteHandler::handle() refuses.                                    *)
Invalid(req) ==
  \/ LBA2OFFSET(req.len) > MaxBurstLength
  \/ req.lba >= TotalSize \/ req.len = 0 \/ req.lba + req.len > TotalSize
  \/ immediateEnabled /\ ~IsCut(req)   \* the segment has vanished

WriteHandler(req) ==
  LET remain == (LBA2OFFSET(req.len) - req.dlength) % Word IN
  \/ Invalid(req) /\ Refuse
  \/ /\ ~Invalid(req)
     /\ pushed' = IF immediateEnabled
                  THEN Pushed(req, Cut(req, req.lba)) ELSE pushed
     /\ \/ /\ immediateEnabled /\ remain = 0
           /\ UNCHANGED recvinfo
           /\ \/ ~req.final /\ session' = "down" /\ UNCHANGED sendtask
              \/ req.final /\ sendtask' = Append(sendtask, Rsp(req.itt)) /\ UNCHANGED session
        \/ /\ ~(immediateEnabled /\ remain = 0)
           /\ AskForRest(req, IF immediateEnabled THEN remain ELSE LBA2OFFSET(req.len))
           /\ UNCHANGED session

(* Mutant: the response does not wait for the rest.                        *)
DataTakenEarly(req, dinfo, remain) ==
  /\ UNCHANGED session
  /\ sendtask' = Append(sendtask, Rsp(req.itt))
  /\ recvinfo' = [t \in DOMAIN recvinfo \ {req.itt} |-> recvinfo[t]]

(* The part of DataOutHandler::handle() behind the check of the length.    *)
DataTaken(req, dinfo, remain) ==
  LET left == [dinfo EXCEPT !.remain = remain] IN
  /\ UNCHANGED session
  /\ \/ /\ ~req.final
        /\ recvinfo' = [recvinfo EXCEPT ![req.itt] = left] /\ UNCHANGED sendtask
     \/ /\ req.final /\ remain = 0
        /\ sendtask' = Append(sendtask, Rsp(req.itt))
        /\ recvinfo' = [t \in DOMAIN recvinfo \ {req.itt} |-> recvinfo[t]]
     \/ /\ req.final /\ remain > 0
        /\ sendtask' = Append(sendtask, R2T(req.itt, left, remain))
        /\ recvinfo' = [recvinfo EXCEPT ![req.itt] = [left EXCEPT !.r2tsn = @ + 1]]

(* Mutant: the length of a DataOut is not checked.                         *)
DataOutUnchecked(req) ==
  \/ req.itt \notin DOMAIN recvinfo /\ Refuse
  \/ /\ req.itt \in DOMAIN recvinfo
     /\ LET dinfo == recvinfo[req.itt]
            seg == Cut(req, dinfo.lba + OFFSET2LBA((dinfo.total - dinfo.remain) % Word))
        IN /\ pushed' = IF IsCut(req) THEN Pushed(req, seg) ELSE pushed
           /\ DataTaken(req, dinfo, Max2(0, dinfo.remain - req.dlength))

DataOutHandler(req) ==
  \/ req.itt \notin DOMAIN recvinfo /\ Refuse
  \/ /\ req.itt \in DOMAIN recvinfo
     /\ LET dinfo == recvinfo[req.itt]
            seg == Cut(req, dinfo.lba + OFFSET2LBA((dinfo.total - dinfo.remain) % Word))
        IN /\ pushed' = IF IsCut(req) THEN Pushed(req, seg) ELSE pushed
           /\ \/ /\ dinfo.remain < req.dlength
                 /\ session' = "down" /\ UNCHANGED <<recvinfo, sendtask>>
              \/ /\ dinfo.remain >= req.dlength
                 /\ DataTaken(req, dinfo, dinfo.remain - req.dlength)

(* doWork(): the handler of the first token, until there is none.          *)
Work ==
  /\ pc = "work" /\ session = "up"
  /\ IF bhss = << >> THEN pc' = "recv" /\ UNCHANGED <<bhss, session, recvinfo, pushed, sendtask>>
     ELSE /\ LET req == stream[Head(bhss).pdu]
             IN IF req.op = "WRITE" THEN WriteHandler(req) ELSE DataOutHandler(req)
          /\ bhss' = Tail(bhss)
          /\ UNCHANGED pc
  /\ UNCHANGED <<stream, taken, mem, cbufs, vec, overflow, status, offset, ivars, modes>>

Initiator ==
  \/ \E itt \in ITTS, c \in Commands, imm \in 0 .. MRDS, final \in BOOLEAN :
       SendWrite(itt, c[1], c[2], imm, final)
  \/ \E itt \in ITTS, c \in BadCommands : SendBadWrite(itt, c[1], c[2])
  \/ \E itt \in ITTS : SendEndless(itt)
  \/ \E itt \in ITTS, c \in Commands, d \in 1 .. MRDS : SendOverlong(itt, c[1], c[2], d)
  \/ \E itt \in ITTS, d \in 1 .. MRDS : SendBadData(itt, d)

Serve == TakeReply \/ \E w \in DOMAIN writes, d \in 1 .. MRDS : SendData(w, d)

Target == Receive \/ Parse \/ Work \/ Invoke

Next == Initiator \/ Serve \/ Target

Spec == Init /\ [][Next]_vars
-----------------------------------------------------------------------------
(* A WRITE is answered once its response is queued.                        *)
Answered(w) ==
  \/ writes[w].done
  \/ \E i \in DOMAIN sendtask : sendtask[i].op = "RSP" /\ sendtask[i].itt = writes[w].itt
  \/ \E i \in DOMAIN wire : wire[i].op = "RSP" /\ wire[i].itt = writes[w].itt

(* The cell that the initiator means for place j of WRITE w.               *)
Meant(w, j) ==
  LET p == CHOOSE q \in Range(stream) : q.w = w /\ j \in q.off .. (q.off + q.dlength - 1)
  IN p.at + HEADER + 1 + j - p.off

InBlocks(w) == \A q \in Range(stream) : q.w = w => q.dlength % Unit = 0

(* A WRITE whose PDUs all carry whole blocks is answered GOOD only when    *)
(* the cache was given each of its blocks once, in order, with the data    *)
(* meant for it; and the buffers the segments share with the receive side  *)
(* keep that data ever after.  Data of a DataOut that is no whole number   *)
(* of blocks never gets to the cache, and the WRITE is answered GOOD too.  *)
Whole ==
  \A w \in DOMAIN writes : Answered(w) /\ InBlocks(w) =>
    LET lens == [s \in DOMAIN pushed |->
                   IF pushed[s].w = w THEN LBA2OFFSET(pushed[s].seg.len) ELSE 0]
    IN /\ Sum(lens) = writes[w].len
       /\ \A s \in DOMAIN pushed : pushed[s].w = w =>
            /\ pushed[s].seg.lba = writes[w].lba + OFFSET2LBA(Before(lens, s))
            /\ \A i \in 1 .. lens[s] :
                 SegmentCell(pushed[s].seg, i) = Meant(w, Before(lens, s) + i - 1)

(* An R2T asks for the data that follows what has been sent, while nothing *)
(* of an earlier burst is outstanding: never for the same data twice.      *)
(* After immediate data longer than its WRITE no R2T makes sense.          *)
R2TsExact ==
  \A i \in DOMAIN (wire \o sendtask) :
    LET r == (wire \o sendtask)[i] IN
    r.op = "R2T" /\ r.itt \notin Spoiled => \E w \in DOMAIN writes :
       /\ writes[w].itt = r.itt /\ ~writes[w].done /\ writes[w].grant = 0
       /\ r.offset = writes[w].sent /\ r.offset + r.length <= writes[w].len
       /\ ~\E j \in DOMAIN (wire \o sendtask) : j # i /\ (wire \o sendtask)[j].itt = r.itt

(* Whatever else the initiator sends and wherever it cuts its data: while  *)
(* the session is up, the cache is given no block beyond a WRITE for it,   *)
(* and nothing for no WRITE, except behind immediate data longer than its  *)
(* WRITE, which is taken whole and leaves a count that has wrapped.        *)
Contained(p) ==
  IF p.w = 0 THEN p.itt \in Spoiled
  ELSE /\ writes[p.w].lba <= p.seg.lba
       /\ p.seg.lba + p.seg.len <= writes[p.w].lba + OFFSET2LBA(writes[p.w].len)

WithinTask == session = "up" => \A p \in DOMAIN pushed : Contained(pushed[p])

(* Every PDU arrives whole whatever readv() returns; and between two       *)
(* rounds of the receive loop the iovecs are the free space.               *)
ReceiveSound == Buffered /\ (Idle => IovecsFree)

(* Once everything sent has been received, worked on and answered, no      *)
(* WRITE is open, except one whose initiator sent F before the end of its  *)
(* first burst.  Every step of Serve and Target uses up something of what  *)
(* is under way, so that every other WRITE is answered in the end.         *)
Quiet == /\ Idle /\ taken = Sent /\ sendtask = << >> /\ wire = << >>
         /\ \A w \in DOMAIN writes : writes[w].grant = 0
NoneForgotten == Quiet => \A w \in DOMAIN writes : writes[w].done \/ writes[w].waits

(* The session goes down only for a bad PDU; for a WRITE, legal as it is,  *)
(* of more than MaxBurstLength; or while ImmediateData is on for a WRITE   *)
(* whose immediate data is none or no whole number of blocks.              *)
DownForCause ==
  session = "down" =>
    \/ bad > 0
    \/ \E k \in DOMAIN stream :
         /\ stream[k].op = "WRITE"
         /\ \/ LBA2OFFSET(stream[k].len) > MaxBurstLength
            \/ immediateEnabled /\ (stream[k].dlength = 0 \/ stream[k].dlength % Unit # 0)
=============================================================================
