---------------------------- MODULE AioDiskWriter ----------------------------
(***************************************************************************)
(* The write-back threads of one write cache (src/diskwriter.cpp): the     *)
(* writer thread submits queued segments with io_submit, the event         *)
(* listener thread collects completions with io_getevents and pops the     *)
(* queue.  Both threads run their loop body under the same mutex, ev_guard,*)
(* and sleep in a timed wait of one second on the same condition; the      *)
(* reactor thread pushes into the cache under wq_guard only.               *)
(*                                                                         *)
(* One iocb carries one block.  The listener does not look at which        *)
(* request an event belongs to: it counts down the oldest entry of         *)
(* iocbs_sizes and pops the front of the cache when that reaches zero.     *)
(***************************************************************************)
EXTENDS WriteCache

CONSTANTS
  IOCB_MAX,  \* 64 in the code
  Faults     \* which of "resolve" and "mismatch" may happen

ASSUME IocbMaxAssumption == IOCB_MAX \in Nat \ {0}
ASSUME FaultsAssumption == Faults \subseteq {"resolve", "mismatch"}

VARIABLES
  wpc,          \* writer thread: "check", "wait", "next", "submit", "exit", "failed"
  lpc,          \* listener: "check", "wait", "events", "front", "pop", "exit", "failed"
  stop,         \* DiskWriter::stop
  current_ws,   \* the segment last taken by getNext, 0 for NULL
  iocbs_sizes,  \* per submitted segment, its events not collected yet
  iocbs_total,  \* their sum
  aio,          \* kernel: per io_submit, its blocks that are not on disk, those
                \* of them that failed, and the events of good writes
  disk          \* contents of the files

aiovars == <<wpc, lpc, stop, current_ws, iocbs_sizes, iocbs_total, aio, disk>>
vars == <<wcvars, aiovars>>

Init ==
  /\ WCInit
  /\ wpc = "check"
  /\ lpc = "check"
  /\ stop = FALSE
  /\ current_ws = 0
  /\ iocbs_sizes = << >>
  /\ iocbs_total = 0
  /\ aio = << >>
  /\ disk = [b \in Blocks |-> 0]

WriterHolds == wpc \in {"next", "submit"}
ListenerHolds == lpc \in {"events", "front", "pop"}

(* The reactor thread: a step of push(), while its loop runs.              *)
Reactor == ~stop /\ Push /\ UNCHANGED aiovars

(* After its loop the reactor calls mayStop() (iSCSIReactor::clearWriters).*)
MayStop ==
  /\ ~stop
  /\ Unlocked
  /\ stop' = TRUE
  /\ UNCHANGED <<wcvars, wpc, lpc, current_ws, iocbs_sizes, iocbs_total, aio, disk>>
-----------------------------------------------------------------------------
(* Writer thread.                                                          *)

(* "while(!stop)"                                                          *)
WriterCheck ==
  /\ wpc = "check"
  /\ wpc' = IF stop THEN "exit" ELSE "wait"
  /\ UNCHANGED <<wcvars, lpc, stop, current_ws, iocbs_sizes, iocbs_total, aio, disk>>

(* The timed wait ends, by notifyEvent or by its timeout, with ev_guard.   *)
WriterWake ==
  /\ wpc = "wait"
  /\ ~ListenerHolds
  /\ wpc' = "next"
  /\ UNCHANGED <<wcvars, lpc, stop, current_ws, iocbs_sizes, iocbs_total, aio, disk>>

(* Mutant: no limit on the requests in flight.                             *)
WriterNextUnlimited ==
  /\ wpc = "next"
  /\ GetNext(current_ws)
  /\ current_ws' = wq[GetNextPos(current_ws)]
  /\ wpc' = "submit"
  /\ UNCHANGED <<lpc, stop, iocbs_sizes, iocbs_total, aio, disk>>

(* The loop of doWork(): another segment is taken ...                      *)
WriterNext ==
  /\ wpc = "next"
  /\ iocbs_total < IOCB_MAX
  /\ GetNext(current_ws)
  /\ current_ws' = wq[GetNextPos(current_ws)]
  /\ wpc' = "submit"
  /\ UNCHANGED <<lpc, stop, iocbs_sizes, iocbs_total, aio, disk>>

(* ... or the loop and doWork() end.                                       *)
WriterSleep ==
  /\ wpc = "next"
  /\ iocbs_total >= IOCB_MAX \/ (Unlocked /\ GetNextPos(current_ws) = 0)
  /\ wpc' = "check"
  /\ UNCHANGED <<wcvars, lpc, stop, current_ws, iocbs_sizes, iocbs_total, aio, disk>>

(* Build the iocbs of current_ws and submit them.                          *)
WriterSubmit ==
  /\ wpc = "submit"
  /\ seg[current_ws].len < IOCB_MAX
  /\ aio' = Append(aio, [ws |-> current_ws, todo |-> Extent(current_ws), lost |-> {}, done |-> 0])
  /\ iocbs_sizes' = Append(iocbs_sizes, seg[current_ws].len)
  /\ iocbs_total' = iocbs_total + seg[current_ws].len
  /\ wpc' = "next"
  /\ UNCHANGED <<wcvars, lpc, stop, current_ws, disk>>

(* doWork() returns false, which ends the thread: too many buffers in the  *)
(* segment, or no file for its address.                                    *)
WriterFail ==
  /\ wpc = "submit"
  /\ seg[current_ws].len >= IOCB_MAX \/ "resolve" \in Faults
  /\ wpc' = "failed"
  /\ UNCHANGED <<wcvars, lpc, stop, current_ws, iocbs_sizes, iocbs_total, aio, disk>>
-----------------------------------------------------------------------------
(* Kernel (external): the asynchronous writes.  With buffered files, which *)
(* is what the code opens, they are carried out in the order of submission.*)
(* A write may fail or be short (I/O error, no space): its block is not on *)
(* disk, its event says so, and the kernel goes on with the next request.  *)
Ended(i) == aio[i].todo = aio[i].lost

KernelWriteOf(i) ==
  \E b \in aio[i].todo \ aio[i].lost :
    /\ disk' = [disk EXCEPT ![b] = aio[i].ws]
    /\ aio' = [aio EXCEPT ![i].todo = @ \ {b}, ![i].done = @ + 1]
    /\ UNCHANGED <<wcvars, wpc, lpc, stop, current_ws, iocbs_sizes, iocbs_total>>

KernelFailOf(i) ==
  \E b \in aio[i].todo \ aio[i].lost :
    /\ "mismatch" \in Faults
    /\ aio' = [aio EXCEPT ![i].lost = @ \cup {b}]
    /\ UNCHANGED <<wcvars, wpc, lpc, stop, current_ws, iocbs_sizes, iocbs_total, disk>>

KernelWrite ==
  \E i \in DOMAIN aio :
    /\ \A j \in 1 .. (i - 1) : Ended(j)
    /\ KernelWriteOf(i) \/ KernelFailOf(i)

(* The oldest request with an event that the listener has not taken.       *)
EventOf(i) == aio[i].done > 0 \/ aio[i].lost # {}
EventReady == \E i \in DOMAIN aio : EventOf(i)
OldestEvent(i) == EventOf(i) /\ \A j \in 1 .. (i - 1) : ~EventOf(j)
-----------------------------------------------------------------------------
(* Listener thread.                                                        *)

(* "while(!parent->stop)"                                                  *)
ListenerCheck ==
  /\ lpc = "check"
  /\ lpc' = IF stop THEN "exit" ELSE "wait"
  /\ UNCHANGED <<wcvars, wpc, stop, current_ws, iocbs_sizes, iocbs_total, aio, disk>>

ListenerWake ==
  /\ lpc = "wait"
  /\ ~WriterHolds
  /\ lpc' = "events"
  /\ UNCHANGED <<wcvars, wpc, stop, current_ws, iocbs_sizes, iocbs_total, aio, disk>>

(* No segment is in flight, or io_getevents times out with no event.       *)
ListenerSleep ==
  /\ lpc = "events"
  /\ iocbs_sizes = << >> \/ ~EventReady
  /\ lpc' = "check"
  /\ UNCHANGED <<wcvars, wpc, stop, current_ws, iocbs_sizes, iocbs_total, aio, disk>>

(* Mutant: a failed write counts like a good one.                          *)
TakeEventUnchecked ==
  \E i \in DOMAIN aio :
    /\ OldestEvent(i)
    /\ LET bad == IF aio[i].done > 0 THEN {} ELSE {CHOOSE b \in aio[i].lost : TRUE}
           rest == [aio[i] EXCEPT !.todo = @ \ bad, !.lost = @ \ bad,
                                  !.done = IF bad = {} THEN @ - 1 ELSE @]
       IN aio' = IF rest.todo = {} /\ rest.done = 0
                 THEN SubSeq(aio, 1, i - 1) \o SubSeq(aio, i + 1, Len(aio))
                 ELSE [aio EXCEPT ![i] = rest]

(* The kernel hands out an event of the oldest request that has one: here  *)
(* a good one.  A request leaves aio with its last event.                  *)
TakeEvent ==
  \E i \in DOMAIN aio :
    /\ OldestEvent(i)
    /\ aio[i].done > 0
    /\ aio' = IF aio[i].todo = {} /\ aio[i].done = 1
              THEN SubSeq(aio, 1, i - 1) \o SubSeq(aio, i + 1, Len(aio))
              ELSE [aio EXCEPT ![i].done = @ - 1]

(* Mutant: the segment is done one event early.                            *)
ListenerEventEarly ==
  /\ lpc = "events"
  /\ iocbs_sizes # << >>
  /\ TakeEvent
  /\ iocbs_sizes' = [iocbs_sizes EXCEPT ![1] = @ - 1]
  /\ IF iocbs_sizes[1] <= 2
     THEN lpc' = "front" /\ UNCHANGED iocbs_total
     ELSE lpc' = "events" /\ iocbs_total' = iocbs_total - 1
  /\ UNCHANGED <<wcvars, wpc, stop, current_ws, disk>>

(* One event counts against the oldest submitted segment.                  *)
ListenerEvent ==
  /\ lpc = "events"
  /\ iocbs_sizes # << >>
  /\ TakeEvent
  /\ iocbs_sizes' = [iocbs_sizes EXCEPT ![1] = @ - 1]
  /\ IF iocbs_sizes[1] = 1
     THEN lpc' = "front" /\ UNCHANGED iocbs_total
     ELSE lpc' = "events" /\ iocbs_total' = iocbs_total - 1
  /\ UNCHANGED <<wcvars, wpc, stop, current_ws, disk>>

(* Mutant: pop() without front().                                          *)
ListenerFrontSkipped ==
  /\ lpc = "front"
  /\ Unlocked
  /\ lpc' = "pop"
  /\ UNCHANGED <<wcvars, wpc, stop, current_ws, iocbs_sizes, iocbs_total, aio, disk>>

(* All its events are in: wc->front() ...                                  *)
ListenerFront ==
  /\ lpc = "front"
  /\ IF wq = << >> THEN Unlocked /\ UNCHANGED wcvars ELSE Front
  /\ lpc' = "pop"
  /\ UNCHANGED <<wpc, stop, current_ws, iocbs_sizes, iocbs_total, aio, disk>>

(* Mutant: the entry of iocbs_sizes stays.                                 *)
ListenerPopKeepsEntry ==
  /\ lpc = "pop"
  /\ Pop
  /\ iocbs_total' = iocbs_total - 1
  /\ lpc' = "events"
  /\ UNCHANGED <<wpc, stop, current_ws, iocbs_sizes, aio, disk>>

(* ... then wc->pop(), and the entry of iocbs_sizes goes.                  *)
ListenerPop ==
  /\ lpc = "pop"
  /\ Pop
  /\ iocbs_sizes' = Tail(iocbs_sizes)
  /\ iocbs_total' = iocbs_total - 1
  /\ lpc' = "events"
  /\ UNCHANGED <<wpc, stop, current_ws, aio, disk>>

(* The event of a short or failed write: doListenerWork() returns false,   *)
(* which ends the thread.  Nobody collects the remaining events.           *)
ListenerFail ==
  /\ lpc = "events"
  /\ iocbs_sizes # << >>
  /\ \E i \in DOMAIN aio : OldestEvent(i) /\ aio[i].lost # {}
  /\ lpc' = "failed"
  /\ UNCHANGED <<wcvars, wpc, stop, current_ws, iocbs_sizes, iocbs_total, aio, disk>>
-----------------------------------------------------------------------------
Writer == WriterCheck \/ WriterNext \/ WriterSleep \/ WriterSubmit \/ WriterFail
Listener ==
  \/ ListenerCheck \/ ListenerSleep \/ ListenerEvent
  \/ ListenerFront \/ ListenerPop \/ ListenerFail

Threads == Reactor \/ MayStop \/ WriterWake \/ Writer \/ ListenerWake \/ Listener
Next == Threads \/ KernelWrite

(* Fairness: push() runs to its end; a thread that holds ev_guard goes on; *)
(* a submitted write ends, well or badly.  A sleeping thread wakes within  *)
(* a second and then competes for ev_guard with the other one, which gives *)
(* it up at every turn of its loop: strong fairness.                       *)
Fairness ==
  /\ WF_vars((PushHit \/ PushEnd) /\ UNCHANGED aiovars)
  /\ WF_vars(Writer)
  /\ WF_vars(Listener)
  /\ WF_vars(KernelWrite)
  /\ SF_vars(WriterWake)
  /\ SF_vars(ListenerWake)

Spec == Init /\ [][Next]_vars
FairSpec == Spec /\ Fairness
-----------------------------------------------------------------------------
(* Type correctness of the cache, of the two loops and of the counters     *)
(* they share: no entry of iocbs_sizes goes below zero.                    *)
TypeOK ==
  /\ WCTypeOK
  /\ wpc \in {"check", "wait", "next", "submit", "exit", "failed"}
  /\ lpc \in {"check", "wait", "events", "front", "pop", "exit", "failed"}
  /\ stop \in BOOLEAN
  /\ current_ws \in 0 .. alloc
  /\ iocbs_sizes \in Seq(Nat)
  /\ iocbs_total \in Int
  /\ aio \in Seq([ws : 1 .. alloc, todo : SUBSET Blocks, lost : SUBSET Blocks, done : Nat])
  /\ disk \in [Blocks -> 0 .. alloc]

(* Every READ of a block that starts while the lock is free returns what   *)
(* was last written to it, wherever that data is: in the cache, in the     *)
(* kernel or on disk.                                                      *)
Coherent == Unlocked => \A b \in Blocks : ReadBlock(disk, b) = {latest[b]}

(* When doListenerWork() pops the front of the cache because the oldest    *)
(* count reached zero, that segment is one that was submitted and all of   *)
(* its blocks have been written.                                           *)
PopsWritten ==
  lpc \in {"front", "pop"} =>
    /\ Originals # {}
    /\ LET p == wq[FrontPos] IN
         p <= current_ws /\ \A i \in DOMAIN aio : aio[i].ws # p

(* An empty cache has left the last write of every block on disk, whatever *)
(* push() did to the READ extents on the way.                              *)
DrainedDisk == Unlocked /\ wq = << >> => disk = latest

(* The segment doWork() turns into iocbs is still queued: nothing pops it  *)
(* between getNext() and io_submit().                                      *)
SubmitsQueued == wpc = "submit" => current_ws \in Originals

Units(n) == {u \in (DOMAIN n) \X (1 .. IOCB_MAX) : u[2] <= n[u[1]]}

(* iocbs_total is the number of requests the kernel still has to report,   *)
(* iocbs_sizes splits it up by segment, and it stays below the limit of    *)
(* its counter, SingletonCounter<IOCB_MAX*2>.                              *)
Accounting ==
  LET popping == IF lpc \in {"front", "pop"} THEN 1 ELSE 0
      outstanding == [i \in DOMAIN aio |-> Cardinality(aio[i].todo) + aio[i].done]
  IN /\ iocbs_total = Cardinality(Units(iocbs_sizes)) + popping
     /\ iocbs_total = Cardinality(Units(outstanding)) + popping
     /\ iocbs_total <= 2 * (IOCB_MAX - 1)

(* The threads are told to stop, or one of them has failed.                *)
Disturbed == stop \/ wpc = "failed" \/ lpc = "failed"

(* The loops of doWork() and doListenerWork() write the queue back: after  *)
(* the last push (MaxWrites bounds them) every segment leaves it, unless   *)
(* the threads are disturbed.                                              *)
WrittenBack == []<>(wq = << >> \/ Disturbed)

(* The refinement mapping: a queued original that was handed to the kernel *)
(* has the blocks that the kernel has not written.                         *)
Submitted(p) == p < current_ws \/ (p = current_ws /\ wpc \notin {"submit", "failed"})
InFlight == {p \in Originals : Submitted(p)}
Left(p) ==
  IF Submitted(p) THEN {b \in Blocks : \E i \in DOMAIN aio : aio[i].ws = p /\ b \in aio[i].todo}
  ELSE Extent(p)
WB == INSTANCE WriteBack WITH
        pending <- [p \in Originals |-> Left(p)],
        lost <- UNION {{aio[i].ws} \X aio[i].lost : i \in DOMAIN aio}

(* push(), doWork(), doListenerWork() and the kernel implement WriteBack.  *)
ImplementsWriteBack == WB!Spec

(* What is written with WRITE is on disk when the writer is gone.          *)
StopKeepsWrites ==
  wpc = "exit" /\ lpc = "exit" /\ (\A i \in DOMAIN aio : aio[i].todo = {}) => disk = latest
=============================================================================
