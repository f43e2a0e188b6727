----------------------------- MODULE DiskWriter -----------------------------
(***************************************************************************)
(* The synchronous writer thread, base class of AioDiskWriter              *)
(* (src/diskwriter.cpp): it takes the front of the cache, writes it with   *)
(* pwrite64 one buffer at a time, pops it, and goes on until the cache is  *)
(* empty.  The reactor thread pushes at any time in between.               *)
(***************************************************************************)
EXTENDS WriteCache

VARIABLES
  pc,    \* "check", "wait", "front", "write", "pop", "exit", "failed"
  ws,    \* the segment doWork() has taken from front()
  todo,  \* its blocks not written yet
  stop,  \* DiskWriter::stop
  disk   \* contents of the files

dwvars == <<pc, ws, todo, stop, disk>>
vars == <<wcvars, dwvars>>

Init ==
  /\ WCInit
  /\ pc = "check"
  /\ ws = 0
  /\ todo = {}
  /\ stop = FALSE
  /\ disk = [b \in Blocks |-> 0]

(* The reactor thread pushes while its loop runs; after the loop it calls  *)
(* mayStop() (iSCSIReactor::clearWriters).                                 *)
Reactor == ~stop /\ Push /\ UNCHANGED dwvars

MayStop == ~stop /\ Unlocked /\ stop' = TRUE /\ UNCHANGED <<wcvars, pc, ws, todo, disk>>

(* operator(): "while(!stop)" around a timed wait and doWork().            *)
CheckStop ==
  /\ pc = "check"
  /\ pc' = IF stop THEN "exit" ELSE "wait"
  /\ UNCHANGED <<wcvars, ws, todo, stop, disk>>

Wake == pc = "wait" /\ pc' = "front" /\ UNCHANGED <<wcvars, ws, todo, stop, disk>>

(* front() of a queue that is not empty.                                   *)
TakeFront ==
  /\ pc = "front"
  /\ wq # << >>
  /\ Front
  /\ ws' = wq[FrontPos]
  /\ todo' = Extent(wq[FrontPos])
  /\ pc' = "write"
  /\ UNCHANGED <<stop, disk>>

(* doWork() returns when the queue is empty.                               *)
Sleep ==
  /\ pc = "front"
  /\ Unlocked
  /\ wq = << >>
  /\ pc' = "check"
  /\ UNCHANGED <<wcvars, ws, todo, stop, disk>>

(* Mutant: the segment is popped after its first buffer.                   *)
WriteOutFirst ==
  /\ pc = "write"
  /\ LET b == MinOr(todo, 0) IN disk' = [disk EXCEPT ![b] = ws] /\ todo' = todo \ {b}
  /\ pc' = "pop"
  /\ UNCHANGED <<wcvars, ws, stop>>

(* doWrite() of the next buffer, in ascending order.                       *)
WriteOut ==
  /\ pc = "write"
  /\ LET b == MinOr(todo, 0) IN
       /\ disk' = [disk EXCEPT ![b] = ws]
       /\ todo' = todo \ {b}
       /\ pc' = IF todo = {b} THEN "pop" ELSE "write"
  /\ UNCHANGED <<wcvars, ws, stop>>

(* pwrite64 or getHandle() fails: doWork() returns false, the thread ends. *)
WriteFail ==
  /\ pc = "write"
  /\ pc' = "failed"
  /\ UNCHANGED <<wcvars, ws, todo, stop, disk>>

PopFront ==
  /\ pc = "pop"
  /\ Pop
  /\ pc' = "front"
  /\ UNCHANGED <<ws, todo, stop, disk>>

Writer == CheckStop \/ TakeFront \/ Sleep \/ WriteOut \/ WriteFail \/ PopFront
Next == Reactor \/ MayStop \/ Wake \/ Writer

Spec == Init /\ [][Next]_vars
-----------------------------------------------------------------------------
(* Type correctness of the cache and of the locals of doWork().            *)
TypeOK ==
  /\ WCTypeOK
  /\ pc \in {"check", "wait", "front", "write", "pop", "exit", "failed"}
  /\ ws \in 0 .. alloc
  /\ todo \subseteq Blocks
  /\ stop \in BOOLEAN
  /\ disk \in [Blocks -> 0 .. alloc]

(* front() and pop() are two calls with the lock free in between: what     *)
(* pop() removes is still the segment front() returned.                    *)
PopsTaken == pc \in {"write", "pop"} => wq # << >> /\ Head(wq) = ws

(* The refinement mapping: a queued original has the blocks that doWork()  *)
(* has not written yet.                                                    *)
Left(p) == IF p = ws THEN todo ELSE Extent(p)
WB == INSTANCE WriteBack WITH pending <- [p \in Originals |-> Left(p)], lost <- {}

(* push() and the synchronous doWork() implement WriteBack.                *)
ImplementsWriteBack == WB!Spec
=============================================================================
