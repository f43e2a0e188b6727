-------------------------- MODULE DiskWriterProofs --------------------------
(***************************************************************************)
(* Proofs about the synchronous DiskWriter: its type invariant, that pop() *)
(* removes the segment that front() returned, that it implements           *)
(* WriteBack, and what READs get from the cache meanwhile.                 *)
(***************************************************************************)
EXTENDS DiskWriter, WriteCacheProofs

(* doWork() has taken the front of the queue and not popped it yet.        *)
Taken == pc \in {"write", "pop", "failed"}

(* The segment it has taken is the front of the queue, an original; one    *)
(* it took earlier is older than what is queued.                           *)
Front1 ==
  /\ Taken => wq # << >> /\ wq[1] = ws /\ ws \in Originals
  /\ ~Taken => \A q \in Queued : ws < q

Progress == (pc = "write" => todo # {}) /\ (pc = "pop" => todo = {})

IInv == TypeOK /\ WCInv /\ Front1 /\ Progress

(* The state of WriteBack that DiskWriter implements.                      *)
Bar == [p \in Originals |-> Left(p)]
-----------------------------------------------------------------------------
LEMMA InitIInv == Init => IInv /\ WB!Init
<1> SUFFICES ASSUME Init PROVE IInv /\ WB!Init
  OBVIOUS
<1>1. WCInv
  BY WCInitInv DEF Init
<1>2. Queued = {} /\ Originals = {}
  <2>1. DOMAIN wq = {}
    BY DEF Init, WCInit
  <2> QED BY <2>1, Zenon DEF Queued, Originals
<1>3. TypeOK
  <2>1. WCTypeOK /\ alloc = 0
    BY <1>1 DEF WCInv, Init, WCInit
  <2>2. disk \in [Blocks -> 0 .. alloc] /\ ws \in 0 .. alloc /\ todo \subseteq Blocks
    BY <2>1 DEF Init
  <2>3. stop \in BOOLEAN
    BY Zenon DEF Init
  <2> QED BY <2>1, <2>2, <2>3 DEF TypeOK, Init
<1>4. Front1 /\ Progress
  BY <1>2 DEF Front1, Progress, Taken, Init
<1>5. WB!Init
  BY <1>2 DEF Init, WCInit, WB!Init
<1> QED BY <1>1, <1>3, <1>4, <1>5 DEF IInv

LEMMA Types ==
  ASSUME IInv
  PROVE  /\ alloc \in Nat /\ ws \in 0 .. alloc /\ ws \in Nat
         /\ \A p \in Queued : p \in 1 .. alloc /\ p \in Nat
         /\ Originals \subseteq Queued
<1>1. alloc \in Nat /\ ws \in 0 .. alloc /\ wq \in Seq(1 .. alloc)
  BY DEF IInv, TypeOK, WCTypeOK
<1> QED BY <1>1 DEF Queued, Originals

(* The thread goes to another place of its loop: nothing else changes.     *)
LEMMA ControlStep ==
  ASSUME IInv, UNCHANGED <<wcvars, ws, todo, disk>>,
         pc' \in {"check", "wait", "front", "write", "pop", "exit", "failed"},
         stop' \in BOOLEAN,
         Taken' <=> Taken,
         pc' = pc \/ pc' \notin {"write", "pop"}
  PROVE  IInv' /\ UNCHANGED <<Bar, disk, latest>>
<1>1. /\ WCInv' /\ WCTypeOK' /\ Queued' = Queued /\ Originals' = Originals
      /\ \A p : Extent(p)' = Extent(p)
      /\ latest' = latest /\ alloc' = alloc /\ wq' = wq
  BY QueueUnchanged DEF IInv, wcvars
<1>2. TypeOK'
  BY <1>1 DEF IInv, TypeOK
<1>3. Front1' /\ Progress'
  BY <1>1 DEF IInv, Front1, Progress
<1>4. Bar' = Bar
  BY <1>1 DEF Bar, Left
<1> QED BY <1>1, <1>2, <1>3, <1>4 DEF IInv

LEMMA LoopSteps ==
  ASSUME IInv, MayStop \/ CheckStop \/ Wake \/ Sleep \/ WriteFail \/ UNCHANGED vars
  PROVE  IInv' /\ UNCHANGED <<Bar, disk, latest>>
<1> USE DEF Taken
<1>0. /\ pc \in {"check", "wait", "front", "write", "pop", "exit", "failed"}
      /\ stop \in BOOLEAN
  BY DEF IInv, TypeOK
<1>1. CASE MayStop
  BY <1>0, <1>1, ControlStep DEF MayStop
<1>2. CASE CheckStop
  BY <1>0, <1>2, ControlStep DEF CheckStop
<1>3. CASE Wake
  BY <1>0, <1>3, ControlStep DEF Wake
<1>4. CASE Sleep
  BY <1>0, <1>4, ControlStep DEF Sleep
<1>5. CASE WriteFail
  BY <1>0, <1>5, ControlStep DEF WriteFail
<1>6. CASE UNCHANGED vars
  BY <1>0, <1>6, ControlStep DEF vars, dwvars
<1> QED BY <1>1, <1>2, <1>3, <1>4, <1>5, <1>6
-----------------------------------------------------------------------------
(* The reactor's steps.                                                    *)

LEMMA PushStutters ==
  ASSUME IInv, WCInv', UNCHANGED dwvars,
         alloc <= alloc',
         Queued \subseteq Queued', Queued' \subseteq Queued \cup {alloc + 1},
         \A p \in Queued : SameWrite(p),
         Originals' = Originals,
         latest' = latest,
         wq # << >> => wq' # << >> /\ wq'[1] = wq[1]
  PROVE  IInv' /\ UNCHANGED <<Bar, disk, latest>>
<1>1. UNCHANGED <<pc, ws, todo, stop, disk>> /\ alloc' \in Nat /\ WCTypeOK'
  BY DEF dwvars, WCInv, WCTypeOK
<1>2. \A p \in Originals : Extent(p)' = Extent(p)
  BY DEF Extent, SameWrite, Originals
<1>3. TypeOK'
  <2>1. ws \in 0 .. alloc'
    BY <1>1, Types
  <2>2. disk \in [Blocks -> 0 .. alloc']
    <3>1. disk \in [Blocks -> 0 .. alloc] /\ alloc \in Nat
      BY Types DEF IInv, TypeOK
    <3> QED BY <3>1, <1>1
  <2> QED BY <1>1, <2>1, <2>2 DEF IInv, TypeOK
<1>4. Front1' /\ Progress'
  BY <1>1, Types DEF IInv, Front1, Progress, Taken
<1>5. Bar' = Bar
  BY <1>1, <1>2 DEF Bar, Left
<1> QED BY <1>1, <1>3, <1>4, <1>5 DEF IInv

(* PushEnd is WriteBack's Accept.                                          *)
LEMMA PushEndStep ==
  ASSUME IInv, PushEnd, UNCHANGED dwvars
  PROVE  IInv' /\ WB!Next
<1>w. PICK w : w = alloc + 1
  OBVIOUS
<1>R. PICK R : R = pushing.lba .. (pushing.lba + pushing.len - 1)
  OBVIOUS
<1>1. /\ UNCHANGED <<pc, ws, todo, stop, disk>>
      /\ alloc \in Nat /\ WCInv /\ ws \in 0 .. alloc /\ ws \in Nat
      /\ latest \in [Blocks -> 0 .. alloc]
      /\ \A p \in Queued : p \in Nat /\ p \in 1 .. alloc
      /\ Originals \subseteq Queued
  BY Types DEF dwvars, IInv, WCInv, WCTypeOK
<1>2. /\ WCInv' /\ WCTypeOK'
      /\ alloc' = w
      /\ Queued' = Queued \cup {w}
      /\ \A p \in Queued : SameWrite(p)
      /\ Originals' = Originals \cup {w}
      /\ <<pushing.lba, pushing.len>> \in Extents
      /\ seg'[w].lba = pushing.lba /\ seg'[w].len = pushing.len
  BY <1>w, <1>1, PushEndInv DEF WCInv
<1>3. ws < w /\ w \in Nat \ {0} /\ \A p \in Queued : p < w
  BY <1>w, <1>1
<1>4. \A p \in Originals : Extent(p)' = Extent(p)
  BY <1>1, <1>2 DEF Extent, SameWrite
<1>5. TypeOK'
  <2>1. ws \in 0 .. alloc'
    BY <1>w, <1>1, <1>2
  <2>2. disk \in [Blocks -> 0 .. alloc']
    <3>1. disk \in [Blocks -> 0 .. alloc]
      BY DEF IInv, TypeOK
    <3> QED BY <3>1, <1>w, <1>1, <1>2
  <2> QED BY <1>1, <1>2, <2>1, <2>2 DEF IInv, TypeOK
<1>6. Front1' /\ Progress'
  <2>1. wq # << >> => wq' # << >> /\ wq'[1] = wq[1]
    BY <1>1 DEF PushEnd, PushBack, WCInv, WCTypeOK
  <2> QED BY <1>1, <1>2, <1>3, <2>1 DEF IInv, Front1, Progress, Taken
<1>7. R \subseteq Blocks
  <2> DEFINE e == <<pushing.lba, pushing.len>>
  <2>1. e \in Extents /\ e[1] = pushing.lba /\ e[2] = pushing.len
    BY <1>2
  <2> QED BY <2>1, <1>R DEF Blocks
<1>8. \A p \in Originals : Left(p)' = Left(p)
  BY <1>1, <1>4 DEF Left
<1>9. Left(w)' = R
  BY <1>R, <1>1, <1>2, <1>3 DEF Left, Extent
<1>10. WB!Accept(w, R)
  <2>1. Bar' = [v \in DOMAIN Bar \cup {w} |-> IF v = w THEN R ELSE Bar[v]]
    <3>1. w \notin Originals
      BY <1>1, <1>3
    <3> QED BY <3>1, <1>2, <1>8, <1>9 DEF Bar
  <2>2. latest' = [b \in Blocks |-> IF b \in R THEN w ELSE latest[b]]
    BY <1>w, <1>R DEF PushEnd
  <2>3. (\A v \in DOMAIN Bar : v < w) /\ (\A b \in Blocks : latest[b] < w)
    BY <1>w, <1>1, <1>3 DEF Bar
  <2> QED BY <2>1, <2>2, <2>3, <1>1, <1>3 DEF WB!Accept, WB!Fresh, Bar
<1>11. WB!Next
  <2>1. w \in DOMAIN Bar'
    BY <1>2 DEF Bar
  <2> QED BY <2>1, <1>7, <1>10 DEF WB!Next, Bar
<1> QED BY <1>2, <1>5, <1>6, <1>11 DEF IInv

LEMMA ReactorStep ==
  ASSUME IInv, Reactor
  PROVE  IInv' /\ (WB!Next \/ UNCHANGED <<Bar, disk, latest>>)
<1>1. UNCHANGED dwvars /\ Push /\ WCInv /\ wq \in Seq(1 .. alloc)
  BY DEF Reactor, IInv, WCInv, WCTypeOK
<1>2. CASE \E e \in Extents : PushBegin(e[1], e[2])
  <2>1. WCInv' /\ UNCHANGED <<seg, wq, alloc, latest>>
    BY <1>1, <1>2, PushBeginInv
  <2>2. Queued' = Queued /\ Originals' = Originals /\ \A p \in Queued : SameWrite(p)
    BY <2>1 DEF Queued, Originals, SameWrite
  <2>3. alloc <= alloc'
    BY <2>1 DEF WCInv, WCTypeOK
  <2> QED BY <1>1, <2>1, <2>2, <2>3, PushStutters
<1>3. CASE PushHit
  <2>1. wq # << >> => wq' # << >> /\ wq'[1] = wq[1]
    <3>1. wq' = wq \/ wq' = Append(wq, alloc + 1)
      BY <1>3 DEF PushHit, PushBack
    <3> QED BY <3>1, <1>1
  <2> QED BY <1>1, <1>3, <2>1, PushHitInv, PushStutters
<1>4. CASE PushEnd
  BY <1>1, <1>4, PushEndStep
<1> QED BY <1>1, <1>2, <1>3, <1>4 DEF Push
-----------------------------------------------------------------------------
(* The writer's steps.                                                     *)

LEMMA TakeFrontStep ==
  ASSUME IInv, TakeFront
  PROVE  IInv' /\ UNCHANGED <<Bar, disk, latest>>
<1>c. PICK c : c = wq[FrontPos]
  OBVIOUS
<1>1. /\ pc = "front" /\ pc' = "write" /\ wq # << >> /\ Front
      /\ ws' = c /\ todo' = Extent(c)
      /\ UNCHANGED <<stop, disk>>
  BY <1>c DEF TakeFront
<1>2. /\ WCInv' /\ WCTypeOK' /\ Queued' \subseteq Queued
      /\ \A p \in Queued' : seg'[p] = seg[p]
      /\ Originals' = Originals
      /\ wq' # << >> /\ wq'[1] = c /\ c \in Originals
      /\ UNCHANGED <<alloc, latest>>
  BY <1>c, <1>1, FrontInv DEF IInv, WCInv
<1>3. c \in Queued /\ c \in 1 .. alloc /\ alloc \in Nat /\ ws \in Nat
  BY <1>2, Types
<1>4. ~Taken /\ \A q \in Originals : ws # q
  BY <1>1, Types DEF IInv, Front1, Taken
<1>5. seg[c].lba \in Nat /\ seg[c].len \in Nat \ {0} /\ Extent(c) \subseteq Blocks
  <2> DEFINE e == <<seg[c].lba, seg[c].len>>
  <2>1. e \in Extents /\ e[1] = seg[c].lba /\ e[2] = seg[c].len
    BY <1>3 DEF IInv, WCInv, KnownExtents
  <2>2. seg[c].lba \in Nat /\ seg[c].len \in Nat \ {0}
    BY <1>3 DEF IInv, WCInv, WCTypeOK, Segment
  <2> QED BY <2>1, <2>2 DEF Blocks, Extent
<1>6. Extent(c) # {}
  BY <1>5 DEF Extent
<1>7. TypeOK'
  <2>1. ws' \in 0 .. alloc'
    BY <1>1, <1>2, <1>3
  <2> QED BY <1>1, <1>2, <1>5, <2>1 DEF IInv, TypeOK
<1>8. Front1' /\ Progress'
  BY <1>1, <1>2, <1>6 DEF Front1, Progress, Taken
<1>9. \A p \in Originals : Extent(p)' = Extent(p)
  BY <1>2 DEF Originals, Extent
<1>10. \A p \in Originals : Left(p)' = Left(p)
  BY <1>1, <1>4, <1>9 DEF Left
<1>11. Bar' = Bar
  BY <1>2, <1>10 DEF Bar
<1> QED BY <1>1, <1>2, <1>7, <1>8, <1>11 DEF IInv

(* The writes of one segment are WriteBack's Land.                         *)
LEMMA WriteOutStep ==
  ASSUME IInv, WriteOut
  PROVE  IInv' /\ WB!Next
<1>b. PICK b : b = MinOr(todo, 0)
  OBVIOUS
<1>1. /\ pc = "write" /\ disk' = [disk EXCEPT ![b] = ws] /\ todo' = todo \ {b}
      /\ pc' = IF todo = {b} THEN "pop" ELSE "write"
      /\ UNCHANGED <<wcvars, ws, stop>>
  BY <1>b DEF WriteOut
<1>2. /\ WCInv' /\ WCTypeOK' /\ Queued' = Queued /\ Originals' = Originals
      /\ \A p : Extent(p)' = Extent(p)
      /\ latest' = latest /\ alloc' = alloc /\ wq' = wq
  BY <1>1, QueueUnchanged DEF IInv, wcvars
<1>3. b \in todo /\ b \in Blocks
  <2>1. todo \subseteq Blocks /\ todo # {}
    BY <1>1 DEF IInv, TypeOK, Progress
  <2>2. Blocks \subseteq Nat
    BY ExtentsAssumption DEF Blocks
  <2>3. todo \in SUBSET Nat
    BY <2>1, <2>2
  <2> QED BY <1>b, <2>1, <2>3, MinOrLeast
<1>4. Taken /\ Taken' /\ wq # << >> /\ wq[1] = ws /\ ws \in Originals
  BY <1>1 DEF IInv, Front1, Taken
<1>5. TypeOK'
  <2>1. disk' \in [Blocks -> 0 .. alloc']
    BY <1>1, <1>2, <1>3, Types DEF IInv, TypeOK
  <2>2. pc' \in {"write", "pop"} /\ todo' \subseteq Blocks
    BY <1>1 DEF IInv, TypeOK
  <2> QED BY <1>1, <1>2, <2>1, <2>2 DEF IInv, TypeOK
<1>6. Front1' /\ Progress'
  BY <1>1, <1>2, <1>3, <1>4 DEF Front1, Progress
<1>7. Bar' = [Bar EXCEPT ![ws] = @ \ {b}]
  BY <1>1, <1>2, <1>4 DEF Bar, Left
<1>8. \A v \in Originals : ~ (v < ws)
  <2> SUFFICES ASSUME NEW v \in Originals PROVE ~ (v < ws)
    OBVIOUS
  <2>1. PICK i \in DOMAIN wq : v = wq[i]
    BY DEF Originals, Queued
  <2>2. wq \in Seq(1 .. alloc) /\ alloc \in Nat
    BY Types DEF IInv, TypeOK, WCTypeOK
  <2>3. 1 \in DOMAIN wq /\ (i = 1 \/ 1 < i)
    BY <1>4, <2>2
  <2>4. 1 < i => wq[1] < wq[i]
    BY <2>3 DEF IInv, WCInv, Ordered
  <2>5. v \in Nat /\ ws \in Nat
    BY Types
  <2> QED BY <1>4, <2>1, <2>3, <2>4, <2>5
<1>9. WB!Land(ws, b)
  <2>1. b \in Bar[ws]
    BY <1>3, <1>4 DEF Bar, Left
  <2>2. \A v \in DOMAIN Bar : v < ws => Bar[v] = {}
    BY <1>8 DEF Bar
  <2> QED BY <2>1, <2>2, <1>1, <1>2, <1>7 DEF WB!Land, WB!IsNext, WB!Waits, Bar
<1>10. WB!Next
  <2>1. ws \in DOMAIN Bar
    BY <1>4 DEF Bar
  <2> QED BY <2>1, <1>3, <1>9 DEF WB!Next, Bar
<1> QED BY <1>2, <1>5, <1>6, <1>10 DEF IInv

(* pop() is WriteBack's Retire.                                            *)
LEMMA PopFrontStep ==
  ASSUME IInv, PopFront
  PROVE  IInv' /\ WB!Next
<1>1. pc = "pop" /\ pc' = "front" /\ Pop /\ UNCHANGED <<ws, todo, stop, disk>>
  BY DEF PopFront
<1>2. wq # << >> /\ wq[1] = ws /\ ws \in Originals /\ todo = {} /\ ~Taken'
  BY <1>1 DEF IInv, Front1, Taken, Progress
<1>3. /\ WCInv' /\ WCTypeOK' /\ Queued' = Queued \ {ws}
      /\ \A p \in Queued' : ws < p /\ seg'[p] = seg[p]
      /\ UNCHANGED <<alloc, latest>>
  BY <1>1, <1>2, PopInv DEF IInv, WCInv
<1>4. Originals' = Originals \ {ws}
  BY <1>3 DEF Originals
<1>5. TypeOK'
  BY <1>1, <1>3 DEF IInv, TypeOK
<1>6. Front1' /\ Progress'
  BY <1>1, <1>2, <1>3 DEF Front1, Progress
<1>7. \A p \in Originals' : Left(p)' = Left(p)
  <2>1. \A p \in Originals' : Extent(p)' = Extent(p)
    BY <1>3 DEF Originals, Extent
  <2> QED BY <2>1, <1>1 DEF Left
<1>8. Bar' = [v \in DOMAIN Bar \ {ws} |-> Bar[v]]
  BY <1>4, <1>7 DEF Bar
<1>9. WB!Retire(ws)
  <2>1. Bar[ws] = {}
    BY <1>2 DEF Bar, Left
  <2>2. \A v \in DOMAIN Bar : ws <= v
    <3> SUFFICES ASSUME NEW v \in Originals PROVE ws <= v
      BY DEF Bar
    <3>1. v # ws => v \in Queued'
      BY <1>3, Types
    <3>2. v \in Nat /\ ws \in Nat
      BY Types
    <3> QED BY <3>1, <3>2, <1>3
  <2> QED BY <2>1, <2>2, <1>1, <1>3, <1>8 DEF WB!Retire, Bar
<1>10. WB!Next
  <2>1. ws \in DOMAIN Bar
    BY <1>2 DEF Bar
  <2> QED BY <2>1, <1>9 DEF WB!Next, Bar
<1> QED BY <1>3, <1>5, <1>6, <1>10 DEF IInv
-----------------------------------------------------------------------------
LEMMA NextIInv ==
  ASSUME IInv, [Next]_vars
  PROVE  IInv' /\ (WB!Next \/ UNCHANGED <<Bar, disk, latest>>)
<1>1. CASE Reactor
  BY <1>1, ReactorStep
<1>2. CASE MayStop \/ CheckStop \/ Wake \/ Sleep \/ WriteFail \/ UNCHANGED vars
  BY <1>2, LoopSteps
<1>3. CASE TakeFront
  BY <1>3, TakeFrontStep
<1>4. CASE WriteOut
  BY <1>4, WriteOutStep
<1>5. CASE PopFront
  BY <1>5, PopFrontStep
<1> QED BY <1>1, <1>2, <1>3, <1>4, <1>5 DEF Next, Writer

(* The inductive invariant of the synchronous doWork() loop, for any       *)
(* extents and any number of writes.                                       *)
THEOREM Inductive == Spec => []IInv
<1>1. Init => IInv
  BY InitIInv
<1>2. IInv /\ [Next]_vars => IInv'
  BY NextIInv
<1> QED BY <1>1, <1>2, PTL DEF Spec

(* Type correctness of the cache and its synchronous writer.               *)
THEOREM TypeCorrect == Spec => []TypeOK
<1>1. IInv => TypeOK
  BY DEF IInv
<1> QED BY <1>1, Inductive, PTL

(* doWork() calls front() and pop() without the lock in between: whatever  *)
(* push() does there, pop() removes the segment that was written.          *)
THEOREM PopsWhatWasTaken == Spec => []PopsTaken
<1>1. IInv => PopsTaken
  <2>1. IInv => (wq # << >> => Head(wq) = wq[1])
    BY DEF IInv, WCInv, WCTypeOK
  <2> QED BY <2>1 DEF IInv, Front1, Taken, PopsTaken
<1> QED BY <1>1, Inductive, PTL

(* The reactor and the synchronous doWork() implement WriteBack.           *)
THEOREM Refinement == Spec => ImplementsWriteBack
<1>1. Init => WB!Init
  BY InitIInv
<1>2. IInv /\ [Next]_vars => [WB!Next]_(WB!vars)
  BY NextIInv DEF WB!vars, Bar
<1> QED BY <1>1, <1>2, Inductive, PTL DEF Spec, ImplementsWriteBack, WB!Spec

(* What WriteBackProofs proves of WriteBack holds of the implementation.   *)
WBP == INSTANCE WriteBackProofs WITH pending <- Bar, lost <- {}
-----------------------------------------------------------------------------
(* The cache.  What the threads do to it is push() of the reactor, or      *)
(* front() and pop().                                                      *)
LEMMA StepsCache ==
  ASSUME IInv, [Next]_vars
  PROVE  CacheStep
<1>1. CASE Reactor
  BY <1>1 DEF Reactor, CacheStep
<1>2. ASSUME UNCHANGED wcvars PROVE CacheStep
  BY <1>2 DEF CacheStep
<1>3. CASE MayStop \/ CheckStop \/ Wake \/ Sleep \/ WriteOut \/ WriteFail
  BY <1>2, <1>3 DEF MayStop, CheckStop, Wake, Sleep, WriteOut, WriteFail
<1>4. CASE TakeFront
  BY <1>4, FrontDrops DEF TakeFront, IInv
<1>5. CASE PopFront
  BY <1>5, PopDrops DEF PopFront, IInv
<1>6. CASE UNCHANGED vars
  BY <1>2, <1>6 DEF vars
<1> QED BY <1>1, <1>3, <1>4, <1>5, <1>6 DEF Next, Writer

(* The three indices of the container hold the same segments, each once,   *)
(* with the synchronous writer too.                                        *)
THEOREM IndicesAlwaysAgree == Spec => []IndicesAgree
<1>1. Init => IInv /\ Index
  BY InitIInv, WCInitIndex DEF Init
<1>2. IInv /\ Index /\ [Next]_vars => (IInv /\ Index)'
  BY NextIInv, StepsCache, IndexStep DEF IInv
<1>3. IInv /\ Index => IndicesAgree
  BY IndexAgrees DEF IInv
<1> QED BY <1>1, <1>2, <1>3, PTL DEF Spec

(* When no write has more than one boundary of writes inside it, a READ    *)
(* returns the last accepted write of a block, from the cache or from disk,*)
(* also while doWork() is in the middle of the segment or has failed.      *)
THEOREM ReadsCoherent ==
  ASSUME OneInside
  PROVE  Spec => [](Unlocked => \A b \in Blocks : ReadBlock(disk, b) = {latest[b]})
<1>1. Init => IInv /\ Index /\ CInv
  BY InitIInv, WCInitIndex, WCInitCoheres DEF Init
<1>2. IInv /\ Index /\ CInv /\ [Next]_vars => (IInv /\ Index /\ CInv)'
  BY NextIInv, StepsCache, IndexStep, CoherenceStep DEF IInv
<1>3. WBP!Durable /\ IInv /\ Index /\ CInv
        => (Unlocked => \A b \in Blocks : ReadBlock(disk, b) = {latest[b]})
  <2> SUFFICES ASSUME WBP!Durable, IInv, Index, CInv, Unlocked, NEW b \in Blocks
               PROVE  ReadBlock(disk, b) = {latest[b]}
    OBVIOUS
  <2>1. latest[b] \notin Queued => disk[b] = latest[b]
    <3>1. disk[b] # latest[b] => latest[b] \in DOMAIN Bar
      BY DEF WBP!Durable
    <3> QED BY <3>1 DEF Bar, Originals
  <2> QED BY <2>1, ReadsLatest DEF IInv
<1>4. WBP!Spec => []WBP!Durable
  BY WBP!DurableAlways
<1>5. WB!Spec => WBP!Spec
  BY DEF WB!Spec, WBP!Spec, WB!Init, WBP!Init, WB!Next, WBP!Next, WB!vars, WBP!vars,
         WB!Accept, WBP!Accept, WB!Fresh, WBP!Fresh, WB!Land, WBP!Land,
         WB!Retire, WBP!Retire, WB!Lose, WBP!Lose, WB!IsNext, WBP!IsNext,
         WB!Waits, WBP!Waits, Bar
<1> QED BY <1>1, <1>2, <1>3, <1>4, <1>5, Refinement, PTL DEF Spec, ImplementsWriteBack
=============================================================================
