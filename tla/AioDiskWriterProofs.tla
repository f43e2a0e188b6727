------------------------ MODULE AioDiskWriterProofs ------------------------
(***************************************************************************)
(* Proofs about AioDiskWriter with in-order writes: its type invariant,    *)
(* that the listener pops what has been written, that the threads          *)
(* implement WriteBack, that their counters agree, and what READs get from *)
(* the cache meanwhile.                                                    *)
(*                                                                         *)
(* The listener never looks at which request an event belongs to.  That it *)
(* pops the right segment rests on a correspondence kept by both threads:  *)
(* the requests in flight are the queued originals up to current_ws, in    *)
(* the order of the queue, and their sizes are the entries of iocbs_sizes. *)
(***************************************************************************)
EXTENDS AioDiskWriter, WriteCacheProofs, FiniteSetTheorems, FunctionTheorems

Popping == lpc \in {"front", "pop"}

(* ev_guard is held by one thread at a time.                               *)
Exclusive == ~(WriterHolds /\ ListenerHolds)

(* current_ws is an original; once it has left the queue it is older than  *)
(* what is queued.                                                         *)
CurrentOldest ==
  /\ current_ws \in Queued => current_ws \in Originals
  /\ current_ws \notin Queued => \A q \in Queued : current_ws < q

IsOldest(p) == \A q \in Originals : p <= q

(* The kernel has the originals in flight, in order; the one whose events  *)
(* are all in is the oldest original, until it is popped.                  *)
Flight ==
  /\ \A i, j \in DOMAIN aio : i < j => aio[i].ws < aio[j].ws
  /\ \A i \in DOMAIN aio : aio[i].ws \in InFlight
  /\ \A p \in InFlight : (\E i \in DOMAIN aio : aio[i].ws = p) \/ (Popping /\ IsOldest(p))
  /\ Popping => \E p \in InFlight : IsOldest(p) /\ \A i \in DOMAIN aio : aio[i].ws # p
  /\ lpc = "pop" => wq # << >> /\ wq[1] \in Originals

(* What failed is not on disk; nothing has happened to a request behind    *)
(* one that has not ended.                                                 *)
Untouched(i) == aio[i].done = 0 /\ aio[i].lost = {}
InOrder ==
  /\ \A i \in DOMAIN aio : aio[i].lost \subseteq aio[i].todo
  /\ \A i \in DOMAIN aio : aio[i].todo # {} \/ aio[i].done > 0
  /\ \A i, j \in DOMAIN aio : i < j /\ ~Ended(i) => Untouched(j)

(* iocbs_sizes counts, request by request, what is written or to be        *)
(* written and not collected.                                              *)
Offset == IF Popping THEN 1 ELSE 0
Sizes ==
  /\ Len(iocbs_sizes) = Len(aio) + Offset
  /\ \A i \in DOMAIN aio :
       /\ IsFiniteSet(aio[i].todo)
       /\ iocbs_sizes[i + Offset] = Cardinality(aio[i].todo) + aio[i].done

IInv ==
  /\ TypeOK /\ WCInv
  /\ Exclusive /\ SubmitsQueued /\ CurrentOldest
  /\ Flight /\ InOrder /\ Sizes

Request == [ws : 1 .. alloc, todo : SUBSET Blocks, lost : SUBSET Blocks, done : Nat]

(* The state of WriteBack that AioDiskWriter implements.                   *)
Bar == [p \in Originals |-> Left(p)]
LostBar == UNION {{aio[i].ws} \X aio[i].lost : i \in DOMAIN aio}

LEMMA LostIs ==
  \A w, b : <<w, b>> \in LostBar <=> \E i \in DOMAIN aio : aio[i].ws = w /\ b \in aio[i].lost
  BY DEF LostBar

LEMMA LostSame ==
  ASSUME \A w, b : (\E i \in DOMAIN aio' : aio'[i].ws = w /\ b \in aio'[i].lost)
                   <=> (\E i \in DOMAIN aio : aio[i].ws = w /\ b \in aio[i].lost)
  PROVE  LostBar' = LostBar
<1>1. ASSUME NEW x \in LostBar' PROVE x \in LostBar
  <2>1. PICK i \in DOMAIN aio' : \E b \in aio'[i].lost : x = <<aio'[i].ws, b>>
    BY <1>1 DEF LostBar
  <2> QED BY <2>1, LostIs
<1>2. ASSUME NEW x \in LostBar PROVE x \in LostBar'
  <2>1. PICK i \in DOMAIN aio : \E b \in aio[i].lost : x = <<aio[i].ws, b>>
    BY <1>2 DEF LostBar
  <2>2. PICK b \in aio[i].lost : x = <<aio[i].ws, b>>
    BY <2>1
  <2>3. \E j \in DOMAIN aio' : aio'[j].ws = aio[i].ws /\ b \in aio'[j].lost
    BY <2>1, <2>2
  <2> QED BY <2>2, <2>3 DEF LostBar
<1> QED BY <1>1, <1>2
-----------------------------------------------------------------------------
LEMMA InitIInv == Init => IInv /\ WB!Init
<1> SUFFICES ASSUME Init PROVE IInv /\ WB!Init
  OBVIOUS
<1>1. WCInv
  BY WCInitInv DEF Init
<1>2. Queued = {} /\ Originals = {} /\ InFlight = {}
  <2>1. DOMAIN wq = {}
    BY DEF Init, WCInit
  <2> QED BY <2>1, Zenon DEF Queued, Originals, InFlight
<1>3. TypeOK
  <2>1. WCTypeOK /\ alloc = 0
    BY <1>1 DEF WCInv, Init, WCInit
  <2>2. disk \in [Blocks -> 0 .. alloc] /\ current_ws \in 0 .. alloc
    BY <2>1 DEF Init
  <2>3. iocbs_sizes \in Seq(Nat) /\ aio \in Seq(Request)
    BY EmptySeq DEF Init
  <2>4. wpc = "check" /\ lpc = "check" /\ iocbs_total \in Int
    BY DEF Init
  <2>5. stop \in BOOLEAN
    BY Zenon DEF Init
  <2> QED BY <2>1, <2>2, <2>3, <2>4, <2>5 DEF TypeOK, Request
<1>4. Exclusive /\ SubmitsQueued /\ CurrentOldest /\ Flight /\ InOrder /\ Sizes
  BY <1>2 DEF Init, Exclusive, SubmitsQueued, CurrentOldest, Flight, InOrder, Sizes,
              Popping, Offset, WriterHolds, ListenerHolds
<1>5. WB!Init
  <2>1. UNION {{aio[i].ws} \X aio[i].lost : i \in DOMAIN aio} = {}
    BY DEF Init
  <2> QED BY <2>1, <1>2 DEF Init, WCInit, WB!Init
<1> QED BY <1>1, <1>3, <1>4, <1>5 DEF IInv

(* A thread goes to another place of its loop: nothing else changes.       *)
LEMMA ControlStep ==
  ASSUME IInv,
         UNCHANGED <<wcvars, current_ws, iocbs_sizes, iocbs_total, aio, disk>>,
         wpc' \in {"check", "wait", "next", "submit", "exit", "failed"},
         lpc' \in {"check", "wait", "events", "front", "pop", "exit", "failed"},
         stop' \in BOOLEAN,
         Exclusive',
         wpc' \in {"submit", "failed"} <=> wpc \in {"submit", "failed"},
         wpc' = "submit" => wpc = "submit",
         lpc' = lpc \/ (~Popping /\ ~Popping')
  PROVE  IInv' /\ UNCHANGED <<Bar, LostBar, disk, latest>>
<1>1. /\ WCInv' /\ WCTypeOK' /\ Queued' = Queued /\ Originals' = Originals
      /\ \A p : Extent(p)' = Extent(p)
      /\ latest' = latest /\ alloc' = alloc /\ wq' = wq
  BY QueueUnchanged DEF IInv, wcvars
<1>2. \A p : Submitted(p)' <=> Submitted(p)
  BY DEF Submitted
<1>3. InFlight' = InFlight
  BY <1>1, <1>2 DEF InFlight
<1>4. Popping' <=> Popping
  BY DEF Popping
<1>5. lpc' = "pop" => lpc = "pop"
  BY DEF Popping
<1>6. TypeOK'
  BY <1>1 DEF IInv, TypeOK
<1>7. SubmitsQueued' /\ CurrentOldest'
  BY <1>1 DEF IInv, SubmitsQueued, CurrentOldest
<1>8. Flight'
  BY <1>1, <1>3, <1>4, <1>5 DEF IInv, Flight, IsOldest
<1>9. InOrder' /\ Sizes'
  BY <1>4 DEF IInv, InOrder, Untouched, Ended, Sizes, Offset
<1>10. Bar' = Bar /\ LostBar' = LostBar
  BY <1>1, <1>2 DEF Bar, Left, LostBar
<1> QED BY <1>1, <1>6, <1>7, <1>8, <1>9, <1>10 DEF IInv

(* The threads' steps between waits.                                       *)
LEMMA LoopSteps ==
  ASSUME IInv,
         \/ MayStop \/ WriterCheck \/ WriterWake \/ WriterSleep \/ WriterFail
         \/ ListenerCheck \/ ListenerWake \/ ListenerSleep \/ ListenerFail
  PROVE  IInv' /\ UNCHANGED <<Bar, LostBar, disk, latest>>
<1> USE DEF Exclusive, WriterHolds, ListenerHolds, Popping
<1>0. /\ wpc \in {"check", "wait", "next", "submit", "exit", "failed"}
      /\ lpc \in {"check", "wait", "events", "front", "pop", "exit", "failed"}
      /\ stop \in BOOLEAN /\ Exclusive
  BY DEF IInv, TypeOK
<1>1. CASE MayStop
  BY <1>0, <1>1, ControlStep DEF MayStop
<1>2. CASE WriterCheck
  BY <1>0, <1>2, ControlStep DEF WriterCheck
<1>3. CASE WriterWake
  BY <1>0, <1>3, ControlStep DEF WriterWake
<1>4. CASE WriterSleep
  BY <1>0, <1>4, ControlStep DEF WriterSleep
<1>5. CASE WriterFail
  BY <1>0, <1>5, ControlStep DEF WriterFail
<1>6. CASE ListenerCheck
  BY <1>0, <1>6, ControlStep DEF ListenerCheck
<1>7. CASE ListenerWake
  BY <1>0, <1>7, ControlStep DEF ListenerWake
<1>8. CASE ListenerSleep
  BY <1>0, <1>8, ControlStep DEF ListenerSleep
<1>9. CASE ListenerFail
  BY <1>0, <1>9, ControlStep DEF ListenerFail
<1> QED BY <1>1, <1>2, <1>3, <1>4, <1>5, <1>6, <1>7, <1>8, <1>9
-----------------------------------------------------------------------------
(* The reactor's steps.                                                    *)

(* While push() trims and splits, nothing that the threads rely on moves.  *)
LEMMA PushStutters ==
  ASSUME IInv, WCInv', UNCHANGED aiovars,
         alloc <= alloc',
         Queued \subseteq Queued', Queued' \subseteq Queued \cup {alloc + 1},
         \A p \in Queued : SameWrite(p),
         Originals' = Originals,
         latest' = latest,
         wq # << >> => wq' # << >> /\ wq'[1] = wq[1]
  PROVE  IInv' /\ UNCHANGED <<Bar, LostBar, disk, latest>>
<1>1. /\ UNCHANGED <<wpc, lpc, stop, current_ws, iocbs_sizes, iocbs_total, aio, disk>>
      /\ alloc \in Nat /\ alloc' \in Nat /\ WCTypeOK'
  BY DEF aiovars, IInv, WCInv, WCTypeOK
<1>2. \A p : Submitted(p)' <=> Submitted(p)
  BY <1>1 DEF Submitted
<1>3. InFlight' = InFlight
  BY <1>2 DEF InFlight
<1>4. Popping' = Popping
  BY <1>1 DEF Popping
<1>5. \A p \in Originals : Extent(p)' = Extent(p)
  BY DEF Extent, SameWrite, Originals
<1>6. TypeOK'
  <2>1. current_ws \in 0 .. alloc'
    BY <1>1 DEF IInv, TypeOK
  <2>2. disk \in [Blocks -> 0 .. alloc']
    <3>1. disk \in [Blocks -> 0 .. alloc]
      BY DEF IInv, TypeOK
    <3> QED BY <3>1, <1>1
  <2>3. aio \in Seq([ws : 1 .. alloc', todo : SUBSET Blocks, lost : SUBSET Blocks, done : Nat])
    <3>1. aio \in Seq([ws : 1 .. alloc, todo : SUBSET Blocks, lost : SUBSET Blocks, done : Nat])
      BY DEF IInv, TypeOK
    <3>2. [ws : 1 .. alloc, todo : SUBSET Blocks, lost : SUBSET Blocks, done : Nat]
            \subseteq [ws : 1 .. alloc', todo : SUBSET Blocks, lost : SUBSET Blocks, done : Nat]
      BY <1>1
    <3> QED BY <3>1, <3>2, SeqMonotonic
  <2> QED BY <1>1, <2>1, <2>2, <2>3 DEF IInv, TypeOK
<1>7. Exclusive' /\ SubmitsQueued'
  BY <1>1 DEF IInv, Exclusive, SubmitsQueued, WriterHolds, ListenerHolds
<1>8. CurrentOldest'
  BY <1>1 DEF IInv, TypeOK, CurrentOldest
<1>9. Flight'
  BY <1>1, <1>3, <1>4 DEF IInv, Flight, IsOldest
<1>10. InOrder' /\ Sizes'
  BY <1>1, <1>4 DEF IInv, InOrder, Untouched, Ended, Sizes, Offset
<1>11. Bar' = Bar /\ LostBar' = LostBar
  BY <1>1, <1>2, <1>5 DEF Bar, Left, LostBar
<1> QED BY <1>1, <1>6, <1>7, <1>8, <1>9, <1>10, <1>11 DEF IInv

(* PushEnd is WriteBack's Accept.                                          *)
LEMMA PushEndStep ==
  ASSUME IInv, PushEnd, UNCHANGED aiovars
  PROVE  IInv' /\ WB!Next
<1>w. PICK w : w = alloc + 1
  OBVIOUS
<1>R. PICK R : R = pushing.lba .. (pushing.lba + pushing.len - 1)
  OBVIOUS
<1>1. /\ UNCHANGED <<wpc, lpc, stop, current_ws, iocbs_sizes, iocbs_total, aio, disk>>
      /\ alloc \in Nat /\ WCInv
  BY DEF aiovars, IInv, WCInv, WCTypeOK
<1>2. /\ WCInv'
      /\ alloc' = w
      /\ Queued' = Queued \cup {w}
      /\ \A p \in Queued : SameWrite(p)
      /\ Originals' = Originals \cup {w}
      /\ <<pushing.lba, pushing.len>> \in Extents
      /\ seg'[w].lba = pushing.lba /\ seg'[w].len = pushing.len
  BY <1>w, <1>1, PushEndInv
<1>3. /\ WCTypeOK' /\ latest \in [Blocks -> 0 .. alloc]
      /\ Queued \subseteq 1 .. alloc
      /\ current_ws \in 0 .. alloc
  <2>1. WCTypeOK /\ current_ws \in 0 .. alloc
    BY DEF IInv, TypeOK
  <2>2. Queued \subseteq 1 .. alloc
    BY <2>1 DEF WCTypeOK, Queued
  <2> QED BY <2>1, <2>2, <1>2 DEF WCInv, WCTypeOK
<1>4. ~Submitted(w)'
  BY <1>w, <1>1, <1>3 DEF Submitted
<1>5. \A p : Submitted(p)' <=> Submitted(p)
  BY <1>1 DEF Submitted
<1>6. InFlight' = InFlight
  BY <1>2, <1>4, <1>5 DEF InFlight
<1>7. Popping' = Popping
  BY <1>1 DEF Popping
<1>8. \A p \in Originals : p < w /\ Extent(p)' = Extent(p)
  BY <1>w, <1>1, <1>2, <1>3 DEF Extent, SameWrite, Originals
<1>9. TypeOK'
  <2>1. current_ws \in 0 .. alloc'
    BY <1>w, <1>1, <1>2, <1>3
  <2>2. disk \in [Blocks -> 0 .. alloc']
    <3>1. disk \in [Blocks -> 0 .. alloc]
      BY DEF IInv, TypeOK
    <3> QED BY <3>1, <1>w, <1>1, <1>2
  <2>3. aio \in Seq([ws : 1 .. alloc', todo : SUBSET Blocks, lost : SUBSET Blocks, done : Nat])
    <3>1. aio \in Seq([ws : 1 .. alloc, todo : SUBSET Blocks, lost : SUBSET Blocks, done : Nat])
      BY DEF IInv, TypeOK
    <3>2. [ws : 1 .. alloc, todo : SUBSET Blocks, lost : SUBSET Blocks, done : Nat]
            \subseteq [ws : 1 .. alloc', todo : SUBSET Blocks, lost : SUBSET Blocks, done : Nat]
      BY <1>w, <1>1, <1>2
    <3> QED BY <3>1, <3>2, SeqMonotonic
  <2> QED BY <1>1, <1>3, <2>1, <2>2, <2>3 DEF IInv, TypeOK
<1>10. Exclusive' /\ SubmitsQueued'
  BY <1>1, <1>2 DEF IInv, Exclusive, SubmitsQueued, WriterHolds, ListenerHolds
<1>11. CurrentOldest'
  BY <1>w, <1>1, <1>2, <1>3 DEF IInv, CurrentOldest
<1>12. Flight'
  <2>1. wq # << >> => wq' # << >> /\ wq'[1] = wq[1]
    BY <1>1 DEF PushEnd, PushBack, WCInv, WCTypeOK
  <2>2. \A p \in Originals : IsOldest(p)' <=> IsOldest(p)
    <3>1. \A p \in Originals : p \in Nat /\ w \in Nat /\ p < w
      BY <1>w, <1>1, <1>3, <1>8 DEF Originals
    <3> QED BY <3>1, <1>2 DEF IsOldest
  <2>3. InFlight \subseteq Originals
    BY DEF InFlight
  <2> QED BY <1>1, <1>2, <1>6, <1>7, <2>1, <2>2, <2>3 DEF IInv, Flight
<1>13. InOrder' /\ Sizes'
  BY <1>1, <1>7 DEF IInv, InOrder, Untouched, Ended, Sizes, Offset
<1>14. R \subseteq Blocks
  <2> DEFINE e == <<pushing.lba, pushing.len>>
  <2>1. e \in Extents /\ e[1] = pushing.lba /\ e[2] = pushing.len
    BY <1>2
  <2> QED BY <2>1, <1>R DEF Blocks
<1>15. \A p \in Originals : Left(p)' = Left(p)
  BY <1>1, <1>5, <1>8 DEF Left
<1>16. Left(w)' = R
  BY <1>R, <1>2, <1>4 DEF Left, Extent
<1>17. WB!Accept(w, R)
  <2>1. Bar' = [v \in DOMAIN Bar \cup {w} |-> IF v = w THEN R ELSE Bar[v]]
    BY <1>2, <1>8, <1>15, <1>16 DEF Bar
  <2>2. latest' = [b \in Blocks |-> IF b \in R THEN w ELSE latest[b]]
    BY <1>w, <1>R DEF PushEnd
  <2>3. /\ w \in Nat \ {0}
        /\ \A v \in DOMAIN Bar : v < w
        /\ \A b \in Blocks : latest[b] < w
    BY <1>w, <1>1, <1>3, <1>8 DEF Bar
  <2>4. LostBar' = LostBar
    BY <1>1 DEF LostBar
  <2> QED BY <2>1, <2>2, <2>3, <2>4, <1>1 DEF WB!Accept, WB!Fresh, Bar, LostBar
<1>18. WB!Next
  <2>1. w \in DOMAIN Bar'
    BY <1>2 DEF Bar
  <2> QED BY <2>1, <1>14, <1>17 DEF WB!Next, Bar, LostBar
<1> QED BY <1>2, <1>9, <1>10, <1>11, <1>12, <1>13, <1>18 DEF IInv

LEMMA ReactorStep ==
  ASSUME IInv, Reactor
  PROVE  IInv' /\ (WB!Next \/ UNCHANGED <<Bar, LostBar, disk, latest>>)
<1>1. UNCHANGED aiovars /\ Push /\ WCInv /\ wq \in Seq(1 .. alloc)
  BY DEF Reactor, IInv, WCInv, WCTypeOK
<1>2. CASE \E e \in Extents : PushBegin(e[1], e[2])
  <2>1. WCInv' /\ UNCHANGED <<seg, wq, alloc, latest>>
    BY <1>1, <1>2, PushBeginInv
  <2>2. Queued' = Queued /\ Originals' = Originals /\ \A p \in Queued : SameWrite(p)
    BY <2>1 DEF Queued, Originals, SameWrite
  <2>3. alloc <= alloc'
    BY <2>1 DEF WCInv, WCTypeOK
  <2> QED BY <1>1, <2>1, <2>2, <2>3, PushStutters
<1>3. CASE PushHit
  <2>1. wq # << >> => wq' # << >> /\ wq'[1] = wq[1]
    <3>1. wq' = wq \/ wq' = Append(wq, alloc + 1)
      BY <1>3 DEF PushHit, PushBack
    <3> QED BY <3>1, <1>1
  <2> QED BY <1>1, <1>3, <2>1, PushHitInv, PushStutters
<1>4. CASE PushEnd
  BY <1>1, <1>4, PushEndStep
<1> QED BY <1>1, <1>2, <1>3, <1>4 DEF Push
-----------------------------------------------------------------------------
(* The writer's steps.                                                     *)

(* getNext() returns the oldest original behind current_ws.                *)
LEMMA NextEffect ==
  ASSUME IInv, WriterNext
  PROVE  /\ WCInv'
         /\ Queued' \subseteq Queued
         /\ \A p \in Queued' : seg'[p] = seg[p]
         /\ Originals' = Originals
         /\ UNCHANGED <<alloc, latest>>
         /\ current_ws' \in Originals
         /\ \A p \in Originals : p < current_ws' <=> p <= current_ws
<1>1. /\ WCInv /\ wq \in Seq(1 .. alloc) /\ alloc \in Nat /\ current_ws \in Nat
      /\ Len(wq) \in Nat /\ DOMAIN wq = 1 .. Len(wq)
      /\ \A i \in DOMAIN wq : wq[i] \in Nat
  <2>1. WCInv /\ wq \in Seq(1 .. alloc) /\ alloc \in Nat /\ current_ws \in 0 .. alloc
    BY DEF IInv, TypeOK, WCTypeOK
  <2> QED BY <2>1
<1>2. /\ Unlocked /\ GetNextPos(current_ws) # 0
      /\ current_ws' = wq[GetNextPos(current_ws)]
      /\ IF current_ws \notin Queued THEN Front ELSE UNCHANGED wcvars
  BY DEF WriterNext, GetNext
<1> DEFINE S == {i \in DOMAIN wq : ~seg[wq[i]].copy /\ \E j \in 1 .. (i - 1) : wq[j] = current_ws}
<1>3. S \in SUBSET Nat
  BY <1>1
<1>4. CASE current_ws \notin Queued
  <2>1. wq # << >>
    <3>1. SUFFICES ASSUME wq = << >> PROVE FALSE
      OBVIOUS
    <3>2. S = {}
      BY <3>1
    <3>3. GetNextPos(current_ws) = MinOr(S, 0)
      BY <3>1 DEF GetNextPos
    <3> QED BY <1>2, <1>3, <3>2, <3>3, MinOrLeast
  <2>2. GetNextPos(current_ws) = FrontPos /\ Front
    BY <1>2, <1>4, <2>1 DEF GetNextPos
  <2>3. Originals # {}
    BY <1>1, <1>2, <2>1, HasOriginal
  <2>4. wq[FrontPos] \in Originals /\ \A q \in Originals : wq[FrontPos] <= q
    BY <1>1, <2>3, FrontPosFirst
  <2>5. \A p \in Originals : p \in Nat /\ current_ws < p
    BY <1>1, <1>4 DEF IInv, CurrentOldest, Originals, Queued
  <2>6. /\ WCInv' /\ Queued' \subseteq Queued
        /\ \A p \in Queued' : seg'[p] = seg[p]
        /\ Originals' = Originals
        /\ UNCHANGED <<alloc, latest>>
    BY <1>1, <2>1, <2>2, FrontInv
  <2>7. \A p \in Originals : p < current_ws' <=> p <= current_ws
    BY <1>1, <1>2, <2>2, <2>4, <2>5
  <2> QED BY <1>2, <2>2, <2>4, <2>6, <2>7
<1>5. CASE current_ws \in Queued
  <2>1. GetNextPos(current_ws) = MinOr(S, 0) /\ UNCHANGED wcvars
    BY <1>2, <1>5 DEF GetNextPos
  <2>2. PICK m : m = MinOr(S, 0)
    OBVIOUS
  <2>3. m \in S /\ \A x \in S : m <= x
    BY <1>2, <1>3, <2>1, <2>2, MinOrLeast
  <2>4. PICK j \in 1 .. (m - 1) : wq[j] = current_ws
    BY <2>3
  <2>5. m \in DOMAIN wq /\ j \in DOMAIN wq /\ j < m /\ m \in Nat /\ j \in Nat
    BY <1>1, <2>3, <2>4
  <2>6. current_ws' = wq[m] /\ wq[m] \in Originals /\ current_ws < wq[m]
    BY <1>1, <1>2, <2>1, <2>2, <2>3, <2>4, <2>5 DEF Originals, Queued, WCInv, Ordered
  <2>7. ASSUME NEW p \in Originals, current_ws < p PROVE wq[m] <= p
    <3>1. PICK i \in DOMAIN wq : p = wq[i]
      BY DEF Originals, Queued
    <3>2. ~ (i <= j)
      <4>1. i < j => wq[i] < wq[j]
        BY <1>1, <2>5 DEF WCInv, Ordered
      <4>2. i \in Nat /\ wq[i] \in Nat
        BY <1>1
      <4> QED BY <1>1, <2>4, <2>5, <2>7, <3>1, <4>1, <4>2
    <3>3. i \in S
      BY <1>1, <2>4, <2>5, <3>1, <3>2 DEF Originals
    <3>4. m <= i
      BY <2>3, <3>3
    <3>5. i \in Nat /\ m \in Nat /\ wq[i] \in Nat /\ wq[m] \in Nat
      BY <1>1, <2>5
    <3>6. m < i => wq[m] < wq[i]
      BY <1>1, <2>5 DEF WCInv, Ordered
    <3>7. m < i \/ m = i
      BY <3>4, <3>5
    <3> QED BY <3>1, <3>5, <3>6, <3>7
  <2>8. \A p \in Originals : p \in Nat
    BY <1>1 DEF Originals, Queued
  <2>9. \A p \in Originals : p < current_ws' <=> p <= current_ws
    BY <1>1, <2>6, <2>7, <2>8
  <2>10. WCInv' /\ Queued' = Queued /\ Originals' = Originals
    BY <1>1, <2>1, QueueUnchanged
  <2>11. seg' = seg /\ UNCHANGED <<alloc, latest>>
    BY <2>1 DEF wcvars
  <2> QED BY <2>6, <2>9, <2>10, <2>11
<1> QED BY <1>4, <1>5

LEMMA WriterNextStep ==
  ASSUME IInv, WriterNext
  PROVE  IInv' /\ UNCHANGED <<Bar, LostBar, disk, latest>>
<1>1. /\ wpc = "next" /\ wpc' = "submit"
      /\ UNCHANGED <<lpc, stop, iocbs_sizes, iocbs_total, aio, disk>>
  BY DEF WriterNext
<1>2. /\ WCInv' /\ Queued' \subseteq Queued
      /\ \A p \in Queued' : seg'[p] = seg[p]
      /\ Originals' = Originals
      /\ UNCHANGED <<alloc, latest>>
      /\ current_ws' \in Originals
      /\ \A p \in Originals : p < current_ws' <=> p <= current_ws
  BY NextEffect
<1>3. ~Popping /\ ~Popping' /\ ~ListenerHolds /\ Exclusive'
  BY <1>1 DEF IInv, Exclusive, Popping, WriterHolds, ListenerHolds
<1>4. \A p \in Originals : p \in 1 .. alloc
  BY DEF IInv, WCInv, WCTypeOK, Originals, Queued
<1>5. alloc \in Nat /\ current_ws \in Nat /\ current_ws' \in 1 .. alloc
  BY <1>2, <1>4 DEF IInv, TypeOK, WCTypeOK
<1>6. \A p \in Originals : Submitted(p)' <=> Submitted(p)
  BY <1>1, <1>2, <1>4, <1>5 DEF Submitted
<1>7. InFlight' = InFlight
  BY <1>2, <1>6 DEF InFlight
<1>8. TypeOK'
  <2>1. WCTypeOK' /\ current_ws' \in 0 .. alloc'
    BY <1>2, <1>5 DEF WCInv
  <2> QED BY <1>1, <1>2, <2>1 DEF IInv, TypeOK
<1>9. SubmitsQueued' /\ CurrentOldest'
  <2>1. current_ws' \in Queued'
    BY <1>2 DEF Originals
  <2> QED BY <1>2, <2>1 DEF SubmitsQueued, CurrentOldest
<1>10. Flight'
  <2>1. lpc' # "pop"
    BY <1>3 DEF Popping
  <2> QED BY <1>1, <1>3, <1>7, <2>1 DEF IInv, Flight
<1>11. InOrder' /\ Sizes'
  BY <1>1, <1>3 DEF IInv, InOrder, Untouched, Ended, Sizes, Offset
<1>12. \A p \in Originals : Extent(p)' = Extent(p)
  BY <1>2 DEF Originals, Extent
<1>13. Bar' = Bar /\ LostBar' = LostBar
  BY <1>1, <1>2, <1>6, <1>12 DEF Bar, Left, LostBar
<1> QED BY <1>1, <1>2, <1>3, <1>8, <1>9, <1>10, <1>11, <1>13 DEF IInv

LEMMA WriterSubmitStep ==
  ASSUME IInv, WriterSubmit
  PROVE  IInv' /\ UNCHANGED <<Bar, LostBar, disk, latest>>
<1>c. PICK c : c = current_ws
  OBVIOUS
<1>r. PICK r : r = [ws |-> c, todo |-> Extent(c), lost |-> {}, done |-> 0]
  OBVIOUS
<1>n. PICK n : n = Len(aio)
  OBVIOUS
<1>1. /\ wpc = "submit" /\ wpc' = "next"
      /\ aio' = Append(aio, r)
      /\ iocbs_sizes' = Append(iocbs_sizes, seg[c].len)
      /\ iocbs_total' = iocbs_total + seg[c].len
      /\ UNCHANGED <<wcvars, lpc, stop, current_ws, disk>>
  BY <1>c, <1>r DEF WriterSubmit
<1>2. /\ WCInv' /\ WCTypeOK' /\ Queued' = Queued /\ Originals' = Originals
      /\ \A p : Extent(p)' = Extent(p)
      /\ latest' = latest /\ alloc' = alloc
  BY <1>1, QueueUnchanged DEF IInv, wcvars
<1>3. ~Popping /\ ~Popping' /\ ~ListenerHolds /\ Exclusive'
  BY <1>1 DEF IInv, Exclusive, Popping, WriterHolds, ListenerHolds
<1>4. c \in Originals /\ c \in Queued
  BY <1>c, <1>1 DEF IInv, SubmitsQueued, Originals
<1>5. \A p \in Originals : p \in 1 .. alloc /\ p \in Nat
  BY DEF IInv, WCInv, WCTypeOK, Originals, Queued
<1>6. seg[c].lba \in Nat /\ seg[c].len \in Nat \ {0}
  BY <1>4 DEF IInv, WCInv, WCTypeOK, Segment
<1>7. Extent(c) \subseteq Blocks
  <2> DEFINE e == <<seg[c].lba, seg[c].len>>
  <2>1. e \in Extents /\ e[1] = seg[c].lba /\ e[2] = seg[c].len
    BY <1>4 DEF IInv, WCInv, KnownExtents
  <2> QED BY <2>1 DEF Blocks, Extent
<1>8. IsFiniteSet(Extent(c)) /\ Cardinality(Extent(c)) = seg[c].len /\ Extent(c) # {}
  <2>1. /\ seg[c].lba \in Int /\ seg[c].lba + seg[c].len - 1 \in Int
        /\ ~ (seg[c].lba > seg[c].lba + seg[c].len - 1)
    BY <1>6
  <2>2. IsFiniteSet(Extent(c))
        /\ Cardinality(Extent(c)) = (seg[c].lba + seg[c].len - 1) - seg[c].lba + 1
    BY <2>1, FS_Interval DEF Extent
  <2>3. seg[c].lba \in Extent(c)
    BY <1>6 DEF Extent
  <2> QED BY <1>6, <2>2, <2>3
<1>9. /\ aio \in Seq(Request) /\ r \in Request /\ n \in Nat /\ iocbs_sizes \in Seq(Nat)
      /\ DOMAIN aio = 1 .. n /\ \A i \in 1 .. n : aio[i] \in Request
  <2>1. aio \in Seq(Request) /\ iocbs_sizes \in Seq(Nat)
    BY DEF IInv, TypeOK, Request
  <2>2. r \in Request
    BY <1>r, <1>4, <1>5, <1>7 DEF Request
  <2> QED BY <1>n, <2>1, <2>2
<1>10. /\ aio' \in Seq(Request) /\ DOMAIN aio' = 1 .. (n + 1)
       /\ aio'[n + 1] = r /\ Len(aio') = n + 1
       /\ \A i \in 1 .. n : aio'[i] = aio[i] /\ i \in 1 .. (n + 1)
  BY <1>n, <1>1, <1>9
<1>11. \A p \in Originals : Submitted(p)' <=> (Submitted(p) \/ p = c)
  BY <1>c, <1>1, <1>5 DEF Submitted
<1>12. ~Submitted(c) /\ \A p : Submitted(p) <=> p < c
  BY <1>c, <1>1, <1>4, <1>5 DEF Submitted
<1>13. InFlight' = InFlight \cup {c}
  BY <1>2, <1>4, <1>11 DEF InFlight
<1>14. \A i \in 1 .. n : aio[i].ws \in InFlight /\ aio[i].ws < c /\ aio[i].ws # c /\ aio[i].ws \in Nat
  <2>1. \A i \in 1 .. n : aio[i].ws \in InFlight
    BY <1>9 DEF IInv, Flight
  <2> QED BY <2>1, <1>5, <1>12, <1>4 DEF InFlight
<1>15. TypeOK'
  <2>1. iocbs_sizes' \in Seq(Nat) /\ iocbs_total' \in Int
    BY <1>1, <1>6, <1>9 DEF IInv, TypeOK
  <2>2. aio' \in Seq([ws : 1 .. alloc', todo : SUBSET Blocks, lost : SUBSET Blocks, done : Nat])
    BY <1>2, <1>10 DEF Request
  <2> QED BY <1>1, <1>2, <2>1, <2>2 DEF IInv, TypeOK
<1>16. SubmitsQueued' /\ CurrentOldest'
  BY <1>c, <1>1, <1>2 DEF IInv, SubmitsQueued, CurrentOldest
<1>17. Flight'
  <2>1. \A i, j \in DOMAIN aio' : i < j => aio'[i].ws < aio'[j].ws
    <3> SUFFICES ASSUME NEW i \in 1 .. (n + 1), NEW j \in 1 .. (n + 1), i < j
                 PROVE  aio'[i].ws < aio'[j].ws
      BY <1>10
    <3>1. CASE j = n + 1
      BY <3>1, <1>r, <1>9, <1>10, <1>14
    <3>2. CASE j # n + 1
      <4>1. i \in 1 .. n /\ j \in 1 .. n
        BY <3>2, <1>9
      <4> QED BY <4>1, <1>9, <1>10 DEF IInv, Flight
    <3> QED BY <3>1, <3>2
  <2>2. \A i \in DOMAIN aio' : aio'[i].ws \in InFlight'
    <3> SUFFICES ASSUME NEW i \in 1 .. (n + 1) PROVE aio'[i].ws \in InFlight'
      BY <1>10
    <3>1. CASE i = n + 1
      BY <3>1, <1>r, <1>10, <1>13
    <3>2. CASE i \in 1 .. n
      BY <3>2, <1>10, <1>13, <1>14
    <3> QED BY <3>1, <3>2, <1>9
  <2>3. ASSUME NEW p \in InFlight' PROVE \E i \in DOMAIN aio' : aio'[i].ws = p
    <3>1. CASE p = c
      <4>1. n + 1 \in DOMAIN aio'
        BY <1>9, <1>10
      <4> QED BY <4>1, <3>1, <1>r, <1>10
    <3>2. CASE p \in InFlight
      <4>1. PICK i \in DOMAIN aio : aio[i].ws = p
        BY <3>2, <1>3 DEF IInv, Flight
      <4> QED BY <4>1, <1>9, <1>10
    <3> QED BY <3>1, <3>2, <2>3, <1>13
  <2>4. lpc' # "pop"
    BY <1>3 DEF Popping
  <2> QED BY <1>3, <2>1, <2>2, <2>3, <2>4 DEF Flight
<1>18. InOrder'
  <2>1. \A i \in DOMAIN aio' : aio'[i].todo # {} \/ aio'[i].done > 0
    <3> SUFFICES ASSUME NEW i \in 1 .. (n + 1) PROVE aio'[i].todo # {} \/ aio'[i].done > 0
      BY <1>10
    <3>1. CASE i = n + 1
      BY <3>1, <1>r, <1>8, <1>10
    <3>2. CASE i \in 1 .. n
      BY <3>2, <1>9, <1>10 DEF IInv, InOrder
    <3> QED BY <3>1, <3>2, <1>9
  <2>2. \A i, j \in DOMAIN aio' : i < j /\ ~Ended(i)' => Untouched(j)'
    <3> SUFFICES ASSUME NEW i \in 1 .. (n + 1), NEW j \in 1 .. (n + 1), i < j, ~Ended(i)'
                 PROVE  Untouched(j)'
      BY <1>10
    <3>1. CASE j = n + 1
      BY <3>1, <1>r, <1>10 DEF Untouched
    <3>2. CASE j # n + 1
      <4>1. i \in 1 .. n /\ j \in 1 .. n
        BY <3>2, <1>9
      <4> QED BY <4>1, <1>9, <1>10 DEF IInv, InOrder, Untouched, Ended
    <3> QED BY <3>1, <3>2
  <2>3. ASSUME NEW i \in 1 .. (n + 1) PROVE aio'[i].lost \subseteq aio'[i].todo
    <3>1. CASE i = n + 1
      BY <3>1, <1>r, <1>10
    <3>2. CASE i # n + 1
      <4>1. i \in 1 .. n
        BY <3>2, <1>9
      <4>2. aio'[i] = aio[i] /\ aio[i].lost \subseteq aio[i].todo
        BY <4>1, <1>9, <1>10 DEF IInv, InOrder
      <4> QED BY <4>2
    <3> QED BY <3>1, <3>2
  <2> QED BY <1>10, <2>1, <2>2, <2>3 DEF InOrder
<1>19. Sizes'
  <2>1. Offset = 0 /\ Offset' = 0 /\ Len(iocbs_sizes) = n
    BY <1>n, <1>3, <1>9 DEF IInv, Sizes, Offset
  <2>2. /\ Len(iocbs_sizes') = n + 1 /\ iocbs_sizes'[n + 1] = seg[c].len
        /\ \A i \in 1 .. n : iocbs_sizes'[i] = iocbs_sizes[i]
    BY <1>1, <1>6, <1>9, <2>1
  <2>3. ASSUME NEW i \in 1 .. (n + 1)
        PROVE  /\ IsFiniteSet(aio'[i].todo)
               /\ iocbs_sizes'[i] = Cardinality(aio'[i].todo) + aio'[i].done
    <3>1. CASE i = n + 1
      BY <3>1, <1>r, <1>6, <1>8, <1>10, <2>2
    <3>2. CASE i \in 1 .. n
      <4>1. i + 0 = i
        BY <3>2, <1>9
      <4>2. /\ IsFiniteSet(aio[i].todo)
            /\ iocbs_sizes[i] = Cardinality(aio[i].todo) + aio[i].done
        BY <3>2, <4>1, <1>9, <2>1 DEF IInv, Sizes
      <4> QED BY <3>2, <4>2, <1>10, <2>2
    <3> QED BY <3>1, <3>2, <1>9
  <2>4. \A i \in 1 .. (n + 1) : i + 0 = i
    BY <1>9
  <2> QED BY <1>10, <2>1, <2>2, <2>3, <2>4 DEF Sizes
<1>20. Left(c)' = Left(c)
  <2>1. Left(c)' = {b \in Blocks : \E i \in DOMAIN aio' : aio'[i].ws = c /\ b \in aio'[i].todo}
    BY <1>4, <1>11 DEF Left
  <2>2. ASSUME NEW b PROVE (\E i \in DOMAIN aio' : aio'[i].ws = c /\ b \in aio'[i].todo) <=> b \in Extent(c)
    <3>1. n + 1 \in DOMAIN aio' /\ aio'[n + 1].ws = c /\ aio'[n + 1].todo = Extent(c)
      BY <1>r, <1>9, <1>10
    <3>2. \A i \in DOMAIN aio' : aio'[i].ws = c => i = n + 1
      BY <1>9, <1>10, <1>14
    <3> QED BY <3>1, <3>2
  <2> QED BY <1>7, <1>12, <2>1, <2>2 DEF Left
<1>21. ASSUME NEW p \in Originals, p # c PROVE Left(p)' = Left(p)
  <2>1. ASSUME NEW b
        PROVE  (\E i \in DOMAIN aio' : aio'[i].ws = p /\ b \in aio'[i].todo)
               <=> (\E i \in DOMAIN aio : aio[i].ws = p /\ b \in aio[i].todo)
    <3>1. \A i \in DOMAIN aio' : aio'[i].ws = p => i \in 1 .. n
      BY <1>r, <1>9, <1>10, <1>21
    <3> QED BY <3>1, <1>9, <1>10
  <2> QED BY <1>2, <1>11, <1>21, <2>1 DEF Left
<1>22. Bar' = Bar
  BY <1>2, <1>20, <1>21 DEF Bar
<1>23. LostBar' = LostBar
  <2>1. /\ \A i \in 1 .. n : aio'[i] = aio[i] /\ i \in 1 .. (n + 1)
        /\ aio'[n + 1].lost = {} /\ \A i \in 1 .. (n + 1) : i = n + 1 \/ i \in 1 .. n
    BY <1>r, <1>9, <1>10
  <2> QED BY <2>1, <1>9, <1>10, LostSame
<1> QED BY <1>1, <1>2, <1>3, <1>15, <1>16, <1>17, <1>18, <1>19, <1>22, <1>23 DEF IInv

-----------------------------------------------------------------------------
(* The kernel's steps are WriteBack's Land and Lose.                       *)

LEMMA Requests ==
  ASSUME IInv
  PROVE  /\ aio \in Seq(Request) /\ Len(aio) \in Nat /\ DOMAIN aio = 1 .. Len(aio)
         /\ iocbs_sizes \in Seq(Nat)
         /\ \A i \in DOMAIN aio :
              /\ aio[i] \in Request /\ aio[i].done \in Nat /\ aio[i].todo \subseteq Blocks
              /\ aio[i].ws \in Nat /\ aio[i].lost \subseteq Blocks
              /\ aio[i] = [ws |-> aio[i].ws, todo |-> aio[i].todo, lost |-> aio[i].lost, done |-> aio[i].done]
         /\ \A p \in Originals : p \in 1 .. alloc /\ p \in Nat
         /\ alloc \in Nat /\ current_ws \in Nat
<1>1. aio \in Seq(Request) /\ iocbs_sizes \in Seq(Nat)
  BY DEF IInv, TypeOK, Request
<1>2. alloc \in Nat /\ current_ws \in 0 .. alloc /\ wq \in Seq(1 .. alloc)
  BY DEF IInv, TypeOK, WCTypeOK
<1>3. \A p \in Originals : p \in 1 .. alloc /\ p \in Nat
  BY <1>2 DEF Originals, Queued
<1>4. \A i \in DOMAIN aio : aio[i] \in Request
  BY <1>1
<1>5. ASSUME NEW x \in Request
      PROVE  /\ x.done \in Nat /\ x.todo \subseteq Blocks /\ x.lost \subseteq Blocks /\ x.ws \in Nat
             /\ x = [ws |-> x.ws, todo |-> x.todo, lost |-> x.lost, done |-> x.done]
  BY <1>2 DEF Request
<1> QED BY <1>1, <1>2, <1>3, <1>4, <1>5

(* A segment has at most one request.                                      *)
LEMMA RequestOf ==
  ASSUME IInv, NEW i \in DOMAIN aio
  PROVE  /\ \A j \in DOMAIN aio : aio[j].ws <= aio[i].ws => j <= i
         /\ \A j \in DOMAIN aio : aio[j].ws = aio[i].ws => j = i
         /\ Left(aio[i].ws) = aio[i].todo
<1>1. \A j \in DOMAIN aio : j \in Nat /\ aio[j].ws \in Nat /\ aio[j].todo \subseteq Blocks
  BY Requests
<1>2. \A j, k \in DOMAIN aio : j < k => aio[j].ws < aio[k].ws
  BY DEF IInv, Flight
<1>3. \A j \in DOMAIN aio : aio[j].ws <= aio[i].ws => j <= i
  BY <1>1, <1>2
<1>4. \A j \in DOMAIN aio : aio[j].ws = aio[i].ws => j = i
  BY <1>1, <1>2
<1>5. Submitted(aio[i].ws)
  BY DEF IInv, Flight, InFlight
<1>6. Left(aio[i].ws) = aio[i].todo
  BY <1>1, <1>4, <1>5 DEF Left
<1> QED BY <1>3, <1>4, <1>6

(* When request i is the first that has not ended, its segment is next.    *)
LEMMA TurnOf ==
  ASSUME IInv, NEW i \in DOMAIN aio, \A j \in 1 .. (i - 1) : Ended(j),
         NEW b \in aio[i].todo \ aio[i].lost
  PROVE  aio[i].ws \in DOMAIN Bar /\ WB!IsNext(aio[i].ws, b)
<1>w. PICK w : w = aio[i].ws
  OBVIOUS
<1>1. /\ i \in Nat /\ DOMAIN aio = 1 .. Len(aio) /\ Len(aio) \in Nat
      /\ \A j \in DOMAIN aio : aio[j].ws \in Nat
      /\ \A p \in Originals : p \in Nat
      /\ current_ws \in Nat
  BY Requests
<1>2. w \in Originals /\ w \in InFlight /\ Submitted(w)
  BY <1>w DEF IInv, Flight, InFlight
<1>3. Left(w) = aio[i].todo /\ \A j \in DOMAIN aio : aio[j].ws = w => j = i
  BY <1>w, RequestOf
<1>4. b \in Bar[w] /\ <<w, b>> \notin LostBar
  BY <1>2, <1>3, LostIs DEF Bar
<1>5. ASSUME NEW v \in Originals, v < w, NEW x \in Left(v) PROVE <<v, x>> \in LostBar
  <2>1. Submitted(v)
    BY <1>5, <1>1, <1>2 DEF Submitted
  <2>2. PICK j \in DOMAIN aio : aio[j].ws = v /\ x \in aio[j].todo
    BY <1>5, <2>1 DEF Left
  <2>3. aio[j].ws <= aio[i].ws /\ j # i
    BY <1>5, <2>2, <1>1, <1>w, <1>2
  <2>4. j <= i
    BY <2>3, RequestOf
  <2>5. j \in 1 .. (i - 1)
    BY <2>3, <2>4, <1>1
  <2>6. x \in aio[j].lost
    BY <2>2, <2>5 DEF Ended
  <2> QED BY <2>2, <2>6, LostIs
<1>6. \A v \in DOMAIN Bar : v < w => {x \in Bar[v] : <<v, x>> \notin LostBar} = {}
  BY <1>5 DEF Bar
<1>7. b \in {x \in Bar[w] : <<w, x>> \notin LostBar}
  BY <1>4
<1> QED BY <1>w, <1>2, <1>6, <1>7 DEF WB!IsNext, WB!Waits, Bar, LostBar

LEMMA KernelWriteStep ==
  ASSUME IInv, NEW i \in DOMAIN aio, \A j \in 1 .. (i - 1) : Ended(j), KernelWriteOf(i)
  PROVE  IInv' /\ WB!Next
<1>2. PICK b \in aio[i].todo \ aio[i].lost :
        /\ disk' = [disk EXCEPT ![b] = aio[i].ws]
        /\ aio' = [aio EXCEPT ![i].todo = @ \ {b}, ![i].done = @ + 1]
        /\ UNCHANGED <<wcvars, wpc, lpc, stop, current_ws, iocbs_sizes, iocbs_total>>
  BY DEF KernelWriteOf
<1>w. PICK w : w = aio[i].ws
  OBVIOUS
<1>T. PICK T : T = aio[i].todo
  OBVIOUS
<1>e. PICK e : e = [ws |-> w, todo |-> T \ {b}, lost |-> aio[i].lost, done |-> aio[i].done + 1]
  OBVIOUS
<1>n. PICK n : n = Len(aio)
  OBVIOUS
<1>3. /\ aio \in Seq(Request) /\ n \in Nat /\ DOMAIN aio = 1 .. n
      /\ \A j \in 1 .. n : aio[j] \in Request /\ aio[j].done \in Nat /\ aio[j].ws \in Nat
                           /\ aio[j].todo \subseteq Blocks /\ aio[j].lost \subseteq Blocks
      /\ aio[i] = [ws |-> w, todo |-> T, lost |-> aio[i].lost, done |-> aio[i].done]
      /\ \A p \in Originals : p \in 1 .. alloc /\ p \in Nat
      /\ alloc \in Nat /\ current_ws \in Nat
  BY <1>n, <1>w, <1>T, Requests
<1>4. /\ WCInv' /\ WCTypeOK' /\ Queued' = Queued /\ Originals' = Originals
      /\ \A p : Extent(p)' = Extent(p)
      /\ latest' = latest /\ alloc' = alloc /\ wq' = wq
  BY <1>2, QueueUnchanged DEF IInv, wcvars
<1>5. w \in InFlight /\ w \in Originals /\ Submitted(w) /\ b \in Blocks
  BY <1>w, <1>3 DEF IInv, Flight, InFlight
<1>6. e \in Request
  BY <1>e, <1>w, <1>T, <1>3, <1>5 DEF Request
<1>7. aio' = [aio EXCEPT ![i] = e]
  BY <1>2, <1>3, <1>e, <1>w, <1>T
<1>8. /\ aio' \in Seq(Request) /\ Len(aio') = n /\ DOMAIN aio' = 1 .. n
      /\ aio'[i] = e /\ \A j \in 1 .. n : j # i => aio'[j] = aio[j]
  <2>1. i \in 1 .. Len(aio)
    BY <1>3, <1>n
  <2> QED BY <2>1, <1>3, <1>6, <1>7, <1>n, ExceptSeq
<1>9. \A j \in 1 .. n : aio'[j].ws = aio[j].ws
  BY <1>8, <1>e, <1>w
<1>10. /\ e.todo = T \ {b} /\ e.done = aio[i].done + 1 /\ e.ws = w /\ b \in T
       /\ e.lost = aio[i].lost /\ b \notin aio[i].lost
       /\ i \in 1 .. n
  BY <1>e, <1>T, <1>3
<1>11. \A p : Submitted(p)' <=> Submitted(p)
  BY <1>2 DEF Submitted
<1>12. InFlight' = InFlight
  BY <1>4, <1>11 DEF InFlight
<1>13. Popping' = Popping
  BY <1>2 DEF Popping
<1>14. TypeOK'
  <2>1. disk' \in [Blocks -> 0 .. alloc']
    BY <1>2, <1>3, <1>4, <1>5, <1>w DEF IInv, TypeOK
  <2>2. aio' \in Seq([ws : 1 .. alloc', todo : SUBSET Blocks, lost : SUBSET Blocks, done : Nat])
    BY <1>4, <1>8 DEF Request
  <2> QED BY <1>2, <1>4, <2>1, <2>2 DEF IInv, TypeOK
<1>15. Exclusive' /\ SubmitsQueued' /\ CurrentOldest'
  BY <1>2, <1>4 DEF IInv, Exclusive, WriterHolds, ListenerHolds, SubmitsQueued, CurrentOldest
<1>16. Flight'
  BY <1>2, <1>3, <1>4, <1>8, <1>9, <1>12, <1>13 DEF IInv, Flight, IsOldest
<1>17. InOrder'
  <2>1. \A j \in 1 .. n : aio'[j].todo # {} \/ aio'[j].done > 0
    <3> SUFFICES ASSUME NEW j \in 1 .. n PROVE aio'[j].todo # {} \/ aio'[j].done > 0
      OBVIOUS
    <3>1. CASE j = i
      BY <3>1, <1>3, <1>8, <1>10
    <3>2. CASE j # i
      BY <3>2, <1>3, <1>8 DEF IInv, InOrder
    <3> QED BY <3>1, <3>2
  <2>2. ASSUME NEW j \in 1 .. n, NEW k \in 1 .. n, j < k, ~Ended(j)'
        PROVE  Untouched(k)'
    <3>1. ~Ended(i) /\ ~(j < i)
      <4>1. ~Ended(i)
        BY <1>2 DEF Ended
      <4>2. SUFFICES ASSUME j < i PROVE FALSE
        BY <4>1
      <4>3. j \in 1 .. (i - 1) /\ j # i
        BY <4>2, <1>3, <1>10
      <4> QED BY <4>3, <2>2, <1>8 DEF Ended
    <3>2. Untouched(k)
      <4>1. i < k
        BY <3>1, <2>2, <1>10
      <4> QED BY <3>1, <4>1, <1>3, <1>10 DEF IInv, InOrder
    <3>3. aio'[k] = aio[k]
      BY <3>1, <2>2, <1>8, <1>10
    <3> QED BY <3>2, <3>3 DEF Untouched
  <2>3. \A j \in 1 .. n : aio'[j].lost \subseteq aio'[j].todo
    BY <1>T, <1>3, <1>8, <1>10 DEF IInv, InOrder
  <2> QED BY <1>8, <2>1, <2>2, <2>3 DEF InOrder
<1>18. Sizes'
  <2>1. Offset' = Offset /\ Offset \in Nat
    BY <1>13 DEF Offset
  <2>2. ASSUME NEW j \in 1 .. n
        PROVE  /\ IsFiniteSet(aio'[j].todo)
               /\ iocbs_sizes[j + Offset] = Cardinality(aio'[j].todo) + aio'[j].done
    <3>1. /\ IsFiniteSet(aio[j].todo)
          /\ iocbs_sizes[j + Offset] = Cardinality(aio[j].todo) + aio[j].done
      BY <1>3 DEF IInv, Sizes
    <3>2. CASE j = i
      <4>1. IsFiniteSet(T) /\ iocbs_sizes[j + Offset] = Cardinality(T) + aio[i].done
        BY <3>1, <3>2, <1>T
      <4>2. /\ IsFiniteSet(T \ {b}) /\ Cardinality(T \ {b}) = Cardinality(T) - 1
            /\ Cardinality(T) \in Nat
        BY <4>1, <1>10, FS_RemoveElement, FS_CardinalityType
      <4> QED BY <3>2, <4>1, <4>2, <1>3, <1>8, <1>10
    <3>3. CASE j # i
      BY <3>1, <3>3, <1>8
    <3> QED BY <3>2, <3>3
  <2>3. Len(iocbs_sizes) = n + Offset
    BY <1>n DEF IInv, Sizes
  <2> QED BY <1>2, <1>8, <2>1, <2>2, <2>3 DEF Sizes
<1>19. Left(w) = T /\ \A j \in 1 .. n : aio[j].ws = w => j = i
  BY <1>w, <1>T, <1>3, RequestOf
<1>20. Left(w)' = T \ {b}
  <2>1. \A j \in 1 .. n : aio'[j].ws = w <=> j = i
    BY <1>9, <1>w, <1>10, <1>19
  <2>2. T \subseteq Blocks
    BY <1>T, <1>3
  <2> QED BY <2>1, <2>2, <1>5, <1>8, <1>10, <1>11 DEF Left
<1>21. ASSUME NEW p \in Originals, p # w PROVE Left(p)' = Left(p)
  <2>1. \A j \in 1 .. n : aio'[j].ws = p => j # i
    BY <1>21, <1>8, <1>10
  <2>2. \A j \in 1 .. n : aio[j].ws = p => j # i
    BY <1>21, <1>w
  <2>3. \A j \in 1 .. n : aio'[j].ws = p <=> aio[j].ws = p
    BY <1>9
  <2>4. ASSUME NEW x
        PROVE  (\E j \in DOMAIN aio' : aio'[j].ws = p /\ x \in aio'[j].todo)
               <=> (\E j \in DOMAIN aio : aio[j].ws = p /\ x \in aio[j].todo)
    BY <2>1, <2>2, <2>3, <1>3, <1>8
  <2> QED BY <2>4, <1>4, <1>11 DEF Left
<1>22. Bar' = [Bar EXCEPT ![w] = @ \ {b}]
  BY <1>4, <1>5, <1>19, <1>20, <1>21 DEF Bar
<1>23. LostBar' = LostBar
  <2>1. \A j \in 1 .. n : aio'[j].lost = aio[j].lost
    BY <1>8, <1>10
  <2> QED BY <2>1, <1>3, <1>8, <1>9, LostSame
<1>24. WB!Next
  <2>1. w \in DOMAIN Bar /\ WB!IsNext(w, b)
    BY <1>w, TurnOf
  <2>2. WB!Land(w, b)
    BY <2>1, <1>2, <1>4, <1>22, <1>23, <1>w DEF WB!Land, Bar, LostBar
  <2> QED BY <2>1, <2>2, <1>5 DEF WB!Next, Bar, LostBar
<1> QED BY <1>2, <1>4, <1>14, <1>15, <1>16, <1>17, <1>18, <1>24 DEF IInv

LEMMA KernelFailStep ==
  ASSUME IInv, NEW i \in DOMAIN aio, \A j \in 1 .. (i - 1) : Ended(j), KernelFailOf(i)
  PROVE  IInv' /\ WB!Next
<1>1. PICK b \in aio[i].todo \ aio[i].lost :
        /\ aio' = [aio EXCEPT ![i].lost = @ \cup {b}]
        /\ UNCHANGED <<wcvars, wpc, lpc, stop, current_ws, iocbs_sizes, iocbs_total, disk>>
  BY DEF KernelFailOf
<1>n. PICK n : n = Len(aio)
  OBVIOUS
<1>e. PICK e : e = [ws |-> aio[i].ws, todo |-> aio[i].todo, lost |-> aio[i].lost \cup {b},
                    done |-> aio[i].done]
  OBVIOUS
<1>2. /\ aio \in Seq(Request) /\ n \in Nat /\ DOMAIN aio = 1 .. n /\ i \in 1 .. n
      /\ \A j \in 1 .. n :
           /\ aio[j] \in Request /\ aio[j].todo \subseteq Blocks /\ aio[j].lost \subseteq Blocks
           /\ aio[j] = [ws |-> aio[j].ws, todo |-> aio[j].todo, lost |-> aio[j].lost, done |-> aio[j].done]
  BY <1>n, Requests
<1>3. /\ WCInv' /\ WCTypeOK' /\ Queued' = Queued /\ Originals' = Originals
      /\ \A p : Extent(p)' = Extent(p)
      /\ latest' = latest /\ alloc' = alloc /\ wq' = wq
  BY <1>1, QueueUnchanged DEF IInv, wcvars
<1>4. e \in Request /\ aio' = [aio EXCEPT ![i] = e]
  <2>1. e \in Request
    BY <1>e, <1>1, <1>2 DEF Request
  <2>2. [aio[i] EXCEPT !.lost = @ \cup {b}] = e
    <3>1. PICK v, t, l, d : aio[i] = [ws |-> v, todo |-> t, lost |-> l, done |-> d]
      BY <1>2
    <3> QED BY <3>1, <1>e
  <2> QED BY <2>1, <2>2, <1>1
<1>5. /\ aio' \in Seq(Request) /\ Len(aio') = n /\ DOMAIN aio' = 1 .. n
      /\ aio'[i] = e /\ \A j \in 1 .. n : j # i => aio'[j] = aio[j]
  BY <1>2, <1>4, <1>n, ExceptSeq
<1>6. /\ \A j \in 1 .. n : /\ aio'[j].ws = aio[j].ws /\ aio'[j].todo = aio[j].todo
                           /\ aio'[j].done = aio[j].done
      /\ aio'[i].lost = aio[i].lost \cup {b}
  BY <1>5, <1>e
<1>7. \A p : Submitted(p)' <=> Submitted(p)
  BY <1>1 DEF Submitted
<1>8. InFlight' = InFlight /\ Popping' = Popping /\ Offset' = Offset
  BY <1>1, <1>3, <1>7 DEF InFlight, Popping, Offset
<1>9. TypeOK'
  <2>1. aio' \in Seq([ws : 1 .. alloc', todo : SUBSET Blocks, lost : SUBSET Blocks, done : Nat])
    BY <1>3, <1>5 DEF Request
  <2> QED BY <1>1, <1>3, <2>1 DEF IInv, TypeOK
<1>10. Exclusive' /\ SubmitsQueued' /\ CurrentOldest'
  BY <1>1, <1>3 DEF IInv, Exclusive, WriterHolds, ListenerHolds, SubmitsQueued, CurrentOldest
<1>11. Flight'
  BY <1>1, <1>2, <1>3, <1>5, <1>6, <1>8 DEF IInv, Flight, IsOldest
<1>12. InOrder'
  <2>1. \A j \in 1 .. n : aio'[j].todo # {} \/ aio'[j].done > 0
    BY <1>2, <1>6 DEF IInv, InOrder
  <2>2. \A j \in 1 .. n : aio'[j].lost \subseteq aio'[j].todo
    BY <1>1, <1>2, <1>5, <1>6 DEF IInv, InOrder
  <2>3. ASSUME NEW j \in 1 .. n, NEW k \in 1 .. n, j < k, ~Ended(j)'
        PROVE  Untouched(k)'
    <3>1. ~Ended(i) /\ ~(j < i)
      <4>1. ~Ended(i)
        BY <1>1 DEF Ended
      <4>2. SUFFICES ASSUME j < i PROVE FALSE
        BY <4>1
      <4>3. j \in 1 .. (i - 1) /\ j # i
        BY <4>2, <1>2
      <4> QED BY <4>3, <2>3, <1>5 DEF Ended
    <3>2. Untouched(k)
      BY <3>1, <2>3, <1>2 DEF IInv, InOrder
    <3>3. aio'[k] = aio[k]
      BY <3>1, <2>3, <1>2, <1>5
    <3> QED BY <3>2, <3>3 DEF Untouched
  <2> QED BY <1>5, <2>1, <2>2, <2>3 DEF InOrder
<1>13. Sizes'
  BY <1>1, <1>2, <1>n, <1>5, <1>6, <1>8 DEF IInv, Sizes
<1>14. Bar' = Bar
  <2>1. ASSUME NEW p
        PROVE  {x \in Blocks : \E j \in DOMAIN aio' : aio'[j].ws = p /\ x \in aio'[j].todo}
               = {x \in Blocks : \E j \in DOMAIN aio : aio[j].ws = p /\ x \in aio[j].todo}
    BY <1>2, <1>5, <1>6
  <2>2. \A p : Left(p)' = Left(p)
    BY <2>1, <1>3, <1>7 DEF Left
  <2> QED BY <2>2, <1>3 DEF Bar
<1>15. LostBar' = LostBar \cup {<<aio[i].ws, b>>}
  <2>1. ASSUME NEW x \in LostBar' PROVE x \in LostBar \cup {<<aio[i].ws, b>>}
    <3>1. PICK j \in 1 .. n : \E c \in aio'[j].lost : x = <<aio[j].ws, c>>
      BY <2>1, <1>5, <1>6 DEF LostBar
    <3>2. PICK c \in aio'[j].lost : x = <<aio[j].ws, c>>
      BY <3>1
    <3>3. c \in aio[j].lost \/ (j = i /\ c = b)
      BY <3>2, <1>5, <1>6
    <3> QED BY <3>2, <3>3, <1>2 DEF LostBar
  <2>2. ASSUME NEW x \in LostBar PROVE x \in LostBar'
    <3>1. PICK j \in 1 .. n : \E c \in aio[j].lost : x = <<aio[j].ws, c>>
      BY <2>2, <1>2 DEF LostBar
    <3>2. PICK c \in aio[j].lost : x = <<aio[j].ws, c>>
      BY <3>1
    <3>3. c \in aio'[j].lost
      BY <3>2, <1>5, <1>6
    <3> QED BY <3>2, <3>3, <1>5, <1>6 DEF LostBar
  <2>3. <<aio[i].ws, b>> \in LostBar'
    <3>1. i \in DOMAIN aio' /\ b \in aio'[i].lost /\ aio'[i].ws = aio[i].ws
      BY <1>2, <1>5, <1>6
    <3> QED BY <3>1, <3>1 DEF LostBar
  <2> QED BY <2>1, <2>2, <2>3
<1>16. WB!Next
  <2>1. aio[i].ws \in DOMAIN Bar /\ WB!IsNext(aio[i].ws, b)
    BY TurnOf
  <2>2. b \in Blocks
    BY <1>2
  <2>3. WB!Lose(aio[i].ws, b)
    BY <2>1, <1>1, <1>3, <1>14, <1>15 DEF WB!Lose, Bar, LostBar
  <2> QED BY <2>1, <2>2, <2>3 DEF WB!Next, Bar, LostBar
<1> QED BY <1>1, <1>3, <1>9, <1>10, <1>11, <1>12, <1>13, <1>16 DEF IInv

-----------------------------------------------------------------------------
(* The listener's steps.                                                   *)

(* The oldest event always belongs to the oldest request.                  *)
LEMMA FirstEvent ==
  ASSUME IInv, TakeEvent
  PROVE  /\ 1 \in DOMAIN aio /\ aio[1].done > 0
         /\ aio' = IF aio[1].todo = {} /\ aio[1].done = 1
                   THEN SubSeq(aio, 1, 0) \o SubSeq(aio, 2, Len(aio))
                   ELSE [aio EXCEPT ![1].done = @ - 1]
<1>1. PICK i \in DOMAIN aio :
        /\ aio[i].done > 0
        /\ \A j \in 1 .. (i - 1) : aio[j].done = 0 /\ aio[j].lost = {}
        /\ aio' = IF aio[i].todo = {} /\ aio[i].done = 1
                  THEN SubSeq(aio, 1, i - 1) \o SubSeq(aio, i + 1, Len(aio))
                  ELSE [aio EXCEPT ![i].done = @ - 1]
  <2>1. \A j \in DOMAIN aio : aio[j].done \in Nat
    BY Requests
  <2>2. \A j : EventOf(j) <=> (aio[j].done > 0 \/ aio[j].lost # {})
    BY DEF EventOf
  <2>3. ASSUME NEW j \in DOMAIN aio, ~EventOf(j) PROVE aio[j].done = 0 /\ aio[j].lost = {}
    BY <2>1, <2>2, <2>3
  <2>4. \A i \in DOMAIN aio : \A j \in 1 .. (i - 1) : j \in DOMAIN aio
    BY Requests
  <2> QED BY <2>3, <2>4 DEF TakeEvent, OldestEvent
<1>2. /\ Len(aio) \in Nat /\ DOMAIN aio = 1 .. Len(aio)
      /\ \A j \in DOMAIN aio : aio[j].done \in Nat
  BY Requests
<1>3. i = 1
  <2>1. SUFFICES ASSUME i # 1 PROVE FALSE
    OBVIOUS
  <2>2. 1 \in 1 .. (i - 1) /\ 1 \in DOMAIN aio /\ 1 < i
    BY <1>2, <2>1
  <2>3. ~Ended(1)
    <3>1. aio[1].done = 0 /\ aio[1].lost = {}
      BY <1>1, <2>2
    <3>2. aio[1].todo # {} \/ aio[1].done > 0
      BY <2>2 DEF IInv, InOrder
    <3> QED BY <3>1, <3>2 DEF Ended
  <2>4. aio[i].done = 0
    BY <2>2, <2>3 DEF IInv, InOrder, Untouched
  <2> QED BY <1>1, <2>4
<1>4. i - 1 = 0 /\ i + 1 = 2
  BY <1>3
<1> QED BY <1>1, <1>3, <1>4

(* The last event of the oldest request: it leaves, and the listener goes  *)
(* on to pop a segment.                                                    *)
LEMMA LastEventStep ==
  ASSUME IInv, ListenerEvent, iocbs_sizes[1] = 1
  PROVE  IInv' /\ UNCHANGED <<Bar, LostBar, disk, latest>>
<1>n. PICK n : n = Len(aio)
  OBVIOUS
<1>1. /\ lpc = "events" /\ lpc' = "front" /\ TakeEvent
      /\ iocbs_sizes' = [iocbs_sizes EXCEPT ![1] = @ - 1]
      /\ UNCHANGED <<wcvars, wpc, stop, current_ws, disk, iocbs_total>>
  BY DEF ListenerEvent
<1>2. /\ aio \in Seq(Request) /\ n \in Nat /\ DOMAIN aio = 1 .. n
      /\ iocbs_sizes \in Seq(Nat)
      /\ \A j \in 1 .. n : aio[j] \in Request /\ aio[j].done \in Nat /\ aio[j].ws \in Nat
      /\ \A p \in Originals : p \in 1 .. alloc /\ p \in Nat
      /\ alloc \in Nat /\ current_ws \in Nat
  BY <1>n, Requests
<1>3. /\ WCInv' /\ WCTypeOK' /\ Queued' = Queued /\ Originals' = Originals
      /\ \A p : Extent(p)' = Extent(p)
      /\ latest' = latest /\ alloc' = alloc /\ wq' = wq
  BY <1>1, QueueUnchanged DEF IInv, wcvars
<1>4. ~Popping /\ Popping' /\ Offset = 0 /\ Offset' = 1 /\ Exclusive'
  BY <1>1 DEF IInv, Popping, Offset, Exclusive, ListenerHolds, WriterHolds
<1>5. 1 \in 1 .. n /\ aio[1].done > 0
  BY <1>1, <1>2, FirstEvent
<1>6. Len(iocbs_sizes) = n /\ IsFiniteSet(aio[1].todo)
      /\ 1 = Cardinality(aio[1].todo) + aio[1].done
  <2>1. 1 + 0 = 1
    OBVIOUS
  <2>2. Len(iocbs_sizes) = n + 0 /\ IsFiniteSet(aio[1].todo)
        /\ iocbs_sizes[1 + 0] = Cardinality(aio[1].todo) + aio[1].done
    BY <1>n, <1>2, <1>4, <1>5 DEF IInv, Sizes
  <2> QED BY <1>2, <2>1, <2>2
<1>7. aio[1].todo = {} /\ aio[1].done = 1
  <2>1. Cardinality(aio[1].todo) \in Nat
    BY <1>6, FS_CardinalityType
  <2>2. Cardinality(aio[1].todo) = 0 /\ aio[1].done = 1
    BY <1>2, <1>5, <1>6, <2>1
  <2> QED BY <1>6, <2>2, FS_EmptySet
<1>8. aio' = SubSeq(aio, 1, 0) \o SubSeq(aio, 2, n)
  BY <1>n, <1>1, <1>7, FirstEvent
<1>9. /\ aio' \in Seq(Request) /\ Len(aio') = n - 1 /\ DOMAIN aio' = 1 .. (n - 1)
      /\ \A j \in 1 .. (n - 1) : aio'[j] = aio[j + 1] /\ j + 1 \in 1 .. n
  <2>1. /\ SubSeq(aio, 1, 0) \in Seq(Request) /\ Len(SubSeq(aio, 1, 0)) = 0
    <3>1. 1 \in Int /\ 0 \in Int /\ \A j \in 1 .. 0 : aio[j] \in Request
      OBVIOUS
    <3>2. ~ (1 <= 0)
      OBVIOUS
    <3> QED BY <3>1, <3>2, SubSeqProperties
  <2>2. /\ SubSeq(aio, 2, n) \in Seq(Request) /\ Len(SubSeq(aio, 2, n)) = n - 1
        /\ \A j \in 1 .. (n - 1) : SubSeq(aio, 2, n)[j] = aio[j + 1]
    <3>1. 2 \in Int /\ n \in Int /\ \A j \in 2 .. n : aio[j] \in Request
      BY <1>2
    <3>2. /\ SubSeq(aio, 2, n) \in Seq(Request)
          /\ Len(SubSeq(aio, 2, n)) = IF 2 <= n THEN n - 2 + 1 ELSE 0
          /\ \A j \in 1 .. n - 2 + 1 : SubSeq(aio, 2, n)[j] = aio[2 + j - 1]
      BY <3>1, SubSeqProperties
    <3>3. \A j \in 1 .. (n - 1) : 2 + j - 1 = j + 1 /\ j \in 1 .. n - 2 + 1
      BY <1>2
    <3> QED BY <1>2, <1>5, <3>2, <3>3
  <2>3. /\ aio' \in Seq(Request) /\ Len(aio') = 0 + (n - 1)
        /\ \A j \in 1 .. 0 + (n - 1) :
             aio'[j] = IF j <= 0 THEN SubSeq(aio, 1, 0)[j] ELSE SubSeq(aio, 2, n)[j - 0]
    BY <1>8, <2>1, <2>2, ConcatProperties
  <2>4. 0 + (n - 1) = n - 1 /\ \A j \in 1 .. (n - 1) : ~ (j <= 0) /\ j - 0 = j /\ j + 1 \in 1 .. n
    BY <1>2
  <2> QED BY <2>2, <2>3, <2>4
<1>10. \A p : Submitted(p)' <=> Submitted(p)
  BY <1>1 DEF Submitted
<1>11. InFlight' = InFlight
  BY <1>3, <1>10 DEF InFlight
<1>12. /\ iocbs_sizes' \in Seq(Nat) /\ Len(iocbs_sizes') = n
       /\ \A j \in 2 .. n : iocbs_sizes'[j] = iocbs_sizes[j]
  BY <1>1, <1>2, <1>5, <1>6
<1>13. TypeOK'
  <2>1. aio' \in Seq([ws : 1 .. alloc', todo : SUBSET Blocks, lost : SUBSET Blocks, done : Nat])
    BY <1>3, <1>9 DEF Request
  <2> QED BY <1>1, <1>3, <1>12, <2>1 DEF IInv, TypeOK
<1>14. SubmitsQueued' /\ CurrentOldest'
  BY <1>1, <1>3 DEF IInv, SubmitsQueued, CurrentOldest
<1>f. PICK f : f = aio[1].ws
  OBVIOUS
<1>15. /\ f \in InFlight
       /\ \A j \in 1 .. (n - 1) : aio'[j].ws # f
       /\ \A p \in InFlight : p # f => \E j \in 1 .. (n - 1) : aio'[j].ws = p
       /\ IsOldest(f)
  <2>1. f \in InFlight
    BY <1>f, <1>2, <1>5 DEF IInv, Flight
  <2>2. ASSUME NEW j \in 1 .. (n - 1) PROVE aio'[j].ws # f
    <3>1. j + 1 \in DOMAIN aio /\ 1 \in DOMAIN aio /\ j + 1 # 1
      BY <1>2, <1>5, <1>9
    <3> QED BY <3>1, <1>f, <1>9, RequestOf
  <2>3. ASSUME NEW p \in InFlight PROVE \E i \in 1 .. n : aio[i].ws = p
    BY <1>2, <1>4 DEF IInv, Flight
  <2>4. ASSUME NEW p \in InFlight, p # f PROVE \E j \in 1 .. (n - 1) : aio'[j].ws = p
    <3>1. PICK i \in 1 .. n : aio[i].ws = p
      BY <2>3
    <3>2. i # 1
      BY <3>1, <2>4, <1>f
    <3>3. i - 1 \in 1 .. (n - 1) /\ (i - 1) + 1 = i
      BY <3>2, <1>2
    <3> QED BY <3>1, <3>3, <1>9
  <2>5. ASSUME NEW q \in Originals PROVE f <= q
    <3>1. SUFFICES ASSUME q < f PROVE FALSE
      BY <1>2, <1>f, <1>5
    <3>2. f \in Nat /\ q \in Nat /\ f \in Originals /\ Submitted(f)
      BY <1>2, <1>f, <1>5, <2>1 DEF InFlight
    <3>3. Submitted(q)
      BY <1>2, <3>1, <3>2 DEF Submitted
    <3>4. PICK i \in 1 .. n : aio[i].ws = q
      BY <2>3, <3>3 DEF InFlight
    <3>5. i \in DOMAIN aio /\ 1 \in DOMAIN aio /\ aio[i].ws <= aio[1].ws
      BY <1>2, <1>5, <1>f, <3>1, <3>2, <3>4
    <3>6. i <= 1
      BY <3>5, RequestOf
    <3>7. i = 1
      BY <3>6, <1>2
    <3> QED BY <3>1, <3>2, <3>4, <3>7, <1>f
  <2> QED BY <2>1, <2>2, <2>4, <2>5 DEF IsOldest
<1>16. Flight'
  <2>1. \A i, j \in DOMAIN aio' : i < j => aio'[i].ws < aio'[j].ws
    <3> SUFFICES ASSUME NEW i \in 1 .. (n - 1), NEW j \in 1 .. (n - 1), i < j
                 PROVE  aio'[i].ws < aio'[j].ws
      BY <1>9
    <3>1. i + 1 \in DOMAIN aio /\ j + 1 \in DOMAIN aio /\ i + 1 < j + 1
      BY <1>2, <1>9
    <3> QED BY <3>1, <1>9 DEF IInv, Flight
  <2>2. \A i \in DOMAIN aio' : aio'[i].ws \in InFlight'
    BY <1>2, <1>9, <1>11 DEF IInv, Flight
  <2>3. \A p : IsOldest(p)' <=> IsOldest(p)
    BY <1>3 DEF IsOldest
  <2>4. lpc' # "pop"
    BY <1>1
  <2> QED BY <1>4, <1>9, <1>11, <1>15, <2>1, <2>2, <2>3, <2>4 DEF Flight
<1>17. InOrder'
  <2>1. ASSUME NEW i \in 1 .. (n - 1) PROVE aio'[i].todo # {} \/ aio'[i].done > 0
    <3>1. i + 1 \in DOMAIN aio /\ aio'[i] = aio[i + 1]
      BY <1>2, <1>9
    <3>2. aio[i + 1].todo # {} \/ aio[i + 1].done > 0
      BY <3>1 DEF IInv, InOrder
    <3> QED BY <3>1, <3>2
  <2>2. ASSUME NEW i \in 1 .. (n - 1), NEW j \in 1 .. (n - 1), i < j, ~Ended(i)'
        PROVE  Untouched(j)'
    <3>1. i + 1 \in DOMAIN aio /\ j + 1 \in DOMAIN aio /\ i + 1 < j + 1
      BY <1>2, <1>9, <2>2
    <3>2. ~Ended(i + 1)
      BY <1>9, <2>2 DEF Ended
    <3>3. Untouched(j + 1)
      BY <3>1, <3>2 DEF IInv, InOrder
    <3> QED BY <3>3, <1>9 DEF Untouched
  <2>3. \A i \in 1 .. (n - 1) : aio'[i].lost \subseteq aio'[i].todo
    BY <1>2, <1>9 DEF IInv, InOrder
  <2> QED BY <1>9, <2>1, <2>2, <2>3 DEF InOrder
<1>18. Sizes'
  <2>1. Len(iocbs_sizes') = Len(aio') + 1
    BY <1>2, <1>9, <1>12
  <2>2. ASSUME NEW j \in 1 .. (n - 1)
        PROVE  /\ IsFiniteSet(aio'[j].todo)
               /\ iocbs_sizes'[j + 1] = Cardinality(aio'[j].todo) + aio'[j].done
    <3>1. j + 1 \in DOMAIN aio /\ (j + 1) + 0 = j + 1 /\ j + 1 \in 2 .. n
      BY <1>2, <1>9
    <3>2. /\ IsFiniteSet(aio[j + 1].todo)
          /\ iocbs_sizes[j + 1] = Cardinality(aio[j + 1].todo) + aio[j + 1].done
      BY <3>1, <1>4 DEF IInv, Sizes
    <3> QED BY <3>1, <3>2, <1>9, <1>12
  <2> QED BY <1>4, <1>9, <2>1, <2>2 DEF Sizes
<1>19. ASSUME NEW p PROVE Left(p)' = Left(p)
  <2>1. ASSUME NEW b
        PROVE  (\E j \in DOMAIN aio' : aio'[j].ws = p /\ b \in aio'[j].todo)
               <=> (\E j \in DOMAIN aio : aio[j].ws = p /\ b \in aio[j].todo)
    <3>1. ASSUME NEW j \in DOMAIN aio', aio'[j].ws = p, b \in aio'[j].todo
          PROVE  \E i \in DOMAIN aio : aio[i].ws = p /\ b \in aio[i].todo
      BY <3>1, <1>2, <1>9
    <3>2. ASSUME NEW i \in DOMAIN aio, aio[i].ws = p, b \in aio[i].todo
          PROVE  \E j \in DOMAIN aio' : aio'[j].ws = p /\ b \in aio'[j].todo
      <4>1. i # 1
        BY <3>2, <1>7
      <4>2. i - 1 \in 1 .. (n - 1) /\ (i - 1) + 1 = i
        BY <4>1, <1>2
      <4> QED BY <3>2, <4>2, <1>9
    <3> QED BY <3>1, <3>2
  <2> QED BY <2>1, <1>3, <1>10 DEF Left
<1>20. Bar' = Bar
  BY <1>3, <1>19 DEF Bar
<1>21. LostBar' = LostBar
  <2>1. ASSUME NEW j \in DOMAIN aio', NEW b \in aio'[j].lost
        PROVE  \E i \in DOMAIN aio : aio[i].ws = aio'[j].ws /\ b \in aio[i].lost
    BY <2>1, <1>2, <1>9
  <2>2. ASSUME NEW i \in DOMAIN aio, NEW b \in aio[i].lost
        PROVE  \E j \in DOMAIN aio' : aio'[j].ws = aio[i].ws /\ b \in aio'[j].lost
    <3>1. i # 1
      BY <1>5, <1>2, <1>7 DEF IInv, InOrder
    <3>2. i - 1 \in 1 .. (n - 1) /\ (i - 1) + 1 = i
      BY <3>1, <1>2
    <3> QED BY <3>2, <1>9
  <2> QED BY <2>1, <2>2, LostSame
<1> QED BY <1>1, <1>3, <1>4, <1>13, <1>14, <1>16, <1>17, <1>18, <1>20, <1>21 DEF IInv

(* Any other event only counts down.                                       *)
LEMMA CountEventStep ==
  ASSUME IInv, ListenerEvent, iocbs_sizes[1] # 1
  PROVE  IInv' /\ UNCHANGED <<Bar, LostBar, disk, latest>>
<1>n. PICK n : n = Len(aio)
  OBVIOUS
<1>e. PICK e : e = [ws |-> aio[1].ws, todo |-> aio[1].todo, lost |-> aio[1].lost, done |-> aio[1].done - 1]
  OBVIOUS
<1>1. /\ lpc = "events" /\ lpc' = "events" /\ TakeEvent
      /\ iocbs_sizes' = [iocbs_sizes EXCEPT ![1] = @ - 1]
      /\ iocbs_total' = iocbs_total - 1
      /\ UNCHANGED <<wcvars, wpc, stop, current_ws, disk>>
  BY DEF ListenerEvent
<1>2. /\ aio \in Seq(Request) /\ n \in Nat /\ DOMAIN aio = 1 .. n
      /\ iocbs_sizes \in Seq(Nat)
      /\ \A j \in 1 .. n :
           /\ aio[j] \in Request /\ aio[j].done \in Nat /\ aio[j].todo \subseteq Blocks
           /\ aio[j].lost \subseteq Blocks
           /\ aio[j] = [ws |-> aio[j].ws, todo |-> aio[j].todo, lost |-> aio[j].lost, done |-> aio[j].done]
  BY <1>n, Requests
<1>3. /\ WCInv' /\ WCTypeOK' /\ Queued' = Queued /\ Originals' = Originals
      /\ \A p : Extent(p)' = Extent(p)
      /\ latest' = latest /\ alloc' = alloc /\ wq' = wq
  BY <1>1, QueueUnchanged DEF IInv, wcvars
<1>4. ~Popping /\ ~Popping' /\ Offset = 0 /\ Offset' = 0 /\ Exclusive'
  BY <1>1 DEF IInv, Popping, Offset, Exclusive, ListenerHolds, WriterHolds
<1>5. 1 \in 1 .. n /\ aio[1].done > 0
  BY <1>1, <1>2, FirstEvent
<1>6. /\ Len(iocbs_sizes) = n
      /\ \A j \in 1 .. n :
           IsFiniteSet(aio[j].todo) /\ iocbs_sizes[j] = Cardinality(aio[j].todo) + aio[j].done
  <2>1. \A j \in 1 .. n : j + 0 = j
    BY <1>2
  <2>2. /\ Len(iocbs_sizes) = n + 0
        /\ \A j \in 1 .. n : /\ IsFiniteSet(aio[j].todo)
                             /\ iocbs_sizes[j + 0] = Cardinality(aio[j].todo) + aio[j].done
    BY <1>n, <1>2, <1>4 DEF IInv, Sizes
  <2> QED BY <1>2, <2>1, <2>2
<1>7. ~ (aio[1].todo = {} /\ aio[1].done = 1)
  <2>1. SUFFICES ASSUME aio[1].todo = {}, aio[1].done = 1 PROVE FALSE
    OBVIOUS
  <2>2. iocbs_sizes[1] = Cardinality({}) + 1
    BY <1>5, <1>6, <2>1
  <2> QED BY <2>2, FS_EmptySet
<1>8. aio' = [aio EXCEPT ![1] = e]
  <2>1. aio' = [aio EXCEPT ![1].done = @ - 1]
    BY <1>1, <1>7, FirstEvent
  <2>2. [aio[1] EXCEPT !.done = @ - 1] = e
    BY <1>e, <1>2, <1>5
  <2> QED BY <2>1, <2>2
<1>9. /\ aio' \in Seq(Request) /\ Len(aio') = n /\ DOMAIN aio' = 1 .. n
      /\ aio'[1] = e /\ \A j \in 1 .. n : j # 1 => aio'[j] = aio[j]
  <2>1. aio[1].done - 1 \in Nat
    BY <1>2, <1>5
  <2>2. e \in Request
    BY <1>e, <1>2, <1>5, <2>1 DEF Request
  <2> QED BY <2>2, <1>n, <1>2, <1>5, <1>8, ExceptSeq
<1>10. \A j \in 1 .. n : /\ aio'[j].ws = aio[j].ws /\ aio'[j].todo = aio[j].todo
                         /\ aio'[j].lost = aio[j].lost
  BY <1>9, <1>e
<1>11. \A p : Submitted(p)' <=> Submitted(p)
  BY <1>1 DEF Submitted
<1>12. InFlight' = InFlight
  BY <1>3, <1>11 DEF InFlight
<1>13. /\ iocbs_sizes' \in Seq(Nat) /\ Len(iocbs_sizes') = n
       /\ iocbs_sizes'[1] = iocbs_sizes[1] - 1
       /\ \A j \in 1 .. n : j # 1 => iocbs_sizes'[j] = iocbs_sizes[j]
  <2>1. Cardinality(aio[1].todo) \in Nat
    BY <1>5, <1>6, FS_CardinalityType
  <2>2. iocbs_sizes[1] - 1 \in Nat
    BY <2>1, <1>2, <1>5, <1>6
  <2> QED BY <2>2, <1>1, <1>2, <1>5, <1>6
<1>14. TypeOK'
  <2>1. aio' \in Seq([ws : 1 .. alloc', todo : SUBSET Blocks, lost : SUBSET Blocks, done : Nat])
    BY <1>3, <1>9 DEF Request
  <2>2. iocbs_total' \in Int
    BY <1>1 DEF IInv, TypeOK
  <2> QED BY <1>1, <1>3, <1>13, <2>1, <2>2 DEF IInv, TypeOK
<1>15. SubmitsQueued' /\ CurrentOldest'
  BY <1>1, <1>3 DEF IInv, SubmitsQueued, CurrentOldest
<1>16. Flight'
  <2>1. lpc' # "pop"
    BY <1>1
  <2>2. DOMAIN aio' = DOMAIN aio /\ \A j \in DOMAIN aio : aio'[j].ws = aio[j].ws
    BY <1>2, <1>9, <1>10
  <2>3. /\ \A i, j \in DOMAIN aio : i < j => aio[i].ws < aio[j].ws
        /\ \A i \in DOMAIN aio : aio[i].ws \in InFlight
        /\ \A p \in InFlight : \E i \in DOMAIN aio : aio[i].ws = p
    BY <1>4 DEF IInv, Flight
  <2> QED BY <1>4, <1>12, <2>1, <2>2, <2>3 DEF Flight
<1>17. InOrder'
  <2>1. ASSUME NEW j \in 1 .. n PROVE aio'[j].todo # {} \/ aio'[j].done > 0
    <3>1. CASE j = 1
      <4>1. aio'[1].todo = aio[1].todo /\ aio'[1].done = aio[1].done - 1
        BY <1>e, <1>9
      <4>2. aio[1].done \in Nat /\ aio[1].done > 0
        BY <1>2, <1>5
      <4> QED BY <3>1, <4>1, <4>2, <1>7
    <3>2. CASE j # 1
      BY <3>2, <1>2, <1>9 DEF IInv, InOrder
    <3> QED BY <3>1, <3>2
  <2>2. ASSUME NEW j \in 1 .. n, NEW k \in 1 .. n, j < k, ~Ended(j)'
        PROVE  Untouched(k)'
    <3>1. aio'[k] = aio[k] /\ ~Ended(j)
      BY <2>2, <1>2, <1>9, <1>10 DEF Ended
    <3>2. Untouched(k)
      BY <3>1, <2>2, <1>2 DEF IInv, InOrder
    <3> QED BY <3>1, <3>2 DEF Untouched
  <2>3. \A j \in 1 .. n : aio'[j].lost \subseteq aio'[j].todo
    BY <1>2, <1>10 DEF IInv, InOrder
  <2> QED BY <1>9, <2>1, <2>2, <2>3 DEF InOrder
<1>18. Sizes'
  <2>1. ASSUME NEW j \in 1 .. n
        PROVE  /\ IsFiniteSet(aio'[j].todo)
               /\ iocbs_sizes'[j + 0] = Cardinality(aio'[j].todo) + aio'[j].done
    <3>0. j + 0 = j
      BY <1>2
    <3>1. CASE j = 1
      <4>1. Cardinality(aio[1].todo) \in Nat /\ aio'[1].done = aio[1].done - 1
        BY <1>e, <1>5, <1>6, <1>9, FS_CardinalityType
      <4> QED BY <3>0, <3>1, <4>1, <1>2, <1>5, <1>6, <1>10, <1>13
    <3>2. CASE j # 1
      BY <3>0, <3>2, <1>6, <1>9, <1>13
    <3> QED BY <3>1, <3>2
  <2>2. Len(iocbs_sizes') = Len(aio') + 0
    BY <1>2, <1>9, <1>13
  <2> QED BY <1>4, <1>9, <2>1, <2>2 DEF Sizes
<1>19. ASSUME NEW p PROVE Left(p)' = Left(p)
  <2>1. DOMAIN aio' = DOMAIN aio
    BY <1>2, <1>9
  <2>2. \A j \in DOMAIN aio : aio'[j].ws = aio[j].ws /\ aio'[j].todo = aio[j].todo
    BY <1>2, <1>10
  <2> QED BY <2>1, <2>2, <1>3, <1>11 DEF Left
<1>20. Bar' = Bar
  BY <1>3, <1>19 DEF Bar
<1>21. LostBar' = LostBar
  BY <1>2, <1>9, <1>10, LostSame
<1> QED BY <1>1, <1>3, <1>4, <1>14, <1>15, <1>16, <1>17, <1>18, <1>20, <1>21 DEF IInv

(* front() brings the oldest original, which is written, to the front.     *)
LEMMA ListenerFrontStep ==
  ASSUME IInv, ListenerFront
  PROVE  IInv' /\ UNCHANGED <<Bar, LostBar, disk, latest>>
<1>1. /\ lpc = "front" /\ lpc' = "pop"
      /\ UNCHANGED <<wpc, stop, current_ws, iocbs_sizes, iocbs_total, aio, disk>>
  BY DEF ListenerFront
<1>2. Popping /\ Popping' /\ Offset' = Offset /\ ~WriterHolds /\ Exclusive'
  BY <1>1 DEF IInv, Popping, Offset, Exclusive, ListenerHolds, WriterHolds
<1>3. wq # << >>
  <2>1. PICK p \in InFlight : IsOldest(p)
    BY <1>2 DEF IInv, Flight
  <2>2. p \in Queued
    BY DEF InFlight, Originals
  <2> QED BY <2>2 DEF Queued
<1>4. Front
  BY <1>3 DEF ListenerFront
<1>5. /\ WCInv' /\ Queued' \subseteq Queued
      /\ \A p \in Queued' : seg'[p] = seg[p]
      /\ Originals' = Originals
      /\ wq' # << >> /\ wq'[1] \in Originals
      /\ UNCHANGED <<alloc, latest>>
  BY <1>3, <1>4, FrontInv DEF IInv
<1>6. \A p : Submitted(p)' <=> Submitted(p)
  BY <1>1 DEF Submitted
<1>7. InFlight' = InFlight
  BY <1>5, <1>6 DEF InFlight
<1>8. TypeOK'
  BY <1>1, <1>5 DEF IInv, TypeOK, WCInv
<1>9. SubmitsQueued' /\ CurrentOldest'
  <2>1. Originals \subseteq Queued'
    BY <1>5 DEF Originals
  <2> QED BY <2>1, <1>1, <1>5 DEF IInv, SubmitsQueued, CurrentOldest
<1>10. Flight'
  BY <1>1, <1>2, <1>5, <1>7 DEF IInv, Flight, IsOldest
<1>11. InOrder' /\ Sizes'
  BY <1>1, <1>2 DEF IInv, InOrder, Untouched, Ended, Sizes
<1>12. \A p \in Originals : Extent(p)' = Extent(p)
  BY <1>5 DEF Originals, Extent
<1>13. Bar' = Bar /\ LostBar' = LostBar
  BY <1>1, <1>5, <1>6, <1>12 DEF Bar, Left, LostBar
<1> QED BY <1>1, <1>2, <1>5, <1>8, <1>9, <1>10, <1>11, <1>13 DEF IInv

(* pop() is WriteBack's Retire.                                            *)
LEMMA ListenerPopStep ==
  ASSUME IInv, ListenerPop
  PROVE  IInv' /\ WB!Next
<1>h. PICK h : h = wq[1]
  OBVIOUS
<1>n. PICK n : n = Len(aio)
  OBVIOUS
<1>1. /\ lpc = "pop" /\ lpc' = "events" /\ Pop
      /\ iocbs_sizes' = Tail(iocbs_sizes)
      /\ iocbs_total' = iocbs_total - 1
      /\ UNCHANGED <<wpc, stop, current_ws, aio, disk>>
  BY DEF ListenerPop
<1>2. Popping /\ ~Popping' /\ Offset = 1 /\ Offset' = 0 /\ ~WriterHolds /\ Exclusive'
  BY <1>1 DEF IInv, Popping, Offset, Exclusive, ListenerHolds, WriterHolds
<1>3. wq # << >> /\ h \in Originals /\ h \in Queued
  BY <1>h, <1>1 DEF IInv, Flight, Originals
<1>4. /\ WCInv' /\ Queued' = Queued \ {h}
      /\ \A p \in Queued' : h < p /\ seg'[p] = seg[p]
      /\ UNCHANGED <<alloc, latest>>
  BY <1>h, <1>1, <1>3, PopInv DEF IInv
<1>5. /\ n \in Nat /\ DOMAIN aio = 1 .. n /\ iocbs_sizes \in Seq(Nat)
      /\ \A p \in Originals : p \in Nat
      /\ alloc \in Nat /\ current_ws \in Nat
  BY <1>n, Requests
<1>6. Originals' = Originals \ {h}
  BY <1>4 DEF Originals
<1>7. IsOldest(h)
  <2> SUFFICES ASSUME NEW q \in Originals PROVE h <= q
    BY DEF IsOldest
  <2>1. CASE q = h
    BY <2>1, <1>5
  <2>2. CASE q # h
    <3>1. q \in Queued'
      BY <2>2, <1>4 DEF Originals
    <3> QED BY <3>1, <1>3, <1>4, <1>5
  <2> QED BY <2>1, <2>2
<1>8. h \in InFlight /\ Submitted(h) /\ \A i \in 1 .. n : aio[i].ws # h
  <2>1. PICK p \in InFlight : IsOldest(p) /\ \A i \in DOMAIN aio : aio[i].ws # p
    BY <1>2 DEF IInv, Flight
  <2>2. p \in Originals /\ p <= h /\ h <= p
    BY <2>1, <1>3, <1>7 DEF InFlight, IsOldest
  <2>3. p = h
    BY <2>2, <1>3, <1>5
  <2> QED BY <2>1, <2>3, <1>5 DEF InFlight
<1>9. \A p : Submitted(p)' <=> Submitted(p)
  BY <1>1 DEF Submitted
<1>10. InFlight' = InFlight \ {h}
  BY <1>6, <1>9 DEF InFlight
<1>11. Len(iocbs_sizes) = n + 1
  BY <1>n, <1>2 DEF IInv, Sizes
<1>12. /\ iocbs_sizes' \in Seq(Nat) /\ Len(iocbs_sizes') = n
       /\ \A j \in 1 .. n : iocbs_sizes'[j] = iocbs_sizes[j + 1]
  <2>1. iocbs_sizes # << >>
    BY <1>5, <1>11
  <2>2. /\ iocbs_sizes' \in Seq(Nat) /\ Len(iocbs_sizes') = Len(iocbs_sizes) - 1
        /\ \A j \in 1 .. Len(iocbs_sizes') : iocbs_sizes'[j] = iocbs_sizes[j + 1]
    BY <2>1, <1>1, <1>5, HeadTailProperties
  <2>3. Len(iocbs_sizes') = n
    BY <2>2, <1>5, <1>11
  <2> QED BY <2>2, <2>3
<1>13. TypeOK'
  <2>1. iocbs_total' \in Int
    BY <1>1 DEF IInv, TypeOK
  <2>2. WCTypeOK'
    BY <1>4 DEF WCInv
  <2> QED BY <1>1, <1>4, <1>12, <2>1, <2>2 DEF IInv, TypeOK
<1>14. SubmitsQueued' /\ CurrentOldest'
  <2>1. wpc' # "submit"
    BY <1>1, <1>2 DEF WriterHolds
  <2>2. current_ws' \in Queued' => current_ws' \in Originals'
    BY <1>1, <1>4, <1>6 DEF IInv, CurrentOldest
  <2>3. current_ws' \notin Queued' => \A q \in Queued' : current_ws' < q
    BY <1>1, <1>4 DEF IInv, CurrentOldest
  <2> QED BY <2>1, <2>2, <2>3 DEF SubmitsQueued, CurrentOldest
<1>15. Flight'
  <2>1. ASSUME NEW p \in InFlight' PROVE \E i \in DOMAIN aio : aio[i].ws = p
    <3>1. p \in InFlight /\ p # h /\ p \in Originals
      BY <2>1, <1>10 DEF InFlight
    <3>2. ~IsOldest(p)
      <4>1. SUFFICES ASSUME IsOldest(p) PROVE FALSE
        OBVIOUS
      <4>2. p <= h /\ h <= p
        BY <4>1, <1>3, <1>7, <3>1 DEF IsOldest
      <4> QED BY <4>2, <3>1, <1>3, <1>5
    <3> QED BY <3>1, <3>2 DEF IInv, Flight
  <2>2. \A i \in DOMAIN aio : aio[i].ws \in InFlight'
    BY <1>5, <1>8, <1>10 DEF IInv, Flight
  <2>3. lpc' # "pop"
    BY <1>1
  <2> QED BY <1>1, <1>2, <2>1, <2>2, <2>3 DEF IInv, Flight
<1>16. InOrder'
  BY <1>1 DEF IInv, InOrder, Untouched, Ended
<1>17. Sizes'
  <2>1. ASSUME NEW j \in 1 .. n
        PROVE  /\ IsFiniteSet(aio[j].todo)
               /\ iocbs_sizes'[j + 0] = Cardinality(aio[j].todo) + aio[j].done
    <3>1. j + 0 = j
      BY <1>5
    <3>2. /\ IsFiniteSet(aio[j].todo)
          /\ iocbs_sizes[j + 1] = Cardinality(aio[j].todo) + aio[j].done
      BY <1>2, <1>5 DEF IInv, Sizes
    <3> QED BY <3>1, <3>2, <1>12
  <2>2. Len(iocbs_sizes') = n + 0
    BY <1>5, <1>12
  <2> QED BY <1>n, <1>1, <1>2, <1>5, <2>1, <2>2 DEF Sizes
<1>18. \A p \in Originals' : Left(p)' = Left(p)
  <2>1. \A p \in Originals' : Extent(p)' = Extent(p)
    BY <1>4 DEF Originals, Extent
  <2> QED BY <2>1, <1>1, <1>9 DEF Left
<1>19. Bar' = [v \in DOMAIN Bar \ {h} |-> Bar[v]]
  BY <1>6, <1>18 DEF Bar
<1>20. WB!Retire(h)
  <2>1. Bar[h] = {}
    BY <1>3, <1>5, <1>8 DEF Bar, Left
  <2>2. \A v \in DOMAIN Bar : h <= v
    BY <1>7 DEF Bar, IsOldest
  <2>3. LostBar' = LostBar
    BY <1>1 DEF LostBar
  <2> QED BY <2>1, <2>2, <2>3, <1>1, <1>4, <1>19 DEF WB!Retire, Bar, LostBar
<1>21. WB!Next
  <2>1. h \in DOMAIN Bar
    BY <1>3 DEF Bar
  <2> QED BY <2>1, <1>20 DEF WB!Next, Bar, LostBar
<1> QED BY <1>2, <1>4, <1>13, <1>14, <1>15, <1>16, <1>17, <1>21 DEF IInv

-----------------------------------------------------------------------------
(* The theorems.                                                           *)

LEMMA NextIInv ==
  ASSUME IInv, [Next]_vars
  PROVE  IInv' /\ (WB!Next \/ UNCHANGED <<Bar, LostBar, disk, latest>>)
<1>1. CASE Reactor
  BY <1>1, ReactorStep
<1>2. CASE \/ MayStop \/ WriterCheck \/ WriterWake \/ WriterSleep \/ WriterFail
           \/ ListenerCheck \/ ListenerWake \/ ListenerSleep \/ ListenerFail
  BY <1>2, LoopSteps
<1>3. CASE WriterNext
  BY <1>3, WriterNextStep
<1>4. CASE WriterSubmit
  BY <1>4, WriterSubmitStep
<1>5. CASE ListenerEvent
  BY <1>5, LastEventStep, CountEventStep
<1>6. CASE ListenerFront
  BY <1>6, ListenerFrontStep
<1>7. CASE ListenerPop
  BY <1>7, ListenerPopStep
<1>8. CASE KernelWrite
  BY <1>8, KernelWriteStep, KernelFailStep DEF KernelWrite
<1>9. CASE UNCHANGED vars
  <2>1. /\ UNCHANGED <<wcvars, current_ws, iocbs_sizes, iocbs_total, aio, disk>>
        /\ UNCHANGED <<wpc, lpc, stop>>
    BY <1>9 DEF vars, aiovars
  <2>2. /\ wpc \in {"check", "wait", "next", "submit", "exit", "failed"}
        /\ lpc \in {"check", "wait", "events", "front", "pop", "exit", "failed"}
        /\ stop \in BOOLEAN /\ Exclusive
    BY DEF IInv, TypeOK
  <2>3. Exclusive'
    BY <2>1, <2>2 DEF Exclusive, WriterHolds, ListenerHolds
  <2> QED BY <2>1, <2>2, <2>3, ControlStep
<1> QED BY <1>1, <1>2, <1>3, <1>4, <1>5, <1>6, <1>7, <1>8, <1>9
        DEF Next, Threads, Writer, Listener

(* The inductive invariant holds in every state the threads, the reactor   *)
(* and an in-order kernel can reach, for any extents and any number of     *)
(* writes.                                                                 *)
THEOREM Inductive == Spec => []IInv
<1>1. Init => IInv
  BY InitIInv
<1>2. IInv /\ [Next]_vars => IInv'
  BY NextIInv
<1> QED BY <1>1, <1>2, PTL DEF Spec

(* Type correctness of the cache and its writer and listener threads.      *)
THEOREM TypeCorrect == Spec => []TypeOK
<1>1. IInv => TypeOK
  BY DEF IInv
<1> QED BY <1>1, Inductive, PTL

(* _front() always finds an original to stop at.                           *)
THEOREM FrontStops == Spec => []LastIsOriginal
<1>1. IInv => LastIsOriginal
  BY DEF IInv, WCInv
<1> QED BY <1>1, Inductive, PTL

(* doWork() builds iocbs only from a segment that is still queued.         *)
THEOREM SubmitsAreQueued == Spec => []SubmitsQueued
<1>1. IInv => SubmitsQueued
  BY DEF IInv
<1> QED BY <1>1, Inductive, PTL

(* doListenerWork() pops only a segment whose blocks are all on disk,      *)
(* although it never looks at which request an event belongs to.           *)
THEOREM PopsOnlyWritten == Spec => []PopsWritten
<1>1. IInv => PopsWritten
  <2> SUFFICES ASSUME IInv, lpc \in {"front", "pop"} PROVE
                 /\ Originals # {}
                 /\ wq[FrontPos] <= current_ws
                 /\ \A i \in DOMAIN aio : aio[i].ws # wq[FrontPos]
    BY DEF PopsWritten
  <2>1. PICK p \in InFlight : IsOldest(p) /\ \A i \in DOMAIN aio : aio[i].ws # p
    BY DEF IInv, Flight, Popping
  <2>2. p \in Originals /\ Submitted(p)
    BY DEF InFlight
  <2>3. wq[FrontPos] \in Originals /\ \A q \in Originals : wq[FrontPos] <= q
    BY <2>2, FrontPosFirst DEF IInv
  <2>4. wq[FrontPos] <= p /\ p <= wq[FrontPos]
    BY <2>1, <2>2, <2>3 DEF IsOldest
  <2>5. \A q \in Originals : q \in Nat
    BY Requests
  <2>6. wq[FrontPos] = p /\ p \in Nat /\ current_ws \in Nat
    BY <2>2, <2>3, <2>4, <2>5, Requests
  <2>7. p <= current_ws
    BY <2>2, <2>6 DEF Submitted
  <2> QED BY <2>1, <2>2, <2>6, <2>7
<1> QED BY <1>1, Inductive, PTL

(* The reactor, the writer, the listener and the kernel together implement *)
(* WriteBack: accepted writes reach the disk in the order of acceptance,   *)
(* past blocks whose write failed, and a write is dropped from the cache   *)
(* only when all of it and of everything before it is there: nothing       *)
(* behind a failed write is dropped.                                       *)
THEOREM Refinement == Spec => ImplementsWriteBack
<1>1. Init => WB!Init
  BY InitIInv
<1>2. IInv /\ [Next]_vars => [WB!Next]_(WB!vars)
  BY NextIInv DEF WB!vars, Bar, LostBar
<1> QED BY <1>1, <1>2, Inductive, PTL DEF Spec, ImplementsWriteBack, WB!Spec

(* What WriteBackProofs proves of WriteBack holds of the implementation.   *)
WBP == INSTANCE WriteBackProofs WITH pending <- Bar, lost <- LostBar

(* Once the cache is empty and unlocked, the disk holds the last accepted  *)
(* write of every block.                                                   *)
THEOREM DrainedToDisk == Spec => []DrainedDisk
<1>1. WBP!Durable /\ IInv => DrainedDisk
  <2> SUFFICES ASSUME WBP!Durable, IInv, wq = << >> PROVE disk = latest
    BY DEF DrainedDisk
  <2>1. Originals = {}
    BY DEF Originals, Queued
  <2>2. DOMAIN Bar = {}
    BY <2>1 DEF Bar
  <2>3. \A b \in Blocks : disk[b] = latest[b]
    BY <2>2 DEF WBP!Durable
  <2>4. disk \in [Blocks -> 0 .. alloc] /\ latest \in [Blocks -> 0 .. alloc]
    BY DEF IInv, TypeOK, WCTypeOK
  <2> QED BY <2>3, <2>4
<1>2. WBP!Spec => []WBP!Durable
  BY WBP!DurableAlways
<1>3. WB!Spec => WBP!Spec
  BY DEF WB!Spec, WBP!Spec, WB!Init, WBP!Init, WB!Next, WBP!Next, WB!vars, WBP!vars,
         WB!Accept, WBP!Accept, WB!Fresh, WBP!Fresh, WB!Land, WBP!Land,
         WB!Retire, WBP!Retire, WB!Lose, WBP!Lose, WB!IsNext, WBP!IsNext,
         WB!Waits, WBP!Waits, Bar, LostBar
<1> QED BY <1>1, <1>2, <1>3, Inductive, Refinement, PTL DEF ImplementsWriteBack
-----------------------------------------------------------------------------
(* The counters.  The sum of a sequence of sizes is the number of its      *)
(* units, and the entries change one at a time.                            *)
LEMMA UnitsFinite ==
  ASSUME NEW n \in Seq(Nat)
  PROVE  IsFiniteSet(Units(n)) /\ Cardinality(Units(n)) \in Nat
<1>1. DOMAIN n = 1 .. Len(n) /\ Len(n) \in Nat /\ IOCB_MAX \in Nat
  BY IocbMaxAssumption
<1>2. IsFiniteSet(1 .. Len(n)) /\ IsFiniteSet(1 .. IOCB_MAX)
  BY <1>1, FS_Interval
<1>3. IsFiniteSet((DOMAIN n) \X (1 .. IOCB_MAX))
  BY <1>1, <1>2, FS_Product
<1>4. Units(n) \in SUBSET ((DOMAIN n) \X (1 .. IOCB_MAX))
  BY DEF Units
<1>5. IsFiniteSet(Units(n))
  BY <1>3, <1>4, FS_Subset
<1> QED BY <1>5, FS_CardinalityType

LEMMA UnitsAppend ==
  ASSUME NEW n \in Seq(Nat), NEW x \in Nat, x <= IOCB_MAX
  PROVE  Cardinality(Units(Append(n, x))) = Cardinality(Units(n)) + x
<1> DEFINE m == Append(n, x)
           k == Len(n) + 1
           New == {k} \X (1 .. x)
<1>1. /\ DOMAIN n = 1 .. Len(n) /\ Len(n) \in Nat /\ IOCB_MAX \in Nat
      /\ DOMAIN m = 1 .. k /\ m[k] = x /\ k \in Nat
      /\ \A i \in 1 .. Len(n) : m[i] = n[i]
  BY IocbMaxAssumption
<1> HIDE DEF m, k
<1>2. \A i : i \in DOMAIN m <=> i \in DOMAIN n \/ i = k
  BY <1>1 DEF k
<1>3. k \notin DOMAIN n
  BY <1>1 DEF k
<1>4. \A u \in 1 .. IOCB_MAX : u <= x <=> u \in 1 .. x
  BY <1>1
<1>5. \A u \in 1 .. x : u \in 1 .. IOCB_MAX
  BY <1>1
<1>6. Units(m) = Units(n) \cup New
  <2>1. \A i \in DOMAIN n : m[i] = n[i]
    BY <1>1
  <2>2. ASSUME NEW u \in Units(m) PROVE u \in Units(n) \cup New
    <3>1. /\ u \in (DOMAIN m) \X (1 .. IOCB_MAX) /\ u = <<u[1], u[2]>>
          /\ u[1] \in DOMAIN m /\ u[2] \in 1 .. IOCB_MAX /\ u[2] <= m[u[1]]
      BY DEF Units
    <3>2. CASE u[1] \in DOMAIN n
      <4>1. u \in (DOMAIN n) \X (1 .. IOCB_MAX) /\ u[2] <= n[u[1]]
        BY <3>1, <3>2, <2>1
      <4> QED BY <4>1 DEF Units
    <3>3. CASE u[1] = k
      <4>1. u[2] \in 1 .. x
        BY <3>1, <3>3, <1>1, <1>4
      <4> QED BY <3>1, <3>3, <4>1
    <3> QED BY <3>1, <3>2, <3>3, <1>2
  <2>3. ASSUME NEW u \in Units(n) PROVE u \in Units(m)
    <3>1. u \in (DOMAIN n) \X (1 .. IOCB_MAX) /\ u[1] \in DOMAIN n /\ u[2] <= n[u[1]]
      BY DEF Units
    <3>2. u \in (DOMAIN m) \X (1 .. IOCB_MAX) /\ u[2] <= m[u[1]]
      BY <3>1, <2>1, <1>2
    <3> QED BY <3>2 DEF Units
  <2>4. ASSUME NEW u \in New PROVE u \in Units(m)
    <3>1. u[1] = k /\ u[2] \in 1 .. x /\ u = <<u[1], u[2]>>
      OBVIOUS
    <3>2. u \in (DOMAIN m) \X (1 .. IOCB_MAX) /\ u[2] <= m[u[1]]
      BY <3>1, <1>1, <1>2, <1>5
    <3> QED BY <3>2 DEF Units
  <2> QED BY <2>2, <2>3, <2>4
<1>7. Units(n) \cap New = {}
  BY <1>3 DEF Units
<1>8. IsFiniteSet(New) /\ Cardinality(New) = x
  <2>1. IsFiniteSet(1 .. x) /\ Cardinality(1 .. x) = x
    BY FS_Interval
  <2>2. IsFiniteSet({k}) /\ Cardinality({k}) = 1
    BY FS_Singleton
  <2>3. IsFiniteSet(New) /\ Cardinality(New) = Cardinality({k}) * Cardinality(1 .. x)
    BY <2>1, <2>2, FS_Product
  <2> QED BY <2>1, <2>2, <2>3
<1> HIDE DEF New
<1>9. Cardinality(Units(n) \cup New)
        = Cardinality(Units(n)) + Cardinality(New) - Cardinality(Units(n) \cap New)
  BY <1>8, UnitsFinite, FS_Union
<1>10. Cardinality(Units(n) \cap New) = 0
  BY <1>7, FS_EmptySet
<1> QED BY <1>6, <1>8, <1>9, <1>10, UnitsFinite DEF m

LEMMA UnitsCountDown ==
  ASSUME NEW n \in Seq(Nat), n # << >>, n[1] \in 1 .. IOCB_MAX,
         NEW m, m = [n EXCEPT ![1] = @ - 1]
  PROVE  Cardinality(Units(m)) = Cardinality(Units(n)) - 1
<1> DEFINE x == n[1]
<1>1. DOMAIN n = 1 .. Len(n) /\ Len(n) \in Nat /\ 1 \in DOMAIN n /\ IOCB_MAX \in Nat
  BY IocbMaxAssumption
<1>2. DOMAIN m = DOMAIN n /\ m[1] = x - 1 /\ \A i \in DOMAIN n : i # 1 => m[i] = n[i]
  BY <1>1
<1>3. \A u \in 1 .. IOCB_MAX : u <= x - 1 <=> u <= x /\ u # x
  BY <1>1
<1> HIDE DEF x
<1>4. Units(m) = Units(n) \ {<<1, x>>}
  <2>1. \A u \in Units(m) : u \in Units(n) /\ u # <<1, x>>
    BY <1>1, <1>2, <1>3 DEF Units, x
  <2>2. \A u \in Units(n) : u # <<1, x>> => u \in Units(m)
    BY <1>1, <1>2, <1>3 DEF Units, x
  <2> QED BY <2>1, <2>2
<1>5. <<1, x>> \in Units(n)
  BY <1>1 DEF Units, x
<1> QED BY <1>4, <1>5, UnitsFinite, FS_RemoveElement

(* An entry that is down to zero counts nothing.                           *)
LEMMA UnitsShift ==
  ASSUME NEW n \in Seq(Nat), NEW m \in Seq(Nat), Len(n) = Len(m) + 1, n[1] = 0,
         \A i \in DOMAIN m : n[i + 1] = m[i]
  PROVE  Cardinality(Units(n)) = Cardinality(Units(m))
<1> DEFINE f == [u \in Units(n) |-> <<u[1] - 1, u[2]>>]
<1>1. /\ DOMAIN n = 1 .. (Len(m) + 1) /\ DOMAIN m = 1 .. Len(m) /\ Len(m) \in Nat
      /\ IOCB_MAX \in Nat
  BY IocbMaxAssumption
<1>2. ASSUME NEW u \in Units(n)
      PROVE  u = <<u[1], u[2]>> /\ u[1] \in Nat /\ u[1] - 1 \in DOMAIN m /\ n[u[1]] = m[u[1] - 1]
             /\ u[2] \in 1 .. IOCB_MAX /\ u[2] <= n[u[1]]
  <2>1. /\ u = <<u[1], u[2]>> /\ u[1] \in DOMAIN n
        /\ u[2] \in 1 .. IOCB_MAX /\ u[2] <= n[u[1]]
    BY DEF Units
  <2>2. u[1] # 1
    BY <2>1, <1>1
  <2>3. u[1] - 1 \in DOMAIN m /\ (u[1] - 1) + 1 = u[1]
    BY <2>1, <2>2, <1>1
  <2>4. n[(u[1] - 1) + 1] = m[u[1] - 1]
    BY <2>3
  <2> QED BY <2>1, <2>3, <2>4, <1>1
<1>3. f \in [Units(n) -> Units(m)]
  BY <1>2 DEF Units
<1>4. \A u, v \in Units(n) : f[u] = f[v] => u = v
  <2> SUFFICES ASSUME NEW u \in Units(n), NEW v \in Units(n), f[u] = f[v] PROVE u = v
    BY Zenon
  <2>1. u[1] - 1 = v[1] - 1 /\ u[2] = v[2]
    OBVIOUS
  <2>2. u[1] \in Nat /\ v[1] \in Nat /\ u = <<u[1], u[2]>> /\ v = <<v[1], v[2]>>
    BY <1>2
  <2>3. u[1] = v[1]
    BY <2>1, <2>2
  <2> QED BY <2>1, <2>2, <2>3
<1>5. ASSUME NEW t \in Units(m) PROVE \E u \in Units(n) : f[u] = t
  <2>1. /\ t = <<t[1], t[2]>> /\ t[1] \in DOMAIN m
        /\ t[2] \in 1 .. IOCB_MAX /\ t[2] <= m[t[1]]
    BY DEF Units
  <2>2. t[1] + 1 \in DOMAIN n /\ n[t[1] + 1] = m[t[1]] /\ (t[1] + 1) - 1 = t[1]
    BY <2>1, <1>1
  <2>3. <<t[1] + 1, t[2]>> \in Units(n)
    BY <2>1, <2>2 DEF Units
  <2>4. f[<<t[1] + 1, t[2]>>] = <<(t[1] + 1) - 1, t[2]>>
    BY <2>3
  <2> QED BY <2>1, <2>2, <2>3, <2>4
<1> HIDE DEF f
<1>6. f \in Bijection(Units(n), Units(m))
  BY <1>3, <1>4, <1>5, Fun_IsBij
<1>7. ExistsBijection(Units(n), Units(m))
  BY <1>6 DEF ExistsBijection
<1> QED BY <1>7, UnitsFinite, FS_Bijection

(* The counters are inductive with what the writer saw before it submits,  *)
(* and with the entry that the listener is about to remove.                *)
AInv ==
  /\ \A i \in DOMAIN iocbs_sizes : iocbs_sizes[i] <= IOCB_MAX
  /\ Popping => iocbs_sizes[1] = 0
  /\ iocbs_total = Cardinality(Units(iocbs_sizes)) + Offset
  /\ iocbs_total <= 2 * (IOCB_MAX - 1)
  /\ wpc = "submit" => iocbs_total < IOCB_MAX

LEMMA InitAInv == Init => AInv
<1> SUFFICES ASSUME Init PROVE AInv
  OBVIOUS
<1>1. iocbs_sizes = << >> /\ iocbs_total = 0 /\ lpc = "check" /\ wpc = "check"
  BY DEF Init
<1>2. DOMAIN iocbs_sizes = {} /\ ~Popping /\ Offset = 0
  BY <1>1 DEF Popping, Offset
<1>3. Units(iocbs_sizes) = {}
  BY <1>2 DEF Units
<1>4. Cardinality(Units(iocbs_sizes)) = 0
  BY <1>3, FS_EmptySet
<1> QED BY <1>1, <1>2, <1>4, IocbMaxAssumption DEF AInv

LEMMA NextAInv ==
  ASSUME IInv, AInv, [Next]_vars, IInv'
  PROVE  AInv'
<1>1. /\ IOCB_MAX \in Nat \ {0} /\ iocbs_total \in Int
      /\ iocbs_sizes \in Seq(Nat) /\ Len(iocbs_sizes) \in Nat
      /\ DOMAIN iocbs_sizes = 1 .. Len(iocbs_sizes)
      /\ Exclusive
  BY IocbMaxAssumption DEF IInv, TypeOK
<1>2. ASSUME UNCHANGED <<iocbs_sizes, iocbs_total>>, Popping' <=> Popping,
             wpc' = "submit" => wpc = "submit" \/ iocbs_total < IOCB_MAX
      PROVE  AInv'
  BY <1>2 DEF AInv, Offset
<1>3. CASE WriterSubmit
  <2> DEFINE x == seg[current_ws].len
  <2>1. /\ iocbs_sizes' = Append(iocbs_sizes, x) /\ iocbs_total' = iocbs_total + x
        /\ wpc = "submit" /\ wpc' = "next" /\ lpc' = lpc /\ x < IOCB_MAX
    BY <1>3 DEF WriterSubmit
  <2>2. x \in Nat
    <3>1. current_ws \in Queued
      BY <2>1 DEF IInv, SubmitsQueued, Originals
    <3> QED BY <3>1 DEF IInv, TypeOK, WCTypeOK, Segment
  <2> HIDE DEF x
  <2>3. ~Popping /\ ~Popping' /\ Offset = 0 /\ Offset' = 0
    BY <1>1, <2>1 DEF Exclusive, WriterHolds, ListenerHolds, Popping, Offset
  <2>4. \A i \in DOMAIN iocbs_sizes' : iocbs_sizes'[i] <= IOCB_MAX
    <3>1. /\ DOMAIN iocbs_sizes' = 1 .. (Len(iocbs_sizes) + 1)
          /\ iocbs_sizes'[Len(iocbs_sizes) + 1] = x
          /\ \A i \in 1 .. Len(iocbs_sizes) : iocbs_sizes'[i] = iocbs_sizes[i]
      BY <1>1, <2>1, <2>2
    <3>2. \A i \in 1 .. (Len(iocbs_sizes) + 1) :
            i = Len(iocbs_sizes) + 1 \/ i \in 1 .. Len(iocbs_sizes)
      BY <1>1
    <3> QED BY <3>1, <3>2, <1>1, <2>1, <2>2 DEF AInv
  <2>5. Cardinality(Units(iocbs_sizes')) = Cardinality(Units(iocbs_sizes)) + x
    BY <1>1, <2>1, <2>2, UnitsAppend
  <2>6. iocbs_total < IOCB_MAX /\ iocbs_total = Cardinality(Units(iocbs_sizes))
    BY <2>1, <2>3, <1>1, UnitsFinite DEF AInv
  <2>7. iocbs_total' <= 2 * (IOCB_MAX - 1)
    BY <2>1, <2>2, <2>6, <1>1
  <2>8. iocbs_total' = Cardinality(Units(iocbs_sizes')) + 0
    BY <2>1, <2>2, <2>5, <2>6, <1>1
  <2>9. Units(iocbs_sizes)' = Units(iocbs_sizes')
    BY DEF Units
  <2> QED BY <2>1, <2>3, <2>4, <2>7, <2>8, <2>9 DEF AInv
<1>4. CASE ListenerEvent
  <2>1. /\ lpc = "events" /\ iocbs_sizes # << >>
        /\ iocbs_sizes' = [iocbs_sizes EXCEPT ![1] = @ - 1]
        /\ IF iocbs_sizes[1] = 1
           THEN lpc' = "front" /\ UNCHANGED iocbs_total
           ELSE lpc' = "events" /\ iocbs_total' = iocbs_total - 1
        /\ wpc' = wpc
    BY <1>4 DEF ListenerEvent
  <2>2. wpc # "submit" /\ Offset = 0
    BY <1>1, <2>1 DEF Exclusive, WriterHolds, ListenerHolds, Offset, Popping
  <2>3. 1 \in DOMAIN iocbs_sizes /\ iocbs_sizes[1] \in Nat
    BY <1>1, <2>1
  <2>4. /\ DOMAIN iocbs_sizes' = DOMAIN iocbs_sizes
        /\ iocbs_sizes'[1] = iocbs_sizes[1] - 1
        /\ \A i \in DOMAIN iocbs_sizes : i # 1 => iocbs_sizes'[i] = iocbs_sizes[i]
    BY <2>1, <2>3
  <2>5. iocbs_sizes'[1] \in Nat
    BY <2>3, <2>4 DEF IInv, TypeOK
  <2>6. iocbs_sizes[1] \in 1 .. IOCB_MAX
    BY <2>3, <2>4, <2>5, <1>1 DEF AInv
  <2>7. Cardinality(Units(iocbs_sizes')) = Cardinality(Units(iocbs_sizes)) - 1
    BY <2>1, <2>6, <1>1, UnitsCountDown
  <2>8. \A i \in DOMAIN iocbs_sizes' : iocbs_sizes'[i] <= IOCB_MAX
    BY <2>3, <2>4, <2>6, <1>1 DEF AInv
  <2>9. Offset' = (IF iocbs_sizes[1] = 1 THEN 1 ELSE 0) /\ (Popping' <=> iocbs_sizes[1] = 1)
    BY <2>1 DEF Offset, Popping
  <2>10. /\ iocbs_total = Cardinality(Units(iocbs_sizes)) + 0
         /\ iocbs_total <= 2 * (IOCB_MAX - 1)
         /\ Cardinality(Units(iocbs_sizes)) \in Nat
    BY <2>2, <1>1, UnitsFinite DEF AInv
  <2>11. iocbs_total' = Cardinality(Units(iocbs_sizes')) + Offset'
    BY <2>1, <2>7, <2>9, <2>10
  <2>12. iocbs_total' <= 2 * (IOCB_MAX - 1)
    BY <2>1, <2>10, <1>1
  <2>13. Units(iocbs_sizes)' = Units(iocbs_sizes')
    BY DEF Units
  <2>14. Popping' => iocbs_sizes'[1] = 0
    BY <2>4, <2>9
  <2> QED BY <2>1, <2>2, <2>8, <2>11, <2>12, <2>13, <2>14 DEF AInv
<1>5. CASE ListenerPop
  <2>1. /\ lpc = "pop" /\ lpc' = "events" /\ wpc' = wpc
        /\ iocbs_sizes' = Tail(iocbs_sizes) /\ iocbs_total' = iocbs_total - 1
    BY <1>5 DEF ListenerPop
  <2>2. Popping /\ Offset = 1 /\ ~Popping' /\ Offset' = 0 /\ wpc # "submit"
    BY <1>1, <2>1 DEF Popping, Offset, Exclusive, WriterHolds, ListenerHolds
  <2>3. Len(iocbs_sizes) >= 1 /\ iocbs_sizes[1] = 0
    <3>1. aio \in Seq([ws : 1 .. alloc, todo : SUBSET Blocks, lost : SUBSET Blocks, done : Nat])
      BY DEF IInv, TypeOK
    <3>2. Len(aio) \in Nat /\ Len(iocbs_sizes) = Len(aio) + 1
      BY <2>2, <3>1 DEF IInv, Sizes
    <3> QED BY <3>2, <2>2 DEF AInv
  <2>4. /\ iocbs_sizes' \in Seq(Nat) /\ Len(iocbs_sizes) = Len(iocbs_sizes') + 1
        /\ \A i \in DOMAIN iocbs_sizes' : iocbs_sizes[i + 1] = iocbs_sizes'[i]
                                         /\ i + 1 \in DOMAIN iocbs_sizes
    BY <1>1, <2>1, <2>3
  <2>5. Cardinality(Units(iocbs_sizes)) = Cardinality(Units(iocbs_sizes'))
    BY <1>1, <2>3, <2>4, UnitsShift
  <2>6. \A i \in DOMAIN iocbs_sizes' : iocbs_sizes'[i] <= IOCB_MAX
    BY <2>4 DEF AInv
  <2>7. /\ iocbs_total = Cardinality(Units(iocbs_sizes)) + 1
        /\ iocbs_total <= 2 * (IOCB_MAX - 1)
        /\ Cardinality(Units(iocbs_sizes)) \in Nat
    BY <2>2, <1>1, UnitsFinite DEF AInv
  <2>8. iocbs_total' = Cardinality(Units(iocbs_sizes')) + 0 /\ iocbs_total' <= 2 * (IOCB_MAX - 1)
    BY <2>1, <2>5, <2>7, <1>1
  <2>9. Units(iocbs_sizes)' = Units(iocbs_sizes')
    BY DEF Units
  <2> QED BY <2>1, <2>2, <2>6, <2>8, <2>9 DEF AInv
<1>6. CASE \/ MayStop \/ WriterCheck \/ WriterWake \/ WriterSleep \/ WriterFail
           \/ ListenerCheck \/ ListenerWake \/ ListenerSleep \/ ListenerFail
  BY <1>2, <1>6
     DEF MayStop, WriterCheck, WriterWake, WriterSleep, WriterFail, ListenerCheck,
         ListenerWake, ListenerSleep, ListenerFail, Popping
<1>7. CASE Reactor \/ UNCHANGED vars
  BY <1>2, <1>7 DEF Reactor, aiovars, vars, Popping
<1>8. CASE WriterNext
  BY <1>2, <1>8 DEF WriterNext, Popping
<1>9. CASE ListenerFront
  BY <1>2, <1>9 DEF ListenerFront, Popping
<1>10. CASE KernelWrite
  BY <1>2, <1>10 DEF KernelWrite, KernelWriteOf, KernelFailOf, Popping
<1> QED BY <1>3, <1>4, <1>5, <1>6, <1>7, <1>8, <1>9, <1>10
        DEF Next, Threads, Writer, Listener

(* iocbs_total counts, at any time, the requests whose events the listener *)
(* has still to collect, by iocbs_sizes and by what the kernel has alike,  *)
(* and never exceeds its counter's limit, for every IOCB_MAX.              *)
THEOREM AccountingAlways == Spec => []Accounting
<1> DEFINE outstanding == [i \in DOMAIN aio |-> Cardinality(aio[i].todo) + aio[i].done]
<1>1. IInv /\ AInv => Accounting
  <2> SUFFICES ASSUME IInv, AInv
               PROVE  /\ iocbs_total = Cardinality(Units(iocbs_sizes)) + Offset
                      /\ iocbs_total = Cardinality(Units(outstanding)) + Offset
                      /\ iocbs_total <= 2 * (IOCB_MAX - 1)
    BY DEF Accounting, Offset, Popping
  <2>1. /\ iocbs_sizes \in Seq(Nat) /\ DOMAIN iocbs_sizes = 1 .. Len(iocbs_sizes)
        /\ aio \in Seq([ws : 1 .. alloc, todo : SUBSET Blocks, lost : SUBSET Blocks, done : Nat])
        /\ DOMAIN aio = 1 .. Len(aio) /\ Len(aio) \in Nat
        /\ Len(iocbs_sizes) = Len(aio) + Offset
    BY DEF IInv, TypeOK, Sizes
  <2>2. \A i \in DOMAIN aio : /\ Cardinality(aio[i].todo) + aio[i].done \in Nat
                              /\ iocbs_sizes[i + Offset] = outstanding[i]
    <3> TAKE i \in DOMAIN aio
    <3>1. /\ IsFiniteSet(aio[i].todo)
          /\ iocbs_sizes[i + Offset] = Cardinality(aio[i].todo) + aio[i].done
      BY DEF IInv, Sizes
    <3>3. aio[i].done \in Nat
      BY Requests
    <3>2. Cardinality(aio[i].todo) \in Nat
      BY <3>1, FS_CardinalityType
    <3> QED BY <3>1, <3>2, <3>3
  <2>3. outstanding \in Seq(Nat) /\ DOMAIN outstanding = DOMAIN aio /\ Len(outstanding) = Len(aio)
    BY <2>1, <2>2
  <2> HIDE DEF outstanding
  <2>4. Cardinality(Units(iocbs_sizes)) = Cardinality(Units(outstanding))
    <3>1. CASE Popping
      <4>1. Offset = 1 /\ iocbs_sizes[1] = 0
        BY <3>1 DEF Offset, AInv
      <4> QED BY <4>1, <2>1, <2>2, <2>3, UnitsShift
    <3>2. CASE ~Popping
      <4>1. Offset = 0
        BY <3>2 DEF Offset
      <4>2. Len(iocbs_sizes) = Len(outstanding)
            /\ \A i \in 1 .. Len(iocbs_sizes) : iocbs_sizes[i] = outstanding[i]
        <5>1. \A i \in DOMAIN aio : iocbs_sizes[i + 0] = outstanding[i]
          BY <4>1, <2>2
        <5>2. Len(iocbs_sizes) = Len(aio)
          BY <4>1, <2>1
        <5>3. \A i \in DOMAIN aio : i + 0 = i
          BY <2>1
        <5>4. \A i \in DOMAIN aio : iocbs_sizes[i] = outstanding[i]
          BY <5>1, <5>3, Zenon
        <5> QED BY <5>2, <5>4, <2>1, <2>3
      <4>3. iocbs_sizes = outstanding
        BY <4>2, <2>1, <2>3, SeqEqual
      <4> QED BY <4>3
    <3> QED BY <3>1, <3>2
  <2> QED BY <2>4 DEF AInv
<1>2. Init => IInv /\ AInv
  BY InitIInv, InitAInv
<1>3. IInv /\ AInv /\ [Next]_vars => (IInv /\ AInv)'
  BY NextIInv, NextAInv
<1> QED BY <1>1, <1>2, <1>3, PTL DEF Spec
-----------------------------------------------------------------------------
(* The cache.  What the threads do to it is push() of the reactor, or      *)
(* front(), pop() and getNext(), which drop segments from the front.       *)
LEMMA StepsCache ==
  ASSUME IInv, [Next]_vars
  PROVE  CacheStep
<1>1. CASE Reactor
  BY <1>1 DEF Reactor, CacheStep
<1>2. ASSUME UNCHANGED wcvars PROVE CacheStep
  BY <1>2 DEF CacheStep
<1>3. CASE \/ MayStop \/ WriterCheck \/ WriterWake \/ WriterSleep \/ WriterFail
           \/ ListenerCheck \/ ListenerWake \/ ListenerSleep \/ ListenerFail
  BY <1>2, <1>3 DEF MayStop, WriterCheck, WriterWake, WriterSleep, WriterFail,
                    ListenerCheck, ListenerWake, ListenerSleep, ListenerFail
<1>4. CASE WriterSubmit \/ ListenerEvent
  BY <1>2, <1>4 DEF WriterSubmit, ListenerEvent
<1>5. CASE KernelWrite
  BY <1>2, <1>5 DEF KernelWrite, KernelWriteOf, KernelFailOf
<1>6. CASE WriterNext
  <2>1. /\ GetNextPos(current_ws) # 0
        /\ IF current_ws \notin Queued THEN Front ELSE UNCHANGED wcvars
    BY <1>6 DEF WriterNext, GetNext
  <2>2. wq # << >>
    <3>1. current_ws' \in Originals
      BY <1>6, NextEffect
    <3> QED BY <3>1 DEF Originals, Queued
  <2> QED BY <2>1, <2>2, <1>2, FrontDrops DEF IInv
<1>7. CASE ListenerFront
  BY <1>2, <1>7, FrontDrops DEF ListenerFront, IInv
<1>8. CASE ListenerPop
  BY <1>8, PopDrops DEF ListenerPop, IInv
<1>9. CASE UNCHANGED vars
  BY <1>2, <1>9 DEF vars
<1> QED BY <1>1, <1>3, <1>4, <1>5, <1>6, <1>7, <1>8, <1>9
        DEF Next, Threads, Writer, Listener

(* The three indices of the container hold the same segments, each once,   *)
(* after every push, front and pop, whatever push() splits and wherever an *)
(* index that has lost its order puts a new segment.                       *)
THEOREM IndicesAlwaysAgree == Spec => []IndicesAgree
<1>1. Init => IInv /\ Index
  BY InitIInv, WCInitIndex DEF Init
<1>2. IInv /\ Index /\ [Next]_vars => (IInv /\ Index)'
  BY NextIInv, StepsCache, IndexStep DEF IInv
<1>3. IInv /\ Index => IndicesAgree
  BY IndexAgrees DEF IInv
<1> QED BY <1>1, <1>2, <1>3, PTL DEF Spec

(* When no write has more than one boundary of writes inside it, by_lba    *)
(* stays sorted although push() moves its keys in place.                   *)
THEOREM StaysCoherent == ASSUME OneInside PROVE Spec => [](IInv /\ Index /\ CInv)
<1>1. Init => IInv /\ Index /\ CInv
  BY InitIInv, WCInitIndex, WCInitCoheres DEF Init
<1>2. IInv /\ Index /\ CInv /\ [Next]_vars => (IInv /\ Index /\ CInv)'
  BY NextIInv, StepsCache, IndexStep, CoherenceStep DEF IInv
<1> QED BY <1>1, <1>2, PTL DEF Spec

(* push() never reaches its "never reach here": every segment that         *)
(* _search() gave it overlaps the write until it is trimmed.               *)
THEOREM HitsAlwaysOverlap == ASSUME OneInside PROVE Spec => []HitsOverlap
<1>1. IInv /\ Index /\ CInv => HitsOverlap
  BY CoherentHits DEF IInv
<1> QED BY <1>1, StaysCoherent, PTL

(* At most one segment answers for a block.                                *)
THEOREM OneOwnerAlways == ASSUME OneInside PROVE Spec => []OneOwner
<1>1. IInv /\ Index /\ CInv => OneOwner
  BY CoherentOwner
<1> QED BY <1>1, StaysCoherent, PTL

(* search() finds every live segment that overlaps the range.              *)
THEOREM SearchAlwaysComplete == ASSUME OneInside PROVE Spec => []SearchComplete
<1>1. IInv /\ Index /\ CInv => SearchComplete
  BY CoherentSearch DEF IInv
<1> QED BY <1>1, StaysCoherent, PTL

(* A READ returns the last accepted write of a block wherever its data is: *)
(* in the cache, in the kernel or, once the segment has been popped, on    *)
(* disk.                                                                   *)
THEOREM ReadsCoherent == ASSUME OneInside PROVE Spec => []Coherent
<1>1. WBP!Durable /\ IInv /\ Index /\ CInv => Coherent
  <2> SUFFICES ASSUME WBP!Durable, IInv, Index, CInv, Unlocked, NEW b \in Blocks
               PROVE  ReadBlock(disk, b) = {latest[b]}
    BY DEF Coherent
  <2>1. latest[b] \notin Queued => disk[b] = latest[b]
    <3>1. disk[b] # latest[b] => latest[b] \in DOMAIN Bar
      BY DEF WBP!Durable
    <3> QED BY <3>1 DEF Bar, Originals
  <2> QED BY <2>1, ReadsLatest DEF IInv
<1>2. WBP!Spec => []WBP!Durable
  BY WBP!DurableAlways
<1>3. WB!Spec => WBP!Spec
  BY DEF WB!Spec, WBP!Spec, WB!Init, WBP!Init, WB!Next, WBP!Next, WB!vars, WBP!vars,
         WB!Accept, WBP!Accept, WB!Fresh, WBP!Fresh, WB!Land, WBP!Land,
         WB!Retire, WBP!Retire, WB!Lose, WBP!Lose, WB!IsNext, WBP!IsNext,
         WB!Waits, WBP!Waits, Bar, LostBar
<1> QED BY <1>1, <1>2, <1>3, StaysCoherent, Refinement, PTL DEF ImplementsWriteBack
=============================================================================
