--------------------------- MODULE WriteBackProofs ---------------------------
(***************************************************************************)
(* Proofs about WriteBack: a volume with no pending write holds, in every  *)
(* block, the last write accepted for it.                                  *)
(***************************************************************************)
EXTENDS WriteBack, TLAPS

Inv == TypeOK /\ Durable

LEMMA InitInv == Init => Inv
  BY DEF Init, Inv, TypeOK, Durable, Waits

LEMMA AcceptInv ==
  ASSUME Inv, NEW R \in SUBSET Blocks, NEW w, Accept(w, R)
  PROVE  Inv'
<1> USE DEF Inv, Accept, Fresh, Waits
<1>1. DOMAIN pending' = DOMAIN pending \cup {w}
  OBVIOUS
<1>2. TypeOK'
  BY <1>1 DEF TypeOK
<1>3. Durable'
  BY <1>1 DEF TypeOK, Durable
<1> QED BY <1>2, <1>3

LEMMA LandInv ==
  ASSUME Inv, NEW w \in DOMAIN pending, NEW b \in Blocks, Land(w, b)
  PROVE  Inv'
<1> USE DEF Inv, Land, IsNext, Waits
<1>1. TypeOK'
  BY DEF TypeOK
<1>2. ASSUME NEW c \in Blocks, disk'[c] # latest'[c]
      PROVE  latest'[c] \in DOMAIN pending' /\ c \in pending'[latest'[c]]
  BY <1>2 DEF TypeOK, Durable
<1>3. ASSUME NEW c \in Blocks, NEW v \in DOMAIN pending', c \in Waits(v)'
      PROVE  v <= latest'[c] /\ latest'[c] \in DOMAIN pending' /\ c \in pending'[latest'[c]]
  BY <1>3 DEF TypeOK, Durable
<1> QED BY <1>1, <1>2, <1>3 DEF Durable

LEMMA LoseInv ==
  ASSUME Inv, NEW w \in DOMAIN pending, NEW b \in Blocks, Lose(w, b)
  PROVE  Inv'
<1> USE DEF Inv, Lose, Waits
<1>1. TypeOK'
  BY DEF TypeOK
<1>2. Durable'
  BY DEF Durable
<1> QED BY <1>1, <1>2

LEMMA RetireInv ==
  ASSUME Inv, NEW w \in DOMAIN pending, Retire(w)
  PROVE  Inv'
<1> USE DEF Inv, Retire, Waits
<1>1. DOMAIN pending' = DOMAIN pending \ {w}
  OBVIOUS
<1>2. TypeOK'
  BY <1>1 DEF TypeOK
<1>3. Durable'
  BY <1>1 DEF TypeOK, Durable
<1> QED BY <1>2, <1>3

(* Accepted writes are never lost on their way to disk: at any moment a    *)
(* block that differs from its last accepted write is still pending in     *)
(* that write, with nothing to be written behind it (the promise of WriteCache::push and *)
(* of DiskWriter::doWork that the FIFO order of the queue keeps).          *)
THEOREM DurableAlways == Spec => []Durable
<1>1. Init => Inv
  BY InitInv
<1>2. Inv /\ [Next]_vars => Inv'
  <2> SUFFICES ASSUME Inv, [Next]_vars PROVE Inv'
    OBVIOUS
  <2>1. CASE \E R \in SUBSET Blocks, w \in DOMAIN pending' : Accept(w, R)
    BY <2>1, AcceptInv
  <2>2. CASE \E w \in DOMAIN pending : Retire(w)
    BY <2>2, RetireInv
  <2>3. CASE \E w \in DOMAIN pending : \E b \in Blocks : Land(w, b)
    BY <2>3, LandInv
  <2>4. CASE \E w \in DOMAIN pending : \E b \in Blocks : Lose(w, b)
    BY <2>4, LoseInv
  <2>5. CASE UNCHANGED vars
    BY <2>5 DEF Inv, TypeOK, Durable, Waits, vars
  <2> QED BY <2>1, <2>2, <2>3, <2>4, <2>5 DEF Next
<1>3. Inv => Durable
  BY DEF Inv
<1> QED BY <1>1, <1>2, <1>3, PTL DEF Spec
=============================================================================
