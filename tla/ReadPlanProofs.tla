--------------------------- MODULE ReadPlanProofs ---------------------------
(***************************************************************************)
(* Proofs about READ(10), for a volume of any size, any cache of disjoint  *)
(* segments and any MaxRecvDataSegmentLength.  The first part is about     *)
(* sums and concatenations of sequences: each is a recursive function, and *)
(* an induction is an argument about the least place where it would fail.  *)
(***************************************************************************)
EXTENDS ReadPlan, TLAPS, WellFoundedInduction, SequenceTheorems

LEMMA Least ==
  ASSUME NEW S \in SUBSET Nat, S # {}
  PROVE  \E m \in S : \A x \in S : m <= x
<1> DEFINE Below == {pair \in Nat \X Nat : pair[1] < pair[2]}
<1>1. IsWellFoundedOn(Below, Nat)
  BY NatLessThanWellFounded DEF OpToRel
<1>2. PICK m \in S : \A x \in S : ~ (<<x, m>> \in Below)
  BY <1>1, WFMin, Zenon
<1>3. \A x \in S : <<x, m>> \in Nat \X Nat /\ x \in Nat /\ m \in Nat
  OBVIOUS
<1>4. \A x \in S : ~ (x < m)
  BY <1>2, <1>3
<1> QED BY <1>3, <1>4

(* The sums of the first numbers of a sequence.                            *)
SumsTo(ns, n, f) == f = [i \in 0 .. n |-> IF i = 0 THEN 0 ELSE f[i - 1] + ns[i]]
Sums(ns) == CHOOSE f : SumsTo(ns, Len(ns), f)

LEMMA SumsExist ==
  ASSUME NEW ns \in Seq(Int), NEW n \in 0 .. Len(ns)
  PROVE  \E f \in [0 .. n -> Int] : SumsTo(ns, n, f)
<1> DEFINE Bad == {k \in 0 .. Len(ns) : ~ \E f \in [0 .. k -> Int] : SumsTo(ns, k, f)}
<1>1. SUFFICES ASSUME Bad # {} PROVE FALSE
  OBVIOUS
<1>2. PICK k \in Bad : \A x \in Bad : k <= x
  <2>1. Bad \in SUBSET Nat
    OBVIOUS
  <2> HIDE DEF Bad
  <2> QED BY <1>1, <2>1, Least
<1>3. CASE k = 0
  <2> DEFINE f == [i \in 0 .. 0 |-> 0]
  <2>1. f \in [0 .. 0 -> Int] /\ SumsTo(ns, 0, f)
    BY DEF SumsTo
  <2> QED BY <1>2, <1>3, <2>1
<1>4. CASE k # 0
  <2>1. k - 1 \in 0 .. Len(ns) /\ k - 1 \notin Bad
    BY <1>2, <1>4
  <2>2. PICK g \in [0 .. (k - 1) -> Int] : SumsTo(ns, k - 1, g)
    BY <2>1
  <2> DEFINE f == [i \in 0 .. k |-> IF i = k THEN g[k - 1] + ns[k] ELSE g[i]]
  <2>3. ns[k] \in Int /\ k \in Nat
    BY <1>2, <1>4
  <2>4. f \in [0 .. k -> Int]
    BY <2>3, <1>4
  <2>5. \A i \in 0 .. k : f[i] = IF i = 0 THEN 0 ELSE f[i - 1] + ns[i]
    <3> TAKE i \in 0 .. k
    <3>1. CASE i = k
      <4>1. f[k] = g[k - 1] + ns[k]
        BY <2>3
      <4>2. f[k - 1] = g[k - 1]
        BY <2>3, <1>4
      <4> QED BY <3>1, <1>4, <4>1, <4>2
    <3>2. CASE i # k
      <4>1. f[i] = g[i] /\ i \in 0 .. (k - 1)
        BY <3>2, <2>3
      <4>2. g[i] = IF i = 0 THEN 0 ELSE g[i - 1] + ns[i]
        BY <2>2, <4>1 DEF SumsTo
      <4>3. i # 0 => f[i - 1] = g[i - 1]
        BY <3>2, <2>3
      <4> QED BY <4>1, <4>2, <4>3
    <3> QED BY <3>1, <3>2
  <2>6. SumsTo(ns, k, f)
    BY <2>5 DEF SumsTo
  <2> QED BY <1>2, <2>4, <2>6
<1> QED BY <1>3, <1>4

LEMMA SumsSteps ==
  ASSUME NEW ns \in Seq(Int)
  PROVE  /\ Sums(ns) \in [0 .. Len(ns) -> Int]
         /\ Sums(ns)[0] = 0
         /\ \A i \in 1 .. Len(ns) : Sums(ns)[i] = Sums(ns)[i - 1] + ns[i]
         /\ Sum(ns) = Sums(ns)[Len(ns)]
<1>1. SumsTo(ns, Len(ns), Sums(ns))
  BY SumsExist DEF Sums
<1>2. Sum(ns) = Sums(ns)[Len(ns)]
  BY Zenon DEF Sum, Sums, SumsTo
<1>3. PICK f \in [0 .. Len(ns) -> Int] : SumsTo(ns, Len(ns), f)
  BY SumsExist
<1> DEFINE g == Sums(ns)
           Bad == {k \in 0 .. Len(ns) : g[k] # f[k]}
<1> HIDE DEF g
<1>4. /\ g[0] = 0 /\ f[0] = 0
      /\ \A i \in 1 .. Len(ns) : g[i] = g[i - 1] + ns[i] /\ f[i] = f[i - 1] + ns[i]
      /\ DOMAIN g = 0 .. Len(ns) /\ g = [i \in 0 .. Len(ns) |-> g[i]]
  BY <1>1, <1>3 DEF g, SumsTo
<1>5. Bad = {}
  <2> SUFFICES ASSUME Bad # {} PROVE FALSE
    OBVIOUS
  <2>1. PICK k \in Bad : \A x \in Bad : k <= x
    <3>1. Bad \in SUBSET Nat
      OBVIOUS
    <3> HIDE DEF Bad
    <3> QED BY <3>1, Least
  <2>2. k # 0 /\ k \in 1 .. Len(ns)
    BY <1>4, <2>1
  <2>3. k - 1 \notin Bad /\ k - 1 \in 0 .. Len(ns)
    BY <2>1, <2>2
  <2> QED BY <2>1, <2>2, <2>3, <1>4
<1>6. g \in [0 .. Len(ns) -> Int]
  BY <1>4, <1>5
<1> QED BY <1>2, <1>4, <1>6 DEF g

LEMMA SumType == ASSUME NEW ns \in Seq(Int) PROVE Sum(ns) \in Int
  BY SumsSteps

LEMMA SumEmpty == Sum(<< >>) = 0
<1>1. << >> \in Seq(Int) /\ Len(<< >>) = 0
  OBVIOUS
<1> QED BY <1>1, SumsSteps

LEMMA SumAppend ==
  ASSUME NEW ns \in Seq(Int), NEW x \in Int
  PROVE  Sum(Append(ns, x)) = Sum(ns) + x
<1> DEFINE ms == Append(ns, x)
           f == Sums(ns)
           g == Sums(ms)
           Bad == {k \in 0 .. Len(ns) : g[k] # f[k]}
<1>1. /\ ms \in Seq(Int) /\ Len(ms) = Len(ns) + 1 /\ ms[Len(ns) + 1] = x
      /\ \A i \in 1 .. Len(ns) : ms[i] = ns[i]
  OBVIOUS
<1>2. /\ f \in [0 .. Len(ns) -> Int] /\ f[0] = 0 /\ Sum(ns) = f[Len(ns)]
      /\ \A i \in 1 .. Len(ns) : f[i] = f[i - 1] + ns[i]
  BY SumsSteps
<1>3. /\ g[0] = 0 /\ Sum(ms) = g[Len(ms)]
      /\ \A i \in 1 .. Len(ms) : g[i] = g[i - 1] + ms[i]
  BY <1>1, SumsSteps
<1> HIDE DEF ms, f, g
<1>4. Bad = {}
  <2> SUFFICES ASSUME Bad # {} PROVE FALSE
    OBVIOUS
  <2>1. PICK k \in Bad : \A z \in Bad : k <= z
    <3>1. Bad \in SUBSET Nat
      OBVIOUS
    <3> HIDE DEF Bad
    <3> QED BY <3>1, Least
  <2>2. k # 0 /\ k \in 1 .. Len(ns)
    BY <1>2, <1>3, <2>1
  <2>3. k - 1 \notin Bad /\ k - 1 \in 0 .. Len(ns) /\ k \in 1 .. Len(ms)
    BY <1>1, <2>1, <2>2
  <2> QED BY <2>1, <2>2, <2>3, <1>1, <1>2, <1>3
<1>5. g[Len(ns)] = f[Len(ns)]
  BY <1>4
<1>6. g[Len(ns) + 1] = g[Len(ns)] + x
  BY <1>1, <1>3
<1> QED BY <1>1, <1>2, <1>3, <1>5, <1>6 DEF ms

(* Concatenations of the first sequences of a sequence.                    *)
JoinsTo(ss, n, f) == f = [i \in 1 .. n |-> IF i = 1 THEN ss[i] ELSE f[i - 1] \o ss[i]]
Joins(ss) == CHOOSE f : JoinsTo(ss, Len(ss), f)

LEMMA JoinsExist ==
  ASSUME NEW T, NEW ss \in Seq(Seq(T)), NEW n \in 1 .. Len(ss)
  PROVE  \E f \in [1 .. n -> Seq(T)] : JoinsTo(ss, n, f)
<1> DEFINE Bad == {k \in 1 .. Len(ss) : ~ \E f \in [1 .. k -> Seq(T)] : JoinsTo(ss, k, f)}
<1>1. SUFFICES ASSUME Bad # {} PROVE FALSE
  OBVIOUS
<1>2. PICK k \in Bad : \A x \in Bad : k <= x
  <2>1. Bad \in SUBSET Nat
    OBVIOUS
  <2> HIDE DEF Bad
  <2> QED BY <1>1, <2>1, Least
<1>3. ss[k] \in Seq(T) /\ k \in Nat \ {0}
  BY <1>2
<1>4. CASE k = 1
  <2> DEFINE f == [i \in 1 .. 1 |-> ss[1]]
  <2>1. f \in [1 .. 1 -> Seq(T)] /\ JoinsTo(ss, 1, f)
    BY <1>3, <1>4 DEF JoinsTo
  <2> QED BY <1>2, <1>4, <2>1
<1>5. CASE k # 1
  <2>1. k - 1 \in 1 .. Len(ss) /\ k - 1 \notin Bad
    <3>1. k \in 1 .. Len(ss)
      BY <1>2
    <3> HIDE DEF Bad
    <3> QED BY <1>2, <1>5, <3>1
  <2>2. PICK g \in [1 .. (k - 1) -> Seq(T)] : JoinsTo(ss, k - 1, g)
    BY <2>1
  <2> DEFINE f == [i \in 1 .. k |-> IF i = k THEN g[k - 1] \o ss[k] ELSE g[i]]
  <2>3. g[k - 1] \o ss[k] \in Seq(T)
    BY <1>3, <1>5
  <2>4. f \in [1 .. k -> Seq(T)]
    BY <1>3, <1>5, <2>3
  <2>5. \A i \in 1 .. k : f[i] = IF i = 1 THEN ss[i] ELSE f[i - 1] \o ss[i]
    <3> TAKE i \in 1 .. k
    <3>1. CASE i = k
      <4>0. k \in 1 .. k /\ k - 1 \in 1 .. k
        BY <1>3, <1>5
      <4>1. f[k] = g[k - 1] \o ss[k]
        BY <4>0, Zenon
      <4>2. f[k - 1] = g[k - 1]
        BY <1>3, <1>5
      <4> HIDE DEF f
      <4> QED BY <3>1, <1>5, <4>1, <4>2
    <3>2. CASE i # k
      <4>1. f[i] = g[i] /\ i \in 1 .. (k - 1)
        BY <3>2, <1>3
      <4>2. g[i] = IF i = 1 THEN ss[i] ELSE g[i - 1] \o ss[i]
        BY <2>2, <4>1 DEF JoinsTo
      <4>3. i # 1 => f[i - 1] = g[i - 1]
        BY <3>2, <1>3
      <4> HIDE DEF f
      <4> QED BY <4>1, <4>2, <4>3
    <3> QED BY <3>1, <3>2
  <2>6. JoinsTo(ss, k, f)
    BY <2>5 DEF JoinsTo
  <2> QED BY <1>2, <2>4, <2>6
<1> QED BY <1>4, <1>5

LEMMA JoinsSteps ==
  ASSUME NEW T, NEW ss \in Seq(Seq(T)), Len(ss) # 0
  PROVE  /\ Joins(ss) \in [1 .. Len(ss) -> Seq(T)]
         /\ Joins(ss)[1] = ss[1]
         /\ \A i \in 2 .. Len(ss) : Joins(ss)[i] = Joins(ss)[i - 1] \o ss[i]
         /\ FlattenSeq(ss) = Joins(ss)[Len(ss)]
<1>0. Len(ss) \in 1 .. Len(ss)
  OBVIOUS
<1>1. JoinsTo(ss, Len(ss), Joins(ss))
  BY <1>0, JoinsExist DEF Joins
<1>2. FlattenSeq(ss) = Joins(ss)[Len(ss)]
  BY Zenon DEF FlattenSeq, Joins, JoinsTo
<1>3. PICK f \in [1 .. Len(ss) -> Seq(T)] : JoinsTo(ss, Len(ss), f)
  BY <1>0, JoinsExist
<1> DEFINE g == Joins(ss)
           Bad == {k \in 1 .. Len(ss) : g[k] # f[k]}
<1> HIDE DEF g
<1>4. /\ g[1] = ss[1] /\ f[1] = ss[1]
      /\ \A i \in 2 .. Len(ss) : g[i] = g[i - 1] \o ss[i] /\ f[i] = f[i - 1] \o ss[i]
      /\ DOMAIN g = 1 .. Len(ss) /\ g = [i \in 1 .. Len(ss) |-> g[i]]
  <2>1. /\ g = [i \in 1 .. Len(ss) |-> IF i = 1 THEN ss[i] ELSE g[i - 1] \o ss[i]]
        /\ f = [i \in 1 .. Len(ss) |-> IF i = 1 THEN ss[i] ELSE f[i - 1] \o ss[i]]
    BY <1>1, <1>3 DEF g, JoinsTo
  <2>2. 1 \in 1 .. Len(ss) /\ \A i \in 2 .. Len(ss) : i \in 1 .. Len(ss) /\ i # 1
    OBVIOUS
  <2>3. \A i \in 1 .. Len(ss) : /\ g[i] = IF i = 1 THEN ss[i] ELSE g[i - 1] \o ss[i]
                                /\ f[i] = IF i = 1 THEN ss[i] ELSE f[i - 1] \o ss[i]
    BY <2>1, Zenon
  <2>4. DOMAIN g = 1 .. Len(ss)
    BY <2>1, Zenon
  <2>5. g = [i \in 1 .. Len(ss) |-> g[i]]
    BY <2>1, <2>4, Zenon
  <2> QED BY <2>2, <2>3, <2>4, <2>5, Zenon
<1>5. Bad = {}
  <2> SUFFICES ASSUME Bad # {} PROVE FALSE
    OBVIOUS
  <2>1. PICK k \in Bad : \A x \in Bad : k <= x
    <3>1. Bad \in SUBSET Nat
      OBVIOUS
    <3> HIDE DEF Bad
    <3> QED BY <3>1, Least
  <2>2. k # 1 /\ k \in 2 .. Len(ss)
    BY <1>4, <2>1
  <2>3. k - 1 \notin Bad /\ k - 1 \in 1 .. Len(ss)
    BY <2>1, <2>2
  <2> QED BY <2>1, <2>2, <2>3, <1>4
<1>6. g \in [1 .. Len(ss) -> Seq(T)]
  BY <1>4, <1>5
<1> QED BY <1>2, <1>4, <1>6 DEF g

LEMMA FlattenEmpty == FlattenSeq(<< >>) = << >>
  BY DEF FlattenSeq

LEMMA FlattenType ==
  ASSUME NEW T, NEW ss \in Seq(Seq(T))
  PROVE  FlattenSeq(ss) \in Seq(T)
<1>1. CASE Len(ss) = 0
  BY <1>1 DEF FlattenSeq
<1>2. CASE Len(ss) # 0
  <2>1. Len(ss) \in 1 .. Len(ss)
    BY <1>2
  <2>2. Joins(ss) \in [1 .. Len(ss) -> Seq(T)] /\ FlattenSeq(ss) = Joins(ss)[Len(ss)]
    BY <1>2, JoinsSteps
  <2> QED BY <2>1, <2>2, Zenon
<1> QED BY <1>1, <1>2

LEMMA FlattenAppend ==
  ASSUME NEW T, NEW ss \in Seq(Seq(T)), NEW x \in Seq(T)
  PROVE  FlattenSeq(Append(ss, x)) = FlattenSeq(ss) \o x
<1> DEFINE tt == Append(ss, x)
           g == Joins(tt)
<1>1. /\ tt \in Seq(Seq(T)) /\ Len(tt) = Len(ss) + 1 /\ tt[Len(ss) + 1] = x
      /\ \A i \in 1 .. Len(ss) : tt[i] = ss[i]
      /\ Len(ss) \in Nat
  OBVIOUS
<1>2. /\ g[1] = tt[1] /\ FlattenSeq(tt) = g[Len(tt)]
      /\ \A i \in 2 .. Len(tt) : g[i] = g[i - 1] \o tt[i]
  <2>1. Len(tt) # 0
    BY <1>1
  <2> HIDE DEF tt
  <2> QED BY <1>1, <2>1, JoinsSteps
<1> HIDE DEF tt, g
<1>3. CASE Len(ss) = 0
  <2>1. FlattenSeq(ss) = ss /\ ss = << >>
    BY <1>3 DEF FlattenSeq
  <2>2. FlattenSeq(tt) = x
    BY <1>1, <1>2, <1>3
  <2>3. << >> \o x = x
    OBVIOUS
  <2> QED BY <2>1, <2>2, <2>3 DEF tt
<1>4. CASE Len(ss) # 0
  <2> DEFINE f == Joins(ss)
             Bad == {k \in 1 .. Len(ss) : g[k] # f[k]}
  <2>1. /\ f[1] = ss[1] /\ FlattenSeq(ss) = f[Len(ss)]
        /\ \A i \in 2 .. Len(ss) : f[i] = f[i - 1] \o ss[i]
    BY <1>4, JoinsSteps
  <2> HIDE DEF f
  <2>2. Bad = {}
    <3> SUFFICES ASSUME Bad # {} PROVE FALSE
      OBVIOUS
    <3>1. PICK k \in Bad : \A z \in Bad : k <= z
      <4>1. Bad \in SUBSET Nat
        OBVIOUS
      <4> HIDE DEF Bad
      <4> QED BY <4>1, Least
    <3>2. k # 1 /\ k \in 2 .. Len(ss)
      BY <1>1, <1>2, <2>1, <3>1
    <3>3. k - 1 \notin Bad /\ k - 1 \in 1 .. Len(ss) /\ k \in 2 .. Len(tt)
      BY <1>1, <3>1, <3>2
    <3>4. g[k] = g[k - 1] \o ss[k] /\ f[k] = f[k - 1] \o ss[k]
      BY <1>1, <1>2, <2>1, <3>2, <3>3
    <3>5. g[k - 1] = f[k - 1]
      BY <3>3
    <3> QED BY <3>1, <3>4, <3>5
  <2>3. g[Len(ss)] = f[Len(ss)]
    <3>1. Len(ss) \in 1 .. Len(ss)
      BY <1>1, <1>4
    <3>2. Len(ss) \notin Bad
      BY <2>2
    <3> QED BY <3>1, <3>2, Zenon
  <2>4. Len(ss) + 1 \in 2 .. (Len(ss) + 1) /\ Len(ss) + 1 - 1 = Len(ss)
    BY <1>1, <1>4
  <2>5. g[Len(ss) + 1] = g[Len(ss)] \o x
    <3> DEFINE n == Len(ss) + 1
    <3>0. n \in 2 .. Len(tt)
      BY <1>1, <2>4
    <3> HIDE DEF n
    <3>1. g[n] = g[n - 1] \o tt[n]
      BY <1>2, <3>0
    <3>2. n - 1 = Len(ss) /\ tt[n] = x /\ g[Len(ss) + 1] = g[n]
      BY <1>1 DEF n
    <3> QED BY <3>1, <3>2
  <2> QED BY <1>1, <1>2, <2>1, <2>3, <2>5 DEF tt
<1> QED BY <1>3, <1>4
-----------------------------------------------------------------------------
(* The whole blocks of a MaxRecvDataSegmentLength, and what is beyond them.*)
LEMMA WholeBlocks ==
  ASSUME NEW m \in Mrds
  PROVE  /\ OFFSET2LBA(m) \in Nat \ {0}
         /\ \A n \in 1 .. OFFSET2LBA(m) : n * Unit \in 1 .. m
         /\ m - LBA2OFFSET(OFFSET2LBA(m)) = m % Unit
         /\ OFFSET2LBA(m) = m \div Unit
<1> DEFINE q == m \div Unit
           r == m % Unit
<1>1. m \in Nat /\ Unit \in Nat /\ Unit > 0 /\ Unit <= m
  BY MrdsAssumption, UnitAssumption
<1>2. q \in Nat /\ r \in 0 .. (Unit - 1) /\ m = q * Unit + r
  BY <1>1
<1>3. OFFSET2LBA(m) = q /\ LBA2OFFSET(q) = q * Unit
  BY DEF OFFSET2LBA, LBA2OFFSET
<1> HIDE DEF q, r
<1>4. q # 0
  BY <1>1, <1>2
<1>5. ASSUME NEW n \in 1 .. q PROVE n * Unit \in 1 .. m
  <2>1. n * Unit <= q * Unit /\ n * Unit >= 1 /\ n * Unit \in Nat
    BY <1>1, <1>2
  <2> QED BY <2>1, <1>1, <1>2
<1>6. m - q * Unit = r
  BY <1>1, <1>2
<1> QED BY <1>2, <1>3, <1>4, <1>5, <1>6 DEF q, r
-----------------------------------------------------------------------------
(* The state of a READ between two steps.  Every hit that is left begins   *)
(* in the PDU or right behind it, and ends behind the next block: this is  *)
(* what keeps the lengths of pieces from going below zero, and it holds in *)
(* PDUs that start at a wrong address too.                                 *)
PduSet == [dlength : Nat, pad : Nat, length : Nat, pieces : Seq(Pieces)]
PduLengths == [i \in DOMAIN pdus |-> pdus[i].length]

Request ==
  /\ segments \in SUBSET Segments /\ Disjoint(segments)
  /\ first \in Nat /\ total \in Nat
  /\ byte_mrds \in Mrds /\ transfer_mrds \in Nat \ {0}
  /\ cache \in SUBSET segments /\ hits \in SUBSET cache

Progress ==
  /\ pc \in {"check", "pdu", "hits", "done", "error"}
  /\ lba \in Nat /\ transfer_length \in Nat /\ length \in Nat /\ left \in Nat
  /\ pdus \in Seq(PduSet)
  /\ \A i \in DOMAIN pdus : pdus[i].length \in 1 .. transfer_mrds
  /\ pc = "check" => transfer_length = total /\ pdus = << >> /\ hits = {}
  /\ pc = "pdu" => transfer_length > 0
  /\ pc = "done" => transfer_length = 0
  /\ pc = "hits" => /\ Len(pdus) # 0 /\ pdus[Len(pdus)].length = length
                    /\ transfer_length = 0 \/ (length = transfer_mrds /\ transfer_mrds < transfer_length)
                    /\ \A t \in hits : lba < ReadEnd(t) /\ t.rlba <= lba + left

Unqueued(i) == IF pc = "hits" /\ i = Len(pdus) THEN left ELSE 0

Framing ==
  pc # "error" =>
    /\ \A i \in DOMAIN pdus : Sum(Lengths(pdus[i].pieces)) = pdus[i].length - Unqueued(i)
    /\ Sum(PduLengths) =
         total - transfer_length + (IF pc = "hits" /\ transfer_length # 0 THEN length ELSE 0)

RInv == Request /\ Progress /\ Framing
-----------------------------------------------------------------------------
LEMMA SegmentFacts ==
  ASSUME NEW s \in Segments
  PROVE  /\ s.rlba \in Nat /\ s.rlen \in Nat \ {0} /\ ReadEnd(s) = s.rlba + s.rlen
         /\ ReadEnd(s) \in Nat /\ s.rlba < ReadEnd(s) /\ ReadEnd(s) <= Size
BY SizeAssumption DEF Segments, ReadEnd

LEMMA FirstIsLeast ==
  ASSUME NEW S \in SUBSET Segments, S # {}
  PROVE  First(S) \in S /\ \A t \in S : First(S).rlba <= t.rlba
<1> DEFINE A == {s.rlba : s \in S}
<1>1. A \in SUBSET Nat /\ A # {}
  BY SegmentFacts
<1>2. PICK m \in A : \A x \in A : m <= x
  <2> HIDE DEF A
  <2> QED BY <1>1, Least
<1>3. PICK s \in S : m = s.rlba
  BY <1>2
<1>4. \A t \in S : s.rlba <= t.rlba
  BY <1>2, <1>3
<1> QED BY <1>4, Zenon DEF First

(* The hits behind the first one begin where it ends or later.             *)
LEMMA FirstSplits ==
  ASSUME Request, hits # {}
  PROVE  LET s == First(hits) IN
         /\ s \in hits /\ s \in Segments
         /\ s.rlba \in Nat /\ s.rlen \in Nat \ {0}
         /\ ReadEnd(s) = s.rlba + s.rlen /\ ReadEnd(s) <= Size
         /\ \A t \in hits \ {s} : /\ ReadEnd(s) <= t.rlba /\ t.rlba < ReadEnd(t)
                                  /\ t.rlba \in Nat /\ ReadEnd(t) \in Nat
<1> DEFINE s == First(hits)
<1>1. hits \in SUBSET Segments /\ hits \in SUBSET segments
  BY DEF Request
<1>2. s \in hits /\ \A t \in hits : s.rlba <= t.rlba
  BY <1>1, FirstIsLeast
<1> HIDE DEF s
<1>3. \A t \in hits : /\ t.rlba \in Nat /\ t.rlen \in Nat \ {0}
                     /\ ReadEnd(t) = t.rlba + t.rlen /\ ReadEnd(t) \in Nat /\ ReadEnd(t) <= Size
                     /\ t.rlba < ReadEnd(t)
  BY <1>1, SegmentFacts
<1>4. ASSUME NEW t \in hits \ {s} PROVE ReadEnd(s) <= t.rlba
  <2>1. ReadEnd(s) <= t.rlba \/ ReadEnd(t) <= s.rlba
    BY <1>1, <1>2 DEF Request, Disjoint
  <2> QED BY <2>1, <1>2, <1>3
<1>5. /\ s \in hits /\ s \in Segments
      /\ s.rlba \in Nat /\ s.rlen \in Nat \ {0}
      /\ ReadEnd(s) = s.rlba + s.rlen /\ ReadEnd(s) <= Size
  BY <1>1, <1>2, <1>3
<1> QED BY <1>3, <1>4, <1>5 DEF s

LEMMA LengthsType ==
  ASSUME NEW ps \in Seq(Pieces)
  PROVE  Lengths(ps) \in Seq(Int) /\ Len(Lengths(ps)) = Len(ps)
<1>1. /\ Len(ps) \in Nat /\ DOMAIN ps = 1 .. Len(ps)
      /\ \A i \in 1 .. Len(ps) : ps[i].len \in Int
  <2>1. \A p \in Pieces : p.len \in Int
    BY DEF Pieces
  <2>2. /\ Len(ps) \in Nat /\ DOMAIN ps = 1 .. Len(ps)
        /\ \A i \in 1 .. Len(ps) : ps[i] \in Pieces
    OBVIOUS
  <2> QED BY <2>1, <2>2
<1>2. Lengths(ps) \in [1 .. Len(ps) -> Int]
  BY <1>1 DEF Lengths
<1> QED BY <1>1, <1>2

LEMMA LengthsAppend ==
  ASSUME NEW ps \in Seq(Pieces), NEW p \in Pieces
  PROVE  /\ ps \o <<p>> \in Seq(Pieces)
         /\ Sum(Lengths(ps \o <<p>>)) = Sum(Lengths(ps)) + p.len
         /\ Sum(Lengths(ps)) \in Int
<1>1. ps \o <<p>> = Append(ps, p) /\ ps \o <<p>> \in Seq(Pieces)
  OBVIOUS
<1>2. p.len \in Int
  BY DEF Pieces
<1>3. Lengths(Append(ps, p)) = Append(Lengths(ps), p.len)
  <2>1. /\ Len(Append(ps, p)) = Len(ps) + 1 /\ Len(ps) \in Nat
        /\ DOMAIN Append(ps, p) = 1 .. (Len(ps) + 1) /\ DOMAIN ps = 1 .. Len(ps)
        /\ \A i \in 1 .. Len(ps) : Append(ps, p)[i] = ps[i]
        /\ Append(ps, p)[Len(ps) + 1] = p
    OBVIOUS
  <2>2. /\ Lengths(Append(ps, p)) \in Seq(Int)
        /\ Len(Lengths(Append(ps, p))) = Len(ps) + 1
        /\ Lengths(ps) \in Seq(Int) /\ Len(Lengths(ps)) = Len(ps)
    BY <1>1, <2>1, LengthsType
  <2>3. Append(Lengths(ps), p.len) \in Seq(Int) /\ Len(Append(Lengths(ps), p.len)) = Len(ps) + 1
    BY <1>2, <2>2
  <2>4. \A i \in 1 .. (Len(ps) + 1) : Lengths(Append(ps, p))[i] = Append(Lengths(ps), p.len)[i]
    BY <1>2, <2>1, <2>2 DEF Lengths
  <2> QED BY <2>2, <2>3, <2>4, SeqEqual
<1> QED BY <1>1, <1>2, <1>3, LengthsType, SumAppend, SumType

(* Queue() appends to the pieces of the last PDU and changes nothing else. *)
LEMMA QueueEffect ==
  ASSUME pdus \in Seq(PduSet), Len(pdus) # 0, NEW ps \in Seq(Pieces), Queue(ps)
  PROVE  /\ pdus' \in Seq(PduSet) /\ Len(pdus') = Len(pdus)
         /\ DOMAIN pdus' = DOMAIN pdus /\ Len(pdus) \in DOMAIN pdus
         /\ \A i \in DOMAIN pdus : pdus'[i].length = pdus[i].length
         /\ \A i \in DOMAIN pdus : pdus'[i].dlength = pdus[i].dlength /\ pdus'[i].pad = pdus[i].pad
         /\ \A i \in DOMAIN pdus : i # Len(pdus) => pdus'[i] = pdus[i]
         /\ pdus'[Len(pdus)].pieces = pdus[Len(pdus)].pieces \o ps
         /\ pdus[Len(pdus)].pieces \in Seq(Pieces)
         /\ PduLengths' = PduLengths
<1> DEFINE n == Len(pdus)
           q == [pdus[n] EXCEPT !.pieces = @ \o ps]
<1>1. n \in 1 .. n /\ DOMAIN pdus = 1 .. n /\ n \in Nat
  OBVIOUS
<1>2. pdus[n] \in PduSet
  BY <1>1
<1>3. pdus[n].pieces \in Seq(Pieces) /\ pdus[n].pieces \o ps \in Seq(Pieces)
  BY <1>2 DEF PduSet
<1>4. /\ q \in PduSet /\ q.length = pdus[n].length /\ q.pieces = pdus[n].pieces \o ps
      /\ q.dlength = pdus[n].dlength /\ q.pad = pdus[n].pad
  BY <1>2, <1>3 DEF PduSet
<1>5. pdus' = [pdus EXCEPT ![n] = q]
  BY DEF Queue
<1> HIDE DEF q
<1>6. pdus' \in Seq(PduSet) /\ Len(pdus') = n /\ DOMAIN pdus' = 1 .. n
  BY <1>1, <1>4, <1>5
<1>7. pdus'[n] = q /\ \A i \in 1 .. n : i # n => pdus'[i] = pdus[i]
  BY <1>1, <1>5
<1>8. \A i \in 1 .. n : /\ pdus'[i].length = pdus[i].length /\ pdus'[i].dlength = pdus[i].dlength
                        /\ pdus'[i].pad = pdus[i].pad
  BY <1>4, <1>7
<1>9. PduLengths' = PduLengths
  BY <1>1, <1>6, <1>8 DEF PduLengths
<1> QED BY <1>1, <1>3, <1>4, <1>6, <1>7, <1>8, <1>9

LEMMA PduLengthsAppend ==
  ASSUME pdus \in Seq(PduSet), NEW h \in PduSet, pdus' = Append(pdus, h)
  PROVE  /\ pdus' \in Seq(PduSet) /\ Len(pdus') = Len(pdus) + 1 /\ Len(pdus) \in Nat
         /\ DOMAIN pdus = 1 .. Len(pdus) /\ DOMAIN pdus' = 1 .. (Len(pdus) + 1)
         /\ pdus'[Len(pdus) + 1] = h
         /\ \A i \in DOMAIN pdus : pdus'[i] = pdus[i]
         /\ Sum(PduLengths') = Sum(PduLengths) + h.length
         /\ Sum(PduLengths) \in Int
<1>1. /\ pdus' \in Seq(PduSet) /\ Len(pdus') = Len(pdus) + 1 /\ Len(pdus) \in Nat
      /\ DOMAIN pdus = 1 .. Len(pdus) /\ DOMAIN pdus' = 1 .. (Len(pdus) + 1)
      /\ pdus'[Len(pdus) + 1] = h
      /\ \A i \in DOMAIN pdus : pdus'[i] = pdus[i]
  OBVIOUS
<1>2. h.length \in Int /\ \A i \in DOMAIN pdus : pdus[i].length \in Int
  <2>1. \A q \in PduSet : q.length \in Int
    BY DEF PduSet
  <2>2. \A i \in DOMAIN pdus : pdus[i] \in PduSet
    BY <1>1
  <2> QED BY <2>1, <2>2
<1>3. PduLengths \in Seq(Int) /\ Len(PduLengths) = Len(pdus)
  <2>1. PduLengths \in [1 .. Len(pdus) -> Int]
    BY <1>1, <1>2 DEF PduLengths
  <2> QED BY <1>1, <2>1
<1>4. PduLengths' \in Seq(Int) /\ Len(PduLengths') = Len(pdus) + 1
  <2>1. PduLengths' \in [1 .. (Len(pdus) + 1) -> Int]
    BY <1>1, <1>2 DEF PduLengths
  <2> QED BY <1>1, <2>1
<1>5. PduLengths' = Append(PduLengths, h.length)
  <2>1. /\ Append(PduLengths, h.length) \in Seq(Int)
        /\ Len(Append(PduLengths, h.length)) = Len(pdus) + 1
    BY <1>2, <1>3
  <2>2. \A i \in 1 .. (Len(pdus) + 1) : PduLengths'[i] = Append(PduLengths, h.length)[i]
    BY <1>1, <1>2, <1>3 DEF PduLengths
  <2> QED BY <1>4, <2>1, <2>2, SeqEqual
<1> QED BY <1>1, <1>2, <1>3, <1>5, SumAppend, SumType

LEMMA PieceTypes ==
  ASSUME NEW a \in Nat, NEW n \in Nat, NEW s \in Segments
  PROVE  /\ File(a, n) \in Pieces /\ File(a, n).len = n
         /\ Cache(s, a, n) \in Pieces /\ Cache(s, a, n).len = n
BY DEF File, Cache, Pieces

(* What a step of sendCache() has to show: the pieces it queues are as     *)
(* long as what it takes off the blocks left.                              *)
LEMMA SendKeeps ==
  ASSUME RInv, pc = "hits", UNCHANGED <<request, pc, cache, transfer_length, length>>,
         hits' \in SUBSET hits, lba' \in Nat, left' \in Nat,
         \A t \in hits' : lba' < ReadEnd(t) /\ t.rlba <= lba' + left',
         NEW ps \in Seq(Pieces), Queue(ps),
         LET old == pdus[Len(pdus)].pieces IN
           Sum(Lengths(old \o ps)) = Sum(Lengths(old)) + left - left'
  PROVE  RInv'
<1> DEFINE n == Len(pdus)
<1>1. /\ pdus \in Seq(PduSet) /\ n # 0
      /\ left \in Nat /\ length \in Nat
  BY DEF RInv, Progress
<1>2. /\ pdus' \in Seq(PduSet) /\ Len(pdus') = n
      /\ DOMAIN pdus' = DOMAIN pdus /\ n \in DOMAIN pdus
      /\ \A i \in DOMAIN pdus : pdus'[i].length = pdus[i].length
      /\ \A i \in DOMAIN pdus : i # n => pdus'[i] = pdus[i]
      /\ pdus'[n].pieces = pdus[n].pieces \o ps
      /\ PduLengths' = PduLengths
  BY <1>1, QueueEffect
<1>3. Request'
  BY DEF RInv, Request, request, transfer_mrds
<1>4. Progress'
  BY <1>2 DEF RInv, Progress, request, transfer_mrds, ReadEnd
<1>5. Framing'
  <2>1. Sum(PduLengths)' = Sum(PduLengths)
    BY <1>2
  <2>2. ASSUME NEW i \in DOMAIN pdus
        PROVE  Sum(Lengths(pdus'[i].pieces)) = pdus'[i].length - Unqueued(i)'
    <3>1. Sum(Lengths(pdus[i].pieces)) = pdus[i].length - Unqueued(i)
      BY DEF RInv, Framing
    <3>2. CASE i = n
      <4>1. Unqueued(i) = left /\ Unqueued(i)' = left'
        BY <1>2, <3>2 DEF Unqueued
      <4>2. pdus[i].length = length /\ pdus'[i].length = length
        BY <1>2, <3>2 DEF RInv, Progress
      <4>3. Sum(Lengths(pdus'[i].pieces)) = Sum(Lengths(pdus[i].pieces)) + left - left'
        BY <1>2, <3>2
      <4> QED BY <1>1, <3>1, <4>1, <4>2, <4>3
    <3>3. CASE i # n
      <4>1. Unqueued(i) = 0 /\ Unqueued(i)' = 0
        BY <1>2, <3>3 DEF Unqueued
      <4> QED BY <1>2, <3>1, <3>3, <4>1
    <3> QED BY <3>2, <3>3
  <2> QED BY <1>2, <2>1, <2>2 DEF RInv, Framing, request
<1> QED BY <1>3, <1>4, <1>5 DEF RInv

LEMMA SendHeadKeeps == ASSUME RInv, SendHead PROVE RInv'
<1> DEFINE s == First(hits)
           overrun == ReadEnd(s) - lba - left
           n == s.rlen - (lba - s.rlba) - (IF overrun > 0 THEN overrun ELSE 0)
           old == pdus[Len(pdus)].pieces
<1>1. /\ pc = "hits" /\ hits # {} /\ left > 0 /\ s.rlba <= lba
      /\ Queue(<<Cache(s, lba, n)>>) /\ left' = left - n /\ lba' = lba + n
      /\ hits' = hits \ {s} /\ UNCHANGED <<request, pc, cache, transfer_length, length>>
  BY DEF SendHead
<1>2. /\ s \in hits /\ s \in Segments
      /\ s.rlba \in Nat /\ s.rlen \in Nat \ {0} /\ ReadEnd(s) = s.rlba + s.rlen
      /\ \A t \in hits \ {s} : /\ ReadEnd(s) <= t.rlba /\ t.rlba < ReadEnd(t)
                               /\ t.rlba \in Nat /\ ReadEnd(t) \in Nat
  BY <1>1, FirstSplits DEF RInv
<1>3. /\ lba \in Nat /\ left \in Nat /\ pdus \in Seq(PduSet) /\ Len(pdus) # 0
      /\ lba < ReadEnd(s) /\ \A t \in hits : t.rlba <= lba + left
  <2> HIDE DEF s
  <2> QED BY <1>1, <1>2 DEF RInv, Progress
<1> HIDE DEF s
<1>4. n \in Nat /\ n <= left /\ lba + n <= ReadEnd(s)
  <2>1. /\ s.rlba <= lba /\ left > 0 /\ s.rlba \in Nat /\ s.rlen \in Nat
        /\ ReadEnd(s) = s.rlba + s.rlen /\ lba \in Nat /\ left \in Nat /\ lba < ReadEnd(s)
    BY <1>1, <1>2, <1>3
  <2>2. overrun \in Int /\ overrun = s.rlba + s.rlen - lba - left
    BY <1>2, <1>3
  <2> HIDE DEF overrun
  <2>3. CASE overrun > 0
    <3>1. n = s.rlen - (lba - s.rlba) - overrun
      BY <2>3
    <3> HIDE DEF n
    <3> QED BY <2>1, <2>2, <2>3, <3>1
  <2>4. CASE ~ (overrun > 0)
    <3>1. n = s.rlen - (lba - s.rlba) - 0
      BY <2>4
    <3> HIDE DEF n
    <3> QED BY <2>1, <2>2, <2>4, <3>1
  <2> QED BY <2>3, <2>4
<1> HIDE DEF n
<1>5. lba' \in Nat /\ left' \in Nat /\ lba' + left' = lba + left
  BY <1>1, <1>3, <1>4
<1>6. \A t \in hits' : lba' < ReadEnd(t) /\ t.rlba <= lba' + left'
  BY <1>1, <1>2, <1>3, <1>4, <1>5
<1>7. Cache(s, lba, n) \in Pieces /\ Cache(s, lba, n).len = n
  BY <1>2, <1>3, <1>4, PieceTypes
<1>8. old \in Seq(Pieces)
  <2>1. \A q \in PduSet : q.pieces \in Seq(Pieces)
    BY DEF PduSet
  <2>2. pdus[Len(pdus)] \in PduSet
    BY <1>3
  <2> QED BY <2>1, <2>2
<1> HIDE DEF old
<1>9. Sum(Lengths(old \o <<Cache(s, lba, n)>>)) = Sum(Lengths(old)) + left - left'
  BY <1>1, <1>3, <1>4, <1>7, <1>8, LengthsAppend
<1>10. <<Cache(s, lba, n)>> \in Seq(Pieces) /\ hits' \in SUBSET hits
  BY <1>1, <1>7
<1> QED BY <1>1, <1>5, <1>6, <1>9, <1>10, SendKeeps DEF old

LEMMA LastPieces ==
  ASSUME pdus \in Seq(PduSet), Len(pdus) # 0
  PROVE  pdus[Len(pdus)].pieces \in Seq(Pieces)
<1>1. \A q \in PduSet : q.pieces \in Seq(Pieces)
  BY DEF PduSet
<1>2. pdus[Len(pdus)] \in PduSet
  OBVIOUS
<1> QED BY <1>1, <1>2

LEMMA AppendTwo ==
  ASSUME NEW ps \in Seq(Pieces), NEW p \in Pieces, NEW q \in Pieces
  PROVE  /\ ps \o <<p, q>> = (ps \o <<p>>) \o <<q>>
         /\ ps \o <<p>> \in Seq(Pieces)
<1> DEFINE u == ps \o <<p, q>>
           v == ps \o <<p>>
           w == v \o <<q>>
<1>1. /\ u \in Seq(Pieces) /\ Len(u) = Len(ps) + 2 /\ Len(ps) \in Nat
      /\ v \in Seq(Pieces) /\ Len(v) = Len(ps) + 1
      /\ w \in Seq(Pieces) /\ Len(w) = Len(v) + 1
  <2>1. <<p, q>> \in Seq(Pieces) /\ Len(<<p, q>>) = 2 /\ <<p>> \in Seq(Pieces) /\ Len(<<p>>) = 1
        /\ <<q>> \in Seq(Pieces) /\ Len(<<q>>) = 1
    OBVIOUS
  <2> QED BY <2>1
<1>2. /\ \A i \in 1 .. Len(ps) : u[i] = ps[i] /\ v[i] = ps[i]
      /\ u[Len(ps) + 1] = p /\ u[Len(ps) + 2] = q /\ v[Len(ps) + 1] = p
  OBVIOUS
<1>3. (\A i \in 1 .. Len(v) : w[i] = v[i]) /\ w[Len(v) + 1] = q
  <2> HIDE DEF v
  <2> QED BY <1>1
<1> HIDE DEF u, v, w
<1>4. \A i \in 1 .. (Len(ps) + 2) : u[i] = w[i]
  <2> TAKE i \in 1 .. (Len(ps) + 2)
  <2>1. i \in 1 .. Len(ps) \/ i = Len(ps) + 1 \/ i = Len(ps) + 2
    BY <1>1
  <2>2. Len(v) + 1 = Len(ps) + 2
    BY <1>1
  <2>3. i \in 1 .. Len(ps) => i \in 1 .. Len(v)
    BY <1>1
  <2>4. Len(ps) + 1 \in 1 .. Len(v)
    BY <1>1
  <2> QED BY <1>2, <1>3, <2>1, <2>2, <2>3, <2>4, Zenon
<1>5. u = w
  <2>1. Len(w) = Len(ps) + 2
    BY <1>1
  <2> QED BY <1>1, <1>4, <2>1, SeqEqual
<1> QED BY <1>1, <1>5 DEF u, v, w

LEMMA LengthsAppendTwo ==
  ASSUME NEW ps \in Seq(Pieces), NEW p \in Pieces, NEW q \in Pieces
  PROVE  Sum(Lengths(ps \o <<p, q>>)) = Sum(Lengths(ps)) + p.len + q.len
<1>1. ps \o <<p, q>> = (ps \o <<p>>) \o <<q>> /\ ps \o <<p>> \in Seq(Pieces)
  BY AppendTwo
<1>2. Sum(Lengths((ps \o <<p>>) \o <<q>>)) = Sum(Lengths(ps \o <<p>>)) + q.len
  BY <1>1, LengthsAppend
<1>3. Sum(Lengths(ps \o <<p>>)) = Sum(Lengths(ps)) + p.len
  BY LengthsAppend
<1> QED BY <1>1, <1>2, <1>3

(* What the two cases with a gap in front of the hit have in common.       *)
LEMMA GapFacts ==
  ASSUME RInv, pc = "hits", hits # {}, left > 0, First(hits).rlba > lba
  PROVE  LET s == First(hits) IN
         /\ s \in Segments /\ s.rlba \in Nat /\ s.rlen \in Nat \ {0}
         /\ ReadEnd(s) = s.rlba + s.rlen
         /\ lba \in Nat /\ left \in Nat /\ s.rlba - lba \in Nat /\ s.rlba <= lba + left
         /\ \A t \in hits \ {s} : /\ ReadEnd(s) <= t.rlba /\ t.rlba < ReadEnd(t)
                                  /\ t.rlba <= lba + left /\ t.rlba \in Nat /\ ReadEnd(t) \in Nat
         /\ pdus \in Seq(PduSet) /\ Len(pdus) # 0
         /\ pdus[Len(pdus)].pieces \in Seq(Pieces)
<1> DEFINE s == First(hits)
<1>1. /\ s \in hits /\ s \in Segments
      /\ s.rlba \in Nat /\ s.rlen \in Nat \ {0} /\ ReadEnd(s) = s.rlba + s.rlen
      /\ \A t \in hits \ {s} : /\ ReadEnd(s) <= t.rlba /\ t.rlba < ReadEnd(t)
                               /\ t.rlba \in Nat /\ ReadEnd(t) \in Nat
  BY FirstSplits DEF RInv
<1>2. s.rlba > lba
  OBVIOUS
<1> HIDE DEF s
<1>3. /\ lba \in Nat /\ left \in Nat /\ pdus \in Seq(PduSet) /\ Len(pdus) # 0
      /\ \A t \in hits : t.rlba <= lba + left
  BY DEF RInv, Progress
<1>4. s.rlba - lba \in Nat
  BY <1>1, <1>2, <1>3
<1>5. pdus[Len(pdus)].pieces \in Seq(Pieces)
  BY <1>3, LastPieces
<1> QED BY <1>1, <1>3, <1>4, <1>5 DEF s

LEMMA SendLastKeeps == ASSUME RInv, SendLast PROVE RInv'
<1> DEFINE s == First(hits)
           gap == s.rlba - lba
           old == pdus[Len(pdus)].pieces
           f == File(lba, gap)
           c == Cache(s, s.rlba, left - gap)
<1>1. /\ pc = "hits" /\ hits # {} /\ left > 0 /\ s.rlba > lba /\ lba + left <= ReadEnd(s)
      /\ Queue(<<f, c>>) /\ left' = 0 /\ lba' = ReadEnd(s) - gap
      /\ hits' = {} /\ UNCHANGED <<request, pc, cache, transfer_length, length>>
  BY DEF SendLast
<1>2. /\ s \in Segments /\ s.rlba \in Nat /\ s.rlen \in Nat \ {0}
      /\ ReadEnd(s) = s.rlba + s.rlen
      /\ lba \in Nat /\ left \in Nat /\ s.rlba - lba \in Nat /\ s.rlba <= lba + left
      /\ old \in Seq(Pieces)
  BY <1>1, GapFacts
<1> HIDE DEF s, old
<1>3. gap \in Nat /\ left - gap \in Nat /\ lba' \in Nat
  BY <1>1, <1>2
<1> HIDE DEF gap
<1>4. f \in Pieces /\ c \in Pieces /\ f.len = gap /\ c.len = left - gap
  BY <1>2, <1>3, PieceTypes
<1> HIDE DEF f, c
<1>5. Sum(Lengths(old \o <<f, c>>)) = Sum(Lengths(old)) + f.len + c.len /\ Sum(Lengths(old)) \in Int
  BY <1>2, <1>4, LengthsAppendTwo, LengthsType, SumType
<1>6. Sum(Lengths(old \o <<f, c>>)) = Sum(Lengths(old)) + left - left'
  BY <1>1, <1>2, <1>3, <1>4, <1>5
<1>7. <<f, c>> \in Seq(Pieces) /\ hits' \in SUBSET hits /\ left' \in Nat
  BY <1>1, <1>4
<1>8. \A t \in hits' : lba' < ReadEnd(t) /\ t.rlba <= lba' + left'
  BY <1>1
<1> QED BY <1>1, <1>3, <1>6, <1>7, <1>8, SendKeeps DEF old

LEMMA SendInnerKeeps == ASSUME RInv, SendInner PROVE RInv'
<1> DEFINE s == First(hits)
           gap == s.rlba - lba
           old == pdus[Len(pdus)].pieces
           f == File(lba, gap)
           c == Cache(s, s.rlba, s.rlen)
<1>1. /\ pc = "hits" /\ hits # {} /\ left > 0 /\ s.rlba > lba /\ lba + left > ReadEnd(s)
      /\ Queue(<<f, c>>) /\ left' = left - gap - s.rlen /\ lba' = ReadEnd(s)
      /\ hits' = hits \ {s} /\ UNCHANGED <<request, pc, cache, transfer_length, length>>
  BY DEF SendInner
<1>2. /\ s \in Segments /\ s.rlba \in Nat /\ s.rlen \in Nat \ {0}
      /\ ReadEnd(s) = s.rlba + s.rlen
      /\ lba \in Nat /\ left \in Nat /\ s.rlba - lba \in Nat
      /\ \A t \in hits \ {s} : /\ ReadEnd(s) <= t.rlba /\ t.rlba < ReadEnd(t)
                               /\ t.rlba <= lba + left /\ t.rlba \in Nat /\ ReadEnd(t) \in Nat
      /\ old \in Seq(Pieces)
  BY <1>1, GapFacts
<1> HIDE DEF s, old
<1>3. /\ gap \in Nat /\ lba' \in Nat /\ left' \in Nat /\ lba' + left' = lba + left
      /\ left = left' + gap + s.rlen
  <2> DEFINE b == s.rlba
             n == s.rlen
             e == ReadEnd(s)
  <2>1. /\ b \in Nat /\ n \in Nat /\ e = b + n /\ lba \in Nat /\ left \in Nat
        /\ b > lba /\ lba + left > e
        /\ left' = left - (b - lba) - n /\ lba' = e /\ gap = b - lba
    BY <1>1, <1>2
  <2> HIDE DEF b, n, e, gap
  <2>2. /\ gap \in Nat /\ lba' \in Nat /\ left' \in Nat /\ lba' + left' = lba + left
        /\ left = left' + gap + n
    BY <2>1
  <2> QED BY <2>2 DEF n
<1> HIDE DEF gap
<1>4. f \in Pieces /\ c \in Pieces /\ f.len = gap /\ c.len = s.rlen
  BY <1>2, <1>3, PieceTypes
<1> HIDE DEF f, c
<1>5. Sum(Lengths(old \o <<f, c>>)) = Sum(Lengths(old)) + f.len + c.len /\ Sum(Lengths(old)) \in Int
  BY <1>2, <1>4, LengthsAppendTwo, LengthsType, SumType
<1>6. Sum(Lengths(old \o <<f, c>>)) = Sum(Lengths(old)) + left - left'
  <2>1. /\ f.len = gap /\ c.len = s.rlen /\ gap \in Nat /\ s.rlen \in Nat /\ left' \in Nat
        /\ left = left' + gap + s.rlen
    BY <1>2, <1>3, <1>4
  <2> QED BY <1>5, <2>1
<1>7. <<f, c>> \in Seq(Pieces) /\ hits' \in SUBSET hits
  BY <1>1, <1>4
<1>8. \A t \in hits' : lba' < ReadEnd(t) /\ t.rlba <= lba' + left'
  <2>1. lba' = ReadEnd(s) /\ hits' = hits \ {s} /\ lba' + left' = lba + left /\ lba' \in Nat
    BY <1>1, <1>3
  <2>2. \A t \in hits \ {s} : /\ ReadEnd(s) <= t.rlba /\ t.rlba < ReadEnd(t)
                              /\ t.rlba <= lba + left /\ t.rlba \in Nat /\ ReadEnd(t) \in Nat
    BY <1>2
  <2> QED BY <2>1, <2>2
<1> QED BY <1>1, <1>3, <1>6, <1>7, <1>8, SendKeeps DEF old

LEMMA EndPduKeeps == ASSUME RInv, EndPdu PROVE RInv'
<1> DEFINE n == Len(pdus)
           old == pdus[n].pieces
<1>1. /\ pc = "hits" /\ hits' = {} /\ left' = 0 /\ UNCHANGED <<request, cache, length>>
      /\ \/ transfer_length = 0 /\ pc' = "done" /\ transfer_length' = transfer_length
         \/ transfer_length # 0 /\ pc' = "pdu" /\ transfer_length' = transfer_length - length
      /\ \/ left > 0 /\ Queue(<<File(lba, left)>>) /\ lba' = lba + left
         \/ ~(left > 0) /\ pdus' = pdus /\ lba' = lba
  BY DEF EndPdu
<1>2. /\ pdus \in Seq(PduSet) /\ n # 0 /\ lba \in Nat /\ left \in Nat /\ length \in Nat
      /\ transfer_length \in Nat /\ total \in Nat /\ transfer_mrds \in Nat \ {0}
      /\ transfer_length = 0 \/ (length = transfer_mrds /\ transfer_mrds < transfer_length)
      /\ pdus[n].length = length
  BY <1>1 DEF RInv, Progress, Request
<1>3. n \in DOMAIN pdus /\ old \in Seq(Pieces)
  BY <1>2, LastPieces
<1>4. /\ pdus' \in Seq(PduSet) /\ Len(pdus') = n /\ DOMAIN pdus' = DOMAIN pdus
      /\ \A i \in DOMAIN pdus : pdus'[i].length = pdus[i].length
      /\ \A i \in DOMAIN pdus : i # n => pdus'[i] = pdus[i]
      /\ PduLengths' = PduLengths
      /\ Sum(Lengths(pdus'[n].pieces)) = Sum(Lengths(old)) + left
      /\ lba' \in Nat
  <2>1. CASE left > 0 /\ Queue(<<File(lba, left)>>) /\ lba' = lba + left
    <3> DEFINE f == File(lba, left)
    <3>1. f \in Pieces /\ f.len = left
      BY <1>2 DEF File, Pieces
    <3> HIDE DEF f
    <3>2. <<f>> \in Seq(Pieces) /\ Queue(<<f>>)
      BY <2>1, <3>1 DEF f
    <3>3. /\ pdus' \in Seq(PduSet) /\ Len(pdus') = n /\ DOMAIN pdus' = DOMAIN pdus
          /\ \A i \in DOMAIN pdus : pdus'[i].length = pdus[i].length
          /\ \A i \in DOMAIN pdus : i # n => pdus'[i] = pdus[i]
          /\ PduLengths' = PduLengths
          /\ pdus'[n].pieces = old \o <<f>>
      BY <1>2, <3>2, QueueEffect
    <3>4. Sum(Lengths(old \o <<f>>)) = Sum(Lengths(old)) + left
      BY <1>3, <3>1, LengthsAppend
    <3> QED BY <1>2, <2>1, <3>3, <3>4
  <2>2. CASE ~(left > 0) /\ pdus' = pdus /\ lba' = lba
    <3>1. left = 0 /\ PduLengths' = PduLengths
      BY <1>2, <2>2 DEF PduLengths
    <3>2. Sum(Lengths(old)) \in Int
      BY <1>3, LengthsType, SumType
    <3> QED BY <1>2, <2>2, <3>1, <3>2
  <2> QED BY <1>1, <2>1, <2>2
<1> HIDE DEF n, old
<1>5. Request'
  BY <1>1 DEF RInv, Request, request, transfer_mrds
<1>6. Progress'
  <2>1. transfer_length' \in Nat /\ (pc' = "pdu" => transfer_length' > 0) /\ length' \in Nat
    BY <1>1, <1>2
  <2>2. \A i \in DOMAIN pdus' : pdus'[i].length \in 1 .. transfer_mrds'
    BY <1>1, <1>4 DEF RInv, Progress, request, transfer_mrds
  <2> QED BY <1>1, <1>4, <2>1, <2>2 DEF Progress
<1>7. Framing'
  <2>1. \A i \in DOMAIN pdus : Sum(Lengths(pdus[i].pieces)) = pdus[i].length - Unqueued(i)
    BY <1>1 DEF RInv, Framing
  <2>2. Sum(PduLengths)' = total - transfer_length + (IF transfer_length # 0 THEN length ELSE 0)
    BY <1>1, <1>4 DEF RInv, Framing
  <2>3. total - transfer_length + (IF transfer_length # 0 THEN length ELSE 0)
          = total - transfer_length'
    BY <1>1, <1>2
  <2>4. ASSUME NEW i \in DOMAIN pdus
        PROVE  Sum(Lengths(pdus'[i].pieces)) = pdus'[i].length - Unqueued(i)'
    <3>0. Unqueued(i)' = 0
      BY <1>1 DEF Unqueued
    <3>1. CASE i = n
      <4>1. Unqueued(i) = left
        BY <1>1, <3>1 DEF Unqueued, n
      <4>2. Sum(Lengths(old)) = length - left
        BY <2>1, <3>1, <4>1, <1>2 DEF old, n
      <4>3. Sum(Lengths(pdus'[i].pieces)) = length - left + left
        BY <4>2, <3>1, <1>4
      <4>4. pdus'[i].length = length
        BY <1>2, <1>4, <3>1
      <4> QED BY <4>3, <4>4, <3>0, <1>2
    <3>2. CASE i # n
      <4>1. Unqueued(i) = 0
        BY <3>2 DEF Unqueued, n
      <4>2. pdus'[i] = pdus[i]
        BY <3>2, <1>4
      <4> QED BY <2>1, <4>1, <4>2, <3>0
    <3> QED BY <3>1, <3>2
  <2>5. total' = total /\ pc' # "hits" /\ total - transfer_length' + 0 = total - transfer_length'
    BY <1>1, <1>2 DEF request
  <2> QED BY <1>4, <2>2, <2>3, <2>4, <2>5 DEF Framing
<1> QED BY <1>5, <1>6, <1>7 DEF RInv

(* The two ways to begin a PDU append its header to the list.              *)
LEMMA PduLengthFacts ==
  ASSUME RInv, pc = "pdu"
  PROVE  /\ PduLength \in 1 .. transfer_mrds /\ PduLength \in Nat
         /\ IsLast => PduLength = transfer_length
         /\ ~IsLast => PduLength = transfer_mrds /\ transfer_mrds < transfer_length
         /\ transfer_length \in Nat /\ total \in Nat /\ transfer_mrds \in Nat \ {0} /\ lba \in Nat
         /\ pdus \in Seq(PduSet)
<1>1. /\ transfer_length \in Nat /\ total \in Nat /\ transfer_mrds \in Nat \ {0} /\ lba \in Nat
      /\ transfer_length > 0 /\ pdus \in Seq(PduSet)
  BY DEF RInv, Progress, Request
<1>2. CASE IsLast
  BY <1>1, <1>2 DEF PduLength, IsLast
<1>3. CASE ~IsLast
  BY <1>1, <1>3 DEF PduLength, IsLast
<1> QED BY <1>1, <1>2, <1>3

(* A header says the bytes of its blocks, or more of them.                 *)
LEMMA HeaderFacts ==
  ASSUME RInv, pc = "pdu", NEW ps \in Seq(Pieces)
  PROVE  LET h == Header(ps) IN
         /\ h \in PduSet /\ h.length = PduLength /\ h.pieces = ps
         /\ h.dlength = IF IsLast THEN LBA2OFFSET(PduLength) ELSE byte_mrds
         /\ h.dlength \in 1 .. byte_mrds
         /\ h.pad = padding + (IF IsLast THEN 0 ELSE 2 * Pad(byte_mrds))
<1> DEFINE d == IF IsLast THEN LBA2OFFSET(transfer_length) ELSE byte_mrds
           q == padding + (IF IsLast THEN 0 ELSE 2 * Pad(byte_mrds))
<1>1. /\ PduLength \in 1 .. transfer_mrds /\ PduLength \in Nat
      /\ IsLast => PduLength = transfer_length
  BY PduLengthFacts
<1>2. byte_mrds \in Mrds /\ byte_mrds \in Nat /\ byte_mrds # 0
  BY MrdsAssumption, UnitAssumption DEF RInv, Request
<1>3. PduLength * Unit \in 1 .. byte_mrds
  <2>1. transfer_mrds = OFFSET2LBA(byte_mrds)
    BY DEF transfer_mrds
  <2>2. \A n \in 1 .. OFFSET2LBA(byte_mrds) : n * Unit \in 1 .. byte_mrds
    BY <1>2, WholeBlocks
  <2> QED BY <1>1, <2>1, <2>2
<1>4. /\ d \in 1 .. byte_mrds /\ d \in Nat
      /\ d = IF IsLast THEN LBA2OFFSET(PduLength) ELSE byte_mrds
  BY <1>1, <1>2, <1>3 DEF LBA2OFFSET
<1>5. Pad(byte_mrds) \in Nat
  BY <1>2, WordAssumption DEF Pad
<1>6. padding \in Nat
  <2>1. pdus \in Seq(PduSet)
    BY DEF RInv, Progress
  <2>2. CASE pdus = << >>
    BY <2>2 DEF padding
  <2>3. CASE pdus # << >>
    <3>1. pdus[Len(pdus)] \in PduSet
      BY <2>1, <2>3
    <3> QED BY <3>1, <2>3 DEF padding, PduSet
  <2> QED BY <2>2, <2>3
<1>7. q \in Nat
  BY <1>5, <1>6
<1>8. Header(ps) = [dlength |-> d, pad |-> q, length |-> PduLength, pieces |-> ps]
  BY DEF Header
<1> HIDE DEF d, q
<1>9. Header(ps) \in PduSet
  BY <1>1, <1>4, <1>7, <1>8 DEF PduSet
<1>10. /\ Header(ps).dlength = d /\ Header(ps).pad = q
       /\ Header(ps).length = PduLength /\ Header(ps).pieces = ps
  BY <1>8
<1> QED BY <1>4, <1>9, <1>10 DEF q

LEMMA MissPduKeeps == ASSUME RInv, MissPdu PROVE RInv'
<1> DEFINE n == Len(pdus)
           f == File(lba, PduLength)
           h == Header(<<f>>)
<1>1. /\ pc = "pdu" /\ pdus' = Append(pdus, h) /\ length' = PduLength
      /\ \/ IsLast /\ pc' = "done" /\ transfer_length' = 0 /\ lba' = lba
         \/ /\ ~IsLast /\ pc' = "pdu" /\ transfer_length' = transfer_length - transfer_mrds
            /\ lba' = lba + transfer_mrds
      /\ UNCHANGED <<request, cache, hits, left>>
  BY DEF MissPdu
<1>2. /\ PduLength \in 1 .. transfer_mrds /\ PduLength \in Nat
      /\ IsLast => PduLength = transfer_length
      /\ ~IsLast => PduLength = transfer_mrds /\ transfer_mrds < transfer_length
      /\ transfer_length \in Nat /\ total \in Nat /\ transfer_mrds \in Nat \ {0} /\ lba \in Nat
      /\ pdus \in Seq(PduSet)
  BY <1>1, PduLengthFacts
<1>3. f \in Pieces /\ f.len = PduLength
  BY <1>2 DEF File, Pieces
<1> HIDE DEF f
<1>4. h \in PduSet /\ h.length = PduLength /\ h.pieces = <<f>>
  <2>1. <<f>> \in Seq(Pieces)
    BY <1>3
  <2> QED BY <1>1, <2>1, HeaderFacts
<1>5. Sum(Lengths(h.pieces)) = PduLength
  <2>1. << >> \in Seq(Pieces) /\ << >> \o <<f>> = <<f>>
    OBVIOUS
  <2>2. Sum(Lengths(<< >>)) = 0
    <3>1. Lengths(<< >>) = << >>
      BY DEF Lengths
    <3> QED BY <3>1, SumEmpty
  <2>3. Sum(Lengths(<< >> \o <<f>>)) = Sum(Lengths(<< >>)) + f.len
    BY <2>1, <1>3, LengthsAppend
  <2> QED BY <1>2, <1>3, <1>4, <2>1, <2>2, <2>3
<1> HIDE DEF h
<1>6. /\ pdus' \in Seq(PduSet) /\ Len(pdus') = n + 1 /\ n \in Nat
      /\ DOMAIN pdus = 1 .. n /\ DOMAIN pdus' = 1 .. (n + 1)
      /\ pdus'[n + 1] = h
      /\ \A i \in DOMAIN pdus : pdus'[i] = pdus[i]
      /\ Sum(PduLengths') = Sum(PduLengths) + PduLength
      /\ Sum(PduLengths) \in Int
  BY <1>1, <1>2, <1>4, PduLengthsAppend
<1> HIDE DEF n
<1>7. Request'
  BY <1>1 DEF RInv, Request, request, transfer_mrds
<1>8. Progress'
  <2>1. /\ transfer_length' \in Nat /\ (pc' = "pdu" => transfer_length' > 0)
        /\ length' \in Nat /\ lba' \in Nat /\ left' \in Nat /\ transfer_mrds' = transfer_mrds
    BY <1>1, <1>2 DEF RInv, Progress, request, transfer_mrds
  <2>2. \A i \in DOMAIN pdus' : pdus'[i].length \in 1 .. transfer_mrds'
    <3> SUFFICES ASSUME NEW i \in 1 .. (n + 1) PROVE pdus'[i].length \in 1 .. transfer_mrds
      BY <1>6, <2>1
    <3>1. CASE i = n + 1
      BY <1>2, <1>4, <1>6, <3>1
    <3>2. CASE i # n + 1
      <4>1. i \in DOMAIN pdus /\ pdus'[i] = pdus[i]
        BY <1>6, <3>2
      <4> QED BY <4>1 DEF RInv, Progress
    <3> QED BY <3>1, <3>2
  <2> QED BY <1>1, <1>6, <2>1, <2>2 DEF Progress
<1>9. Framing'
  <2>1. \A i \in DOMAIN pdus : Sum(Lengths(pdus[i].pieces)) = pdus[i].length - Unqueued(i)
    BY <1>1 DEF RInv, Framing
  <2>2. Sum(PduLengths) = total - transfer_length
    <3>1. Sum(PduLengths) = total - transfer_length + 0
      BY <1>1 DEF RInv, Framing
    <3> QED BY <3>1, <1>2
  <2>3. Sum(PduLengths)' = total - transfer_length'
    BY <1>1, <1>2, <1>6, <2>2
  <2>4. ASSUME NEW i \in 1 .. (n + 1)
        PROVE  Sum(Lengths(pdus'[i].pieces)) = pdus'[i].length - Unqueued(i)'
    <3>0. Unqueued(i)' = 0 /\ Unqueued(i) = 0
      BY <1>1 DEF Unqueued
    <3>1. CASE i = n + 1
      BY <3>0, <3>1, <1>2, <1>4, <1>5, <1>6
    <3>2. CASE i # n + 1
      <4>1. i \in DOMAIN pdus /\ pdus'[i] = pdus[i]
        BY <1>6, <3>2
      <4> QED BY <2>1, <3>0, <4>1
    <3> QED BY <3>1, <3>2
  <2>5. total' = total /\ pc' # "hits" /\ transfer_length' \in Int
    BY <1>1, <1>2 DEF request
  <2> QED BY <1>2, <1>6, <2>3, <2>4, <2>5 DEF Framing
<1> QED BY <1>7, <1>8, <1>9 DEF RInv

LEMMA HitPduKeeps == ASSUME RInv, HitPdu PROVE RInv'
<1> DEFINE n == Len(pdus)
           h == Header(<< >>)
           found == getHitSegments(lba, PduLength)
<1>1. /\ pc = "pdu" /\ pdus' = Append(pdus, h) /\ length' = PduLength /\ left' = PduLength
      /\ transfer_length' = IF IsLast THEN 0 ELSE transfer_length
      /\ hits' = found /\ pc' = IF found = {} THEN "error" ELSE "hits"
      /\ UNCHANGED <<request, cache, lba>>
  BY DEF HitPdu
<1>2. /\ PduLength \in 1 .. transfer_mrds /\ PduLength \in Nat
      /\ IsLast => PduLength = transfer_length
      /\ ~IsLast => PduLength = transfer_mrds /\ transfer_mrds < transfer_length
      /\ transfer_length \in Nat /\ total \in Nat /\ transfer_mrds \in Nat \ {0} /\ lba \in Nat
      /\ pdus \in Seq(PduSet)
  BY <1>1, PduLengthFacts
<1>3. h \in PduSet /\ h.length = PduLength /\ h.pieces = << >>
  <2>1. << >> \in Seq(Pieces)
    OBVIOUS
  <2> QED BY <1>1, <2>1, HeaderFacts
<1>4. Sum(Lengths(<< >>)) = 0
  <2>1. Lengths(<< >>) = << >>
    BY DEF Lengths
  <2> QED BY <2>1, SumEmpty
<1>5. \A t \in found : lba < ReadEnd(t) /\ t.rlba <= lba + PduLength
  <2> SUFFICES ASSUME NEW t \in found PROVE lba < ReadEnd(t) /\ t.rlba <= lba + PduLength
    OBVIOUS
  <2>1. t \in Segments
    BY DEF getHitSegments, RInv, Request
  <2>2. t.rlba \in Nat /\ ReadEnd(t) \in Nat /\ t.rlba < ReadEnd(t)
    BY <2>1, SegmentFacts
  <2>3. \/ lba <= t.rlba /\ t.rlba <= lba + PduLength
        \/ t.rlba < lba /\ lba < ReadEnd(t)
    BY DEF getHitSegments
  <2> QED BY <1>2, <2>2, <2>3
<1>6. found \in SUBSET cache
  BY DEF getHitSegments
<1> HIDE DEF h, found
<1>7. /\ pdus' \in Seq(PduSet) /\ Len(pdus') = n + 1 /\ n \in Nat
      /\ DOMAIN pdus = 1 .. n /\ DOMAIN pdus' = 1 .. (n + 1)
      /\ pdus'[n + 1] = h
      /\ \A i \in DOMAIN pdus : pdus'[i] = pdus[i]
      /\ Sum(PduLengths') = Sum(PduLengths) + PduLength
      /\ Sum(PduLengths) \in Int
  BY <1>1, <1>2, <1>3, PduLengthsAppend
<1> HIDE DEF n
<1>8. Request'
  BY <1>1, <1>6 DEF RInv, Request, request, transfer_mrds
<1>9. pc' \in {"hits", "error"}
  BY <1>1
<1>10. /\ transfer_length' \in Nat /\ length' \in Nat /\ lba' \in Nat /\ left' \in Nat
       /\ transfer_mrds' = transfer_mrds /\ total' = total
       /\ transfer_length' = 0 \/ (length' = transfer_mrds /\ transfer_mrds < transfer_length')
  BY <1>1, <1>2 DEF request, transfer_mrds
<1>11. Progress'
  <2>1. \A i \in DOMAIN pdus' : pdus'[i].length \in 1 .. transfer_mrds'
    <3> SUFFICES ASSUME NEW i \in 1 .. (n + 1) PROVE pdus'[i].length \in 1 .. transfer_mrds
      BY <1>7, <1>10
    <3>1. CASE i = n + 1
      BY <1>2, <1>3, <1>7, <3>1
    <3>2. CASE i # n + 1
      <4>1. i \in DOMAIN pdus /\ pdus'[i] = pdus[i]
        BY <1>7, <3>2
      <4> QED BY <4>1 DEF RInv, Progress
    <3> QED BY <3>1, <3>2
  <2>2. Len(pdus') # 0 /\ pdus'[Len(pdus')].length = length'
    BY <1>1, <1>3, <1>7
  <2>3. \A t \in hits' : lba' < ReadEnd(t) /\ t.rlba <= lba' + left'
    BY <1>1, <1>5
  <2> QED BY <1>7, <1>9, <1>10, <2>1, <2>2, <2>3 DEF Progress, ReadEnd
<1>12. Framing'
  <2>1. \A i \in DOMAIN pdus : Sum(Lengths(pdus[i].pieces)) = pdus[i].length - Unqueued(i)
    BY <1>1 DEF RInv, Framing
  <2>2. Sum(PduLengths) = total - transfer_length
    <3>1. Sum(PduLengths) = total - transfer_length + 0
      BY <1>1 DEF RInv, Framing
    <3> QED BY <3>1, <1>2
  <2>3. Sum(PduLengths)' = total - transfer_length' + (IF transfer_length' # 0 THEN length' ELSE 0)
    <3>1. CASE IsLast
      <4>1. transfer_length' = 0 /\ PduLength = transfer_length
        BY <1>1, <1>2, <3>1
      <4> QED BY <1>2, <1>7, <2>2, <4>1
    <3>2. CASE ~IsLast
      <4>1. transfer_length' = transfer_length /\ length' = PduLength /\ transfer_length # 0
        BY <1>1, <1>2, <3>2
      <4> QED BY <1>2, <1>7, <2>2, <4>1
    <3> QED BY <3>1, <3>2
  <2>4. ASSUME NEW i \in 1 .. (n + 1), pc' = "hits"
        PROVE  Sum(Lengths(pdus'[i].pieces)) = pdus'[i].length - Unqueued(i)'
    <3>0. Unqueued(i) = 0
      BY <1>1 DEF Unqueued
    <3>1. CASE i = n + 1
      <4>1. Unqueued(i)' = PduLength
        BY <1>1, <1>7, <2>4, <3>1 DEF Unqueued
      <4> QED BY <3>1, <4>1, <1>2, <1>3, <1>4, <1>7
    <3>2. CASE i # n + 1
      <4>1. i \in DOMAIN pdus /\ pdus'[i] = pdus[i]
        BY <1>7, <3>2
      <4>2. Unqueued(i)' = 0
        BY <1>7, <3>2 DEF Unqueued
      <4> QED BY <2>1, <3>0, <4>1, <4>2
    <3> QED BY <3>1, <3>2
  <2> QED BY <1>7, <1>9, <1>10, <2>3, <2>4 DEF Framing
<1> QED BY <1>8, <1>11, <1>12 DEF RInv

LEMMA InitRInv == Init => RInv
<1> SUFFICES ASSUME Init PROVE RInv
  OBVIOUS
<1>1. Request
  <2>1. byte_mrds \in Mrds
    BY DEF Init
  <2>2. OFFSET2LBA(byte_mrds) \in Nat \ {0}
    BY <2>1, WholeBlocks
  <2>3. transfer_mrds \in Nat \ {0}
    BY <2>2 DEF transfer_mrds
  <2> QED BY <2>1, <2>3, SizeAssumption DEF Init, Request
<1>2. Progress
  BY SizeAssumption DEF Init, Progress
<1>3. Framing
  <2>1. PduLengths = << >> /\ Sum(PduLengths) = 0
    BY SumEmpty DEF Init, PduLengths
  <2>2. total \in Nat /\ transfer_length = total /\ pc = "check" /\ DOMAIN pdus = {}
    BY SizeAssumption DEF Init
  <2>3. total - transfer_length + 0 = 0
    BY <2>2
  <2> QED BY <2>1, <2>2, <2>3 DEF Framing
<1> QED BY <1>1, <1>2, <1>3 DEF RInv

LEMMA AcceptKeeps == ASSUME RInv, Accept PROVE RInv'
<1>1. /\ pc = "check" /\ pc' = "pdu" /\ cache' = search(lba, transfer_length) /\ total > 0
      /\ UNCHANGED <<request, lba, transfer_length, length, hits, left, pdus>>
  BY DEF Accept, InVolume
<1>2. transfer_length = total /\ pdus = << >> /\ hits = {} /\ total \in Nat
  BY <1>1 DEF RInv, Progress, Request
<1>3. cache' \in SUBSET segments
  BY <1>1 DEF search
<1>4. Request'
  BY <1>1, <1>2, <1>3 DEF RInv, Request, request, transfer_mrds
<1>5. Progress'
  BY <1>1, <1>2 DEF RInv, Progress, request, transfer_mrds
<1>6. Framing'
  <2>1. PduLengths' = PduLengths /\ DOMAIN pdus' = {}
    BY <1>1, <1>2 DEF PduLengths
  <2>2. Sum(PduLengths) = total - transfer_length + 0
    BY <1>1 DEF RInv, Framing
  <2> QED BY <1>1, <2>1, <2>2 DEF Framing, request
<1> QED BY <1>4, <1>5, <1>6 DEF RInv

LEMMA RefuseKeeps == ASSUME RInv, Refuse PROVE RInv'
<1>1. /\ pc = "check" /\ pc' = "error"
      /\ UNCHANGED <<request, cache, lba, transfer_length, length, hits, left, pdus>>
  BY DEF Refuse
<1>2. Request'
  BY <1>1 DEF RInv, Request, request, transfer_mrds
<1>3. Progress'
  BY <1>1 DEF RInv, Progress, request, transfer_mrds
<1> QED BY <1>1, <1>2, <1>3 DEF RInv, Framing

LEMMA StutterKeeps == ASSUME RInv, UNCHANGED vars PROVE RInv'
<1>1. Request' /\ Progress'
  BY DEF RInv, Request, Progress, vars, request, transfer_mrds
<1>2. PduLengths' = PduLengths /\ pdus' = pdus /\ \A i : Unqueued(i)' = Unqueued(i)
  BY DEF PduLengths, Unqueued, vars
<1>3. Framing'
  BY <1>2 DEF RInv, Framing, vars, request
<1> QED BY <1>1, <1>3 DEF RInv

LEMMA StepRInv == RInv /\ [Next]_vars => RInv'
<1> SUFFICES ASSUME RInv, [Next]_vars PROVE RInv'
  OBVIOUS
<1>1. CASE Refuse
  BY <1>1, RefuseKeeps
<1>2. CASE Accept
  BY <1>2, AcceptKeeps
<1>3. CASE MissPdu
  BY <1>3, MissPduKeeps
<1>4. CASE HitPdu
  BY <1>4, HitPduKeeps
<1>5. CASE SendHead
  BY <1>5, SendHeadKeeps
<1>6. CASE SendLast
  BY <1>6, SendLastKeeps
<1>7. CASE SendInner
  BY <1>7, SendInnerKeeps
<1>8. CASE EndPdu
  BY <1>8, EndPduKeeps
<1>9. CASE UNCHANGED vars
  BY <1>9, StutterKeeps
<1> QED BY <1>1, <1>2, <1>3, <1>4, <1>5, <1>6, <1>7, <1>8, <1>9 DEF Next

LEMMA AlwaysRInv == Spec => []RInv
  BY InitRInv, StepRInv, PTL DEF Spec

(* What the headers say: the last one the bytes of its blocks, the others  *)
(* MaxRecvDataSegmentLength as the initiator gave it, with as many blocks  *)
(* as it has.  The last PDU has been planned when transfer_length is 0.    *)
Final(i) == i = Len(pdus) /\ transfer_length = 0
HInv ==
  \A i \in DOMAIN pdus :
    /\ pdus[i].dlength \in 1 .. byte_mrds
    /\ Final(i) => pdus[i].dlength = LBA2OFFSET(pdus[i].length)
    /\ ~Final(i) => pdus[i].dlength = byte_mrds /\ pdus[i].length = transfer_mrds
    /\ byte_mrds % PAD_WORD_LEN = 0 => pdus[i].pad = 0

LEMMA InitHInv == Init => HInv
  BY DEF Init, HInv

(* A PDU more: only the last one does not come before another one.         *)
LEMMA NewHeader ==
  ASSUME RInv, HInv, pc = "pdu", NEW ps \in Seq(Pieces), pdus' = Append(pdus, Header(ps)),
         byte_mrds' = byte_mrds, transfer_length' \in Nat, transfer_length' = 0 <=> IsLast
  PROVE  HInv'
<1> DEFINE h == Header(ps)
           n == Len(pdus)
<1>1. /\ pdus \in Seq(PduSet) /\ n \in Nat /\ DOMAIN pdus = 1 .. n
      /\ transfer_length > 0 /\ transfer_length \in Nat
  BY DEF RInv, Progress
<1>2. /\ h \in PduSet /\ h.length = PduLength /\ h.dlength \in 1 .. byte_mrds
      /\ h.dlength = IF IsLast THEN LBA2OFFSET(PduLength) ELSE byte_mrds
      /\ h.pad = padding + (IF IsLast THEN 0 ELSE 2 * Pad(byte_mrds))
  BY HeaderFacts
<1>3. /\ Len(pdus') = n + 1 /\ DOMAIN pdus' = 1 .. (n + 1) /\ pdus'[n + 1] = h
      /\ \A i \in 1 .. n : pdus'[i] = pdus[i]
  BY <1>1, <1>2
<1>4. transfer_mrds' = transfer_mrds
  BY DEF transfer_mrds
<1>5. byte_mrds % PAD_WORD_LEN = 0 => h.pad = 0
  <2> SUFFICES ASSUME byte_mrds % PAD_WORD_LEN = 0 PROVE h.pad = 0
    OBVIOUS
  <2>1. Pad(byte_mrds) = 0
    BY DEF Pad
  <2>2. padding = 0
    <3>1. pdus # << >> => n \in DOMAIN pdus
      BY <1>1
    <3> QED BY <3>1 DEF padding, HInv
  <2> QED BY <1>2, <2>1, <2>2
<1> HIDE DEF h, n
<1>6. ASSUME NEW i \in 1 .. (n + 1), i # n + 1
      PROVE  /\ pdus'[i].dlength = byte_mrds /\ pdus'[i].length = transfer_mrds
             /\ pdus[i].dlength \in 1 .. byte_mrds
             /\ byte_mrds % PAD_WORD_LEN = 0 => pdus'[i].pad = 0
  <2>1. i \in 1 .. n /\ i \in DOMAIN pdus
    BY <1>1, <1>6
  <2>2. ~Final(i)
    BY <1>1 DEF Final
  <2> QED BY <2>1, <2>2, <1>3 DEF HInv
<1>7. ~IsLast => h.dlength = byte_mrds /\ h.length = transfer_mrds
  BY <1>2 DEF PduLength
<1>8. ASSUME NEW i \in DOMAIN pdus'
      PROVE  /\ pdus'[i].dlength \in 1 .. byte_mrds
             /\ Final(i)' => pdus'[i].dlength = LBA2OFFSET(pdus'[i].length)
             /\ ~Final(i)' => pdus'[i].dlength = byte_mrds /\ pdus'[i].length = transfer_mrds
             /\ byte_mrds % PAD_WORD_LEN = 0 => pdus'[i].pad = 0
  <2>1. CASE i = n + 1
    <3>1. Final(i)' <=> IsLast
      BY <2>1, <1>3 DEF Final
    <3> QED BY <2>1, <3>1, <1>2, <1>3, <1>5, <1>7
  <2>2. CASE i # n + 1
    <3>1. i \in 1 .. (n + 1) /\ ~Final(i)'
      BY <2>2, <1>3 DEF Final
    <3>2. pdus'[i].dlength \in 1 .. byte_mrds
      BY <3>1, <2>2, <1>1, <1>3, <1>6
    <3> QED BY <3>1, <3>2, <2>2, <1>6
  <2> QED BY <2>1, <2>2
<1> QED BY <1>4, <1>8 DEF HInv

(* Pieces behind a header do not change what it says.                      *)
SameHeads ==
  /\ DOMAIN pdus' = DOMAIN pdus /\ Len(pdus') = Len(pdus)
  /\ \A i \in DOMAIN pdus : /\ pdus'[i].length = pdus[i].length
                            /\ pdus'[i].dlength = pdus[i].dlength /\ pdus'[i].pad = pdus[i].pad

LEMMA QueueHeads ==
  ASSUME pdus \in Seq(PduSet), Len(pdus) # 0, NEW ps, Queue(ps)
  PROVE  SameHeads
<1> DEFINE n == Len(pdus)
           q == [pdus[n] EXCEPT !.pieces = @ \o ps]
           T == PduSet \cup {q}
<1>1. n \in 1 .. n /\ DOMAIN pdus = 1 .. n /\ n \in Nat /\ pdus[n] \in PduSet
  OBVIOUS
<1>2. q.length = pdus[n].length /\ q.dlength = pdus[n].dlength /\ q.pad = pdus[n].pad
  BY <1>1 DEF PduSet
<1>3. pdus' = [pdus EXCEPT ![n] = q]
  BY DEF Queue
<1> HIDE DEF q
<1>4. pdus \in Seq(T) /\ q \in T
  OBVIOUS
<1> HIDE DEF T
<1>5. Len(pdus') = n /\ DOMAIN pdus' = 1 .. n
  BY <1>1, <1>3, <1>4
<1>6. pdus'[n] = q /\ \A i \in 1 .. n : i # n => pdus'[i] = pdus[i]
  BY <1>1, <1>3
<1> QED BY <1>1, <1>2, <1>5, <1>6 DEF SameHeads

LEMMA SameHeaders ==
  ASSUME HInv, byte_mrds' = byte_mrds, SameHeads, transfer_length' = 0 <=> transfer_length = 0
  PROVE  HInv'
<1>1. transfer_mrds' = transfer_mrds /\ \A i : Final(i)' <=> Final(i)
  BY DEF transfer_mrds, Final, SameHeads
<1> QED BY <1>1 DEF HInv, SameHeads

LEMMA StepHInv == RInv /\ HInv /\ [Next]_vars => HInv'
<1> SUFFICES ASSUME RInv, HInv, [Next]_vars PROVE HInv'
  OBVIOUS
<1>1. pdus \in Seq(PduSet) /\ transfer_length \in Nat /\ length \in Nat
  BY DEF RInv, Progress
<1>2. pc = "hits" => Len(pdus) # 0
  BY DEF RInv, Progress
<1>3. CASE Refuse \/ Accept \/ UNCHANGED vars
  <2>1. UNCHANGED <<byte_mrds, transfer_length, pdus>>
    BY <1>3 DEF Refuse, Accept, vars, request
  <2>2. SameHeads
    BY <2>1 DEF SameHeads
  <2> QED BY <2>1, <2>2, SameHeaders
<1>4. CASE MissPdu
  <2> DEFINE f == File(lba, PduLength)
  <2>1. /\ pc = "pdu" /\ pdus' = Append(pdus, Header(<<f>>)) /\ byte_mrds' = byte_mrds
        /\ \/ IsLast /\ transfer_length' = 0
           \/ ~IsLast /\ transfer_length' = transfer_length - transfer_mrds
    BY <1>4 DEF MissPdu, request
  <2>2. f \in Pieces
    <3>1. PduLength \in Nat /\ lba \in Nat
      BY <2>1, PduLengthFacts
    <3> QED BY <3>1 DEF File, Pieces
  <2>3. <<f>> \in Seq(Pieces)
    BY <2>2
  <2>4. ~IsLast => PduLength = transfer_mrds /\ transfer_mrds < transfer_length /\ transfer_mrds \in Nat
    BY <2>1, PduLengthFacts
  <2>5. transfer_length' \in Nat /\ (transfer_length' = 0 <=> IsLast)
    BY <2>1, <2>4, <1>1
  <2> HIDE DEF f
  <2> QED BY <2>1, <2>3, <2>5, NewHeader
<1>5. CASE HitPdu
  <2>1. /\ pc = "pdu" /\ pdus' = Append(pdus, Header(<< >>)) /\ byte_mrds' = byte_mrds
        /\ transfer_length' = IF IsLast THEN 0 ELSE transfer_length
    BY <1>5 DEF HitPdu, request
  <2>2. << >> \in Seq(Pieces) /\ transfer_length > 0
    BY <2>1 DEF RInv, Progress
  <2>3. transfer_length' \in Nat /\ (transfer_length' = 0 <=> IsLast)
    BY <2>1, <2>2, <1>1
  <2> QED BY <2>1, <2>2, <2>3, NewHeader
<1>6. CASE SendHead \/ SendLast \/ SendInner
  <2>1. pc = "hits" /\ (\E ps : Queue(ps)) /\ UNCHANGED <<byte_mrds, transfer_length>>
    BY <1>6 DEF SendHead, SendLast, SendInner, request
  <2>2. SameHeads
    BY <2>1, <1>1, <1>2, QueueHeads
  <2> QED BY <2>1, <2>2, SameHeaders
<1>7. CASE EndPdu
  <2>1. /\ pc = "hits" /\ byte_mrds' = byte_mrds
        /\ (\E ps : Queue(ps)) \/ pdus' = pdus
        /\ transfer_length' = IF transfer_length = 0 THEN 0 ELSE transfer_length - length
    BY <1>7 DEF EndPdu, request
  <2>2. transfer_length' = 0 <=> transfer_length = 0
    <3>1. transfer_length = 0 \/ (length < transfer_length)
      BY <2>1 DEF RInv, Progress
    <3> QED BY <2>1, <3>1, <1>1
  <2>3. SameHeads
    <3>1. CASE pdus' = pdus
      BY <3>1 DEF SameHeads
    <3> QED BY <2>1, <3>1, <1>1, <1>2, QueueHeads
  <2> QED BY <2>1, <2>2, <2>3, SameHeaders
<1> QED BY <1>3, <1>4, <1>5, <1>6, <1>7 DEF Next

LEMMA AlwaysHInv == Spec => [](RInv /\ HInv)
  BY InitRInv, InitHInv, StepRInv, StepHInv, PTL DEF Spec

LEMMA RInvTypes == RInv /\ HInv => TypeOK
<1> SUFFICES ASSUME RInv, HInv PROVE TypeOK
  OBVIOUS
<1>1. pdus \in Seq(PduSet)
  BY DEF RInv, Progress
<1>2. ASSUME NEW i \in DOMAIN pdus
      PROVE  /\ \A j \in DOMAIN pdus[i].pieces : pdus[i].pieces[j] \in Pieces
             /\ pdus[i].pad \in Nat
  <2>1. pdus[i] \in PduSet
    BY <1>1
  <2>2. pdus[i].pieces \in Seq(Pieces) /\ pdus[i].pad \in Nat
    BY <2>1 DEF PduSet
  <2> QED BY <2>2
<1> QED BY <1>2 DEF RInv, HInv, Progress, TypeOK

(* Lengths are natural numbers, and PDUs are no longer than the initiator  *)
(* takes them: the differences that sendCache() computes in uint32_t do    *)
(* not wrap round, for any volume, cache and MaxRecvDataSegmentLength, and *)
(* in PDUs that follow a wrong address too.                                *)
THEOREM TypeCorrect == Spec => []TypeOK
  BY AlwaysHInv, RInvTypes, PTL

LEMMA RInvFrames == RInv /\ HInv => Framed
<1> SUFFICES ASSUME RInv, HInv, pc \in {"pdu", "done"} PROVE Framed
  BY DEF Framed
<1>1. /\ \A i \in DOMAIN pdus : Sum(Lengths(pdus[i].pieces)) = pdus[i].length - 0
      /\ Sum(PduLengths) = total - transfer_length + 0
  BY DEF RInv, Framing, Unqueued
<1>2. /\ total \in Nat /\ transfer_length \in Nat /\ byte_mrds \in Mrds
      /\ \A i \in DOMAIN pdus : pdus[i].length \in Nat
      /\ pc = "pdu" => transfer_length > 0
  BY DEF RInv, Progress, Request
<1>3. pc = "done" => transfer_length = 0
  BY DEF RInv, Progress
<1>4. ASSUME NEW i \in DOMAIN pdus
      PROVE  Lacking(pdus[i]) = IF pc = "done" /\ i = Len(pdus) THEN 0 ELSE byte_mrds % Unit
  <2>1. Sum(Lengths(pdus[i].pieces)) = pdus[i].length
    BY <1>1, <1>2
  <2>2. Lacking(pdus[i]) = pdus[i].dlength - LBA2OFFSET(pdus[i].length)
    BY <2>1 DEF Lacking
  <2>3. CASE pc = "done" /\ i = Len(pdus)
    <3>1. pdus[i].dlength = LBA2OFFSET(pdus[i].length)
      BY <2>3, <1>3 DEF HInv, Final
    <3>2. LBA2OFFSET(pdus[i].length) \in Int
      BY <1>2, UnitAssumption DEF LBA2OFFSET
    <3> QED BY <2>2, <2>3, <3>1, <3>2
  <2>4. CASE ~(pc = "done" /\ i = Len(pdus))
    <3>1. pdus[i].dlength = byte_mrds /\ pdus[i].length = OFFSET2LBA(byte_mrds)
      BY <2>4, <1>2 DEF HInv, Final, transfer_mrds
    <3> QED BY <2>2, <2>4, <3>1, <1>2, WholeBlocks
  <2> QED BY <2>3, <2>4
<1>5. Sum(PduLengths) = total - transfer_length
  BY <1>1, <1>2
<1> QED BY <1>4, <1>5 DEF Framed, HInv, PduLengths

(* What follows the last DataIn header is as long as the header says, and  *)
(* what follows the others is shorter by what MaxRecvDataSegmentLength has *)
(* beyond whole blocks, for any volume, cache, READ and length: the        *)
(* initiator finds the next header where it looks if, and only if, it gave *)
(* a number of whole blocks or the READ fits one PDU.                      *)
THEOREM FramedAlways == Spec => []Framed
  BY AlwaysHInv, RInvFrames, PTL
-----------------------------------------------------------------------------
(* What is sent is a prefix of what is wanted.  That the next block follows*)
(* the last one queued holds in the first PDU, and in the later ones when  *)
(* nothing is cached; there, the hits left are all the cached segments     *)
(* that the blocks left are to come from.                                  *)
BlockSet == [block : Nat, seg : SUBSET Segments]
Blocks(ps) == FlattenSeq([j \in DOMAIN ps |-> PieceBlocks(ps[j])])
Prefix(k) == [i \in 1 .. k |-> [block |-> first + i - 1, seg |-> search(first + i - 1, 1)]]
NonEmpty == \A i \in DOMAIN pdus : \A j \in DOMAIN pdus[i].pieces : pdus[i].pieces[j].len > 0

Searched ==
  /\ pc = "check" => lba = first /\ cache = {}
  /\ pc # "check" /\ InVolume => cache = search(first, total)
  /\ pc \in {"pdu", "hits", "done"} => InVolume

OnePdu == total <= transfer_mrds \/ cache = {}

BetweenPdus ==
  pc = "pdu" => /\ transfer_length <= total /\ lba = first + (total - transfer_length)
                /\ Sent = Prefix(total - transfer_length)
                /\ cache # {} => pdus = << >> /\ transfer_length = total

InPdu ==
  pc = "hits" => /\ transfer_length = 0 /\ Len(pdus) = 1 /\ left <= total
                 /\ Blocks(pdus[1].pieces) = Prefix(total - left)
                 /\ left > 0 =>
                      /\ lba + left = first + total
                      /\ \A t \in cache : lba < ReadEnd(t) => t \in hits

AtEnd ==
  /\ pc = "done" => Sent = Prefix(total)
  /\ pc = "error" => ~InVolume

EInv == Searched /\ (OnePdu => BetweenPdus /\ InPdu /\ AtEnd /\ NonEmpty)

LEMMA PieceBlocksType ==
  ASSUME NEW p \in Pieces
  PROVE  /\ PieceBlocks(p) \in Seq(BlockSet) /\ Len(PieceBlocks(p)) = p.len
         /\ \A i \in 1 .. p.len : PieceBlocks(p)[i] = [block |-> p.lba + i - 1, seg |-> p.seg]
<1>1. p.len \in Nat /\ p.lba \in Nat /\ p.seg \in SUBSET Segments
  BY DEF Pieces
<1>2. \A i \in 1 .. p.len : [block |-> p.lba + i - 1, seg |-> p.seg] \in BlockSet
  BY <1>1 DEF BlockSet
<1>3. PieceBlocks(p) \in [1 .. p.len -> BlockSet]
  BY <1>2 DEF PieceBlocks
<1>4. \A i \in 1 .. p.len : PieceBlocks(p)[i] = [block |-> p.lba + i - 1, seg |-> p.seg]
  BY Zenon DEF PieceBlocks
<1>5. PieceBlocks(p) \in Seq(BlockSet) /\ Len(PieceBlocks(p)) = p.len
  <2> DEFINE n == p.len
             v == PieceBlocks(p)
  <2>1. n \in Nat /\ v \in [1 .. n -> BlockSet]
    BY <1>1, <1>3
  <2> HIDE DEF n, v
  <2>2. v \in Seq(BlockSet) /\ Len(v) = n
    BY <2>1
  <2> QED BY <2>2 DEF n, v
<1> QED BY <1>4, <1>5

LEMMA PrefixType ==
  ASSUME Request, NEW k \in Nat
  PROVE  /\ Prefix(k) \in Seq(BlockSet) /\ Len(Prefix(k)) = k
         /\ \A i \in 1 .. k :
              Prefix(k)[i] = [block |-> first + i - 1, seg |-> search(first + i - 1, 1)]
<1>1. first \in Nat /\ segments \in SUBSET Segments
  BY DEF Request
<1>2. \A b : search(b, 1) \in SUBSET Segments
  BY <1>1 DEF search
<1>3. \A i \in 1 .. k : [block |-> first + i - 1, seg |-> search(first + i - 1, 1)] \in BlockSet
  BY <1>1, <1>2 DEF BlockSet
<1>4. Prefix(k) \in [1 .. k -> BlockSet]
  BY <1>3 DEF Prefix
<1> QED BY <1>4 DEF Prefix

(* A piece that begins behind a prefix, and takes its blocks from where    *)
(* they are wanted from, makes a longer prefix.                            *)
LEMMA PrefixExtend ==
  ASSUME Request, NEW k \in Nat, NEW p \in Pieces, p.lba = first + k,
         \A b \in Nat : p.lba <= b /\ b < p.lba + p.len => search(b, 1) = p.seg
  PROVE  Prefix(k) \o PieceBlocks(p) = Prefix(k + p.len)
<1> DEFINE n == p.len
           u == Prefix(k)
           v == PieceBlocks(p)
           w == Prefix(k + n)
<1>1. n \in Nat /\ first \in Nat /\ p.lba = first + k /\ p.lba \in Nat
  BY DEF Request, Pieces
<1>2. /\ u \in Seq(BlockSet) /\ Len(u) = k
      /\ \A i \in 1 .. k : u[i] = [block |-> first + i - 1, seg |-> search(first + i - 1, 1)]
  BY PrefixType
<1>3. /\ v \in Seq(BlockSet) /\ Len(v) = n
      /\ \A i \in 1 .. n : v[i] = [block |-> p.lba + i - 1, seg |-> p.seg]
  BY PieceBlocksType
<1>4. /\ w \in Seq(BlockSet) /\ Len(w) = k + n
      /\ \A i \in 1 .. (k + n) :
           w[i] = [block |-> first + i - 1, seg |-> search(first + i - 1, 1)]
  <2>1. k + n \in Nat
    BY <1>1
  <2> HIDE DEF n
  <2> QED BY <2>1, PrefixType
<1>5. \A b \in Nat : first + k <= b /\ b < first + k + n => search(b, 1) = p.seg
  BY <1>1
<1> HIDE DEF n, u, v, w
<1>6. /\ u \o v \in Seq(BlockSet) /\ Len(u \o v) = k + n
      /\ \A i \in 1 .. k : (u \o v)[i] = u[i]
      /\ \A i \in (k + 1) .. (k + n) : (u \o v)[i] = v[i - k]
  <2>1. u \in Seq(BlockSet) /\ Len(u) = k /\ v \in Seq(BlockSet) /\ Len(v) = n /\ n \in Nat
    BY <1>1, <1>2, <1>3
  <2>2. /\ u \o v \in Seq(BlockSet) /\ Len(u \o v) = k + n
        /\ \A i \in 1 .. (k + n) : (u \o v)[i] = IF i <= k THEN u[i] ELSE v[i - k]
    <3>1. /\ u \o v \in Seq(BlockSet) /\ Len(u \o v) = Len(u) + Len(v)
          /\ \A i \in 1 .. (Len(u) + Len(v)) :
               (u \o v)[i] = IF i <= Len(u) THEN u[i] ELSE v[i - Len(u)]
      <4>1. u \in Seq(BlockSet) /\ v \in Seq(BlockSet)
        BY <2>1
      <4> QED BY ONLY <4>1, ConcatProperties, Zenon
    <3> QED BY <2>1, <3>1
  <2>3. \A i \in 1 .. k : i \in 1 .. (k + n) /\ i <= k
    BY <2>1
  <2>4. \A i \in (k + 1) .. (k + n) : i \in 1 .. (k + n) /\ ~(i <= k)
    BY <2>1
  <2> QED BY <2>2, <2>3, <2>4, Zenon
<1>7. ASSUME NEW i \in 1 .. (k + n) PROVE (u \o v)[i] = w[i]
  <2>1. CASE i \in 1 .. k
    BY <2>1, <1>2, <1>4, <1>6
  <2>2. CASE i \notin 1 .. k
    <3> DEFINE b == first + i - 1
    <3>1. /\ i \in (k + 1) .. (k + n) /\ i - k \in 1 .. n /\ p.lba + (i - k) - 1 = b
          /\ b \in Nat /\ first + k <= b /\ b < first + k + n
      BY <1>1, <2>2
    <3>2. (u \o v)[i] = v[i - k]
      BY <3>1, <1>6
    <3>3. v[i - k] = [block |-> b, seg |-> p.seg]
      BY <3>1, <1>3
    <3>4. search(b, 1) = p.seg
      <4> HIDE DEF b
      <4> QED BY <3>1, <1>5
    <3>5. w[i] = [block |-> b, seg |-> search(b, 1)]
      BY <1>4
    <3> HIDE DEF b
    <3> QED BY <3>2, <3>3, <3>4, <3>5
  <2> QED BY <2>1, <2>2
<1>8. u \o v = w
  BY <1>1, <1>4, <1>6, <1>7, SeqEqual
<1> QED BY <1>8 DEF u, v, w, n

LEMMA BlocksAppend ==
  ASSUME NEW ps \in Seq(Pieces), NEW p \in Pieces
  PROVE  /\ Blocks(ps) \in Seq(BlockSet)
         /\ Blocks(ps \o <<p>>) = Blocks(ps) \o PieceBlocks(p)
<1> DEFINE F(q) == [j \in DOMAIN q |-> PieceBlocks(q[j])]
           qs == Append(ps, p)
<1>1. /\ ps \o <<p>> = qs /\ qs \in Seq(Pieces)
      /\ Len(qs) = Len(ps) + 1 /\ Len(ps) \in Nat
      /\ DOMAIN qs = 1 .. (Len(ps) + 1) /\ DOMAIN ps = 1 .. Len(ps)
      /\ \A i \in 1 .. Len(ps) : qs[i] = ps[i]
      /\ qs[Len(ps) + 1] = p
  OBVIOUS
<1> HIDE DEF qs
<1>2. ASSUME NEW q \in Seq(Pieces)
      PROVE  F(q) \in Seq(Seq(BlockSet)) /\ Len(F(q)) = Len(q)
  <2>1. \A i \in 1 .. Len(q) : PieceBlocks(q[i]) \in Seq(BlockSet)
    <3>1. \A i \in 1 .. Len(q) : q[i] \in Pieces
      OBVIOUS
    <3> QED BY <3>1, PieceBlocksType
  <2>2. DOMAIN q = 1 .. Len(q) /\ Len(q) \in Nat
    OBVIOUS
  <2>3. F(q) \in [1 .. Len(q) -> Seq(BlockSet)]
    BY <2>1, <2>2
  <2> QED BY <2>2, <2>3
<1>3. PieceBlocks(p) \in Seq(BlockSet)
  BY PieceBlocksType
<1>4. F(qs) = Append(F(ps), PieceBlocks(p))
  <2> DEFINE x == F(ps)
             y == F(qs)
             z == PieceBlocks(p)
  <2>1. /\ y \in Seq(Seq(BlockSet)) /\ Len(y) = Len(ps) + 1
        /\ x \in Seq(Seq(BlockSet)) /\ Len(x) = Len(ps)
    BY <1>1, <1>2
  <2>2. /\ \A i \in 1 .. Len(ps) : x[i] = PieceBlocks(ps[i]) /\ y[i] = PieceBlocks(ps[i])
        /\ y[Len(ps) + 1] = z
    BY <1>1
  <2>3. z \in Seq(BlockSet)
    BY <1>3
  <2> HIDE DEF x, y, z
  <2>4. /\ Append(x, z) \in Seq(Seq(BlockSet)) /\ Len(Append(x, z)) = Len(ps) + 1
        /\ \A i \in 1 .. Len(ps) : Append(x, z)[i] = x[i]
        /\ Append(x, z)[Len(ps) + 1] = z
    BY <2>1, <2>3
  <2>5. \A i \in 1 .. (Len(ps) + 1) : y[i] = Append(x, z)[i]
    <3> TAKE i \in 1 .. (Len(ps) + 1)
    <3>1. i \in 1 .. Len(ps) \/ i = Len(ps) + 1
      BY <1>1
    <3> QED BY <3>1, <2>2, <2>4, Zenon
  <2>6. y = Append(x, z)
    BY <2>1, <2>4, <2>5, SeqEqual
  <2> QED BY <2>6 DEF x, y, z
<1>5. F(ps) \in Seq(Seq(BlockSet))
  BY <1>2
<1>6. Blocks(ps) = FlattenSeq(F(ps)) /\ Blocks(qs) = FlattenSeq(F(qs))
  BY DEF Blocks
<1> HIDE DEF F
<1>7. FlattenSeq(Append(F(ps), PieceBlocks(p))) = FlattenSeq(F(ps)) \o PieceBlocks(p)
  BY <1>3, <1>5, FlattenAppend
<1>8. FlattenSeq(F(ps)) \in Seq(BlockSet)
  BY <1>5, FlattenType
<1> QED BY <1>1, <1>4, <1>6, <1>7, <1>8

LEMMA BlocksEmpty == Blocks(<< >>) = << >>
  BY FlattenEmpty DEF Blocks

LEMMA BlocksType == ASSUME NEW ps \in Seq(Pieces) PROVE Blocks(ps) \in Seq(BlockSet)
<1>1. [seg |-> {}, lba |-> 0, len |-> 0] \in Pieces
  BY DEF Pieces
<1> QED BY <1>1, BlocksAppend

(* The lists of blocks that the PDUs carry.                                *)
PduBlocks == [i \in DOMAIN pdus |-> Blocks(pdus[i].pieces)]

LEMMA SentIs ==
  ASSUME pdus \in Seq(PduSet)
  PROVE  /\ Sent = FlattenSeq(PduBlocks)
         /\ PduBlocks \in Seq(Seq(BlockSet)) /\ Len(PduBlocks) = Len(pdus)
<1>1. DOMAIN pdus = 1 .. Len(pdus) /\ Len(pdus) \in Nat
  OBVIOUS
<1>2. \A i \in 1 .. Len(pdus) : Blocks(pdus[i].pieces) \in Seq(BlockSet)
  <2> TAKE i \in 1 .. Len(pdus)
  <2>1. \A q \in PduSet : q.pieces \in Seq(Pieces)
    BY DEF PduSet
  <2>2. pdus[i] \in PduSet
    OBVIOUS
  <2> QED BY <2>1, <2>2, BlocksType
<1>3. PduBlocks \in [1 .. Len(pdus) -> Seq(BlockSet)]
  BY <1>1, <1>2 DEF PduBlocks
<1>4. Sent = FlattenSeq(PduBlocks)
  BY DEF Sent, PduBlocks, Blocks
<1> QED BY <1>1, <1>3, <1>4

LEMMA SentAppend ==
  ASSUME pdus \in Seq(PduSet), NEW h \in PduSet, pdus' = Append(pdus, h)
  PROVE  Sent' = Sent \o Blocks(h.pieces) /\ Sent \in Seq(BlockSet)
<1> DEFINE n == Len(pdus)
           x == PduBlocks
           y == PduBlocks'
           z == Blocks(h.pieces)
<1>1. /\ pdus' \in Seq(PduSet) /\ Len(pdus') = n + 1 /\ n \in Nat
      /\ DOMAIN pdus = 1 .. n /\ DOMAIN pdus' = 1 .. (n + 1)
      /\ pdus'[n + 1] = h
      /\ \A i \in DOMAIN pdus : pdus'[i] = pdus[i]
  OBVIOUS
<1>2. z \in Seq(BlockSet)
  <2>1. h.pieces \in Seq(Pieces)
    BY DEF PduSet
  <2> QED BY <2>1, BlocksType
<1>3. Sent = FlattenSeq(x) /\ x \in Seq(Seq(BlockSet)) /\ Len(x) = n
  BY SentIs
<1>4. Sent' = FlattenSeq(y) /\ y \in Seq(Seq(BlockSet)) /\ Len(y) = n + 1
  <2>1. y = [i \in DOMAIN pdus' |-> Blocks(pdus'[i].pieces)]
    BY DEF PduBlocks
  <2>2. Sent' = FlattenSeq(y)
    BY DEF Sent, PduBlocks, Blocks
  <2>3. \A i \in 1 .. (n + 1) : Blocks(pdus'[i].pieces) \in Seq(BlockSet)
    <3> TAKE i \in 1 .. (n + 1)
    <3>1. \A q \in PduSet : q.pieces \in Seq(Pieces)
      BY DEF PduSet
    <3>2. pdus'[i] \in PduSet
      BY <1>1
    <3> QED BY <3>1, <3>2, BlocksType
  <2>4. y \in [1 .. (n + 1) -> Seq(BlockSet)]
    BY <1>1, <2>1, <2>3
  <2> QED BY <1>1, <2>2, <2>4
<1>5. /\ \A i \in 1 .. n : y[i] = x[i]
      /\ y[n + 1] = z
  BY <1>1 DEF PduBlocks
<1> HIDE DEF n, x, y, z
<1>6. /\ Append(x, z) \in Seq(Seq(BlockSet)) /\ Len(Append(x, z)) = n + 1
      /\ \A i \in 1 .. n : Append(x, z)[i] = x[i]
      /\ Append(x, z)[n + 1] = z
  BY <1>2, <1>3
<1>7. \A i \in 1 .. (n + 1) : y[i] = Append(x, z)[i]
  <2> TAKE i \in 1 .. (n + 1)
  <2>1. i \in 1 .. n \/ i = n + 1
    BY <1>1
  <2> QED BY <2>1, <1>5, <1>6, Zenon
<1>8. y = Append(x, z)
  BY <1>4, <1>6, <1>7, SeqEqual
<1>9. FlattenSeq(Append(x, z)) = FlattenSeq(x) \o z
  BY <1>2, <1>3, FlattenAppend
<1>10. Sent \in Seq(BlockSet)
  BY <1>3, FlattenType
<1> QED BY <1>3, <1>4, <1>8, <1>9, <1>10 DEF z

LEMMA JoinOne ==
  ASSUME NEW qs \in Seq(PduSet), Len(qs) = 1
  PROVE  FlattenSeq([i \in DOMAIN qs |-> Blocks(qs[i].pieces)]) = Blocks(qs[1].pieces)
<1> DEFINE z == Blocks(qs[1].pieces)
           w == [i \in DOMAIN qs |-> Blocks(qs[i].pieces)]
<1>1. z \in Seq(BlockSet)
  <2>1. \A q \in PduSet : q.pieces \in Seq(Pieces)
    BY DEF PduSet
  <2>2. qs[1] \in PduSet
    OBVIOUS
  <2> QED BY <2>1, <2>2, BlocksType
<1>2. w = [i \in 1 .. 1 |-> w[i]] /\ w[1] = z
  <2>1. DOMAIN qs = 1 .. 1 /\ 1 \in 1 .. 1
    OBVIOUS
  <2> QED BY <2>1, Zenon
<1> HIDE DEF z, w
<1>3. << >> \in Seq(Seq(BlockSet)) /\ << >> \o z = z /\ w = Append(<< >>, z)
  BY <1>1, <1>2
<1>4. FlattenSeq(Append(<< >>, z)) = FlattenSeq(<< >>) \o z
  BY <1>1, <1>3, FlattenAppend
<1> QED BY <1>3, <1>4, FlattenEmpty DEF z, w

(* Where a block is wanted from.                                           *)
LEMMA WantedFromFile ==
  ASSUME Request, cache = search(first, total), NEW b \in Nat, first <= b, b < first + total,
         \A t \in cache : ~(t.rlba <= b /\ b < ReadEnd(t))
  PROVE  search(b, 1) = {}
<1> SUFFICES ASSUME NEW t \in search(b, 1) PROVE FALSE
  OBVIOUS
<1>1. t \in segments /\ t \in Segments /\ t.rlba < b + 1 /\ b < ReadEnd(t)
  BY DEF search, Request
<1>2. t.rlba \in Nat /\ ReadEnd(t) \in Nat /\ first \in Nat /\ total \in Nat
  BY <1>1, SegmentFacts DEF Request
<1>3. t.rlba < first + total /\ first < ReadEnd(t) /\ t.rlba <= b
  BY <1>1, <1>2
<1>4. t \in cache
  BY <1>1, <1>3 DEF search
<1> QED BY <1>1, <1>3, <1>4

LEMMA WantedFromCache ==
  ASSUME Request, NEW b \in Nat, NEW s \in cache, s.rlba <= b, b < ReadEnd(s)
  PROVE  search(b, 1) = {s}
<1>1. s \in segments /\ s \in Segments /\ segments \in SUBSET Segments /\ Disjoint(segments)
  BY DEF Request
<1>2. \A t \in segments : t.rlba \in Nat /\ ReadEnd(t) \in Nat
  BY <1>1, SegmentFacts
<1>3. s \in search(b, 1)
  BY <1>1, <1>2 DEF search
<1>4. ASSUME NEW t \in search(b, 1) PROVE t = s
  <2>1. t \in segments /\ t.rlba < b + 1 /\ b < ReadEnd(t)
    BY DEF search
  <2>2. s = t \/ ReadEnd(s) <= t.rlba \/ ReadEnd(t) <= s.rlba
    BY <1>1, <2>1 DEF Disjoint
  <2>3. /\ t.rlba \in Nat /\ ReadEnd(t) \in Nat /\ s.rlba \in Nat /\ ReadEnd(s) \in Nat
    BY <1>1, <1>2, <2>1
  <2> QED BY <2>1, <2>2, <2>3
<1> QED BY <1>3, <1>4

(* The request does not change, nor what is wanted.                        *)
LEMMA SamePrefix ==
  ASSUME UNCHANGED request
  PROVE  /\ Prefix(total - left)' = Prefix(total - left')
         /\ Prefix(total - transfer_length)' = Prefix(total - transfer_length')
         /\ Prefix(total)' = Prefix(total)
         /\ search(first, total)' = search(first, total)
         /\ InVolume' = InVolume
BY Zenon DEF Prefix, search, request, InVolume

(* The first hit of those left, and where the blocks up to its end are     *)
(* wanted from.                                                            *)
LEMMA HitFacts ==
  ASSUME RInv, EInv, OnePdu, pc = "hits", hits # {}, left > 0
  PROVE  LET s == First(hits) IN
         /\ s \in cache /\ s \in Segments /\ s.rlba \in Nat /\ s.rlen \in Nat \ {0}
         /\ ReadEnd(s) = s.rlba + s.rlen
         /\ lba \in Nat /\ left \in Nat /\ total \in Nat /\ first \in Nat
         /\ total - left \in Nat /\ lba = first + (total - left)
         /\ lba < ReadEnd(s) /\ s.rlba < lba + left
         /\ \A b \in Nat : lba <= b /\ b < s.rlba => search(b, 1) = {}
         /\ \A b \in Nat : s.rlba <= b /\ b < ReadEnd(s) => search(b, 1) = {s}
         /\ \A t \in cache : lba < ReadEnd(t) => t \in hits
         /\ \A t \in cache : ReadEnd(t) \in Nat
<1> DEFINE s == First(hits)
<1>1. /\ s \in hits /\ s \in Segments /\ s.rlba \in Nat /\ s.rlen \in Nat \ {0}
      /\ ReadEnd(s) = s.rlba + s.rlen
  BY FirstSplits DEF RInv
<1>2. \A t \in hits : s.rlba <= t.rlba
  <2>1. hits \in SUBSET Segments
    BY DEF RInv, Request
  <2> QED BY <2>1, FirstIsLeast
<1> HIDE DEF s
<1>3. /\ Request /\ hits \in SUBSET cache /\ cache \in SUBSET segments
      /\ segments \in SUBSET Segments /\ first \in Nat /\ total \in Nat
  BY DEF RInv, Request
<1>4. lba \in Nat /\ left \in Nat /\ lba < ReadEnd(s)
  BY <1>1 DEF RInv, Progress
<1>5. /\ cache = search(first, total) /\ left <= total /\ lba + left = first + total
      /\ \A t \in cache : lba < ReadEnd(t) => t \in hits
  BY DEF EInv, Searched, InPdu
<1>6. s \in cache /\ s.rlba < first + total
  BY <1>1, <1>3, <1>5 DEF search
<1>7. s.rlba < lba + left /\ total - left \in Nat /\ lba = first + (total - left)
  BY <1>3, <1>4, <1>5, <1>6
<1>8. \A t \in cache : t.rlba \in Nat /\ ReadEnd(t) \in Nat
  BY <1>3, SegmentFacts
<1>9. ASSUME NEW b \in Nat, lba <= b, b < s.rlba PROVE search(b, 1) = {}
  <2>1. first <= b /\ b < first + total
    BY <1>1, <1>3, <1>4, <1>6, <1>7, <1>9
  <2>2. ASSUME NEW t \in cache, t.rlba <= b, b < ReadEnd(t) PROVE FALSE
    <3>1. t.rlba \in Nat /\ ReadEnd(t) \in Nat
      BY <1>8
    <3>2. lba < ReadEnd(t)
      BY <1>4, <1>9, <2>2, <3>1
    <3>3. s.rlba <= t.rlba
      BY <1>2, <1>5, <3>2
    <3> QED BY <1>1, <1>9, <2>2, <3>1, <3>3
  <2> QED BY <1>3, <1>5, <2>1, <2>2, WantedFromFile
<1>10. ASSUME NEW b \in Nat, s.rlba <= b, b < ReadEnd(s) PROVE search(b, 1) = {s}
  BY <1>3, <1>6, <1>10, WantedFromCache
<1>11. /\ \A b \in Nat : lba <= b /\ b < s.rlba => search(b, 1) = {}
       /\ \A b \in Nat : s.rlba <= b /\ b < ReadEnd(s) => search(b, 1) = {s}
  BY <1>9, <1>10
<1> QED BY <1>1, <1>3, <1>4, <1>5, <1>6, <1>7, <1>8, <1>11 DEF s

(* What a step of sendCache() has to show: the pieces it queues continue   *)
(* the prefix.                                                             *)
LEMMA SendExact ==
  ASSUME RInv, EInv, OnePdu, pc = "hits",
         UNCHANGED <<request, pc, cache, transfer_length, length>>,
         left' \in Nat, left' <= left,
         left' > 0 => /\ lba' + left' = first + total
                      /\ \A t \in cache : lba' < ReadEnd(t) => t \in hits',
         NEW ps \in Seq(Pieces), Queue(ps), \A j \in DOMAIN ps : ps[j].len > 0,
         Blocks(pdus[1].pieces \o ps) = Prefix(total - left')
  PROVE  EInv'
<1>1. /\ pdus \in Seq(PduSet) /\ Len(pdus) = 1 /\ left \in Nat /\ left <= total /\ total \in Nat
      /\ transfer_length = 0
  BY DEF RInv, Request, Progress, EInv, InPdu
<1>2. /\ Len(pdus') = 1 /\ DOMAIN pdus' = DOMAIN pdus /\ 1 \in DOMAIN pdus
      /\ pdus'[1].pieces = pdus[1].pieces \o ps
      /\ pdus[1].pieces \in Seq(Pieces)
  BY <1>1, QueueEffect
<1>3. DOMAIN pdus = {1}
  BY <1>1
<1>4. Searched'
  BY SamePrefix DEF EInv, Searched
<1>5. BetweenPdus' /\ AtEnd'
  BY DEF BetweenPdus, AtEnd
<1>6. left' <= total
  BY <1>1
<1>7. request' = request /\ first' = first /\ total' = total
  BY DEF request
<1>8. InPdu'
  BY <1>1, <1>2, <1>6, <1>7, SamePrefix DEF InPdu, ReadEnd
<1>9. NonEmpty'
  <2> DEFINE old == pdus[1].pieces
  <2>1. \A j \in DOMAIN old : old[j].len > 0
    BY <1>2 DEF EInv, NonEmpty
  <2>2. old \in Seq(Pieces)
    BY <1>2
  <2> HIDE DEF old
  <2>3. ASSUME NEW j \in DOMAIN (old \o ps) PROVE (old \o ps)[j].len > 0
    <3>1. /\ Len(old) \in Nat /\ Len(ps) \in Nat /\ DOMAIN old = 1 .. Len(old)
          /\ DOMAIN ps = 1 .. Len(ps)
      BY <2>2
    <3>2. /\ DOMAIN (old \o ps) = 1 .. (Len(old) + Len(ps))
          /\ (old \o ps)[j] = IF j <= Len(old) THEN old[j] ELSE ps[j - Len(old)]
      BY <2>2, <3>1
    <3>3. CASE j <= Len(old)
      BY <2>1, <3>1, <3>2, <3>3
    <3>4. CASE ~(j <= Len(old))
      <4>1. j - Len(old) \in DOMAIN ps
        BY <3>1, <3>2, <3>4
      <4> QED BY <3>2, <3>4, <4>1
    <3> QED BY <3>3, <3>4
  <2>4. DOMAIN pdus' = {1} /\ pdus'[1].pieces = old \o ps
    BY <1>2, <1>3 DEF old
  <2> QED BY <2>3, <2>4 DEF NonEmpty
<1> QED BY <1>4, <1>5, <1>8, <1>9 DEF EInv

LEMMA SearchedKept ==
  ASSUME Searched, UNCHANGED <<request, cache>>, pc # "check", pc' # "check",
         pc' \in {"pdu", "hits", "done"} => InVolume
  PROVE  Searched'
<1>1. search(first, total)' = search(first, total) /\ InVolume' = InVolume
  BY SamePrefix
<1> QED BY <1>1 DEF Searched

(* Nothing is claimed of a PDU behind the first one of a cached READ.      *)
LEMMA SendElse ==
  ASSUME EInv, ~OnePdu, pc = "hits", UNCHANGED <<request, pc, cache>>
  PROVE  EInv'
<1>1. Searched'
  <2>1. Searched /\ InVolume
    BY DEF EInv, Searched
  <2> QED BY <2>1, SearchedKept
<1>2. OnePdu' = OnePdu
  BY DEF OnePdu, request, transfer_mrds
<1> QED BY <1>1, <1>2 DEF EInv

LEMMA SendHeadExact == ASSUME RInv, EInv, SendHead PROVE EInv'
<1> DEFINE s == First(hits)
           overrun == ReadEnd(s) - lba - left
           n == s.rlen - (lba - s.rlba) - (IF overrun > 0 THEN overrun ELSE 0)
           c == Cache(s, lba, n)
           old == pdus[1].pieces
<1>1. /\ pc = "hits" /\ hits # {} /\ left > 0 /\ s.rlba <= lba
      /\ Queue(<<c>>) /\ left' = left - n /\ lba' = lba + n
      /\ hits' = hits \ {s} /\ UNCHANGED <<request, pc, cache, transfer_length, length>>
  BY DEF SendHead
<1>2. CASE ~OnePdu
  BY <1>1, <1>2, SendElse
<1>3. CASE OnePdu
  <2>1. /\ s \in cache /\ s \in Segments /\ s.rlba \in Nat /\ s.rlen \in Nat \ {0}
        /\ ReadEnd(s) = s.rlba + s.rlen
        /\ lba \in Nat /\ left \in Nat /\ total \in Nat /\ first \in Nat
        /\ total - left \in Nat /\ lba = first + (total - left)
        /\ lba < ReadEnd(s)
        /\ \A b \in Nat : s.rlba <= b /\ b < ReadEnd(s) => search(b, 1) = {s}
        /\ \A t \in cache : lba < ReadEnd(t) => t \in hits
        /\ \A t \in cache : ReadEnd(t) \in Nat
    BY <1>1, <1>3, HitFacts
  <2> HIDE DEF s
  <2>2. n \in Nat \ {0} /\ n <= left /\ lba + n <= ReadEnd(s)
        /\ (n < left => lba + n = ReadEnd(s))
    <3>1. /\ s.rlba <= lba /\ left > 0 /\ s.rlba \in Nat /\ s.rlen \in Nat
          /\ ReadEnd(s) = s.rlba + s.rlen /\ lba \in Nat /\ left \in Nat /\ lba < ReadEnd(s)
      BY <1>1, <2>1
    <3>2. overrun \in Int /\ overrun = s.rlba + s.rlen - lba - left
      BY <3>1
    <3> HIDE DEF overrun
    <3>3. CASE overrun > 0
      <4>1. n = s.rlen - (lba - s.rlba) - overrun
        BY <3>3
      <4> HIDE DEF n
      <4> QED BY <3>1, <3>2, <3>3, <4>1
    <3>4. CASE ~ (overrun > 0)
      <4>1. n = s.rlen - (lba - s.rlba) - 0
        BY <3>4
      <4> HIDE DEF n
      <4> QED BY <3>1, <3>2, <3>4, <4>1
    <3> QED BY <3>3, <3>4
  <2> HIDE DEF n
  <2>3. c \in Pieces /\ c.len = n /\ c.lba = lba /\ c.seg = {s}
    BY <2>1, <2>2 DEF Cache, Pieces
  <2> HIDE DEF c
  <2>4. /\ left' \in Nat /\ left' <= left /\ total - left' = (total - left) + n
        /\ lba' + left' = first + total
    <3>1. /\ left \in Nat /\ n \in Nat /\ n <= left /\ total \in Nat /\ first \in Nat
          /\ left' = left - n /\ lba' = lba + n /\ lba = first + (total - left) /\ lba \in Nat
      BY <1>1, <2>1, <2>2
    <3> QED BY <3>1
  <2>5. ASSUME left' > 0, NEW t \in cache, lba' < ReadEnd(t) PROVE t \in hits'
    <3>1. n < left /\ lba' = ReadEnd(s)
      BY <1>1, <2>1, <2>2, <2>5
    <3>2. lba < ReadEnd(t) /\ t # s
      BY <1>1, <2>1, <2>2, <2>5, <3>1
    <3> QED BY <1>1, <2>1, <3>2
  <2>6. /\ pdus \in Seq(PduSet) /\ Len(pdus) = 1 /\ Blocks(old) = Prefix(total - left)
    BY <1>1, <1>3 DEF RInv, Progress, EInv, InPdu
  <2>7. old \in Seq(Pieces)
    BY <2>6, LastPieces
  <2>8. Blocks(old \o <<c>>) = Prefix(total - left')
    <3>1. Blocks(old \o <<c>>) = Prefix(total - left) \o PieceBlocks(c)
      BY <2>3, <2>6, <2>7, BlocksAppend
    <3>2. \A b \in Nat : c.lba <= b /\ b < c.lba + c.len => search(b, 1) = c.seg
      <4> SUFFICES ASSUME NEW b \in Nat, lba <= b, b < lba + n PROVE search(b, 1) = {s}
        BY <2>3
      <4>1. s.rlba <= b /\ b < ReadEnd(s)
        BY <1>1, <2>1, <2>2
      <4> QED BY <2>1, <4>1
    <3>3. Prefix(total - left) \o PieceBlocks(c) = Prefix((total - left) + c.len)
      <4>1. Request /\ total - left \in Nat /\ c.lba = first + (total - left)
        BY <2>1, <2>3 DEF RInv
      <4> QED BY <2>3, <3>2, <4>1, PrefixExtend
    <3> QED BY <2>3, <2>4, <3>1, <3>3
  <2>9. <<c>> \in Seq(Pieces) /\ \A j \in DOMAIN <<c>> : <<c>>[j].len > 0
    BY <2>2, <2>3
  <2> QED BY <1>1, <1>3, <2>4, <2>5, <2>8, <2>9, SendExact
<1> QED BY <1>2, <1>3

(* A gap and a hit behind it continue the prefix up to the end of the hit, *)
(* or up to a place in it.                                                 *)
LEMMA GapExact ==
  ASSUME RInv, EInv, OnePdu, pc = "hits", hits # {}, left > 0, First(hits).rlba > lba,
         NEW m \in Nat \ {0}, m <= First(hits).rlen, First(hits).rlba - lba + m <= left
  PROVE  LET s == First(hits)
             ps == <<File(lba, s.rlba - lba), Cache(s, s.rlba, m)>>
         IN /\ ps \in Seq(Pieces) /\ \A j \in DOMAIN ps : ps[j].len > 0
            /\ Blocks(pdus[1].pieces \o ps) = Prefix(total - (left - (s.rlba - lba) - m))
<1> DEFINE s == First(hits)
           gap == s.rlba - lba
           f == File(lba, gap)
           c == Cache(s, s.rlba, m)
           old == pdus[1].pieces
           k == total - left
<1>1. /\ s \in cache /\ s \in Segments /\ s.rlba \in Nat /\ s.rlen \in Nat \ {0}
      /\ ReadEnd(s) = s.rlba + s.rlen
      /\ lba \in Nat /\ left \in Nat /\ total \in Nat /\ first \in Nat
      /\ k \in Nat /\ lba = first + k
      /\ \A b \in Nat : lba <= b /\ b < s.rlba => search(b, 1) = {}
      /\ \A b \in Nat : s.rlba <= b /\ b < ReadEnd(s) => search(b, 1) = {s}
  BY HitFacts
<1>2. s.rlba > lba /\ m <= s.rlen
  OBVIOUS
<1> HIDE DEF s
<1>3. /\ gap \in Nat \ {0} /\ lba + gap = s.rlba /\ s.rlba + m <= ReadEnd(s)
      /\ s.rlba = first + (k + gap) /\ k + gap \in Nat
      /\ total - (left - gap - m) = (k + gap) + m
  <2> DEFINE b == s.rlba
             e == s.rlen
             z == ReadEnd(s)
  <2>1. /\ b \in Nat /\ e \in Nat /\ z = b + e /\ lba \in Nat /\ left \in Nat /\ total \in Nat
        /\ first \in Nat /\ lba = first + (total - left) /\ b > lba /\ m <= e /\ gap = b - lba
        /\ total - left \in Nat /\ k = total - left
    BY <1>1, <1>2
  <2> HIDE DEF b, e, z, gap, k
  <2>2. /\ gap \in Nat \ {0} /\ lba + gap = b /\ b + m <= z
        /\ b = first + (k + gap) /\ k + gap \in Nat
        /\ total - (left - gap - m) = (k + gap) + m
    BY <2>1
  <2> QED BY <2>2 DEF b, z
<1>4. /\ f \in Pieces /\ f.len = gap /\ f.lba = lba /\ f.seg = {}
      /\ c \in Pieces /\ c.len = m /\ c.lba = s.rlba /\ c.seg = {s}
  <2> HIDE DEF gap
  <2> QED BY <1>1, <1>3 DEF File, Cache, Pieces
<1>5. /\ pdus \in Seq(PduSet) /\ Len(pdus) = 1 /\ Blocks(old) = Prefix(k) /\ Request
  BY DEF RInv, Progress, EInv, InPdu
<1>6. old \in Seq(Pieces)
  BY <1>5, LastPieces
<1> HIDE DEF f, c, old, gap, k
<1>7. \A b \in Nat : f.lba <= b /\ b < f.lba + f.len => search(b, 1) = f.seg
  BY <1>1, <1>3, <1>4
<1>8. \A b \in Nat : c.lba <= b /\ b < c.lba + c.len => search(b, 1) = c.seg
  <2> SUFFICES ASSUME NEW b \in Nat, s.rlba <= b, b < s.rlba + m PROVE search(b, 1) = {s}
    BY <1>4
  <2>1. b < ReadEnd(s)
    BY <1>1, <1>3
  <2> QED BY <1>1, <2>1
<1>9. Blocks(old \o <<f>>) = Prefix(k + gap) /\ old \o <<f>> \in Seq(Pieces)
  <2>1. Blocks(old \o <<f>>) = Blocks(old) \o PieceBlocks(f)
    BY <1>4, <1>6, BlocksAppend
  <2>2. Prefix(k) \o PieceBlocks(f) = Prefix(k + f.len)
    <3>1. k \in Nat /\ f.lba = first + k
      BY <1>1, <1>4
    <3> QED BY <1>4, <1>5, <1>7, <3>1, PrefixExtend
  <2>3. old \o <<f>> \in Seq(Pieces)
    BY <1>4, <1>6
  <2> QED BY <1>4, <1>5, <2>1, <2>2, <2>3
<1>10. Blocks((old \o <<f>>) \o <<c>>) = Prefix((k + gap) + m)
  <2>1. Blocks((old \o <<f>>) \o <<c>>) = Blocks(old \o <<f>>) \o PieceBlocks(c)
    BY <1>4, <1>9, BlocksAppend
  <2>2. Prefix(k + gap) \o PieceBlocks(c) = Prefix((k + gap) + c.len)
    <3>1. k + gap \in Nat /\ c.lba = first + (k + gap)
      BY <1>3, <1>4
    <3> HIDE DEF k, gap
    <3> QED BY <1>4, <1>5, <1>8, <3>1, PrefixExtend
  <2> QED BY <1>4, <1>9, <2>1, <2>2
<1>11. (old \o <<f>>) \o <<c>> = old \o <<f, c>>
  BY <1>4, <1>6, AppendTwo
<1>12. <<f, c>> \in Seq(Pieces) /\ \A j \in DOMAIN <<f, c>> : <<f, c>>[j].len > 0
  BY <1>3, <1>4
<1>13. Blocks(old \o <<f, c>>) = Prefix(total - (left - gap - m))
  BY <1>3, <1>10, <1>11
<1> QED BY <1>12, <1>13 DEF s, gap, f, c, old

LEMMA SendLastExact == ASSUME RInv, EInv, SendLast PROVE EInv'
<1> DEFINE s == First(hits)
           gap == s.rlba - lba
           ps == <<File(lba, gap), Cache(s, s.rlba, left - gap)>>
<1>1. /\ pc = "hits" /\ hits # {} /\ left > 0 /\ s.rlba > lba /\ lba + left <= ReadEnd(s)
      /\ Queue(ps) /\ left' = 0
      /\ UNCHANGED <<request, pc, cache, transfer_length, length>>
  BY DEF SendLast
<1>2. CASE ~OnePdu
  BY <1>1, <1>2, SendElse
<1>3. CASE OnePdu
  <2>1. /\ s.rlba \in Nat /\ s.rlen \in Nat \ {0} /\ ReadEnd(s) = s.rlba + s.rlen
        /\ lba \in Nat /\ left \in Nat /\ total \in Nat /\ s.rlba < lba + left
    BY <1>1, <1>3, HitFacts
  <2>2. /\ left - gap \in Nat \ {0} /\ left - gap <= s.rlen /\ gap + (left - gap) <= left
        /\ left - gap - (left - gap) = 0
    <3> HIDE DEF s
    <3> QED BY <1>1, <2>1
  <2>3. /\ ps \in Seq(Pieces) /\ \A j \in DOMAIN ps : ps[j].len > 0
        /\ Blocks(pdus[1].pieces \o ps) = Prefix(total - (left - gap - (left - gap)))
    BY <1>1, <1>3, <2>2, GapExact
  <2> HIDE DEF ps
  <2>4. Blocks(pdus[1].pieces \o ps) = Prefix(total - left')
    <3>1. left - gap - (left - gap) = left'
      BY <1>1, <2>2
    <3> QED BY <2>3, <3>1
  <2>5. left' \in Nat /\ left' <= left /\ ~(left' > 0)
    BY <1>1, <2>1
  <2> QED BY <1>1, <1>3, <2>3, <2>4, <2>5, SendExact
<1> QED BY <1>2, <1>3

LEMMA SendInnerExact == ASSUME RInv, EInv, SendInner PROVE EInv'
<1> DEFINE s == First(hits)
           gap == s.rlba - lba
           ps == <<File(lba, gap), Cache(s, s.rlba, s.rlen)>>
<1>1. /\ pc = "hits" /\ hits # {} /\ left > 0 /\ s.rlba > lba /\ lba + left > ReadEnd(s)
      /\ Queue(ps) /\ left' = left - gap - s.rlen /\ lba' = ReadEnd(s) /\ hits' = hits \ {s}
      /\ UNCHANGED <<request, pc, cache, transfer_length, length>>
  BY DEF SendInner
<1>2. CASE ~OnePdu
  BY <1>1, <1>2, SendElse
<1>3. CASE OnePdu
  <2>1. /\ s.rlba \in Nat /\ s.rlen \in Nat \ {0} /\ ReadEnd(s) = s.rlba + s.rlen
        /\ lba \in Nat /\ left \in Nat /\ total \in Nat /\ first \in Nat
        /\ lba = first + (total - left) /\ lba < ReadEnd(s)
        /\ \A t \in cache : lba < ReadEnd(t) => t \in hits
        /\ \A t \in cache : ReadEnd(t) \in Nat
    BY <1>1, <1>3, HitFacts
  <2>2. /\ s.rlen <= s.rlen /\ gap + s.rlen <= left /\ left' \in Nat /\ left' <= left
        /\ lba' + left' = first + total
    <3> DEFINE b == s.rlba
               e == s.rlen
               z == ReadEnd(s)
    <3>1. /\ b \in Nat /\ e \in Nat /\ z = b + e /\ lba \in Nat /\ left \in Nat
          /\ total \in Nat /\ first \in Nat /\ lba = first + (total - left)
          /\ b > lba /\ lba + left > z /\ left' = left - (b - lba) - e /\ lba' = z
      BY <1>1, <2>1
    <3> HIDE DEF b, e, z
    <3>2. /\ e <= e /\ (b - lba) + e <= left /\ left' \in Nat /\ left' <= left
          /\ lba' + left' = first + total
      BY <3>1
    <3> QED BY <3>2 DEF b, e
  <2>3. /\ ps \in Seq(Pieces) /\ \A j \in DOMAIN ps : ps[j].len > 0
        /\ Blocks(pdus[1].pieces \o ps) = Prefix(total - (left - gap - s.rlen))
    BY <1>1, <1>3, <2>1, <2>2, GapExact
  <2> HIDE DEF ps, s
  <2>4. Blocks(pdus[1].pieces \o ps) = Prefix(total - left')
    BY <1>1, <2>3
  <2>5. ASSUME NEW t \in cache, lba' < ReadEnd(t) PROVE t \in hits'
    <3>1. lba < ReadEnd(t) /\ t # s
      BY <1>1, <2>1, <2>5
    <3> QED BY <1>1, <2>1, <3>1
  <2> QED BY <1>1, <1>3, <2>2, <2>3, <2>4, <2>5, SendExact
<1> QED BY <1>2, <1>3

LEMMA EndPduExact == ASSUME RInv, EInv, EndPdu PROVE EInv'
<1>1. /\ pc = "hits" /\ (hits = {} \/ left <= 0)
      /\ pc' \in {"pdu", "done"} /\ (transfer_length = 0 => pc' = "done")
      /\ \/ left > 0 /\ Queue(<<File(lba, left)>>)
         \/ ~(left > 0) /\ pdus' = pdus
      /\ UNCHANGED <<request, cache, length>>
  BY DEF EndPdu
<1>2. Searched /\ InVolume /\ Searched'
  <2>1. Searched /\ InVolume
    BY <1>1 DEF EInv, Searched
  <2> QED BY <1>1, <2>1, SearchedKept
<1>3. CASE ~OnePdu
  <2>1. OnePdu' = OnePdu
    BY <1>1 DEF OnePdu, request, transfer_mrds
  <2> QED BY <1>2, <1>3, <2>1 DEF EInv
<1>4. CASE OnePdu
  <2> DEFINE old == pdus[1].pieces
  <2>1. /\ pdus \in Seq(PduSet) /\ Len(pdus) = 1 /\ left \in Nat /\ lba \in Nat
        /\ total \in Nat /\ first \in Nat /\ left <= total /\ transfer_length = 0 /\ Request
        /\ Blocks(old) = Prefix(total - left) /\ cache = search(first, total)
        /\ hits \in SUBSET cache
        /\ left > 0 => /\ lba + left = first + total
                       /\ \A t \in cache : lba < ReadEnd(t) => t \in hits
    BY <1>1, <1>2, <1>4 DEF RInv, Request, Progress, EInv, InPdu, Searched
  <2>2. old \in Seq(Pieces) /\ DOMAIN pdus = {1}
    BY <2>1, LastPieces
  <2>3. /\ pdus' \in Seq(PduSet) /\ Len(pdus') = 1 /\ DOMAIN pdus' = {1}
        /\ Blocks(pdus'[1].pieces) = Prefix(total)
        /\ \A j \in DOMAIN pdus'[1].pieces : pdus'[1].pieces[j].len > 0
    <3>1. \A j \in DOMAIN old : old[j].len > 0
      BY <1>4, <2>2 DEF EInv, NonEmpty
    <3>2. CASE ~(left > 0) /\ pdus' = pdus
      <4>1. total - left = total
        BY <2>1, <3>2
      <4>2. DOMAIN pdus' = {1} /\ pdus'[1].pieces = old /\ pdus' \in Seq(PduSet) /\ Len(pdus') = 1
        BY <2>1, <2>2, <3>2
      <4> QED BY <2>1, <3>1, <4>1, <4>2
    <3>3. CASE left > 0 /\ Queue(<<File(lba, left)>>)
      <4> DEFINE f == File(lba, left)
                 k == total - left
      <4>1. f \in Pieces /\ f.len = left /\ f.lba = lba /\ f.seg = {}
        BY <2>1 DEF File, Pieces
      <4>2. k \in Nat /\ lba = first + k /\ k + left = total
        BY <2>1, <3>3
      <4>3. ASSUME NEW b \in Nat, lba <= b, b < lba + left PROVE search(b, 1) = {}
        <5>1. first <= b /\ b < first + total
          BY <2>1, <3>3, <4>2, <4>3
        <5>2. ASSUME NEW t \in cache, t.rlba <= b, b < ReadEnd(t) PROVE FALSE
          <6>1. t \in Segments
            BY <2>1 DEF Request
          <6>2. ReadEnd(t) \in Nat
            BY <6>1, SegmentFacts
          <6>3. lba < ReadEnd(t) /\ hits = {}
            BY <1>1, <2>1, <3>3, <4>3, <5>2, <6>2
          <6> QED BY <2>1, <3>3, <6>3
        <5> QED BY <2>1, <5>1, <5>2, WantedFromFile
      <4> HIDE DEF f, k
      <4>4. \A b \in Nat : f.lba <= b /\ b < f.lba + f.len => search(b, 1) = f.seg
        BY <4>1, <4>3
      <4>5. Prefix(k) \o PieceBlocks(f) = Prefix(k + f.len)
        BY <2>1, <4>1, <4>2, <4>4, PrefixExtend
      <4>6. Blocks(old \o <<f>>) = Blocks(old) \o PieceBlocks(f)
        BY <2>2, <4>1, BlocksAppend
      <4>7. Blocks(old \o <<f>>) = Prefix(total)
        BY <2>1, <4>1, <4>2, <4>5, <4>6 DEF k
      <4>8. <<f>> \in Seq(Pieces) /\ Queue(<<f>>)
        BY <3>3, <4>1 DEF f
      <4>9. /\ pdus' \in Seq(PduSet) /\ Len(pdus') = 1 /\ DOMAIN pdus' = DOMAIN pdus
            /\ pdus'[1].pieces = old \o <<f>>
        <5>1. pdus \in Seq(PduSet) /\ Len(pdus) = 1 /\ Len(pdus) # 0
          BY <2>1
        <5>2. /\ pdus' \in Seq(PduSet) /\ Len(pdus') = Len(pdus) /\ DOMAIN pdus' = DOMAIN pdus
              /\ pdus'[Len(pdus)].pieces = pdus[Len(pdus)].pieces \o <<f>>
          BY <4>8, <5>1, QueueEffect
        <5> QED BY <5>1, <5>2
      <4>10. \A j \in DOMAIN (old \o <<f>>) : (old \o <<f>>)[j].len > 0
        <5>1. f.len > 0
          BY <3>3, <4>1
        <5>2. \A j \in 1 .. Len(old) : old[j].len > 0
          BY <2>2, <3>1
        <5> HIDE DEF old
        <5>3. /\ DOMAIN (old \o <<f>>) = 1 .. (Len(old) + 1) /\ Len(old) \in Nat
              /\ \A j \in 1 .. Len(old) : (old \o <<f>>)[j] = old[j]
              /\ (old \o <<f>>)[Len(old) + 1] = f
          BY <2>2, <4>1
        <5>4. \A j \in 1 .. (Len(old) + 1) : j \in 1 .. Len(old) \/ j = Len(old) + 1
          BY <5>3
        <5> QED BY <5>1, <5>2, <5>3, <5>4, Zenon
      <4> QED BY <2>2, <4>7, <4>9, <4>10
    <3> QED BY <1>1, <3>2, <3>3
  <2>4. Sent' = Prefix(total)
    <3>1. Sent' = FlattenSeq([i \in DOMAIN pdus' |-> Blocks(pdus'[i].pieces)])
      BY DEF Sent, Blocks
    <3>2. FlattenSeq([i \in DOMAIN pdus' |-> Blocks(pdus'[i].pieces)]) = Blocks(pdus'[1].pieces)
      BY <2>3, JoinOne
    <3> QED BY <2>3, <3>1, <3>2
  <2>5. Prefix(total)' = Prefix(total)
    BY <1>1, SamePrefix
  <2>6. pc' = "done"
    BY <1>1, <2>1
  <2>7. AtEnd' /\ BetweenPdus' /\ InPdu' /\ NonEmpty'
    BY <2>3, <2>4, <2>5, <2>6 DEF AtEnd, BetweenPdus, InPdu, NonEmpty
  <2> QED BY <1>2, <2>7 DEF EInv
<1> QED BY <1>3, <1>4

LEMMA MissPduExact == ASSUME RInv, EInv, MissPdu PROVE EInv'
<1> DEFINE n == PduLength
           k == total - transfer_length
           f == File(lba, n)
           h == Header(<<f>>)
<1>1. /\ pc = "pdu" /\ cache = {} /\ pdus' = Append(pdus, h)
      /\ \/ IsLast /\ pc' = "done"
         \/ /\ ~IsLast /\ pc' = "pdu" /\ transfer_length' = transfer_length - transfer_mrds
            /\ lba' = lba + transfer_mrds
      /\ UNCHANGED <<request, cache, hits, left>>
  BY DEF MissPdu
<1>2. /\ n \in 1 .. transfer_mrds /\ n \in Nat
      /\ IsLast => n = transfer_length
      /\ ~IsLast => n = transfer_mrds /\ transfer_mrds < transfer_length
      /\ transfer_length \in Nat /\ total \in Nat /\ transfer_mrds \in Nat \ {0} /\ lba \in Nat
      /\ pdus \in Seq(PduSet)
  BY <1>1, PduLengthFacts
<1>3. /\ Searched /\ InVolume /\ OnePdu /\ cache = search(first, total)
      /\ transfer_length <= total /\ lba = first + k /\ Sent = Prefix(k) /\ NonEmpty
      /\ first \in Nat /\ Request
  BY <1>1 DEF RInv, Request, EInv, OnePdu, Searched, BetweenPdus
<1>4. Searched'
  BY <1>1, <1>3, SearchedKept
<1>5. k \in Nat /\ k + n <= total
  BY <1>2, <1>3
<1> HIDE DEF n
<1>6. f \in Pieces /\ f.len = n /\ f.lba = lba /\ f.seg = {}
  BY <1>2 DEF File, Pieces
<1> HIDE DEF f
<1>7. h \in PduSet /\ h.pieces = <<f>> /\ <<f>> \in Seq(Pieces)
  <2>1. <<f>> \in Seq(Pieces)
    BY <1>6
  <2> QED BY <1>1, <2>1, HeaderFacts
<1> HIDE DEF h
<1>8. ASSUME NEW b \in Nat, lba <= b, b < lba + n PROVE search(b, 1) = {}
  <2>1. first <= b /\ b < first + total
    BY <1>2, <1>3, <1>5, <1>8
  <2> QED BY <1>1, <1>3, <2>1, WantedFromFile
<1>9. Blocks(<<f>>) = PieceBlocks(f)
  <2>1. << >> \in Seq(Pieces) /\ << >> \o <<f>> = <<f>>
    OBVIOUS
  <2>2. Blocks(<< >> \o <<f>>) = Blocks(<< >>) \o PieceBlocks(f)
    BY <1>6, <2>1, BlocksAppend
  <2>3. << >> \o PieceBlocks(f) = PieceBlocks(f)
    <3>1. PieceBlocks(f) \in Seq(BlockSet)
      BY <1>6, PieceBlocksType
    <3> QED BY <3>1
  <2> QED BY <2>1, <2>2, <2>3, BlocksEmpty
<1>10. Sent' = Prefix(k) \o PieceBlocks(f)
  BY <1>1, <1>2, <1>3, <1>7, <1>9, SentAppend
<1> HIDE DEF k
<1>11. Prefix(k) \o PieceBlocks(f) = Prefix(k + n)
  <2>1. \A b \in Nat : f.lba <= b /\ b < f.lba + f.len => search(b, 1) = f.seg
    BY <1>6, <1>8
  <2>2. Prefix(k) \o PieceBlocks(f) = Prefix(k + f.len)
    BY <1>3, <1>5, <1>6, <2>1, PrefixExtend
  <2> QED BY <1>6, <2>2
<1>12. /\ Prefix(total)' = Prefix(total)
       /\ Prefix(total - transfer_length)' = Prefix(total - transfer_length')
       /\ total' = total /\ first' = first
  BY <1>1, SamePrefix DEF request
<1>13. AtEnd'
  <2> SUFFICES ASSUME pc' = "done" PROVE Sent' = Prefix(total)'
    BY <1>1 DEF AtEnd
  <2>1. k + n = total
    BY <1>1, <1>2, <1>3 DEF k
  <2> QED BY <1>10, <1>11, <1>12, <2>1
<1>14. BetweenPdus'
  <2> SUFFICES ASSUME pc' = "pdu" PROVE BetweenPdus'
    BY DEF BetweenPdus
  <2>1. /\ n = transfer_mrds /\ transfer_mrds < transfer_length /\ transfer_length' = transfer_length - transfer_mrds
        /\ lba' = lba + transfer_mrds
    BY <1>1, <1>2
  <2>2. /\ k + n = total - transfer_length' /\ lba' = first + (total - transfer_length')
        /\ transfer_length' <= total
    BY <1>2, <1>3, <2>1 DEF k
  <2>3. Sent' = Prefix(total - transfer_length)'
    BY <1>10, <1>11, <1>12, <2>2
  <2> QED BY <1>1, <1>12, <2>2, <2>3 DEF BetweenPdus
<1>15. NonEmpty'
  <2>1. /\ DOMAIN pdus' = 1 .. (Len(pdus) + 1) /\ Len(pdus) \in Nat /\ DOMAIN pdus = 1 .. Len(pdus)
        /\ pdus'[Len(pdus) + 1] = h /\ \A i \in 1 .. Len(pdus) : pdus'[i] = pdus[i]
    BY <1>1, <1>2, <1>7, PduLengthsAppend
  <2>2. \A i \in 1 .. (Len(pdus) + 1) : i \in 1 .. Len(pdus) \/ i = Len(pdus) + 1
    BY <2>1
  <2>3. \A j \in DOMAIN h.pieces : h.pieces[j].len > 0
    BY <1>2, <1>6, <1>7
  <2>4. \A i \in 1 .. Len(pdus) : \A j \in DOMAIN pdus[i].pieces : pdus[i].pieces[j].len > 0
    BY <1>3, <2>1 DEF NonEmpty
  <2>5. \A i \in DOMAIN pdus' : \A j \in DOMAIN pdus'[i].pieces : pdus'[i].pieces[j].len > 0
    BY <2>1, <2>2, <2>3, <2>4, Zenon
  <2> QED BY <2>5 DEF NonEmpty
<1>16. InPdu'
  BY <1>1 DEF InPdu
<1> QED BY <1>4, <1>13, <1>14, <1>15, <1>16 DEF EInv

LEMMA HitPduExact == ASSUME RInv, EInv, HitPdu PROVE EInv'
<1> DEFINE h == Header(<< >>)
           found == getHitSegments(lba, PduLength)
<1>1. /\ pc = "pdu" /\ cache # {} /\ pdus' = Append(pdus, h) /\ left' = PduLength
      /\ transfer_length' = IF IsLast THEN 0 ELSE transfer_length
      /\ hits' = found /\ pc' = IF found = {} THEN "error" ELSE "hits"
      /\ UNCHANGED <<request, cache, lba>>
  BY DEF HitPdu
<1>2. Searched /\ InVolume /\ cache = search(first, total) /\ Searched'
  <2>1. Searched /\ InVolume /\ cache = search(first, total) /\ pc' # "check"
    BY <1>1 DEF EInv, Searched
  <2> QED BY <1>1, <2>1, SearchedKept
<1>3. CASE ~OnePdu
  <2>1. OnePdu' = OnePdu
    BY <1>1 DEF OnePdu, request, transfer_mrds
  <2> QED BY <1>2, <1>3, <2>1 DEF EInv
<1>4. CASE OnePdu
  <2>1. /\ total <= transfer_mrds /\ pdus = << >> /\ transfer_length = total /\ lba = first + (total - total)
        /\ total \in Nat /\ first \in Nat /\ transfer_mrds \in Nat /\ cache \in SUBSET Segments
    BY <1>1, <1>4 DEF RInv, Request, EInv, OnePdu, BetweenPdus
  <2>2. lba = first /\ IsLast /\ PduLength = total /\ transfer_length' = 0
    BY <1>1, <2>1 DEF IsLast, PduLength
  <2>3. cache \in SUBSET found
    <3> SUFFICES ASSUME NEW t \in cache PROVE t \in found
      OBVIOUS
    <3>1. t.rlba < first + total /\ first < ReadEnd(t) /\ t \in Segments
      BY <1>2, <2>1 DEF search
    <3>2. t.rlba \in Nat /\ ReadEnd(t) \in Nat
      BY <3>1, SegmentFacts
    <3>3. \/ lba <= t.rlba /\ t.rlba <= lba + PduLength
          \/ t.rlba < lba /\ lba < ReadEnd(t)
      BY <2>1, <2>2, <3>1, <3>2
    <3> QED BY <3>3 DEF getHitSegments
  <2>4. pc' = "hits"
    BY <1>1, <2>3
  <2>5. h.pieces = << >>
    BY DEF Header
  <2> HIDE DEF h, found
  <2>6. Len(pdus') = 1 /\ pdus'[1] = h /\ DOMAIN pdus' = {1}
    BY <1>1, <2>1
  <2>7. Blocks(pdus'[1].pieces) = Prefix(total - left')
    <3>1. total - left' = 0
      BY <1>1, <2>1, <2>2
    <3>2. Prefix(0) = << >>
      BY DEF Prefix
    <3> QED BY <2>5, <2>6, <3>1, <3>2, BlocksEmpty
  <2>8. Prefix(total - left)' = Prefix(total - left')
    BY <1>1, SamePrefix
  <2>9. left' <= total /\ lba' + left' = first + total /\ total' = total /\ first' = first
    BY <1>1, <2>1, <2>2 DEF request
  <2>10. InPdu'
    BY <1>1, <2>2, <2>3, <2>6, <2>7, <2>8, <2>9 DEF InPdu
  <2>11. BetweenPdus' /\ AtEnd' /\ NonEmpty'
    BY <2>4, <2>5, <2>6 DEF BetweenPdus, AtEnd, NonEmpty
  <2> QED BY <1>2, <2>10, <2>11 DEF EInv
<1> QED BY <1>3, <1>4

LEMMA SentNothing == pdus = << >> => Sent = << >>
  BY FlattenEmpty DEF Sent

LEMMA InitEInv == Init => EInv
<1> SUFFICES ASSUME Init PROVE EInv
  OBVIOUS
<1>1. pc = "check" /\ lba = first /\ cache = {} /\ pdus = << >>
  BY DEF Init
<1>2. Searched /\ BetweenPdus /\ InPdu /\ AtEnd /\ NonEmpty
  BY <1>1 DEF Searched, BetweenPdus, InPdu, AtEnd, NonEmpty
<1> QED BY <1>2 DEF EInv

LEMMA AcceptExact == ASSUME RInv, EInv, Accept PROVE EInv'
<1>1. /\ pc = "check" /\ pc' = "pdu" /\ cache' = search(lba, transfer_length) /\ InVolume
      /\ UNCHANGED <<request, lba, transfer_length, length, hits, left, pdus>>
  BY DEF Accept
<1>2. /\ lba = first /\ transfer_length = total /\ pdus = << >> /\ total \in Nat /\ first \in Nat
  BY <1>1 DEF RInv, Request, Progress, EInv, Searched
<1>3. /\ search(first, total)' = search(first, total) /\ InVolume' = InVolume
      /\ Prefix(total - transfer_length)' = Prefix(total - transfer_length')
      /\ total' = total /\ first' = first
  BY <1>1, SamePrefix DEF request
<1>4. Searched'
  BY <1>1, <1>2, <1>3 DEF Searched
<1>5. Sent' = << >>
  BY <1>1, <1>2, FlattenEmpty DEF Sent
<1>6. Prefix(total - transfer_length') = << >>
  <2>1. total - transfer_length' = 0
    BY <1>1, <1>2
  <2>2. Prefix(0) = << >>
    BY DEF Prefix
  <2> QED BY <2>1, <2>2
<1>7. transfer_length' <= total /\ lba' = first + (total - transfer_length')
  BY <1>1, <1>2
<1>8. BetweenPdus'
  BY <1>1, <1>2, <1>3, <1>5, <1>6, <1>7 DEF BetweenPdus
<1>9. InPdu' /\ AtEnd' /\ NonEmpty'
  BY <1>1, <1>2 DEF InPdu, AtEnd, NonEmpty
<1> QED BY <1>4, <1>8, <1>9 DEF EInv

LEMMA RefuseExact == ASSUME RInv, EInv, Refuse PROVE EInv'
<1>1. /\ pc = "check" /\ pc' = "error" /\ ~InVolume
      /\ UNCHANGED <<request, cache, lba, transfer_length, length, hits, left, pdus>>
  BY DEF Refuse
<1>2. pdus = << >>
  BY <1>1 DEF RInv, Progress
<1>3. InVolume' = InVolume
  BY <1>1, SamePrefix
<1> QED BY <1>1, <1>2, <1>3 DEF EInv, Searched, BetweenPdus, InPdu, AtEnd, NonEmpty

LEMMA StutterExact == ASSUME EInv, UNCHANGED vars PROVE EInv'
<1>1. /\ UNCHANGED <<request, pc, cache, lba, transfer_length, length, hits, left, pdus>>
      /\ total' = total /\ first' = first /\ transfer_mrds' = transfer_mrds
  BY DEF vars, request, transfer_mrds
<1>2. /\ Prefix(total - left)' = Prefix(total - left)
      /\ Prefix(total - transfer_length)' = Prefix(total - transfer_length)
      /\ Prefix(total)' = Prefix(total)
      /\ search(first, total)' = search(first, total)
      /\ InVolume' = InVolume
  <2>1. left' = left /\ transfer_length' = transfer_length
    BY <1>1
  <2> QED BY <1>1, <2>1, SamePrefix
<1>3. Sent' = Sent /\ NonEmpty' = NonEmpty /\ OnePdu' = OnePdu
  BY <1>1 DEF Sent, NonEmpty, OnePdu
<1>4. Searched' = Searched /\ AtEnd' = AtEnd /\ BetweenPdus' = BetweenPdus
  BY <1>1, <1>2, <1>3 DEF Searched, AtEnd, BetweenPdus
<1>5. InPdu => InPdu'
  BY <1>1, <1>2 DEF InPdu
<1> QED BY <1>3, <1>4, <1>5 DEF EInv

LEMMA StepEInv == RInv /\ EInv /\ [Next]_vars => EInv'
<1> SUFFICES ASSUME RInv, EInv, [Next]_vars PROVE EInv'
  OBVIOUS
<1>1. CASE Refuse
  BY <1>1, RefuseExact
<1>2. CASE Accept
  BY <1>2, AcceptExact
<1>3. CASE MissPdu
  BY <1>3, MissPduExact
<1>4. CASE HitPdu
  BY <1>4, HitPduExact
<1>5. CASE SendHead
  BY <1>5, SendHeadExact
<1>6. CASE SendLast
  BY <1>6, SendLastExact
<1>7. CASE SendInner
  BY <1>7, SendInnerExact
<1>8. CASE EndPdu
  BY <1>8, EndPduExact
<1>9. CASE UNCHANGED vars
  BY <1>9, StutterExact
<1> QED BY <1>1, <1>2, <1>3, <1>4, <1>5, <1>6, <1>7, <1>8, <1>9 DEF Next

LEMMA EInvExact == EInv => ExactInOnePdu
<1>1. Wanted = Prefix(total)
  BY DEF Wanted, Prefix
<1> QED BY <1>1 DEF EInv, ExactInOnePdu, OnePdu, AtEnd, NonEmpty, Exact

(* READ sends the blocks it was asked for, in order and each from the only *)
(* place that has its last write, when they fit into one DataIn PDU or     *)
(* none of them is cached: for any volume, any cache of disjoint segments  *)
(* and any MaxRecvDataSegmentLength.  It then fails only outside of the    *)
(* volume, and queues no empty piece.  The hypothesis cannot be dropped:   *)
(* run read_many has a READ in two PDUs that sends a block twice.          *)
THEOREM ExactAlways == Spec => []ExactInOnePdu
<1>1. Init => RInv /\ EInv
  BY InitRInv, InitEInv
<1>2. RInv /\ EInv /\ [Next]_vars => (RInv /\ EInv)'
  BY StepRInv, StepEInv
<1> QED BY <1>1, <1>2, EInvExact, PTL DEF Spec
=============================================================================
