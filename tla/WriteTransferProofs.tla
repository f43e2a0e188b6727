------------------------- MODULE WriteTransferProofs -------------------------
(***************************************************************************)
(* Proofs about the receive side of a session and the WRITE(10) transfer,  *)
(* for buffers, bursts, commands and numbers of PDUs of any size.  The     *)
(* proofs about the buffers assume that a PDU fits in two of them, so that *)
(* reserve() makes two iovecs (TwoIovecs).                                 *)
(*                                                                         *)
(* The argument.  The common buffers, taken in the order of their          *)
(* allocation, are one tape onto which readv() copies the stream, so that  *)
(* every number the container keeps is a function of how much was received *)
(* and how much of it is in tokens (Receiving).  The tokens are the next   *)
(* PDUs of the stream (Following).  The books of the session and its       *)
(* initiator relate the PDUs that were not worked on yet, the WRITEs, the  *)
(* pending tasks and the replies (Books); and the segments that the cache  *)
(* was given of a WRITE in whole blocks are places on the tape, behind the *)
(* headers of the PDUs that were worked on (Data).                         *)
(***************************************************************************)
EXTENDS WriteTransfer, TLAPS, WellFoundedInduction, SequenceTheorems

LEMMA Least ==
  ASSUME NEW S \in SUBSET Nat, S # {}
  PROVE  \E m \in S : \A x \in S : m <= x
<1> DEFINE Below == {pair \in Nat \X Nat : pair[1] < pair[2]}
<1>1. IsWellFoundedOn(Below, Nat)
  BY NatLessThanWellFounded DEF OpToRel
<1>2. PICK m \in S : \A x \in S : ~ (<<x, m>> \in Below)
  BY <1>1, WFMin, Zenon
<1>3. \A x \in S : <<x, m>> \in Nat \X Nat /\ x \in Nat /\ m \in Nat
  OBVIOUS
<1>4. \A x \in S : ~ (x < m)
  BY <1>2, <1>3
<1> QED BY <1>3, <1>4

(* Induction over an initial part of the numbers, from the least place     *)
(* where it would fail.                                                    *)
LEMMA Induct ==
  ASSUME NEW n \in Nat, NEW G, 0 \in G, \A k \in 1 .. n : k - 1 \in G => k \in G
  PROVE  \A k \in 0 .. n : k \in G
<1> DEFINE Miss == {k \in 0 .. n : k \notin G}
<1>1. SUFFICES ASSUME Miss # {} PROVE FALSE
  OBVIOUS
<1>2. PICK k \in Miss : \A x \in Miss : k <= x
  <2>1. Miss \in SUBSET Nat
    OBVIOUS
  <2> HIDE DEF Miss
  <2> QED BY <1>1, <2>1, Least
<1>3. k # 0 /\ k \in 1 .. n /\ k - 1 \in 0 .. n
  BY <1>2
<1>4. k - 1 \notin Miss
  BY <1>2, <1>3
<1> QED BY <1>2, <1>3, <1>4
-----------------------------------------------------------------------------
(* The sums of the first numbers of a sequence, and any function that      *)
(* obeys the same recursion.                                               *)
SumsTo(ns, n, f) == f = [i \in 0 .. n |-> IF i = 0 THEN 0 ELSE f[i - 1] + ns[i]]

LEMMA SumsExist ==
  ASSUME NEW ns \in Seq(Int), NEW n \in 0 .. Len(ns)
  PROVE  \E f \in [0 .. n -> Int] : SumsTo(ns, n, f)
<1> DEFINE G == {k \in 0 .. Len(ns) : \E f \in [0 .. k -> Int] : SumsTo(ns, k, f)}
<1>1. 0 \in G
  <2> DEFINE f == [i \in 0 .. 0 |-> 0]
  <2>1. f \in [0 .. 0 -> Int] /\ SumsTo(ns, 0, f)
    BY DEF SumsTo
  <2> QED BY <2>1
<1>2. ASSUME NEW k \in 1 .. Len(ns), k - 1 \in G PROVE k \in G
  <2>1. PICK g \in [0 .. (k - 1) -> Int] : SumsTo(ns, k - 1, g)
    BY <1>2
  <2> DEFINE f == [i \in 0 .. k |-> IF i = k THEN g[k - 1] + ns[k] ELSE g[i]]
  <2>2. ns[k] \in Int /\ g[k - 1] \in Int
    OBVIOUS
  <2>3. f \in [0 .. k -> Int]
    BY <2>2
  <2>4. \A i \in 0 .. k : f[i] = IF i = 0 THEN 0 ELSE f[i - 1] + ns[i]
    <3> TAKE i \in 0 .. k
    <3>1. CASE i = k
      <4>1. f[k] = g[k - 1] + ns[k] /\ f[k - 1] = g[k - 1]
        OBVIOUS
      <4> QED BY <3>1, <4>1
    <3>2. CASE i # k
      <4>1. f[i] = g[i] /\ i \in 0 .. (k - 1)
        BY <3>2
      <4>2. g[i] = IF i = 0 THEN 0 ELSE g[i - 1] + ns[i]
        BY <2>1, <4>1 DEF SumsTo
      <4>3. i # 0 => f[i - 1] = g[i - 1]
        BY <3>2
      <4> QED BY <4>1, <4>2, <4>3
    <3> QED BY <3>1, <3>2
  <2>5. SumsTo(ns, k, f)
    BY <2>4 DEF SumsTo
  <2> QED BY <2>3, <2>5
<1>3. Len(ns) \in Nat
  OBVIOUS
<1>4. n \in G
  <2> HIDE DEF G
  <2> QED BY <1>1, <1>2, <1>3, Induct
<1> QED BY <1>4

LEMMA SumsSteps ==
  ASSUME NEW ns \in Seq(Int)
  PROVE  /\ Sums(ns)[0] = 0
         /\ \A i \in 1 .. Len(ns) : Sums(ns)[i] = Sums(ns)[i - 1] + ns[i]
<1>1. Sums(ns) = CHOOSE f : SumsTo(ns, Len(ns), f)
  BY Zenon DEF Sums, SumsTo
<1>2. \E f : SumsTo(ns, Len(ns), f)
  <2>1. Len(ns) \in 0 .. Len(ns)
    OBVIOUS
  <2> QED BY <2>1, SumsExist
<1> DEFINE s == Sums(ns)
<1>3. SumsTo(ns, Len(ns), s)
  BY <1>1, <1>2
<1> HIDE DEF s
<1>4. /\ s[0] = 0
      /\ \A i \in 1 .. Len(ns) : s[i] = s[i - 1] + ns[i]
  <2>1. Len(ns) \in Nat
    OBVIOUS
  <2> QED BY <1>3, <2>1 DEF SumsTo
<1> QED BY <1>4 DEF s

LEMMA SumsAre ==
  ASSUME NEW ns \in Seq(Int), NEW m \in 0 .. Len(ns), NEW F,
         F[0] = 0, \A i \in 1 .. m : F[i] = F[i - 1] + ns[i]
  PROVE  \A i \in 0 .. m : Sums(ns)[i] = F[i]
<1> DEFINE s == Sums(ns)
           G == {i \in 0 .. m : s[i] = F[i]}
<1>1. s[0] = 0 /\ \A i \in 1 .. Len(ns) : s[i] = s[i - 1] + ns[i]
  BY SumsSteps
<1> HIDE DEF s
<1>2. 0 \in G
  BY <1>1
<1>3. ASSUME NEW k \in 1 .. m, k - 1 \in G PROVE k \in G
  BY <1>1, <1>3
<1>4. \A k \in 0 .. m : k \in G
  <2>1. m \in Nat
    OBVIOUS
  <2> HIDE DEF G
  <2> QED BY <1>2, <1>3, <2>1, Induct
<1> QED BY <1>4 DEF s

LEMMA SumsType ==
  ASSUME NEW ns \in Seq(Int), NEW m \in 0 .. Len(ns)
  PROVE  Sums(ns)[m] \in Int
<1> DEFINE s == Sums(ns)
           G == {i \in 0 .. Len(ns) : s[i] \in Int}
<1>1. s[0] = 0 /\ \A i \in 1 .. Len(ns) : s[i] = s[i - 1] + ns[i]
  BY SumsSteps
<1> HIDE DEF s
<1>2. 0 \in G
  BY <1>1
<1>3. ASSUME NEW k \in 1 .. Len(ns), k - 1 \in G PROVE k \in G
  BY <1>1, <1>3
<1>4. m \in G
  <2>1. Len(ns) \in Nat
    OBVIOUS
  <2> HIDE DEF G
  <2> QED BY <1>2, <1>3, <2>1, Induct
<1> QED BY <1>4 DEF s

(* What one more number does to the sums.                                  *)
LEMMA SumAppend ==
  ASSUME NEW ns \in Seq(Int), NEW x \in Int
  PROVE  /\ \A i \in 0 .. Len(ns) : Sums(Append(ns, x))[i] = Sums(ns)[i]
         /\ Sum(Append(ns, x)) = Sum(ns) + x
<1> DEFINE ms == Append(ns, x)
           s == Sums(ns)
<1>1. /\ ms \in Seq(Int) /\ Len(ms) = Len(ns) + 1 /\ ms[Len(ns) + 1] = x
      /\ \A i \in 1 .. Len(ns) : ms[i] = ns[i]
      /\ Len(ns) \in 0 .. Len(ms)
  OBVIOUS
<1>2. s[0] = 0 /\ \A i \in 1 .. Len(ns) : s[i] = s[i - 1] + ns[i]
  BY SumsSteps
<1> HIDE DEF ms, s
<1>3. \A i \in 1 .. Len(ns) : s[i] = s[i - 1] + ms[i]
  BY <1>1, <1>2
<1>4. \A i \in 0 .. Len(ns) : Sums(ms)[i] = s[i]
  BY <1>1, <1>2, <1>3, SumsAre
<1>5. Sums(ms)[Len(ns) + 1] = Sums(ms)[Len(ns)] + x
  <2> DEFINE z == Sums(ms)
  <2>1. \A i \in 1 .. Len(ms) : z[i] = z[i - 1] + ms[i]
    BY <1>1, SumsSteps
  <2> HIDE DEF z
  <2>2. z[Len(ns) + 1] = z[Len(ns)] + x
    BY <1>1, <2>1
  <2> QED BY <2>2 DEF z
<1>6. Sum(ms) = Sums(ms)[Len(ns) + 1] /\ Sum(ns) = s[Len(ns)]
  BY <1>1 DEF Sum, s
<1> QED BY <1>1, <1>4, <1>5, <1>6 DEF ms, s
-----------------------------------------------------------------------------
(* The tape: buffer n ends at cell Edge(n).  What is in front of pos is in *)
(* tokens, what is in front of tk has been received.                       *)
Edge(n) == n * B
Clamp(x) == Max2(0, Min2(B, x))
Buf(id, pos, tk) ==
  [id |-> id, offset |-> Clamp(pos - Edge(id - 1)), tail |-> Clamp(tk - Edge(id - 1))]

LEMMA Sizes ==
  /\ B \in Nat /\ HEADER \in Nat /\ MRDS \in Nat
  /\ B >= HEADER /\ HEADER >= 1 /\ MRDS >= 1
  BY SizesAssumption, UnitAssumption DEF B

LEMMA EdgeSteps ==
  ASSUME NEW n \in Nat
  PROVE  /\ Edge(n) \in Nat
         /\ Edge(n + 1) = Edge(n) + B
         /\ Edge(0) = 0
<1>1. B \in Nat
  BY Sizes
<1> QED BY <1>1 DEF Edge

LEMMA EdgeGrows ==
  ASSUME NEW m \in Nat, NEW n \in Nat, m < n
  PROVE  Edge(m) + B <= Edge(n)
<1>1. B \in Nat
  BY Sizes
<1>2. PICK d \in Nat : n = m + 1 + d
  <2>1. n - m - 1 \in Nat /\ n = m + 1 + (n - m - 1)
    OBVIOUS
  <2> QED BY <2>1
<1>3. n * B = m * B + B + d * B
  BY <1>1, <1>2
<1>4. d * B >= 0
  BY <1>1
<1> QED BY <1>1, <1>3, <1>4 DEF Edge

LEMMA EdgeAdds ==
  ASSUME NEW m \in Nat, NEW n \in Nat
  PROVE  Edge(m + n) = Edge(m) + n * B
<1>1. B \in Nat
  BY Sizes
<1> QED BY <1>1 DEF Edge

LEMMA ClampFacts ==
  ASSUME NEW x \in Int
  PROVE  /\ Clamp(x) \in 0 .. B
         /\ x <= 0 => Clamp(x) = 0
         /\ x >= B => Clamp(x) = B
         /\ 0 <= x /\ x <= B => Clamp(x) = x
<1>1. B \in Nat
  BY Sizes
<1> QED BY <1>1 DEF Clamp, Max2, Min2

(* A buffer that nothing has been received for is a new one.               *)
LEMMA BufNew ==
  ASSUME NEW id \in Nat \ {0}, NEW pos \in Int, NEW tk \in Int,
         pos <= tk, tk <= Edge(id - 1)
  PROVE  Buf(id, pos, tk) = NewBuf(id)
<1>1. Edge(id - 1) \in Nat
  BY EdgeSteps
<1>2. pos - Edge(id - 1) \in Int /\ pos - Edge(id - 1) <= 0
  BY <1>1
<1>3. tk - Edge(id - 1) \in Int /\ tk - Edge(id - 1) <= 0
  BY <1>1
<1> QED BY <1>2, <1>3, ClampFacts DEF Buf, NewBuf
(* The m buffers from number f on; how much of them is unread, and free.   *)
Row(f, m, pos, tk) == [j \in 1 .. m |-> Buf(f + j - 1, pos, tk)]
Unread(cs) == [j \in DOMAIN cs |-> GetRemain(cs[j])]
Free(cs) == [j \in DOMAIN cs |-> GetCapacity(cs[j])]
Bufs == [id : Nat, offset : 0 .. B, tail : 0 .. B]

LEMMA EdgeAt ==
  ASSUME NEW f \in Nat \ {0}, NEW j \in Nat \ {0}
  PROVE  /\ Edge(f - 1 + (j - 1)) \in Nat
         /\ Edge(f - 1 + j) = Edge(f - 1 + (j - 1)) + B
         /\ Edge(f - 1) \in Nat /\ Edge(f - 1) <= Edge(f - 1 + (j - 1))
<1> DEFINE e == Edge(f - 1 + (j - 1))
<1>1. f - 1 \in Nat /\ f - 1 + (j - 1) \in Nat /\ f - 1 + (j - 1) + 1 = f - 1 + j
  OBVIOUS
<1>2. e \in Nat /\ Edge(f - 1 + j) = e + B /\ Edge(f - 1) \in Nat
  BY <1>1, EdgeSteps
<1>3. Edge(f - 1) <= e
  <2>1. CASE j = 1
    <3>1. f - 1 + (j - 1) = f - 1
      BY <2>1
    <3> QED BY <3>1, <1>2
  <2>2. CASE j # 1
    <3>1. f - 1 < f - 1 + (j - 1)
      BY <2>2
    <3>2. Edge(f - 1) + B <= e
      BY <1>1, <3>1, EdgeGrows
    <3> HIDE DEF e
    <3> QED BY <1>2, <3>2, Sizes
  <2> QED BY <2>1, <2>2
<1> QED BY <1>2, <1>3

LEMMA RowAt ==
  ASSUME NEW f \in Nat \ {0}, NEW m \in Nat, NEW pos \in Int, NEW tk \in Int,
         NEW j \in 1 .. m
  PROVE  Row(f, m, pos, tk)[j] = [id |-> f + j - 1,
                                  offset |-> Clamp(pos - Edge(f - 1 + (j - 1))),
                                  tail |-> Clamp(tk - Edge(f - 1 + (j - 1)))]
<1>1. Row(f, m, pos, tk)[j] = Buf(f + j - 1, pos, tk)
  BY DEF Row
<1>2. f + j - 1 - 1 = f - 1 + (j - 1)
  OBVIOUS
<1> QED BY <1>1, <1>2 DEF Buf

LEMMA RowShape ==
  ASSUME NEW f \in Nat \ {0}, NEW m \in Nat, NEW pos \in Int, NEW tk \in Int
  PROVE  Row(f, m, pos, tk) \in [1 .. m -> Bufs]
<1> DEFINE cs == Row(f, m, pos, tk)
<1>1. cs = [j \in 1 .. m |-> cs[j]]
  BY DEF Row
<1>2. ASSUME NEW j \in 1 .. m PROVE cs[j] \in Bufs
  <2> DEFINE e == Edge(f - 1 + (j - 1))
  <2>1. e \in Nat /\ f + j - 1 \in Nat
    BY EdgeAt
  <2>2. cs[j] = [id |-> f + j - 1, offset |-> Clamp(pos - e), tail |-> Clamp(tk - e)]
    BY RowAt
  <2> HIDE DEF e
  <2>3. Clamp(pos - e) \in 0 .. B /\ Clamp(tk - e) \in 0 .. B
    BY <2>1, ClampFacts
  <2> QED BY <2>1, <2>2, <2>3 DEF Bufs
<1> HIDE DEF cs
<1>3. cs \in [1 .. m -> Bufs]
  BY <1>1, <1>2
<1> QED BY <1>3 DEF cs

LEMMA BufsShape ==
  ASSUME NEW m \in Nat, NEW cs \in [1 .. m -> Bufs]
  PROVE  /\ Unread(cs) \in [1 .. m -> Int]
         /\ Free(cs) \in [1 .. m -> Int]
         /\ \A j \in 1 .. m : /\ Unread(cs)[j] = cs[j].tail - cs[j].offset
                              /\ Free(cs)[j] = B - cs[j].tail
<1>1. \A j \in 1 .. m : cs[j].tail \in 0 .. B /\ cs[j].offset \in 0 .. B
  BY DEF Bufs
<1>2. B \in Nat
  BY Sizes
<1> QED BY <1>1, <1>2 DEF Unread, Free, GetRemain, GetCapacity

(* The unread part of a row is what lies between pos and tk, the free part *)
(* what lies behind tk.                                                    *)
LEMMA UnreadSums ==
  ASSUME NEW f \in Nat \ {0}, NEW m \in Nat, NEW pos \in Int, NEW tk \in Int,
         Edge(f - 1) <= pos, pos <= tk
  PROVE  \A i \in 0 .. m :
           Sums(Unread(Row(f, m, pos, tk)))[i] = Max2(0, Min2(tk, Edge(f - 1 + i)) - pos)
<1> DEFINE cs == Row(f, m, pos, tk)
           ns == Unread(cs)
           F == [i \in 0 .. m |-> Max2(0, Min2(tk, Edge(f - 1 + i)) - pos)]
<1>1. ns \in Seq(Int) /\ Len(ns) = m
  <2>1. ns \in [1 .. m -> Int]
    BY RowShape, BufsShape
  <2> HIDE DEF ns
  <2> QED BY <2>1
<1>2. F[0] = 0
  <2>1. Edge(f - 1 + 0) = Edge(f - 1) /\ Edge(f - 1) \in Nat
    BY EdgeSteps
  <2> QED BY <2>1 DEF Max2, Min2
<1>3. ASSUME NEW i \in 1 .. m PROVE F[i] = F[i - 1] + ns[i]
  <2> DEFINE e == Edge(f - 1 + (i - 1))
  <2>1. e \in Nat /\ Edge(f - 1 + i) = e + B /\ ns[i] = Clamp(tk - e) - Clamp(pos - e)
    <3>1. ns[i] = cs[i].tail - cs[i].offset
      <4>1. cs \in [1 .. m -> Bufs]
        BY RowShape
      <4> HIDE DEF cs
      <4> QED BY <4>1, BufsShape
    <3>2. e \in Nat /\ Edge(f - 1 + i) = e + B
      <4>1. i \in Nat \ {0}
        OBVIOUS
      <4> QED BY <4>1, EdgeAt
    <3>3. cs[i] = [id |-> f + i - 1, offset |-> Clamp(pos - e), tail |-> Clamp(tk - e)]
      BY RowAt
    <3> HIDE DEF cs, e
    <3> QED BY <3>1, <3>2, <3>3
  <2>2. i # 1 => Edge(f - 1) <= e
    <3>1. i # 1 => f - 1 \in Nat /\ f - 1 + (i - 1) \in Nat /\ f - 1 < f - 1 + (i - 1)
      OBVIOUS
    <3>2. B \in Nat /\ Edge(f - 1) \in Nat
      BY Sizes, EdgeSteps
    <3> QED BY <3>1, <3>2, <2>1, EdgeGrows
  <2>3. i = 1 => Edge(f - 1) = e
    <3>1. i = 1 => f - 1 = f - 1 + (i - 1)
      OBVIOUS
    <3> QED BY <3>1
  <2>4. F[i] = Max2(0, Min2(tk, e + B) - pos) /\ F[i - 1] = Max2(0, Min2(tk, e) - pos)
    BY <2>1
  <2> HIDE DEF e, F, ns
  <2>5. B \in Nat /\ B > 0 /\ Edge(f - 1) \in Nat /\ Edge(f - 1) <= e
    BY Sizes, EdgeSteps, <2>1, <2>2, <2>3
  <2> QED BY <2>1, <2>4, <2>5 DEF Max2, Min2, Clamp
<1> HIDE DEF ns
<1>4. \A i \in 0 .. m : Sums(ns)[i] = F[i]
  <2>1. m \in 0 .. Len(ns)
    BY <1>1
  <2> HIDE DEF F
  <2> QED BY <1>1, <1>2, <1>3, <2>1, SumsAre
<1> QED BY <1>4 DEF ns

LEMMA FreeSums ==
  ASSUME NEW f \in Nat \ {0}, NEW m \in Nat, NEW pos \in Int, NEW tk \in Int,
         Edge(f - 1) <= tk, pos <= tk
  PROVE  \A i \in 0 .. m :
           Sums(Free(Row(f, m, pos, tk)))[i] = Max2(0, Edge(f - 1 + i) - tk)
<1> DEFINE cs == Row(f, m, pos, tk)
           ns == Free(cs)
           F == [i \in 0 .. m |-> Max2(0, Edge(f - 1 + i) - tk)]
<1>1. ns \in Seq(Int) /\ Len(ns) = m
  <2>1. ns \in [1 .. m -> Int]
    BY RowShape, BufsShape
  <2> HIDE DEF ns
  <2> QED BY <2>1
<1>2. F[0] = 0
  <2>1. Edge(f - 1 + 0) = Edge(f - 1) /\ Edge(f - 1) \in Nat
    BY EdgeSteps
  <2> QED BY <2>1 DEF Max2
<1>3. ASSUME NEW i \in 1 .. m PROVE F[i] = F[i - 1] + ns[i]
  <2> DEFINE e == Edge(f - 1 + (i - 1))
  <2>1. e \in Nat /\ Edge(f - 1 + i) = e + B /\ ns[i] = B - Clamp(tk - e)
    <3>1. ns[i] = B - cs[i].tail
      <4>1. cs \in [1 .. m -> Bufs]
        BY RowShape
      <4> HIDE DEF cs
      <4> QED BY <4>1, BufsShape
    <3>2. e \in Nat /\ Edge(f - 1 + i) = e + B
      <4>1. i \in Nat \ {0}
        OBVIOUS
      <4> QED BY <4>1, EdgeAt
    <3>3. cs[i] = [id |-> f + i - 1, offset |-> Clamp(pos - e), tail |-> Clamp(tk - e)]
      BY RowAt
    <3> HIDE DEF cs, e
    <3> QED BY <3>1, <3>2, <3>3
  <2>2. F[i] = Max2(0, (e + B) - tk) /\ F[i - 1] = Max2(0, e - tk)
    BY <2>1
  <2> HIDE DEF e, F, ns
  <2>3. B \in Nat /\ B > 0
    BY Sizes
  <2> QED BY <2>1, <2>2, <2>3 DEF Max2, Min2, Clamp
<1> HIDE DEF ns
<1>4. \A i \in 0 .. m : Sums(ns)[i] = F[i]
  <2>1. m \in 0 .. Len(ns)
    BY <1>1
  <2> HIDE DEF F
  <2> QED BY <1>1, <1>2, <1>3, <2>1, SumsAre
<1> QED BY <1>4 DEF ns
(* stepForwardTail() moves tk, stepForwardOffset() moves pos.              *)
LEMMA SharesAt ==
  ASSUME NEW m \in Nat, NEW ns \in [1 .. m -> Int], NEW n \in Nat, NEW j \in 1 .. m
  PROVE  Shares(ns, n)[j] = Min2(ns[j], Max2(0, n - Sums(ns)[j - 1]))
  BY DEF Shares

LEMMA TailSteps ==
  ASSUME NEW f \in Nat \ {0}, NEW m \in Nat, NEW pos \in Int, NEW tk \in Int, NEW n \in Nat,
         Edge(f - 1) <= tk, pos <= tk, cbufs = Row(f, m, pos, tk)
  PROVE  StepForwardTail(n) = Row(f, m, pos, tk + n)
<1> DEFINE ns == Free(cbufs)
           part == Shares(ns, n)
           new == Row(f, m, pos, tk + n)
<1>1. StepForwardTail(n) = [j \in DOMAIN cbufs |-> [cbufs[j] EXCEPT !.tail = @ + part[j]]]
  BY DEF StepForwardTail, Free
<1>2. cbufs \in [1 .. m -> Bufs]
  BY RowShape
<1>3. ns \in [1 .. m -> Int] /\ \A j \in 1 .. m : ns[j] = B - cbufs[j].tail
  BY <1>2, BufsShape
<1>4. \A i \in 0 .. m : Sums(ns)[i] = Max2(0, Edge(f - 1 + i) - tk)
  BY FreeSums
<1>5. tk + n \in Int /\ pos <= tk + n
  OBVIOUS
<1>6. new \in [1 .. m -> Bufs]
  BY <1>5, RowShape
<1> HIDE DEF ns, new
<1>7. ASSUME NEW j \in 1 .. m PROVE [cbufs[j] EXCEPT !.tail = @ + part[j]] = new[j]
  <2> DEFINE e == Edge(f - 1 + (j - 1))
  <2>0. j \in Nat \ {0}
    OBVIOUS
  <2>1. e \in Nat
    BY <2>0, EdgeAt
  <2>2. cbufs[j] = [id |-> f + j - 1, offset |-> Clamp(pos - e), tail |-> Clamp(tk - e)]
    BY RowAt
  <2>3. new[j] = [id |-> f + j - 1, offset |-> Clamp(pos - e), tail |-> Clamp((tk + n) - e)]
    <3>1. Row(f, m, pos, tk + n)[j] = [id |-> f + j - 1, offset |-> Clamp(pos - e), tail |-> Clamp((tk + n) - e)]
      BY <1>5, RowAt
    <3> QED BY <3>1 DEF new
  <2>8. part[j] = Min2(ns[j], Max2(0, n - Max2(0, e - tk)))
    <3>1. part[j] = Min2(ns[j], Max2(0, n - Sums(ns)[j - 1]))
      BY <1>3, SharesAt
    <3>2. j - 1 \in 0 .. m
      OBVIOUS
    <3>3. Sums(ns)[j - 1] = Max2(0, e - tk)
      BY <1>4, <3>2
    <3> QED BY <3>1, <3>3
  <2> HIDE DEF e, part
  <2>9. B \in Nat /\ B > 0
    BY Sizes
  <2>10. cbufs[j].tail + part[j] = new[j].tail
    <3>1. ns[j] = B - Clamp(tk - e)
      BY <1>3, <2>2
    <3>2. Clamp(tk - e) + part[j] = Clamp((tk + n) - e)
      BY <2>1, <2>8, <2>9, <3>1 DEF Clamp, Max2, Min2
    <3> QED BY <2>2, <2>3, <3>2
  <2> QED BY <2>2, <2>3, <2>10
<1> HIDE DEF part
<1>8. StepForwardTail(n) = [j \in 1 .. m |-> new[j]]
  BY <1>1, <1>2, <1>7
<1> QED BY <1>6, <1>8 DEF new

LEMMA OffsetSteps ==
  ASSUME NEW f \in Nat \ {0}, NEW m \in Nat, NEW pos \in Int, NEW tk \in Int, NEW n \in Nat,
         Edge(f - 1) <= pos, pos + n <= tk, cbufs = Row(f, m, pos, tk)
  PROVE  StepForwardOffset(n) = Row(f, m, pos + n, tk)
<1> DEFINE ns == Unread(cbufs)
           part == Shares(ns, n)
           new == Row(f, m, pos + n, tk)
<1>1. StepForwardOffset(n) = [j \in DOMAIN cbufs |-> [cbufs[j] EXCEPT !.offset = @ + part[j]]]
  BY DEF StepForwardOffset, Unread
<1>5. pos + n \in Int /\ pos <= tk
  OBVIOUS
<1>2. cbufs \in [1 .. m -> Bufs]
  BY <1>5, RowShape
<1>3. ns \in [1 .. m -> Int] /\ \A j \in 1 .. m : ns[j] = cbufs[j].tail - cbufs[j].offset
  BY <1>2, BufsShape
<1>4. \A i \in 0 .. m : Sums(ns)[i] = Max2(0, Min2(tk, Edge(f - 1 + i)) - pos)
  <2>1. \A i \in 0 .. m : Sums(Unread(Row(f, m, pos, tk)))[i] = Max2(0, Min2(tk, Edge(f - 1 + i)) - pos)
    BY <1>5, UnreadSums
  <2> QED BY <2>1
<1>6. new \in [1 .. m -> Bufs]
  BY <1>5, RowShape
<1> HIDE DEF ns, new
<1>7. ASSUME NEW j \in 1 .. m PROVE [cbufs[j] EXCEPT !.offset = @ + part[j]] = new[j]
  <2> DEFINE e == Edge(f - 1 + (j - 1))
  <2>0. j \in Nat \ {0}
    OBVIOUS
  <2>1. e \in Nat
    BY <2>0, EdgeAt
  <2>2. cbufs[j] = [id |-> f + j - 1, offset |-> Clamp(pos - e), tail |-> Clamp(tk - e)]
    BY RowAt
  <2>3. new[j] = [id |-> f + j - 1, offset |-> Clamp((pos + n) - e), tail |-> Clamp(tk - e)]
    <3>1. Row(f, m, pos + n, tk)[j] = [id |-> f + j - 1, offset |-> Clamp((pos + n) - e), tail |-> Clamp(tk - e)]
      BY <1>5, RowAt
    <3> QED BY <3>1 DEF new
  <2>8. part[j] = Min2(ns[j], Max2(0, n - Max2(0, Min2(tk, e) - pos)))
    <3>1. part[j] = Min2(ns[j], Max2(0, n - Sums(ns)[j - 1]))
      BY <1>3, SharesAt
    <3>2. j - 1 \in 0 .. m
      OBVIOUS
    <3>3. Sums(ns)[j - 1] = Max2(0, Min2(tk, e) - pos)
      BY <1>4, <3>2
    <3> QED BY <3>1, <3>3
  <2>12. Edge(f - 1) \in Nat /\ Edge(f - 1) <= e
    BY <2>0, EdgeAt
  <2> HIDE DEF e, part
  <2>9. B \in Nat /\ B > 0
    BY Sizes
  <2>10. cbufs[j].offset + part[j] = new[j].offset
    <3>1. ns[j] = Clamp(tk - e) - Clamp(pos - e)
      BY <1>3, <2>2
    <3>2. Clamp(pos - e) + part[j] = Clamp((pos + n) - e)
      <4>1. CASE pos >= e
        BY <1>5, <2>1, <2>8, <2>9, <2>12, <3>1, <4>1 DEF Clamp, Max2, Min2
      <4>2. CASE pos < e
        BY <1>5, <2>1, <2>8, <2>9, <2>12, <3>1, <4>2 DEF Clamp, Max2, Min2
      <4> QED BY <2>1, <4>1, <4>2
    <3> QED BY <2>2, <2>3, <3>2
  <2> QED BY <2>2, <2>3, <2>10
<1> HIDE DEF part
<1>8. StepForwardOffset(n) = [j \in 1 .. m |-> new[j]]
  BY <1>1, <1>2, <1>7
<1> QED BY <1>6, <1>8 DEF new
(* A row without its first buffer, and with a new one at its end.          *)
LEMMA RowSeq ==
  ASSUME NEW f \in Nat \ {0}, NEW m \in Nat, NEW pos \in Int, NEW tk \in Int
  PROVE  Row(f, m, pos, tk) \in Seq(Bufs) /\ Len(Row(f, m, pos, tk)) = m
<1> DEFINE cs == Row(f, m, pos, tk)
<1>1. cs \in [1 .. m -> Bufs]
  BY RowShape
<1> HIDE DEF cs
<1>2. cs \in Seq(Bufs) /\ Len(cs) = m
  BY <1>1
<1> QED BY <1>2 DEF cs

LEMMA RowTail ==
  ASSUME NEW f \in Nat \ {0}, NEW m \in Nat \ {0}, NEW pos \in Int, NEW tk \in Int
  PROVE  Tail(Row(f, m, pos, tk)) = Row(f + 1, m - 1, pos, tk)
<1> DEFINE cs == Row(f, m, pos, tk)
           ds == Row(f + 1, m - 1, pos, tk)
<1>1. cs \in Seq(Bufs) /\ Len(cs) = m
  <2>1. m \in Nat
    OBVIOUS
  <2>2. cs \in [1 .. m -> Bufs]
    BY <2>1, RowShape
  <2> HIDE DEF cs
  <2> QED BY <2>1, <2>2
<1>2. ds \in Seq(Bufs) /\ Len(ds) = m - 1
  <2>1. f + 1 \in Nat \ {0} /\ m - 1 \in Nat
    OBVIOUS
  <2>2. ds \in [1 .. (m - 1) -> Bufs]
    BY <2>1, RowShape
  <2> HIDE DEF ds
  <2> QED BY <2>1, <2>2
<1>3. ASSUME NEW i \in 1 .. (m - 1) PROVE cs[i + 1] = ds[i]
  <2>1. i + 1 \in 1 .. m /\ f + 1 + i - 1 = f + (i + 1) - 1
    OBVIOUS
  <2>2. cs[i + 1] = Buf(f + (i + 1) - 1, pos, tk)
    BY <2>1 DEF Row
  <2>3. ds[i] = Buf(f + 1 + i - 1, pos, tk)
    BY DEF Row
  <2> QED BY <2>1, <2>2, <2>3
<1> HIDE DEF cs, ds
<1>4. Tail(cs) \in Seq(Bufs) /\ Len(Tail(cs)) = m - 1
  BY <1>1, HeadTailProperties
<1>5. \A i \in 1 .. (m - 1) : Tail(cs)[i] = cs[i + 1]
  BY <1>1
<1>6. Tail(cs) = ds
  BY <1>2, <1>3, <1>4, <1>5, SeqEqual
<1> QED BY <1>6 DEF cs, ds

LEMMA RowAppend ==
  ASSUME NEW f \in Nat \ {0}, NEW m \in Nat, NEW pos \in Int, NEW tk \in Int,
         pos <= tk, tk <= Edge(f + m - 1)
  PROVE  Append(Row(f, m, pos, tk), NewBuf(f + m)) = Row(f, m + 1, pos, tk)
<1> DEFINE cs == Row(f, m, pos, tk)
           ds == Row(f, m + 1, pos, tk)
           new == NewBuf(f + m)
<1>1. cs \in Seq(Bufs) /\ Len(cs) = m
  BY RowSeq
<1>2. ds \in Seq(Bufs) /\ Len(ds) = m + 1
  <2>1. m + 1 \in Nat
    OBVIOUS
  <2> QED BY <2>1, RowSeq
<1>3. ds[m + 1] = new
  <2>1. m + 1 \in 1 .. (m + 1) /\ f + (m + 1) - 1 = f + m /\ f + m \in Nat \ {0}
        /\ f + m - 1 = (f + m) - 1
    OBVIOUS
  <2>2. ds[m + 1] = Buf(f + m, pos, tk)
    BY <2>1 DEF Row
  <2>3. tk <= Edge((f + m) - 1)
    BY <2>1
  <2> QED BY <2>1, <2>2, <2>3, BufNew
<1>4. \A i \in 1 .. m : ds[i] = cs[i]
  BY DEF Row
<1>5. new \in Bufs
  BY Sizes DEF Bufs, NewBuf
<1> HIDE DEF cs, ds, new
<1>6. /\ Append(cs, new) \in Seq(Bufs) /\ Len(Append(cs, new)) = m + 1
      /\ Append(cs, new)[m + 1] = new /\ \A i \in 1 .. m : Append(cs, new)[i] = cs[i]
  BY <1>1, <1>5
<1>7. \A i \in 1 .. (m + 1) : Append(cs, new)[i] = ds[i]
  BY <1>3, <1>4, <1>6
<1>8. Append(cs, new) = ds
  BY <1>2, <1>6, <1>7, SeqEqual
<1> QED BY <1>8 DEF cs, ds, new
-----------------------------------------------------------------------------
(* A PDU fits in two buffers, so that there are two iovecs.                *)
TwoIovecs == HEADER + MRDS <= 2 * B

LEMMA CountTwo == TwoIovecs => count = 2
<1> SUFFICES ASSUME TwoIovecs PROVE count = 2
  OBVIOUS
<1> DEFINE q == MRDS \div B
           r == MRDS % B
<1>1. B \in Nat /\ B > 0 /\ MRDS \in Nat /\ MRDS < 2 * B
  BY Sizes DEF TwoIovecs
<1>2. q \in Int /\ r \in 0 .. (B - 1) /\ MRDS = B * q + r
  <2>1. B \in Int /\ MRDS \in Int
    BY <1>1
  <2> HIDE DEF q, r
  <2> QED BY <1>1, <2>1 DEF q, r
<1> HIDE DEF q, r
<1>3. q >= 2 => B * q >= 2 * B
  BY <1>1, <1>2
<1>4. q <= 1
  BY <1>1, <1>2, <1>3
<1>5. count = IF q + 1 > 2 THEN q + 1 ELSE 2
  BY DEF count, q
<1> QED BY <1>2, <1>4, <1>5
Cells == [0 .. (B + HEADER - 1) -> Int]
Iovecs == [id : Nat, base : 0 .. B, len : 0 .. B]

LEMMA RotateIs ==
  ASSUME TwoIovecs, NEW c, NEW index \in {0, 1}, c.vec \in Seq(Iovecs), Len(c.vec) = 2
  PROVE  Rotate(c, index) =
           [mem |-> Append(c.mem, Blank), cbufs |-> Append(c.cbufs, NewBuf(Len(c.mem) + 1)),
            overflow |-> c.overflow,
            vec |-> <<c.vec[2 - index], Iovec(NewBuf(Len(c.mem) + 1))>>]
<1> DEFINE new == NewBuf(Len(c.mem) + 1)
           v == c.vec
           low == SubSeq(v, 2, 2 - index)
           high == SubSeq(v, 2 - index, 2 - 1)
<1>1. count = 2
  BY CountTwo
<1>2. Rotate(c, index) = [mem |-> Append(c.mem, Blank), cbufs |-> Append(c.cbufs, new),
                          overflow |-> c.overflow, vec |-> low \o high \o <<Iovec(new)>>]
  BY <1>1 DEF Rotate
<1> HIDE DEF new, v
<1>3. v \in Seq(Iovecs) /\ Len(v) = 2
  BY DEF v
<1>4. v[1] \in Iovecs /\ v[2] \in Iovecs
  BY <1>3, ElementOfSeq
<1> HIDE DEF v
<1>5. ASSUME NEW i \in 1 .. 2 PROVE SubSeq(v, i, i) = <<v[i]>>
  <2> DEFINE t == SubSeq(v, i, i)
  <2>1. i \in Int /\ \A k \in i .. i : v[k] \in Iovecs
    BY <1>4
  <2>2. t \in Seq(Iovecs) /\ Len(t) = 1 /\ t[1] = v[i]
    <3>1. i - i + 1 = 1 /\ i + 1 - 1 = i /\ 1 \in 1 .. (i - i + 1) /\ i <= i
      OBVIOUS
    <3>2. /\ t \in Seq(Iovecs)
          /\ Len(t) = IF i <= i THEN i - i + 1 ELSE 0
          /\ \A k \in 1 .. (i - i + 1) : t[k] = v[i + k - 1]
      BY <2>1, SubSeqProperties
    <3> QED BY <3>1, <3>2
  <2> HIDE DEF t
  <2>3. v[i] \in Iovecs
    BY <1>4
  <2>4. t = <<v[i]>>
    BY <2>2, <2>3
  <2> QED BY <2>4 DEF t
<1>6. ASSUME NEW i \in 1 .. 2 PROVE SubSeq(v, i + 1, i) = << >>
  BY SubSeqEmpty
<1>7. low \o high = <<v[2 - index]>>
  <2>1. CASE index = 0
    <3>1. low = SubSeq(v, 2, 2) /\ high = SubSeq(v, 1 + 1, 1)
      BY <2>1
    <3>2. low = <<v[2]>> /\ high = << >>
      BY <1>5, <1>6, <3>1
    <3> HIDE DEF low, high
    <3>3. <<v[2]>> \in Seq(Iovecs)
      BY <1>4
    <3> QED BY <2>1, <3>2, <3>3, ConcatEmptySeq
  <2>2. CASE index = 1
    <3>1. low = SubSeq(v, 1 + 1, 1) /\ high = SubSeq(v, 1, 1)
      BY <2>2
    <3>2. low = << >> /\ high = <<v[1]>>
      BY <1>5, <1>6, <3>1
    <3> HIDE DEF low, high
    <3>3. <<v[1]>> \in Seq(Iovecs)
      BY <1>4
    <3> QED BY <2>2, <3>2, <3>3, ConcatEmptySeq
  <2> QED BY <2>1, <2>2
<1>8. low \o high \o <<Iovec(new)>> = <<v[2 - index], Iovec(new)>>
  <2> HIDE DEF low, high
  <2> DEFINE x == v[2 - index]
             y == Iovec(new)
  <2> HIDE DEF x, y
  <2>1. <<x>> \o <<y>> = <<x, y>>
    <3>1. /\ <<x>> \in Seq({x, y}) /\ <<y>> \in Seq({x, y}) /\ <<x, y>> \in Seq({x, y})
          /\ Len(<<x>>) = 1 /\ Len(<<y>>) = 1 /\ Len(<<x, y>>) = 2
      OBVIOUS
    <3> DEFINE t == <<x>> \o <<y>>
    <3>2. t \in Seq({x, y}) /\ Len(t) = 2
      BY <3>1, ConcatProperties
    <3>3. t[1] = x /\ t[2] = y
      <4>1. \A i \in 1 .. (1 + 1) : t[i] = IF i <= 1 THEN <<x>>[i] ELSE <<y>>[i - 1]
        BY <3>1, ConcatProperties
      <4> HIDE DEF t
      <4>2. t[1] = <<x>>[1] /\ t[2] = <<y>>[2 - 1]
        BY <4>1
      <4> QED BY <4>2
    <3> HIDE DEF t
    <3>4. t = <<x, y>>
      BY <3>1, <3>2, <3>3, SeqEqual
    <3> QED BY <3>4 DEF t
  <2> QED BY <1>7, <2>1 DEF x, y
<1> QED BY <1>2, <1>8 DEF new, v

(* What a container looks like between the steps of update(), and how its  *)
(* iovecs may stand to the last two of n buffers: they match, lag behind,  *)
(* or are exact.                                                           *)
Containers == [mem : Seq(Cells), cbufs : Seq(Bufs), vec : Seq(Iovecs), overflow : Nat]
Shape(c, f, pos, tk) ==
  /\ c \in Containers
  /\ c.cbufs = Row(f, c.overflow + 2, pos, tk)
  /\ Len(c.mem) = f + c.overflow + 1 /\ Len(c.vec) = 2
  /\ Edge(f - 1 + c.overflow) <= tk /\ tk <= Edge(f + c.overflow + 1)
Kept(m, n) == Len(m) <= Len(n) /\ \A b \in 1 .. Len(m) : n[b] = m[b]
Room(id, tk) ==
  [id |-> id, base |-> Clamp(tk - Edge(id - 1)), len |-> B - Clamp(tk - Edge(id - 1))]
Matches(v, n, tk) ==
  v[1].id = n - 1 /\ v[2].id = n /\ (tk < Edge(n - 1) => v[2] = Room(n, tk))
Lags(v, n, tk) == v[1].id # n - 1 /\ v[2] = Room(n, tk)
Exact(v, n, tk) == v[1] = Room(n - 1, tk) /\ v[2] = Room(n, tk)

LEMMA MakeContainer ==
  ASSUME NEW ms \in Seq(Cells), NEW cs \in Seq(Bufs), NEW v \in Seq(Iovecs), NEW o \in Nat
  PROVE  [mem |-> ms, cbufs |-> cs, vec |-> v, overflow |-> o] \in Containers
  BY DEF Containers

LEMMA KeptAppend ==
  ASSUME NEW m \in Seq(Cells)
  PROVE  /\ Append(m, Blank) \in Seq(Cells) /\ Len(Append(m, Blank)) = Len(m) + 1
         /\ Kept(m, Append(m, Blank))
<1>1. Blank \in Cells
  BY Sizes DEF Blank, Cells
<1> HIDE DEF Cells
<1> QED BY <1>1 DEF Kept

LEMMA KeptTrans ==
  ASSUME NEW k \in Seq(Cells), NEW m \in Seq(Cells), NEW n \in Seq(Cells), Kept(k, m), Kept(m, n)
  PROVE  Kept(k, n)
  BY DEF Kept

LEMMA NewIovec ==
  ASSUME NEW id \in Nat
  PROVE  Iovec(NewBuf(id)) \in Iovecs /\ NewBuf(id) \in Bufs /\ Iovec(NewBuf(id)).id = id
  BY Sizes DEF Iovec, NewBuf, GetCapacity, Iovecs, Bufs

LEMMA RowIn ==
  ASSUME NEW f \in Nat \ {0}, NEW m \in Nat, NEW pos \in Int, NEW tk \in Int
  PROVE  Row(f, m, pos, tk) \in Seq(Bufs)
  BY RowSeq

(* One round of the first loop: a surplus buffer leaves,                   *)
LEMMA DroppedSurplus ==
  ASSUME NEW c, NEW f \in Nat \ {0}, NEW pos \in Int, NEW tk \in Int, NEW index,
         Shape(c, f, pos, tk), c.overflow > 0, NEW d, d = Dropped(c, index)
  PROVE  Shape(d, f + 1, pos, tk) /\ d.overflow = c.overflow - 1 /\ d.mem = c.mem /\ d.vec = c.vec
<1>0. c \in Containers /\ c.overflow \in Nat
  BY DEF Shape, Containers
<1>1. d = [mem |-> c.mem, cbufs |-> Tail(c.cbufs), vec |-> c.vec, overflow |-> c.overflow - 1]
  BY <1>0 DEF Dropped, Containers
<1>2. d.cbufs = Row(f + 1, d.overflow + 2, pos, tk)
  <2> DEFINE m == c.overflow + 2
  <2>1. m \in Nat \ {0} /\ m - 1 = d.overflow + 2
    BY <1>0, <1>1
  <2>2. c.cbufs = Row(f, m, pos, tk)
    BY DEF Shape
  <2> HIDE DEF m
  <2>3. Tail(Row(f, m, pos, tk)) = Row(f + 1, m - 1, pos, tk)
    BY <2>1, RowTail
  <2> QED BY <1>1, <2>1, <2>2, <2>3
<1>3. /\ f + 1 - 1 + d.overflow = f - 1 + c.overflow
      /\ f + 1 + d.overflow + 1 = f + c.overflow + 1
      /\ d.overflow \in Nat
  BY <1>0, <1>1
<1>4. Edge(f + 1 - 1 + d.overflow) <= tk /\ tk <= Edge(f + 1 + d.overflow + 1)
  BY <1>3 DEF Shape
<1>5. Len(d.mem) = f + 1 + d.overflow + 1 /\ Len(d.vec) = 2
  BY <1>1, <1>3 DEF Shape
<1>6. d \in Containers
  <2>1. d.cbufs \in Seq(Bufs)
    <3> DEFINE g == f + 1
               m == d.overflow + 2
    <3>1. g \in Nat \ {0} /\ m \in Nat
      BY <1>3
    <3>2. d.cbufs = Row(g, m, pos, tk)
      BY <1>2
    <3> HIDE DEF g, m
    <3> QED BY <3>1, <3>2, RowIn
  <2> QED BY <1>0, <1>1, <1>3, <2>1 DEF Containers
<1>7. Shape(d, f + 1, pos, tk)
  BY <1>2, <1>4, <1>5, <1>6 DEF Shape
<1> QED BY <1>1, <1>7

LEMMA AppendFacts ==
  ASSUME NEW S, NEW t \in Seq(S), NEW x \in S
  PROVE  /\ Append(t, x) \in Seq(S) /\ Len(Append(t, x)) = Len(t) + 1
         /\ Append(t, x)[Len(t) + 1] = x
         /\ \A i \in 1 .. Len(t) : Append(t, x)[i] = t[i]
  OBVIOUS

LEMMA RowShift ==
  ASSUME NEW f \in Nat \ {0}, NEW pos \in Int, NEW tk \in Int, pos <= tk, tk <= Edge(f + 1)
  PROVE  /\ Append(Tail(Row(f, 2, pos, tk)), NewBuf(f + 2)) = Row(f + 1, 2, pos, tk)
         /\ Append(Tail(Row(f, 2, pos, tk)), NewBuf(f + 2))[2] = NewBuf(f + 2)
<1> DEFINE two == 2
           one == 1
           g == f + 1
           t == Row(g, one, pos, tk)
           new == NewBuf(f + 2)
<1>1. two \in Nat \ {0} /\ one \in Nat /\ g \in Nat \ {0} OBVIOUS
<1>k. two - 1 = one /\ one + 1 = two /\ g + one = f + 2 /\ g + one - 1 = f + 1 OBVIOUS
<1> HIDE DEF two, one
<1>2. Tail(Row(f, two, pos, tk)) = Row(f + 1, two - 1, pos, tk)
  BY <1>1, RowTail
<1>3. Tail(Row(f, two, pos, tk)) = t
  BY <1>2, <1>k
<1> HIDE DEF g
<1>4. Append(t, NewBuf(g + one)) = Row(g, one + 1, pos, tk)
  <2>1. tk <= Edge(g + one - 1)
    BY <1>k
  <2> QED BY <1>1, <2>1, RowAppend
<1>5. Append(t, new) = Row(g, two, pos, tk)
  BY <1>4, <1>k
<1>6. t \in [1 .. one -> Bufs] /\ t \in Seq(Bufs)
  BY <1>1, RowShape, RowIn
<1>7. new \in Bufs
  BY NewIovec
<1> HIDE DEF t, new
<1>8. Len(t) = 1 
  BY <1>6 DEF one
<1>9. Append(t, new)[Len(t) + 1] = new
  BY <1>6, <1>7, AppendFacts
<1>10. Append(t, new)[2] = new
  BY <1>8, <1>9
<1> QED BY <1>3, <1>5, <1>10 DEF two, g, new

LEMMA WithoutFirst ==
  ASSUME NEW c \in Containers
  PROVE  [c EXCEPT !.cbufs = Tail(@)] =
           [mem |-> c.mem, cbufs |-> Tail(c.cbufs), vec |-> c.vec, overflow |-> c.overflow]
<1> DEFINE t == Tail(c.cbufs)
<1> HIDE DEF t
<1>1. [c EXCEPT !.cbufs = t] = [mem |-> c.mem, cbufs |-> t, vec |-> c.vec, overflow |-> c.overflow]
  <2>1. c = [mem |-> c.mem, cbufs |-> c.cbufs, vec |-> c.vec, overflow |-> c.overflow]
    BY DEF Containers
  <2> QED BY <2>1
<1> QED BY <1>1 DEF t

(* or a new one takes its place.                                           *)
LEMMA DroppedRotates ==
  ASSUME TwoIovecs,
         NEW c, NEW f \in Nat \ {0}, NEW pos \in Int, NEW tk \in Int, NEW index \in {0, 1},
         Shape(c, f, pos, tk), c.overflow = 0, pos <= tk, Edge(f) <= tk,
         NEW d, d = Dropped(c, index)
  PROVE  /\ Shape(d, f + 1, pos, tk) /\ d.overflow = 0 /\ Kept(c.mem, d.mem)
         /\ d.vec[1] = c.vec[2 - index] /\ d.vec[2] = Iovec(NewBuf(f + 2))
<1> DEFINE e == [mem |-> c.mem, cbufs |-> Tail(c.cbufs), vec |-> c.vec, overflow |-> c.overflow]
           g == f + 1
           h == f + 2
           new == NewBuf(h)
           iov == Iovec(new)
           cs == Append(Tail(c.cbufs), new)
           ms == Append(c.mem, Blank)
           x == c.vec[2 - index]
<1>0. c \in Containers /\ Len(c.mem) = f + 1 /\ Len(c.vec) = 2 /\ c.cbufs = Row(f, 2, pos, tk)
      /\ tk <= Edge(f + 1)
  <2>1. f + c.overflow + 1 = f + 1 /\ c.overflow + 2 = 2
    OBVIOUS
  <2> QED BY <2>1 DEF Shape
<1>1. c.mem \in Seq(Cells) /\ c.vec \in Seq(Iovecs)
  BY <1>0 DEF Containers
<1>2. d = Rotate(e, index)
  <2>1. [c EXCEPT !.cbufs = Tail(@)] = e
    BY <1>0, WithoutFirst
  <2>2. ~(c.overflow > 0)
    OBVIOUS
  <2> HIDE DEF e
  <2> QED BY <2>1, <2>2 DEF Dropped
<1>3. d = [mem |-> ms, cbufs |-> cs, overflow |-> c.overflow, vec |-> <<x, iov>>]
  <2>1. Len(e.mem) + 1 = h
    BY <1>0
  <2>2. e.vec \in Seq(Iovecs) /\ Len(e.vec) = 2
    BY <1>0, <1>1
  <2>3. /\ e.mem = c.mem /\ e.cbufs = Tail(c.cbufs) /\ e.vec = c.vec /\ e.overflow = c.overflow
    OBVIOUS
  <2> HIDE DEF e, h
  <2>4. Rotate(e, index) =
           [mem |-> Append(e.mem, Blank), cbufs |-> Append(e.cbufs, NewBuf(Len(e.mem) + 1)),
            overflow |-> e.overflow,
            vec |-> <<e.vec[2 - index], Iovec(NewBuf(Len(e.mem) + 1))>>]
    BY <2>2, RotateIs
  <2> QED BY <1>2, <2>1, <2>3, <2>4
<1>4. cs = Row(f + 1, 2, pos, tk) /\ cs[2] = new
  <2>1. /\ Append(Tail(Row(f, 2, pos, tk)), NewBuf(f + 2)) = Row(f + 1, 2, pos, tk)
        /\ Append(Tail(Row(f, 2, pos, tk)), NewBuf(f + 2))[2] = NewBuf(f + 2)
    BY <1>0, RowShift
  <2> QED BY <1>0, <2>1
<1>5. iov \in Iovecs
  <2>1. h \in Nat
    OBVIOUS
  <2> QED BY <2>1, NewIovec
<1>6. x \in Iovecs
  <2>1. 2 - index \in 1 .. Len(c.vec)
    BY <1>0
  <2> QED BY <1>1, <2>1, ElementOfSeq
<1>7. ms \in Seq(Cells) /\ Len(ms) = Len(c.mem) + 1 /\ Kept(c.mem, ms)
  BY <1>1, KeptAppend
<1>8. cs \in Seq(Bufs)
  <2> DEFINE two == 2
  <2>1. g \in Nat \ {0} /\ two \in Nat
    OBVIOUS
  <2>2. cs = Row(g, two, pos, tk)
    BY <1>4
  <2> HIDE DEF g, two, cs
  <2> QED BY <2>1, <2>2, RowIn
<1>9. Len(ms) = f + 2
  BY <1>0, <1>7
<1>10. tk <= Edge(f + 2)
  <2>1. g \in Nat /\ g + 1 = f + 2
    OBVIOUS
  <2>2. Edge(g) \in Nat /\ Edge(g + 1) = Edge(g) + B
    BY <2>1, EdgeSteps
  <2> QED BY <1>0, <2>1, <2>2, Sizes
<1> HIDE DEF e, new, iov, cs, ms, x
<1>11. <<x, iov>> \in Seq(Iovecs) /\ Len(<<x, iov>>) = 2
  BY <1>5, <1>6
<1>12. d \in Containers /\ d.mem = ms /\ d.cbufs = cs /\ d.overflow = c.overflow /\ d.vec = <<x, iov>>
  <2>1. c.overflow \in Nat
    OBVIOUS
  <2> QED BY <1>3, <1>7, <1>8, <1>11, <2>1 DEF Containers
<1>13. Shape(d, f + 1, pos, tk)
  <2>1. f + 1 - 1 + d.overflow = f /\ f + 1 + d.overflow + 1 = f + 2 /\ d.overflow + 2 = 2
    BY <1>12
  <2> QED BY <1>4, <1>9, <1>10, <1>11, <1>12, <2>1 DEF Shape
<1>14. d.vec[1] = x /\ d.vec[2] = iov
  BY <1>12
<1> QED BY <1>7, <1>12, <1>13, <1>14 DEF x, iov, new, h

LEMMA RoomNew ==
  ASSUME NEW n \in Nat \ {0}, NEW tk \in Int, tk <= Edge(n - 1)
  PROVE  Iovec(NewBuf(n)) = Room(n, tk)
<1>1. Edge(n - 1) \in Nat
  BY EdgeSteps
<1>2. Clamp(tk - Edge(n - 1)) = 0
  BY <1>1, ClampFacts
<1> QED BY <1>2 DEF Iovec, NewBuf, GetCapacity, Room

LEMMA RoomOf ==
  ASSUME NEW f \in Nat \ {0}, NEW m \in Nat, NEW pos \in Int, NEW tk \in Int, NEW j \in 1 .. m
  PROVE  Iovec(Row(f, m, pos, tk)[j]) = Room(f + j - 1, tk)
<1>1. Row(f, m, pos, tk)[j] = Buf(f + j - 1, pos, tk)
  BY DEF Row
<1> QED BY <1>1 DEF Iovec, GetCapacity, Buf, Room

LEMMA RoomType ==
  ASSUME NEW n \in Nat \ {0}, NEW tk \in Int
  PROVE  Room(n, tk) \in Iovecs /\ Room(n, tk).id = n
<1> DEFINE x == Clamp(tk - Edge(n - 1))
<1>1. Edge(n - 1) \in Nat
  BY EdgeSteps
<1>2. x \in 0 .. B /\ B \in Nat
  BY <1>1, ClampFacts, Sizes
<1>3. Room(n, tk) = [id |-> n, base |-> x, len |-> B - x]
  BY DEF Room
<1> HIDE DEF x
<1> QED BY <1>2, <1>3 DEF Iovecs

(* How many of the first buffers of a row have been read to their end.     *)
LEMMA EndRun ==
  ASSUME NEW f \in Nat \ {0}, NEW m \in Nat, NEW pos \in Int, NEW tk \in Int, NEW r \in 0 .. m,
         Edge(f - 1 + r) <= pos, pos < Edge(f + r)
  PROVE  RunLength(Row(f, m, pos, tk), 1, End) = r
<1> DEFINE cs == Row(f, m, pos, tk)
           ends == {j \in 1 .. Len(cs) : ~End(cs[j])}
<1>1. Len(cs) = m
  BY RowSeq
<1>2. ASSUME NEW j \in 1 .. m PROVE End(cs[j]) <=> j <= r
  <2> DEFINE e == Edge(f - 1 + (j - 1))
  <2>0. j \in Nat \ {0}
    OBVIOUS
  <2>1. e \in Nat /\ Edge(f - 1 + j) = e + B
    BY <2>0, EdgeAt
  <2>2. cs[j] = [id |-> f + j - 1, offset |-> Clamp(pos - e), tail |-> Clamp(tk - e)]
    BY RowAt
  <2>3. End(cs[j]) <=> Clamp(pos - e) = B
    BY <2>2 DEF End
  <2>4. j <= r => e + B <= pos
    <3>1. CASE j = r
      BY <2>1, <3>1
    <3>2. CASE j < r
      <4>1. f - 1 + j \in Nat /\ f - 1 + r \in Nat /\ f - 1 + j < f - 1 + r
        BY <3>2
      <4>2. Edge(f - 1 + j) + B <= Edge(f - 1 + r) /\ Edge(f - 1 + r) \in Nat /\ B \in Nat
        BY <4>1, EdgeGrows, EdgeSteps, Sizes
      <4> HIDE DEF e
      <4> QED BY <2>1, <4>2
    <3> QED BY <3>1, <3>2
  <2>5. j > r => pos < e + B
    <3>1. CASE j = r + 1
      <4>1. f - 1 + j = f + r
        BY <3>1
      <4> QED BY <2>1, <4>1
    <3>2. CASE j > r + 1
      <4>1. f + r \in Nat /\ f - 1 + j \in Nat /\ f + r < f - 1 + j
        BY <3>2
      <4>2. Edge(f + r) + B <= Edge(f - 1 + j) /\ Edge(f + r) \in Nat /\ B \in Nat
        BY <4>1, EdgeGrows, EdgeSteps, Sizes
      <4> HIDE DEF e
      <4> QED BY <2>1, <4>2
    <3> QED BY <3>1, <3>2
  <2> HIDE DEF e, cs
  <2>6. B \in Nat /\ B > 0
    BY Sizes
  <2> QED BY <2>1, <2>3, <2>4, <2>5, <2>6 DEF Clamp, Max2, Min2
<1>3. RunLength(cs, 1, End) =
        (IF ends = {} THEN Len(cs) + 1 ELSE CHOOSE j \in ends : \A i \in ends : j <= i) - 1
  BY DEF RunLength
<1> HIDE DEF cs
<1>4. ends = {j \in 1 .. m : j > r}
  BY <1>1, <1>2
<1> HIDE DEF ends
<1>5. CASE r = m
  <2>1. ends = {}
    BY <1>4, <1>5
  <2> QED BY <1>1, <1>3, <1>5, <2>1 DEF cs
<1>6. CASE r # m
  <2>1. r + 1 \in ends /\ \A j \in ends : j \in Nat /\ r + 1 <= j
    BY <1>4, <1>6
  <2>2. (CHOOSE j \in ends : \A i \in ends : j <= i) = r + 1
    <3> DEFINE x == CHOOSE j \in ends : \A i \in ends : j <= i
    <3>1. x \in ends /\ \A i \in ends : x <= i
      BY <2>1
    <3> HIDE DEF x
    <3>2. x = r + 1
      BY <2>1, <3>1
    <3> QED BY <3>2 DEF x
  <2>3. ends # {}
    BY <2>1
  <2>4. RunLength(cs, 1, End) = (r + 1) - 1
    BY <1>3, <2>2, <2>3, Zenon
  <2>5. (r + 1) - 1 = r
    OBVIOUS
  <2> QED BY <2>4, <2>5, Zenon DEF cs
<1> QED BY <1>5, <1>6

(* And how many of the last two are full.                                  *)
LEMMA FullRun ==
  ASSUME NEW f \in Nat \ {0}, NEW o \in Nat, NEW pos \in Int, NEW tk \in Int, NEW u \in 0 .. 2,
         Edge(f - 1 + o + u) <= tk, u = 2 \/ tk < Edge(f + o + u)
  PROVE  LET Full(b) == GetCapacity(b) = 0
         IN RunLength(Row(f, o + 2, pos, tk), o + 1, Full) = u
<1> DEFINE Full(b) == GetCapacity(b) = 0
           m == o + 2
           cs == Row(f, m, pos, tk)
           ends == {j \in (o + 1) .. Len(cs) : ~Full(cs[j])}
           F(k) == f - 1 + o + k
<1>1. Len(cs) = m
  <2>1. m \in Nat
    OBVIOUS
  <2> QED BY <2>1, RowSeq
<1>2. ASSUME NEW j \in (o + 1) .. m PROVE Full(cs[j]) <=> j <= o + u
  <2> DEFINE e == Edge(f - 1 + (j - 1))
  <2>0. j \in Nat \ {0} /\ m \in Nat /\ j \in 1 .. m
    OBVIOUS
  <2>1. e \in Nat /\ Edge(f - 1 + j) = e + B
    BY <2>0, EdgeAt
  <2>2. cs[j] = [id |-> f + j - 1, offset |-> Clamp(pos - e), tail |-> Clamp(tk - e)]
    <3> HIDE DEF m
    <3> QED BY <2>0, RowAt
  <2>3. Full(cs[j]) <=> B - Clamp(tk - e) = 0
    BY <2>2 DEF GetCapacity
  <2>4. j <= o + u => e + B <= tk
    <3>1. CASE j = o + u
      <4>1. f - 1 + j = f - 1 + o + u
        BY <3>1
      <4> QED BY <2>1, <4>1
    <3>2. CASE j < o + u
      <4>1. f - 1 + j \in Nat /\ f - 1 + o + u \in Nat /\ f - 1 + j < f - 1 + o + u
        BY <3>2
      <4>2. Edge(f - 1 + j) + B <= Edge(f - 1 + o + u) /\ Edge(f - 1 + o + u) \in Nat /\ B \in Nat
        BY <4>1, EdgeGrows, EdgeSteps, Sizes
      <4> HIDE DEF e
      <4> QED BY <2>1, <4>2
    <3> QED BY <3>1, <3>2
  <2>5. j > o + u => tk < e + B
    <3>1. CASE j = o + u + 1
      <4>1. f - 1 + j = f + o + u /\ u # 2
        BY <3>1
      <4> QED BY <2>1, <4>1
    <3>2. CASE j > o + u + 1
      <4>1. f + o + u \in Nat /\ f - 1 + j \in Nat /\ f + o + u < f - 1 + j /\ u # 2
        BY <3>2
      <4>2. Edge(f + o + u) + B <= Edge(f - 1 + j) /\ Edge(f + o + u) \in Nat /\ B \in Nat
        BY <4>1, EdgeGrows, EdgeSteps, Sizes
      <4> HIDE DEF e
      <4> QED BY <2>1, <4>1, <4>2
    <3> QED BY <3>1, <3>2
  <2> HIDE DEF e, cs, Full
  <2>6. B \in Nat /\ B > 0
    BY Sizes
  <2>7. (B - Clamp(tk - e) = 0) <=> e + B <= tk
    BY <2>1, <2>6 DEF Clamp, Max2, Min2
  <2>8. j <= o + u \/ j > o + u
    OBVIOUS
  <2>9. e + B <= tk => ~(tk < e + B)
    BY <2>1, <2>6
  <2> QED BY <2>3, <2>4, <2>5, <2>7, <2>8, <2>9
<1>3. RunLength(cs, o + 1, Full) =
        (IF ends = {} THEN Len(cs) + 1 ELSE CHOOSE j \in ends : \A i \in ends : j <= i) - (o + 1)
  BY DEF RunLength
<1> HIDE DEF cs, Full
<1>4. ends = {j \in (o + 1) .. m : j > o + u}
  BY <1>1, <1>2
<1> HIDE DEF ends
<1>7. RunLength(cs, o + 1, Full) = u
  <2>5. CASE u = 2
    <3>1. ends = {}
      BY <1>4, <2>5
    <3> QED BY <1>1, <1>3, <2>5, <3>1
  <2>6. CASE u # 2
    <3>1. o + u + 1 \in ends /\ \A j \in ends : j \in Nat /\ o + u + 1 <= j
      BY <1>4, <2>6
    <3>2. (CHOOSE j \in ends : \A i \in ends : j <= i) = o + u + 1
      <4> DEFINE x == CHOOSE j \in ends : \A i \in ends : j <= i
      <4>1. x \in ends /\ \A i \in ends : x <= i
        BY <3>1
      <4> HIDE DEF x
      <4>2. x = o + u + 1
        BY <3>1, <4>1
      <4> QED BY <4>2 DEF x
    <3>3. ends # {}
      BY <3>1
    <3>4. RunLength(cs, o + 1, Full) = (o + u + 1) - (o + 1)
      BY <1>3, <3>2, <3>3, Zenon
    <3>5. (o + u + 1) - (o + 1) = u
      OBVIOUS
    <3> QED BY <3>4, <3>5, Zenon
  <2> QED BY <2>5, <2>6
<1> QED BY <1>7 DEF cs, Full

(* The loops of update(), as functions of how often they have gone round.  *)
Drops(c, n, g) == g = [i \in 0 .. n |-> IF i = 0 THEN c ELSE Dropped(g[i - 1], i - 1)]
Grown(c, index) == [Rotate(c, index) EXCEPT !.overflow = @ + 1]
Grows(c, n, g) == g = [i \in 0 .. n |-> IF i = 0 THEN c ELSE Grown(g[i - 1], i - 1)]

LEMMA DropsExist ==
  ASSUME NEW c, NEW n \in Nat
  PROVE  \E g : Drops(c, n, g)
<1> DEFINE G == {k \in 0 .. n : \E g : Drops(c, k, g)}
<1>1. 0 \in G
  <2> DEFINE g == [i \in 0 .. 0 |-> c]
  <2>1. g = [i \in 0 .. 0 |-> IF i = 0 THEN c ELSE Dropped(g[i - 1], i - 1)]
    OBVIOUS
  <2>2. Drops(c, 0, g)
    BY <2>1, Zenon DEF Drops
  <2> QED BY <2>2
<1>2. ASSUME NEW k \in 1 .. n, k - 1 \in G PROVE k \in G
  <2>1. PICK h : Drops(c, k - 1, h)
    BY <1>2
  <2> DEFINE F(i) == IF i = k THEN Dropped(h[k - 1], k - 1) ELSE h[i]
             g == [i \in 0 .. k |-> F(i)]
  <2>2. ASSUME NEW i \in 0 .. k PROVE F(i) = IF i = 0 THEN c ELSE Dropped(g[i - 1], i - 1)
    <3>1. CASE i = k
      <4>1. k - 1 \in 0 .. k /\ k - 1 # k /\ k # 0
        OBVIOUS
      <4>2. g[k - 1] = h[k - 1]
        BY <4>1
      <4>3. F(i) = Dropped(g[i - 1], i - 1) /\ i # 0
        BY <3>1, <4>1, <4>2, Zenon
      <4> QED BY <4>3, Zenon
    <3>2. CASE i # k
      <4>1. i \in 0 .. (k - 1) /\ (i # 0 => i - 1 \in 0 .. k /\ i - 1 # k)
        BY <3>2
      <4>2. F(i) = h[i]
        BY <3>2, Zenon
      <4>3. h[i] = IF i = 0 THEN c ELSE Dropped(h[i - 1], i - 1)
        BY <2>1, <4>1, Zenon DEF Drops
      <4>4. i # 0 => g[i - 1] = h[i - 1]
        BY <4>1
      <4> QED BY <4>2, <4>3, <4>4, Zenon
    <3> QED BY <3>1, <3>2
  <2>3. g = [i \in 0 .. k |-> IF i = 0 THEN c ELSE Dropped(g[i - 1], i - 1)]
    BY <2>2, Zenon
  <2>4. Drops(c, k, g)
    BY <2>3, Zenon DEF Drops
  <2> QED BY <2>4
<1>3. n \in G
  <2>1. n \in 0 .. n
    OBVIOUS
  <2> HIDE DEF G
  <2> QED BY <1>1, <1>2, <2>1, Induct
<1> QED BY <1>3

LEMMA GrowsExist ==
  ASSUME NEW c, NEW n \in Nat
  PROVE  \E g : Grows(c, n, g)
<1> DEFINE G == {k \in 0 .. n : \E g : Grows(c, k, g)}
<1>1. 0 \in G
  <2> DEFINE g == [i \in 0 .. 0 |-> c]
  <2>1. g = [i \in 0 .. 0 |-> IF i = 0 THEN c ELSE Grown(g[i - 1], i - 1)]
    OBVIOUS
  <2>2. Grows(c, 0, g)
    BY <2>1, Zenon DEF Grows
  <2> QED BY <2>2
<1>2. ASSUME NEW k \in 1 .. n, k - 1 \in G PROVE k \in G
  <2>1. PICK h : Grows(c, k - 1, h)
    BY <1>2
  <2> DEFINE F(i) == IF i = k THEN Grown(h[k - 1], k - 1) ELSE h[i]
             g == [i \in 0 .. k |-> F(i)]
  <2>2. ASSUME NEW i \in 0 .. k PROVE F(i) = IF i = 0 THEN c ELSE Grown(g[i - 1], i - 1)
    <3>1. CASE i = k
      <4>1. k - 1 \in 0 .. k /\ k - 1 # k /\ k # 0
        OBVIOUS
      <4>2. g[k - 1] = h[k - 1]
        BY <4>1
      <4>3. F(i) = Grown(g[i - 1], i - 1) /\ i # 0
        BY <3>1, <4>1, <4>2, Zenon
      <4> QED BY <4>3, Zenon
    <3>2. CASE i # k
      <4>1. i \in 0 .. (k - 1) /\ (i # 0 => i - 1 \in 0 .. k /\ i - 1 # k)
        BY <3>2
      <4>2. F(i) = h[i]
        BY <3>2, Zenon
      <4>3. h[i] = IF i = 0 THEN c ELSE Grown(h[i - 1], i - 1)
        BY <2>1, <4>1, Zenon DEF Grows
      <4>4. i # 0 => g[i - 1] = h[i - 1]
        BY <4>1
      <4> QED BY <4>2, <4>3, <4>4, Zenon
    <3> QED BY <3>1, <3>2
  <2>3. g = [i \in 0 .. k |-> IF i = 0 THEN c ELSE Grown(g[i - 1], i - 1)]
    BY <2>2, Zenon
  <2>4. Grows(c, k, g)
    BY <2>3, Zenon DEF Grows
  <2> QED BY <2>4
<1>3. n \in G
  <2>1. n \in 0 .. n
    OBVIOUS
  <2> HIDE DEF G
  <2> QED BY <1>1, <1>2, <2>1, Induct
<1> QED BY <1>3

LEMMA DropEndedIs ==
  ASSUME NEW c, NEW n \in Nat, Len(c.cbufs) = n, n >= 2
  PROVE  /\ RunLength(c.cbufs, 1, End) = 0 => DropEnded(c) = c
         /\ RunLength(c.cbufs, 1, End) = 1 => DropEnded(c) = Dropped(c, 0)
         /\ RunLength(c.cbufs, 1, End) = 2 => DropEnded(c) = Dropped(Dropped(c, 0), 1)
<1> DEFINE after == CHOOSE g : Drops(c, Len(c.cbufs), g)
<1>1. DropEnded(c) = after[RunLength(c.cbufs, 1, End)]
  BY Zenon DEF DropEnded, Drops
<1>2. Drops(c, n, after)
  <2>1. \E g : Drops(c, n, g)
    BY DropsExist
  <2> QED BY <2>1
<1> HIDE DEF after
<1>3. \A i \in 0 .. n : after[i] = IF i = 0 THEN c ELSE Dropped(after[i - 1], i - 1)
  BY <1>2, Zenon DEF Drops
<1>4. after[0] = c
  <2>1. 0 \in 0 .. n
    OBVIOUS
  <2> QED BY <1>3, <2>1, Zenon
<1>5. after[1] = Dropped(c, 0)
  <2>1. 1 \in 0 .. n /\ 1 # 0 /\ 1 - 1 = 0
    OBVIOUS
  <2>2. after[1] = Dropped(after[1 - 1], 1 - 1)
    BY <1>3, <2>1, Zenon
  <2> QED BY <1>4, <2>1, <2>2, Zenon
<1>6. after[2] = Dropped(Dropped(c, 0), 1)
  <2>1. 2 \in 0 .. n /\ 2 # 0 /\ 2 - 1 = 1
    OBVIOUS
  <2>2. after[2] = Dropped(after[2 - 1], 2 - 1)
    BY <1>3, <2>1, Zenon
  <2> QED BY <1>5, <2>1, <2>2, Zenon
<1> QED BY <1>1, <1>4, <1>5, <1>6, Zenon

LEMMA Shifted ==
  ASSUME NEW v, NEW w, NEW n \in Nat \ {0}, NEW tk \in Int,
         Matches(v, n, tk), w[2] = Room(n + 1, tk)
  PROVE  /\ w[1] = v[2] => Matches(w, n + 1, tk)
         /\ w[1] = v[1] => Lags(w, n + 1, tk)
<1>1. n + 1 \in Nat \ {0} /\ n + 1 - 1 = n /\ n - 1 # n
  OBVIOUS
<1>2. Room(n + 1, tk).id = n + 1
  BY DEF Room
<1> QED BY <1>1, <1>2 DEF Matches, Lags

LEMMA KeptSelf ==
  ASSUME NEW m \in Seq(Cells) PROVE Kept(m, m)
  BY DEF Kept

LEMMA DroppedStep ==
  ASSUME TwoIovecs,
         NEW c, NEW f \in Nat \ {0}, NEW pos \in Int, NEW tk \in Int, NEW index \in {0, 1},
         Shape(c, f, pos, tk), Matches(c.vec, Len(c.mem), tk), pos <= tk, Edge(f) <= tk,
         NEW d, d = Dropped(c, index)
  PROVE  /\ Shape(d, f + 1, pos, tk) /\ Kept(c.mem, d.mem)
         /\ Matches(d.vec, Len(d.mem), tk) \/ (index = 1 /\ Lags(d.vec, Len(d.mem), tk))
<1>1. c.overflow \in Nat /\ c.mem \in Seq(Cells)
  BY DEF Shape, Containers
<1>2. CASE c.overflow > 0
  <2>1. Shape(d, f + 1, pos, tk) /\ d.mem = c.mem /\ d.vec = c.vec
    BY <1>2, DroppedSurplus
  <2> QED BY <1>1, <2>1, KeptSelf
<1>3. CASE c.overflow = 0
  <2>1. /\ Shape(d, f + 1, pos, tk) /\ d.overflow = 0 /\ Kept(c.mem, d.mem)
        /\ d.vec[1] = c.vec[2 - index] /\ d.vec[2] = Iovec(NewBuf(f + 2))
    BY <1>3, DroppedRotates
  <2>2. Len(d.mem) = f + 2 /\ Len(c.mem) = f + 1 /\ tk <= Edge(f + 1)
    <3>1. f + 1 + d.overflow + 1 = f + 2
      BY <2>1
    <3>2. f + c.overflow + 1 = f + 1
      BY <1>3
    <3> QED BY <2>1, <3>1, <3>2 DEF Shape
  <2> DEFINE n == f + 1
             x == c.vec[2 - index]
             y == Iovec(NewBuf(f + 2))
  <2>3. n \in Nat \ {0} /\ n + 1 = f + 2 /\ (n + 1) - 1 = n /\ n + 1 \in Nat \ {0}
    OBVIOUS
  <2>4. y = Room(n + 1, tk)
    BY <2>2, <2>3, RoomNew
  <2>5. d.vec[1] = x /\ d.vec[2] = y
    BY <2>1
  <2> HIDE DEF x, y
  <2>6. Matches(c.vec, n, tk)
    BY <2>2
  <2> HIDE DEF n
  <2>7. /\ d.vec[1] = c.vec[2] => Matches(d.vec, n + 1, tk)
        /\ d.vec[1] = c.vec[1] => Lags(d.vec, n + 1, tk)
    BY <2>3, <2>4, <2>5, <2>6, Shifted
  <2>8. Len(d.mem) = n + 1
    BY <2>2, <2>3
  <2>9. CASE index = 0
    <3>1. x = c.vec[2]
      BY <2>9 DEF x
    <3> QED BY <2>1, <2>5, <2>7, <2>8, <3>1
  <2>10. CASE index = 1
    <3>1. x = c.vec[1]
      BY <2>10 DEF x
    <3> QED BY <2>1, <2>5, <2>7, <2>8, <2>10, <3>1
  <2> QED BY <2>9, <2>10
<1> QED BY <1>1, <1>2, <1>3

(* The first loop: r buffers have been read to their end.                  *)
LEMMA DropEndedShape ==
  ASSUME TwoIovecs,
         NEW c, NEW f \in Nat \ {0}, NEW pos \in Int, NEW tk \in Int, NEW r \in 0 .. 2,
         Shape(c, f, pos, tk), Matches(c.vec, Len(c.mem), tk), pos <= tk,
         Edge(f - 1 + r) <= pos, pos < Edge(f + r),
         NEW e, e = DropEnded(c)
  PROVE  /\ Shape(e, f + r, pos, tk) /\ Kept(c.mem, e.mem)
         /\ Matches(e.vec, Len(e.mem), tk) \/ Lags(e.vec, Len(e.mem), tk)
<1> DEFINE m == c.overflow + 2
<1>1. c.overflow \in Nat /\ c.mem \in Seq(Cells) /\ c.cbufs = Row(f, m, pos, tk)
  BY DEF Shape, Containers
<1>2. m \in Nat /\ m >= 2 /\ r \in 0 .. m
  BY <1>1
<1> HIDE DEF m
<1>3. Len(c.cbufs) = m
  <2>1. Row(f, m, pos, tk) \in [1 .. m -> Bufs]
    BY <1>2, RowShape
  <2>2. c.cbufs \in [1 .. m -> Bufs]
    BY <1>1, <2>1
  <2> QED BY <1>2, <2>2
<1>4. RunLength(c.cbufs, 1, End) = r
  <2>1. RunLength(Row(f, m, pos, tk), 1, End) = r
    BY <1>2, EndRun
  <2> QED BY <1>1, <2>1, Zenon
<1>5. /\ r = 0 => e = c
      /\ r = 1 => e = Dropped(c, 0)
      /\ r = 2 => e = Dropped(Dropped(c, 0), 1)
  <2>1. /\ RunLength(c.cbufs, 1, End) = 0 => DropEnded(c) = c
        /\ RunLength(c.cbufs, 1, End) = 1 => DropEnded(c) = Dropped(c, 0)
        /\ RunLength(c.cbufs, 1, End) = 2 => DropEnded(c) = Dropped(Dropped(c, 0), 1)
    BY <1>2, <1>3, DropEndedIs
  <2> QED BY <1>4, <2>1, Zenon
<1>6. CASE r = 0
  <2>1. f + r = f
    BY <1>6
  <2> QED BY <1>1, <1>5, <1>6, <2>1, KeptSelf
<1> DEFINE d == Dropped(c, 0)
<1>7. ASSUME r = 1 \/ r = 2
      PROVE  Shape(d, f + 1, pos, tk) /\ Kept(c.mem, d.mem) /\ Matches(d.vec, Len(d.mem), tk)
  <2>1. Edge(f) <= tk
    <3>1. CASE r = 1
      <4>1. f - 1 + r = f
        BY <3>1
      <4>2. Edge(f) \in Nat
        BY EdgeSteps
      <4> QED BY <4>1, <4>2
    <3>2. CASE r = 2
      <4>1. f - 1 + r = f + 1
        BY <3>2
      <4>2. Edge(f) \in Nat /\ Edge(f + 1) = Edge(f) + B /\ B \in Nat
        BY EdgeSteps, Sizes
      <4> QED BY <4>1, <4>2
    <3> QED BY <1>7, <3>1, <3>2
  <2>2. 0 \in {0, 1} /\ 0 # 1
    OBVIOUS
  <2> HIDE DEF d
  <2>3. /\ Shape(d, f + 1, pos, tk) /\ Kept(c.mem, d.mem)
        /\ Matches(d.vec, Len(d.mem), tk) \/ (0 = 1 /\ Lags(d.vec, Len(d.mem), tk))
    BY <2>1, <2>2, DroppedStep DEF d
  <2> QED BY <2>2, <2>3
<1>8. CASE r = 1
  <2>1. f + r = f + 1 /\ e = d
    BY <1>5, <1>8
  <2> HIDE DEF d
  <2> QED BY <1>7, <1>8, <2>1
<1>9. CASE r = 2
  <2> DEFINE g == f + 1
             one == 1
  <2>1. g \in Nat \ {0} /\ f + r = g + 1 /\ f - 1 + r = g
    BY <1>9
  <2>2. e = Dropped(d, one)
    BY <1>5, <1>9
  <2>3. Shape(d, g, pos, tk) /\ Kept(c.mem, d.mem) /\ Matches(d.vec, Len(d.mem), tk)
    BY <1>7, <1>9
  <2>4. one \in {0, 1}
    OBVIOUS
  <2>5. Edge(g) <= tk
    <3>1. Edge(g) \in Nat /\ Edge(g) <= pos
      BY <2>1, EdgeSteps
    <3> QED BY <3>1
  <2> HIDE DEF d, g, one
  <2>6. /\ Shape(e, g + 1, pos, tk) /\ Kept(d.mem, e.mem)
        /\ Matches(e.vec, Len(e.mem), tk) \/ (one = 1 /\ Lags(e.vec, Len(e.mem), tk))
    BY <2>1, <2>2, <2>3, <2>4, <2>5, DroppedStep
  <2>7. d.mem \in Seq(Cells) /\ e.mem \in Seq(Cells)
    BY <2>3, <2>6 DEF Shape, Containers
  <2>8. Kept(c.mem, e.mem)
    BY <1>1, <2>3, <2>6, <2>7, KeptTrans
  <2> QED BY <2>1, <2>6, <2>8
<1> QED BY <1>6, <1>8, <1>9

(* One round of the second loop: a new buffer behind the full ones.        *)
LEMMA GrownIs ==
  ASSUME TwoIovecs,
         NEW c, NEW f \in Nat \ {0}, NEW pos \in Int, NEW tk \in Int, NEW index \in {0, 1},
         Shape(c, f, pos, tk), pos <= tk, Edge(f + c.overflow) <= tk,
         NEW d, d = Grown(c, index)
  PROVE  /\ Shape(d, f, pos, tk) /\ Kept(c.mem, d.mem)
         /\ d.overflow = c.overflow + 1 /\ Len(d.mem) = Len(c.mem) + 1
         /\ d.vec[2] = Room(Len(c.mem) + 1, tk)
<1> DEFINE n == Len(c.mem) + 1
           o == c.overflow
           m == o + 2
           new == NewBuf(n)
           iov == Iovec(new)
           cs == Append(c.cbufs, new)
           ms == Append(c.mem, Blank)
           x == c.vec[2 - index]
<1>1. c \in Containers /\ Len(c.vec) = 2 /\ c.cbufs = Row(f, m, pos, tk) /\ tk <= Edge(f + o + 1)
      /\ Len(c.mem) = f + o + 1
  BY DEF Shape
<1>2. c.mem \in Seq(Cells) /\ c.vec \in Seq(Iovecs) /\ o \in Nat
  BY <1>1 DEF Containers
<1>3. n = f + m /\ m \in Nat /\ n \in Nat \ {0} /\ f + m - 1 = f + o + 1 /\ n - 1 = f + o + 1
  <2> DEFINE l == Len(c.mem)
  <2>1. l = f + o + 1 /\ o \in Nat
    BY <1>1, <1>2
  <2> HIDE DEF l, o
  <2> QED BY <2>1 DEF l
<1>4. Rotate(c, index) = [mem |-> ms, cbufs |-> cs, overflow |-> o, vec |-> <<x, iov>>]
  BY <1>1, <1>2, RotateIs
<1>5. cs = Row(f, m + 1, pos, tk)
  <2> HIDE DEF m
  <2>1. Append(Row(f, m, pos, tk), NewBuf(f + m)) = Row(f, m + 1, pos, tk)
    BY <1>1, <1>3, RowAppend
  <2> QED BY <1>1, <1>3, <2>1
<1>6. iov = Room(n, tk)
  <2> HIDE DEF n
  <2> QED BY <1>1, <1>3, RoomNew
<1>7. iov \in Iovecs
  BY <1>3, <1>6, RoomType
<1>8. x \in Iovecs
  <2>1. 2 - index \in 1 .. Len(c.vec)
    BY <1>1
  <2> QED BY <1>2, <2>1, ElementOfSeq
<1>9. ms \in Seq(Cells) /\ Len(ms) = Len(c.mem) + 1 /\ Kept(c.mem, ms)
  BY <1>2, KeptAppend
<1>10. cs \in Seq(Bufs)
  <2> DEFINE l == m + 1
  <2>1. l \in Nat
    BY <1>3
  <2>2. cs = Row(f, l, pos, tk)
    BY <1>5
  <2> HIDE DEF l, cs
  <2> QED BY <2>1, <2>2, RowIn
<1>11. tk <= Edge(f + o + 2) /\ Edge(f + o) <= tk
  <2> DEFINE k == f + o + 1
  <2>1. k \in Nat /\ k + 1 = f + o + 2
    BY <1>2
  <2>2. Edge(k) \in Nat /\ Edge(k + 1) = Edge(k) + B
    BY <2>1, EdgeSteps
  <2> QED BY <1>1, <2>1, <2>2, Sizes
<1> HIDE DEF iov, cs, ms, x
<1>12. <<x, iov>> \in Seq(Iovecs) /\ Len(<<x, iov>>) = 2 /\ <<x, iov>>[2] = iov
  BY <1>7, <1>8
<1> DEFINE w == <<x, iov>>
<1> HIDE DEF w
<1>13. d = [mem |-> ms, cbufs |-> cs, overflow |-> o + 1, vec |-> w]
  <2>1. Rotate(c, index) = [mem |-> ms, cbufs |-> cs, overflow |-> o, vec |-> w]
    BY <1>4 DEF w
  <2> QED BY <2>1 DEF Grown
<1>14. d.mem = ms /\ d.cbufs = cs /\ d.overflow = o + 1 /\ d.vec = w
  BY <1>13
<1>15. d \in Containers
  <2>1. o + 1 \in Nat /\ w \in Seq(Iovecs)
    BY <1>2, <1>12 DEF w
  <2> QED BY <1>9, <1>10, <1>13, <2>1 DEF Containers
<1>16. Shape(d, f, pos, tk)
  <2>1. f - 1 + d.overflow = f + o /\ f + d.overflow + 1 = f + o + 2 /\ d.overflow + 2 = m + 1
    <3> DEFINE q == d.overflow
    <3>1. q = o + 1 /\ o \in Nat
      BY <1>2, <1>14
    <3> HIDE DEF q, o
    <3> QED BY <3>1 DEF q
  <2>2. Len(d.mem) = f + d.overflow + 1
    <3> DEFINE l == Len(c.mem)
               r == Len(d.mem)
               q == d.overflow
    <3>1. l = f + o + 1 /\ o \in Nat /\ r = l + 1 /\ q = o + 1
      BY <1>1, <1>2, <1>9, <1>14
    <3> HIDE DEF l, r, q, o
    <3>2. r = f + q + 1
      BY <3>1
    <3> QED BY <3>2 DEF r, q
  <2>3. Len(d.vec) = 2
    BY <1>12, <1>14 DEF w
  <2> QED BY <1>5, <1>11, <1>14, <1>15, <2>1, <2>2, <2>3 DEF Shape
<1>17. d.vec[2] = Room(n, tk)
  BY <1>6, <1>12, <1>14 DEF w
<1> QED BY <1>9, <1>14, <1>16, <1>17

(* The last step of update(): the first iovec is set.                      *)
LEMMA FirstSet ==
  ASSUME NEW c, NEW f \in Nat \ {0}, NEW pos \in Int, NEW tk \in Int,
         Shape(c, f, pos, tk), c.vec[2] = Room(Len(c.mem), tk),
         NEW d, d = [c EXCEPT !.vec[1] = Iovec(c.cbufs[c.overflow + 1])]
  PROVE  Shape(d, f, pos, tk) /\ d.mem = c.mem /\ Exact(d.vec, Len(d.mem), tk)
<1> DEFINE o == c.overflow
           m == o + 2
           x == Iovec(c.cbufs[o + 1])
           v == [c.vec EXCEPT ![1] = x]
           n == Len(c.mem)
<1>1. c \in Containers /\ Len(c.vec) = 2 /\ c.cbufs = Row(f, m, pos, tk) /\ n = f + o + 1
  BY DEF Shape
<1>2. c.mem \in Seq(Cells) /\ c.vec \in Seq(Iovecs) /\ o \in Nat
  BY <1>1 DEF Containers
<1>3. x = Room(n - 1, tk)
  <2> DEFINE j == o + 1
  <2>1. j \in 1 .. m /\ m \in Nat /\ f + j - 1 = n - 1
    <3>1. n = f + o + 1 /\ o \in Nat
      BY <1>1, <1>2
    <3> HIDE DEF n, o
    <3> QED BY <3>1
  <2> HIDE DEF j, m
  <2>2. Iovec(Row(f, m, pos, tk)[j]) = Room(f + j - 1, tk)
    BY <2>1, RoomOf
  <2> QED BY <1>1, <2>1, <2>2 DEF j
<1>4. x \in Iovecs
  <2>1. n - 1 \in Nat \ {0}
    <3>1. n = f + o + 1 /\ o \in Nat
      BY <1>1, <1>2
    <3> HIDE DEF n, o
    <3> QED BY <3>1
  <2> QED BY <1>3, <2>1, RoomType
<1> HIDE DEF x
<1>5. v \in Seq(Iovecs) /\ Len(v) = 2 /\ v[1] = x /\ v[2] = c.vec[2]
  <2> DEFINE w == c.vec
             two == 2
             z == [w EXCEPT ![1] = x]
  <2>1. w \in Seq(Iovecs) /\ Len(w) = two /\ two \in Nat
    BY <1>1, <1>2
  <2> HIDE DEF w, two
  <2>2. w \in [1 .. two -> Iovecs]
    <3>1. w \in [1 .. Len(w) -> Iovecs]
      BY <2>1
    <3> QED BY <2>1, <3>1
  <2>3. z \in [1 .. two -> Iovecs] /\ z[1] = x /\ z[2] = w[2]
    BY <2>2, <1>4 DEF two
  <2> HIDE DEF z
  <2>4. z \in Seq(Iovecs) /\ Len(z) = two
    BY <2>1, <2>3
  <2> QED BY <2>3, <2>4 DEF z, w, two
<1>6. d = [mem |-> c.mem, cbufs |-> c.cbufs, vec |-> v, overflow |-> o]
  <2>1. d = [c EXCEPT !.vec = v]
    BY <1>1 DEF Containers, x
  <2> HIDE DEF v
  <2> QED BY <1>1, <2>1 DEF Containers
<1> HIDE DEF v
<1>7. d.mem = c.mem /\ d.cbufs = c.cbufs /\ d.overflow = o /\ d.vec = v
  BY <1>6
<1>8. d \in Containers
  <2>1. c.mem \in Seq(Cells) /\ c.cbufs \in Seq(Bufs) /\ o \in Nat
    BY <1>1 DEF Containers
  <2> HIDE DEF o
  <2> DEFINE ms == c.mem
             cs == c.cbufs
  <2> HIDE DEF ms, cs
  <2>2. d = [mem |-> ms, cbufs |-> cs, vec |-> v, overflow |-> o]
    BY <1>6 DEF ms, cs
  <2>3. ms \in Seq(Cells) /\ cs \in Seq(Bufs) /\ o \in Nat /\ v \in Seq(Iovecs)
    BY <1>5, <2>1 DEF ms, cs
  <2>4. [mem |-> ms, cbufs |-> cs, vec |-> v, overflow |-> o] \in Containers
    BY <2>3, MakeContainer, Zenon
  <2> QED BY <2>2, <2>4, Zenon
<1>9. Shape(d, f, pos, tk)
  BY <1>5, <1>7, <1>8 DEF Shape
<1> QED BY <1>3, <1>5, <1>7, <1>9 DEF Exact

Turned(c, u) == IF u = 0 THEN c ELSE IF u = 1 THEN Grown(c, 0) ELSE Grown(Grown(c, 0), 1)
WithFirst(c, j) == [c EXCEPT !.vec[1] = Iovec(c.cbufs[j])]

LEMMA RefillIs ==
  ASSUME TwoIovecs,
         NEW c, NEW f \in Nat \ {0}, NEW pos \in Int, NEW tk \in Int, NEW u \in 0 .. 2,
         Shape(c, f, pos, tk),
         c.vec[1].id # c.cbufs[c.overflow + 1].id => u = 0,
         c.vec[1].id = c.cbufs[c.overflow + 1].id =>
           Edge(f - 1 + c.overflow + u) <= tk /\ (u = 2 \/ tk < Edge(f + c.overflow + u))
  PROVE  Refill(c) = WithFirst(Turned(c, u), (c.overflow + 1) + u)
<1> DEFINE itr == c.overflow + 1
           Full(b) == GetCapacity(b) = 0
           full == IF c.vec[1].id = c.cbufs[itr].id THEN RunLength(c.cbufs, itr, Full) ELSE 0
           after == CHOOSE g : Grows(c, full, g)
           o == c.overflow
<1>1. Refill(c) = [after[full] EXCEPT !.vec[1] = Iovec(after[full].cbufs[itr + full])]
  BY Zenon DEF Refill, Grows, Grown
<1>2. full = u
  <2>1. CASE c.vec[1].id # c.cbufs[itr].id
    BY <2>1
  <2>2. CASE c.vec[1].id = c.cbufs[itr].id
    <3>1. full = RunLength(c.cbufs, itr, Full)
      BY <2>2, Zenon
    <3>2. o \in Nat /\ c.cbufs = Row(f, o + 2, pos, tk)
      BY DEF Shape, Containers
    <3>3. Edge(f - 1 + o + u) <= tk /\ (u = 2 \/ tk < Edge(f + o + u))
      BY <2>2
    <3> HIDE DEF o
    <3>4. RunLength(Row(f, o + 2, pos, tk), o + 1, Full) = u
      BY <3>2, <3>3, FullRun
    <3>5. RunLength(c.cbufs, o + 1, Full) = u
      BY <3>2, <3>4, Zenon
    <3> QED BY <3>1, <3>5, Zenon DEF o
  <2> QED BY <2>1, <2>2
<1> HIDE DEF full
<1>3. Grows(c, u, after)
  <2>1. \E g : Grows(c, u, g)
    BY GrowsExist
  <2> QED BY <1>2, <2>1
<1> HIDE DEF after
<1>4. \A i \in 0 .. u : after[i] = IF i = 0 THEN c ELSE Grown(after[i - 1], i - 1)
  BY <1>3, Zenon DEF Grows
<1>5. after[0] = c
  <2>1. 0 \in 0 .. u
    OBVIOUS
  <2> QED BY <1>4, <2>1, Zenon
<1>6. u >= 1 => after[1] = Grown(c, 0)
  <2>1. u >= 1 => 1 \in 0 .. u /\ 1 # 0 /\ 1 - 1 = 0
    OBVIOUS
  <2>2. u >= 1 => after[1] = Grown(after[1 - 1], 1 - 1)
    BY <1>4, <2>1, Zenon
  <2> QED BY <1>5, <2>1, <2>2, Zenon
<1>7. u = 2 => after[2] = Grown(Grown(c, 0), 1)
  <2>1. u = 2 => 2 \in 0 .. u /\ 2 # 0 /\ 2 - 1 = 1 /\ u >= 1
    OBVIOUS
  <2>2. u = 2 => after[2] = Grown(after[2 - 1], 2 - 1)
    BY <1>4, <2>1, Zenon
  <2> QED BY <1>6, <2>1, <2>2, Zenon
<1>8. u = 1 => u >= 1
  OBVIOUS
<1>9. /\ u = 0 => after[u] = c
      /\ u = 1 => after[u] = Grown(c, 0)
      /\ u = 2 => after[u] = Grown(Grown(c, 0), 1)
      /\ Refill(c) = [after[u] EXCEPT !.vec[1] = Iovec(after[u].cbufs[(c.overflow + 1) + u])]
  BY <1>1, <1>2, <1>5, <1>6, <1>7, <1>8, Zenon
<1>10. after[u] = Turned(c, u)
  <2>1. u = 0 \/ u = 1 \/ u = 2
    OBVIOUS
  <2>2. 1 # 0 /\ 2 # 0 /\ 2 # 1
    OBVIOUS
  <2> QED BY <1>9, <2>1, <2>2, Zenon DEF Turned
<1> QED BY <1>9, <1>10, Zenon DEF WithFirst

(* The second loop leaves the iovecs exact.                                *)
LEMMA RefillShape ==
  ASSUME TwoIovecs,
         NEW c, NEW f \in Nat \ {0}, NEW pos \in Int, NEW tk \in Int,
         Shape(c, f, pos, tk), pos <= tk,
         Matches(c.vec, Len(c.mem), tk) \/ Lags(c.vec, Len(c.mem), tk),
         NEW d, d = Refill(c)
  PROVE  Shape(d, f, pos, tk) /\ Kept(c.mem, d.mem) /\ Exact(d.vec, Len(d.mem), tk)
<1> DEFINE o == c.overflow
           n == Len(c.mem)
           same == c.vec[1].id = c.cbufs[o + 1].id
<1>1. o \in Nat /\ c.mem \in Seq(Cells) /\ n = f + o + 1 /\ c.cbufs = Row(f, o + 2, pos, tk)
      /\ Edge(f - 1 + o) <= tk
  BY DEF Shape, Containers
<1>2. c.cbufs[o + 1].id = n - 1
  <2> DEFINE j == o + 1
             m == o + 2
  <2>1. j \in 1 .. m /\ m \in Nat /\ f + j - 1 = n - 1
    <3>1. n = f + o + 1 /\ o \in Nat
      BY <1>1
    <3> HIDE DEF n, o
    <3> QED BY <3>1
  <2>2. c.cbufs = Row(f, m, pos, tk)
    BY <1>1
  <2> HIDE DEF j, m
  <2>3. Row(f, m, pos, tk)[j] = Buf(f + j - 1, pos, tk)
    BY <2>1 DEF Row
  <2>4. c.cbufs[j].id = f + j - 1
    BY <2>2, <2>3 DEF Buf
  <2> QED BY <2>1, <2>4 DEF j
<1>3. PICK u \in 0 .. 2 :
        /\ ~same => u = 0
        /\ same => Edge(f - 1 + o + u) <= tk /\ (u = 2 \/ tk < Edge(f + o + u))
  <2> HIDE DEF same
  <2>1. CASE ~same
    BY <2>1
  <2>2. CASE same /\ tk < Edge(f + o + 0)
    <3>1. Edge(f - 1 + o + 0) <= tk
      <4>1. f - 1 + o + 0 = f - 1 + o
        BY <1>1
      <4> QED BY <1>1, <4>1
    <3> QED BY <2>2, <3>1
  <2>3. CASE same /\ ~(tk < Edge(f + o + 0)) /\ tk < Edge(f + o + 1)
    <3>1. Edge(f - 1 + o + 1) <= tk
      <4>1. f - 1 + o + 1 = f + o + 0 /\ f + o + 0 \in Nat
        <5> HIDE DEF o
        <5> QED BY <1>1
      <4>2. Edge(f + o + 0) \in Nat
        BY <4>1, EdgeSteps
      <4> QED BY <2>3, <4>1, <4>2
    <3> QED BY <2>3, <3>1
  <2>4. CASE same /\ ~(tk < Edge(f + o + 1))
    <3>1. Edge(f - 1 + o + 2) <= tk
      <4>1. f - 1 + o + 2 = f + o + 1 /\ f + o + 1 \in Nat
        <5> HIDE DEF o
        <5> QED BY <1>1
      <4>2. Edge(f + o + 1) \in Nat
        BY <4>1, EdgeSteps
      <4> QED BY <2>4, <4>1, <4>2
    <3> QED BY <2>4, <3>1
  <2> QED BY <2>1, <2>2, <2>3, <2>4
<1> DEFINE g == Turned(c, u)
<1>4. /\ u = 0 => g = c
      /\ u = 1 => g = Grown(c, 0)
      /\ u = 2 => g = Grown(Grown(c, 0), 1)
  <2>1. 1 # 0 /\ 2 # 0 /\ 2 # 1
    OBVIOUS
  <2> QED BY <2>1, Zenon DEF Turned
<1>7. d = WithFirst(g, (c.overflow + 1) + u)
  <2>1. Refill(c) = WithFirst(Turned(c, u), (c.overflow + 1) + u)
    BY <1>3, RefillIs
  <2> QED BY <2>1, Zenon
<1> HIDE DEF g
<1>5. /\ Shape(g, f, pos, tk) /\ Kept(c.mem, g.mem) /\ g.overflow = o + u
      /\ g.vec[2] = Room(Len(g.mem), tk)
  <2> DEFINE e == Grown(c, 0)
  <2>0. ASSUME u = 1 \/ u = 2
        PROVE  /\ Shape(e, f, pos, tk) /\ Kept(c.mem, e.mem) /\ e.overflow = o + 1
               /\ Len(e.mem) = n + 1 /\ e.vec[2] = Room(n + 1, tk)
    <3>1. Edge(f + o) <= tk
      <4>1. CASE u = 1
        <5>1. f - 1 + o + u = f + o
          <6> HIDE DEF o
          <6> QED BY <1>1, <4>1
        <5> QED BY <1>3, <4>1, <5>1
      <4>2. CASE u = 2
        <5>1. f - 1 + o + u = f + o + 1 /\ f + o \in Nat
          <6> HIDE DEF o
          <6> QED BY <1>1, <4>2
        <5>2. Edge(f + o) \in Nat /\ Edge(f + o + 1) = Edge(f + o) + B /\ B \in Nat
          BY <5>1, EdgeSteps, Sizes
        <5>3. Edge(f + o + 1) <= tk
          BY <1>3, <4>2, <5>1
        <5> QED BY <5>2, <5>3
      <4> QED BY <2>0, <4>1, <4>2
    <3>2. 0 \in {0, 1}
      OBVIOUS
    <3> HIDE DEF e
    <3> QED BY <3>1, <3>2, GrownIs DEF e
  <2>1. CASE u = 0
    <3>1. g = c
      BY <1>4, <2>1
    <3>2. c.vec[2] = Room(n, tk)
      <4>1. CASE Lags(c.vec, n, tk)
        BY <4>1 DEF Lags
      <4>2. CASE Matches(c.vec, n, tk)
        <5>1. same
          BY <1>2, <4>2 DEF Matches
        <5>2. tk < Edge(f + o + u)
          BY <1>3, <2>1, <5>1
        <5>3. f + o + u = n - 1
          <6>1. n = f + o + 1 /\ o \in Nat
            BY <1>1
          <6> HIDE DEF n, o
          <6> QED BY <2>1, <6>1
        <5> QED BY <4>2, <5>2, <5>3 DEF Matches
      <4> QED BY <4>1, <4>2
    <3>3. o = o + u
      <4> HIDE DEF o
      <4> QED BY <1>1, <2>1
    <3> QED BY <1>1, <3>1, <3>2, <3>3, KeptSelf
  <2>2. CASE u = 1
    <3>1. g = e
      BY <1>4, <2>2
    <3> HIDE DEF e
    <3> QED BY <2>0, <2>2, <3>1
  <2>3. CASE u = 2
    <3> DEFINE one == 1
    <3>1. g = Grown(e, one) /\ one \in {0, 1}
      BY <1>4, <2>3
    <3> HIDE DEF e, one
    <3>2. /\ Shape(e, f, pos, tk) /\ Kept(c.mem, e.mem) /\ e.overflow = o + 1
          /\ Len(e.mem) = n + 1 /\ e.vec[2] = Room(n + 1, tk)
      BY <2>0, <2>3
    <3>8. Shape(e, f, pos, tk)
      BY <3>2
    <3>9. g = Grown(e, one)
      BY <3>1
    <3>10. one \in {0, 1}
      BY <3>1
    <3>3. Edge(f + e.overflow) <= tk
      <4>1. f + e.overflow = f - 1 + o + u
        <5>1. e.overflow = o + 1 /\ o \in Nat
          BY <1>1, <3>2
        <5> HIDE DEF o
        <5> QED BY <2>3, <5>1
      <4>2. Edge(f - 1 + o + u) <= tk
        BY <1>3, <2>3
      <4> QED BY <4>1, <4>2
    <3>4. /\ Shape(g, f, pos, tk) /\ Kept(e.mem, g.mem)
          /\ g.overflow = e.overflow + 1 /\ Len(g.mem) = Len(e.mem) + 1
          /\ g.vec[2] = Room(Len(e.mem) + 1, tk)
      BY <3>8, <3>9, <3>10, <3>3, GrownIs
    <3>5. e.mem \in Seq(Cells) /\ g.mem \in Seq(Cells)
      BY <3>2, <3>4 DEF Shape, Containers
    <3>6. Kept(c.mem, g.mem)
      BY <1>1, <3>2, <3>4, <3>5, KeptTrans
    <3>7. g.overflow = o + u
      <4>1. g.overflow = (o + 1) + 1
        BY <3>2, <3>4
      <4> HIDE DEF o
      <4> QED BY <1>1, <2>3, <4>1
    <3> QED BY <3>4, <3>6, <3>7
  <2> QED BY <2>1, <2>2, <2>3
<1>6. d = [g EXCEPT !.vec[1] = Iovec(g.cbufs[g.overflow + 1])]
  <2>1. g.overflow + 1 = (o + 1) + u
    <3>1. g.overflow = o + u
      BY <1>5
    <3> HIDE DEF o
    <3> QED BY <1>1, <3>1
  <2> QED BY <1>7, <2>1, Zenon DEF WithFirst
<1> QED BY <1>5, <1>6, FirstSet

(* update() as a whole: what has been read leaves, and the iovecs are the  *)
(* free space of the last two buffers.                                     *)
LEMMA Updated ==
  ASSUME TwoIovecs,
         NEW c, NEW f \in Nat \ {0}, NEW pos \in Int, NEW tk \in Int,
         Shape(c, f, pos, tk), Matches(c.vec, Len(c.mem), tk), pos <= tk,
         Edge(f - 1) <= pos, pos < Edge(f + 2),
         NEW d, d = Refill(DropEnded(c))
  PROVE  /\ \E F \in Nat \ {0} : Shape(d, F, pos, tk) /\ Edge(F - 1) <= pos /\ pos < Edge(F)
         /\ Kept(c.mem, d.mem) /\ Exact(d.vec, Len(d.mem), tk)
<1> DEFINE e == DropEnded(c)
<1>1. PICK r \in 0 .. 2 : Edge(f - 1 + r) <= pos /\ pos < Edge(f + r)
  <2>1. /\ f - 1 + 0 = f - 1 /\ f - 1 + 1 = f /\ f - 1 + 2 = f + 1 /\ f + 0 = f
        /\ f \in Nat /\ f + 1 \in Nat
    OBVIOUS
  <2>2. Edge(f) \in Nat /\ Edge(f + 1) \in Nat
    BY <2>1, EdgeSteps
  <2>3. CASE pos < Edge(f)
    <3>1. Edge(f - 1 + 0) <= pos /\ pos < Edge(f + 0)
      BY <2>1, <2>3
    <3> QED BY <3>1
  <2>4. CASE Edge(f) <= pos /\ pos < Edge(f + 1)
    <3>1. Edge(f - 1 + 1) <= pos /\ pos < Edge(f + 1)
      BY <2>1, <2>4
    <3> QED BY <3>1
  <2>5. CASE Edge(f + 1) <= pos
    <3>1. Edge(f - 1 + 2) <= pos /\ pos < Edge(f + 2)
      BY <2>1, <2>5
    <3> QED BY <3>1
  <2> QED BY <2>2, <2>3, <2>4, <2>5
<1>2. /\ Shape(e, f + r, pos, tk) /\ Kept(c.mem, e.mem)
      /\ Matches(e.vec, Len(e.mem), tk) \/ Lags(e.vec, Len(e.mem), tk)
  <2> HIDE DEF e
  <2>1. e = DropEnded(c)
    BY DEF e
  <2> QED BY <1>1, <2>1, DropEndedShape
<1> DEFINE F == f + r
<1>3. F \in Nat \ {0} /\ F - 1 = f - 1 + r
  OBVIOUS
<1>4. d = Refill(e)
  OBVIOUS
<1>5. Shape(e, F, pos, tk)
  BY <1>2
<1>6. Edge(F - 1) <= pos /\ pos < Edge(F)
  BY <1>1, <1>3
<1> HIDE DEF e, F
<1>7. Shape(d, F, pos, tk) /\ Kept(e.mem, d.mem) /\ Exact(d.vec, Len(d.mem), tk)
  BY <1>2, <1>3, <1>4, <1>5, RefillShape
<1>8. c.mem \in Seq(Cells) /\ e.mem \in Seq(Cells) /\ d.mem \in Seq(Cells)
  BY <1>5, <1>7 DEF Shape, Containers
<1>9. Kept(c.mem, d.mem)
  BY <1>2, <1>7, <1>8, KeptTrans
<1> QED BY <1>3, <1>6, <1>7, <1>9

(* The same of the session's container.                                    *)
Now == [mem |-> mem, cbufs |-> cbufs, vec |-> vec, overflow |-> overflow]
First == Len(mem) - overflow - 1

LEMMA UpdateKeeps ==
  ASSUME TwoIovecs,
         NEW m \in Seq(Cells), NEW cs, NEW f \in Nat \ {0}, NEW pos \in Int, NEW tk \in Int,
         overflow \in Nat, vec \in Seq(Iovecs), Len(vec) = 2,
         cs = Row(f, overflow + 2, pos, tk), Len(m) = f + overflow + 1,
         Edge(f - 1 + overflow) <= tk, tk <= Edge(f + overflow + 1),
         Matches(vec, Len(m), tk), pos <= tk,
         Edge(f - 1) <= pos, pos < Edge(f + 2),
         Update(m, cs)
  PROVE  /\ First' \in Nat \ {0} /\ Shape(Now', First', pos, tk)
         /\ Edge(First' - 1) <= pos /\ pos < Edge(First')
         /\ Kept(m, mem') /\ Exact(vec', Len(mem'), tk)
<1> DEFINE c == Container(m, cs)
           d == Refill(DropEnded(c))
<1>1. cs \in Seq(Bufs)
  <2> DEFINE l == overflow + 2
  <2>1. l \in Nat /\ cs = Row(f, l, pos, tk)
    OBVIOUS
  <2> HIDE DEF l
  <2> QED BY <2>1, RowIn
<1>2. c = [mem |-> m, cbufs |-> cs, vec |-> vec, overflow |-> overflow]
  <2>1. << >> \o cs = cs
    BY <1>1, ConcatEmptySeq
  <2> QED BY <2>1 DEF Container
<1>3. c \in Containers
  <2>1. [mem |-> m, cbufs |-> cs, vec |-> vec, overflow |-> overflow] \in Containers
    BY <1>1, MakeContainer, Zenon
  <2> QED BY <1>2, <2>1, Zenon
<1>4. mem' = d.mem /\ cbufs' = d.cbufs /\ vec' = d.vec /\ overflow' = d.overflow
  BY Zenon DEF Update
<1> HIDE DEF c, d
<1>5. c.mem = m /\ c.cbufs = cs /\ c.vec = vec /\ c.overflow = overflow
  BY <1>2
<1>6. Shape(c, f, pos, tk) /\ Matches(c.vec, Len(c.mem), tk)
  BY <1>3, <1>5 DEF Shape
<1>7. d = Refill(DropEnded(c))
  BY DEF d
<1>8. /\ \E F \in Nat \ {0} : Shape(d, F, pos, tk) /\ Edge(F - 1) <= pos /\ pos < Edge(F)
      /\ Kept(c.mem, d.mem) /\ Exact(d.vec, Len(d.mem), tk)
  BY <1>6, <1>7, Updated
<1>9. PICK F \in Nat \ {0} : Shape(d, F, pos, tk) /\ Edge(F - 1) <= pos /\ pos < Edge(F)
  BY <1>8
<1>10. Now' = d
  <2>1. d \in Containers
    BY <1>9 DEF Shape
  <2>2. d = [mem |-> d.mem, cbufs |-> d.cbufs, vec |-> d.vec, overflow |-> d.overflow]
    BY <2>1 DEF Containers
  <2> QED BY <1>4, <2>2 DEF Now
<1>11. First' = F
  <2> DEFINE l == Len(d.mem)
             o == d.overflow
  <2>1. l = F + o + 1 /\ o \in Nat
    BY <1>9 DEF Shape, Containers
  <2>2. First' = l - o - 1
    BY <1>4 DEF First
  <2> HIDE DEF l, o
  <2> QED BY <2>1, <2>2
<1> QED BY <1>4, <1>5, <1>8, <1>9, <1>10, <1>11
-----------------------------------------------------------------------------
(* The invariant of the receive side.  The container is a row of buffers   *)
(* of the tape, from the one that Pos is in to the last; the tape holds    *)
(* what was received; and the iovecs are the room behind it, except that   *)
(* their lengths lag behind between readv() and update().                  *)
Pos == taken - offset
Geometry ==
  /\ taken \in Nat /\ offset \in 0 .. taken
  /\ First \in Nat \ {0} /\ Shape(Now, First, Pos, taken)
  /\ Edge(First - 1) <= Pos /\ Pos < Edge(First)
Tape(ms, tk) ==
  \A b \in 1 .. Len(ms) : \A p \in 0 .. (B - 1) :
    Edge(b - 1) + p < tk => ms[b][p] = Edge(b - 1) + p + 1
Linear == Tape(mem, taken)
Vectors ==
  /\ Matches(vec, Len(mem), taken)
  /\ pc # "parse" => Exact(vec, Len(mem), taken)

LEMMA GeometryFacts ==
  ASSUME Geometry
  PROVE  /\ taken \in Nat /\ offset \in 0 .. taken /\ Pos \in Nat /\ Pos <= taken
         /\ overflow \in Nat /\ First \in Nat \ {0} /\ Len(mem) = First + overflow + 1
         /\ mem \in Seq(Cells) /\ vec \in Seq(Iovecs) /\ Len(vec) = 2
         /\ cbufs = Row(First, overflow + 2, Pos, taken)
         /\ Edge(First - 1 + overflow) <= taken /\ taken <= Edge(First + overflow + 1)
         /\ Edge(First - 1) <= Pos /\ Pos < Edge(First)
<1>1. Shape(Now, First, Pos, taken)
  BY DEF Geometry
<1>2. Now.mem = mem /\ Now.cbufs = cbufs /\ Now.vec = vec /\ Now.overflow = overflow
  BY DEF Now
<1>3. Now \in Containers
  BY <1>1 DEF Shape
<1>4. Now.mem \in Seq(Cells) /\ Now.vec \in Seq(Iovecs) /\ Now.overflow \in Nat
  BY <1>3 DEF Containers
<1>5. /\ overflow \in Nat /\ Len(mem) = First + overflow + 1
      /\ mem \in Seq(Cells) /\ vec \in Seq(Iovecs) /\ Len(vec) = 2
      /\ cbufs = Row(First, overflow + 2, Pos, taken)
      /\ Edge(First - 1 + overflow) <= taken /\ taken <= Edge(First + overflow + 1)
  BY <1>1, <1>2, <1>4 DEF Shape
<1>6. taken \in Nat /\ offset \in 0 .. taken /\ Pos \in Nat /\ Pos <= taken
  BY DEF Geometry, Pos
<1> QED BY <1>5, <1>6 DEF Geometry

(* What is unread is in the buffers as it was sent.                        *)
LEMMA RowCell ==
  ASSUME NEW f \in Nat \ {0}, NEW m \in Nat, NEW pos \in Int, NEW tk \in Int,
         NEW ms, Len(ms) = f + m - 1, Tape(ms, tk), Edge(f - 1) <= pos, pos <= tk,
         NEW cs, cs = Row(f, m, pos, tk), NEW ns, ns = Unread(cs),
         NEW j \in 1 .. m, NEW i \in 1 .. ns[j]
  PROVE  ms[cs[j].id][cs[j].offset + i - 1] = pos + Sums(ns)[j - 1] + i
<1> DEFINE e == Edge(f - 1 + (j - 1))
           b == f + j - 1
<1>0. j \in Nat \ {0} /\ j - 1 \in 0 .. m
  OBVIOUS
<1>1. e \in Nat /\ Edge(f - 1) \in Nat /\ Edge(f - 1) <= e
  BY <1>0, EdgeAt
<1>2. cs[j] = [id |-> b, offset |-> Clamp(pos - e), tail |-> Clamp(tk - e)]
  BY RowAt
<1>3. ns[j] = Clamp(tk - e) - Clamp(pos - e)
  <2>1. cs \in [1 .. m -> Bufs]
    BY RowShape
  <2>2. Unread(cs)[j] = cs[j].tail - cs[j].offset
    BY <2>1, BufsShape
  <2> QED BY <1>2, <2>2
<1>4. Sums(ns)[j - 1] = Max2(0, Min2(tk, e) - pos)
  <2>1. \A k \in 0 .. m : Sums(ns)[k] = Max2(0, Min2(tk, Edge(f - 1 + k)) - pos)
    BY UnreadSums
  <2> QED BY <1>0, <2>1
<1>5. b \in 1 .. Len(ms) /\ Edge(b - 1) = e
  <2>1. b - 1 = f - 1 + (j - 1) /\ b \in 1 .. (f + m - 1)
    OBVIOUS
  <2> HIDE DEF b
  <2> QED BY <2>1
<1> DEFINE x == Clamp(pos - e)
           y == Clamp(tk - e)
           p == x + i - 1
<1> HIDE DEF e
<1>6. B \in Nat /\ B > 0
  BY Sizes
<1>7. x \in 0 .. B /\ y \in 0 .. B /\ i \in 1 .. (y - x)
  BY <1>1, <1>3, ClampFacts
<1>8. p \in 0 .. (B - 1)
  <2> HIDE DEF x, y
  <2> QED BY <1>6, <1>7
<1>9. e + p < tk
  BY <1>1, <1>6, <1>7 DEF Clamp, Max2, Min2
<1>10. e + p + 1 = pos + Max2(0, Min2(tk, e) - pos) + i
  BY <1>1, <1>6, <1>7 DEF Clamp, Max2, Min2
<1>11. ms[b][p] = e + p + 1
  <2> HIDE DEF p, b
  <2>1. Edge(b - 1) + p < tk
    BY <1>5, <1>9
  <2>2. ms[b][p] = Edge(b - 1) + p + 1
    BY <1>5, <1>8, <2>1 DEF Tape
  <2> QED BY <1>5, <2>2
<1>12. cs[j].id = b /\ cs[j].offset + i - 1 = p
  BY <1>2
<1> HIDE DEF p, b
<1> QED BY <1>4, <1>10, <1>11, <1>12

LEMMA BufferedHolds == Geometry /\ Linear => Buffered
<1> SUFFICES ASSUME Geometry, Linear PROVE Buffered
  OBVIOUS
<1> DEFINE m == overflow + 2
           f == First
           pos == Pos
           ns == Unread(cbufs)
<1>1. /\ taken \in Nat /\ offset \in 0 .. taken /\ pos \in Nat /\ pos <= taken /\ overflow \in Nat
      /\ f \in Nat \ {0} /\ Len(mem) = f + overflow + 1 /\ cbufs = Row(f, m, pos, taken)
      /\ taken <= Edge(f + overflow + 1) /\ Edge(f - 1) <= pos
  BY GeometryFacts
<1>2. m \in Nat /\ f - 1 + m = f + overflow + 1 /\ Len(mem) = f + m - 1 /\ pos \in Int /\ taken \in Int
  <2> HIDE DEF f, pos
  <2> QED BY <1>1
<1>3. pos = taken - offset
  BY DEF Pos
<1> HIDE DEF f, pos, m
<1>4. cbufs \in [1 .. m -> Bufs]
  BY <1>1, <1>2, RowShape
<1>5. ns \in [1 .. m -> Int]
  BY <1>2, <1>4, BufsShape
<1>6. ns = [j \in DOMAIN cbufs |-> GetRemain(cbufs[j])]
  BY DEF Unread
<1>t. taken \in Int /\ pos \in Int /\ pos <= taken /\ m \in Nat /\ f \in Nat \ {0}
      /\ Edge(f - 1) <= pos
  BY <1>1, <1>2
<1>c. cbufs = Row(f, m, pos, taken)
  BY <1>1
<1>7. \A i \in 0 .. m : Sums(ns)[i] = Max2(0, Min2(taken, Edge(f - 1 + i)) - pos)
  <2>1. \A i \in 0 .. m : Sums(Unread(Row(f, m, pos, taken)))[i]
                            = Max2(0, Min2(taken, Edge(f - 1 + i)) - pos)
    BY <1>t, UnreadSums
  <2> QED BY <1>c, <2>1
<1>9. ASSUME NEW j \in 1 .. m, NEW i \in 1 .. ns[j]
      PROVE  mem[cbufs[j].id][cbufs[j].offset + i - 1] = pos + Sums(ns)[j - 1] + i
  <2> HIDE DEF ns
  <2>1. ns = Unread(cbufs)
    BY DEF ns
  <2>2. Tape(mem, taken)
    BY DEF Linear
  <2>3. Len(mem) = f + m - 1
    BY <1>2
  <2> QED BY <1>t, <1>c, <2>1, <2>2, <2>3, RowCell
<1> HIDE DEF ns
<1>8. Sum(ns) = offset
  <2>1. Len(ns) = m /\ m \in 0 .. m
    BY <1>2, <1>5
  <2>2. Sum(ns) = Sums(ns)[m]
    BY <2>1 DEF Sum
  <2>3. Sums(ns)[m] = Max2(0, Min2(taken, Edge(f - 1 + m)) - pos)
    BY <1>7, <2>1
  <2>4. Edge(f - 1 + m) \in Nat /\ taken <= Edge(f - 1 + m)
    <3>1. f - 1 + m \in Nat
      BY <1>1, <1>2
    <3> QED BY <1>1, <1>2, <3>1, EdgeSteps
  <2>5. Max2(0, Min2(taken, Edge(f - 1 + m)) - pos) = taken - pos
    BY <1>1, <2>4 DEF Max2, Min2
  <2> QED BY <1>1, <1>3, <2>2, <2>3, <2>5
<1>10. DOMAIN cbufs = 1 .. m
  BY <1>4
<1> QED BY <1>3, <1>6, <1>8, <1>9, <1>10 DEF Buffered, Before

(* The free space of a row, as places; and where its n-th cell is.         *)
Rooms(f, m, tk) == [j \in 1 .. m |-> Room(f + j - 1, tk)]

LEMMA RoomsLens ==
  ASSUME NEW f \in Nat \ {0}, NEW m \in Nat, NEW tk \in Int, Edge(f - 1) <= tk
  PROVE  /\ Lens(Rooms(f, m, tk)) \in [1 .. m -> Int]
         /\ \A i \in 0 .. m : Sums(Lens(Rooms(f, m, tk)))[i] = Max2(0, Edge(f - 1 + i) - tk)
<1> DEFINE cs == Row(f, m, tk, tk)
           fs == Free(cs)
           ls == Lens(Rooms(f, m, tk))
<1>1. cs \in [1 .. m -> Bufs]
  BY RowShape
<1>2. fs \in [1 .. m -> Int] /\ \A j \in 1 .. m : fs[j] = B - cs[j].tail
  <2> HIDE DEF cs
  <2> QED BY <1>1, BufsShape
<1>3. ASSUME NEW j \in 1 .. m PROVE ls[j] = fs[j]
  <2>1. ls[j] = Room(f + j - 1, tk).len
    BY DEF Lens, Rooms
  <2>2. cs[j] = Buf(f + j - 1, tk, tk)
    BY DEF Row
  <2>3. cs[j].tail = Clamp(tk - Edge(f + j - 1 - 1))
    BY <2>2 DEF Buf
  <2>4. Room(f + j - 1, tk).len = B - Clamp(tk - Edge(f + j - 1 - 1))
    BY DEF Room
  <2> HIDE DEF cs, fs, ls
  <2> QED BY <1>2, <2>1, <2>3, <2>4
<1>4. ls = [j \in 1 .. m |-> ls[j]]
  BY DEF Lens, Rooms
<1> HIDE DEF fs, ls
<1>5. ls = fs
  BY <1>2, <1>3, <1>4
<1>6. \A i \in 0 .. m : Sums(fs)[i] = Max2(0, Edge(f - 1 + i) - tk)
  <2>1. tk <= tk
    OBVIOUS
  <2>2. \A i \in 0 .. m : Sums(Free(Row(f, m, tk, tk)))[i] = Max2(0, Edge(f - 1 + i) - tk)
    BY <2>1, FreeSums
  <2> QED BY <2>2 DEF fs
<1> QED BY <1>2, <1>5, <1>6 DEF ls

LEMMA FreeCellIs ==
  ASSUME NEW f \in Nat \ {0}, NEW m \in Nat, NEW tk \in Int, Edge(f - 1) <= tk,
         NEW k \in Nat \ {0}, tk + k <= Edge(f - 1 + m),
         NEW places, places = Rooms(f, m, tk)
  PROVE  \E id \in Nat \ {0} :
           /\ Edge(id - 1) < tk + k /\ tk + k <= Edge(id)
           /\ FreeCell(places, k) = <<id, ((tk + k) - 1) - Edge(id - 1)>>
<1> DEFINE ns == Lens(places)
           In(p) == Before(ns, p) < k /\ k <= Before(ns, p) + ns[p]
           j == CHOOSE p \in DOMAIN places : In(p)
           E(i) == Edge(f - 1 + i)
<1>1. /\ ns \in [1 .. m -> Int]
      /\ \A i \in 0 .. m : Sums(ns)[i] = Max2(0, E(i) - tk)
  <2>1. /\ Lens(Rooms(f, m, tk)) \in [1 .. m -> Int]
        /\ \A i \in 0 .. m : Sums(Lens(Rooms(f, m, tk)))[i] = Max2(0, Edge(f - 1 + i) - tk)
    BY RoomsLens
  <2> QED BY <2>1
<1>2. DOMAIN places = 1 .. m /\ \A p \in 1 .. m : places[p] = Room(f + p - 1, tk)
  BY DEF Rooms
<1>3. ASSUME NEW p \in 1 .. m
      PROVE  /\ E(p - 1) \in Nat /\ E(p) = E(p - 1) + B
             /\ ns[p] = B - Clamp(tk - E(p - 1)) /\ E(p - 1) = Edge(f + p - 1 - 1)
  <2>1. p \in Nat \ {0} /\ f + p - 1 - 1 = f - 1 + (p - 1)
    OBVIOUS
  <2>2. Edge(f - 1 + (p - 1)) \in Nat /\ Edge(f - 1 + p) = Edge(f - 1 + (p - 1)) + B
    BY <2>1, EdgeAt
  <2>3. ns[p] = Room(f + p - 1, tk).len
    BY <1>2 DEF Lens
  <2>4. Room(f + p - 1, tk).len = B - Clamp(tk - Edge(f + p - 1 - 1))
    BY DEF Room
  <2> QED BY <2>1, <2>2, <2>3, <2>4
<1>4. E(0) <= tk /\ m # 0
  <2>1. f - 1 + 0 = f - 1 /\ Edge(f - 1) \in Nat
    BY EdgeSteps
  <2>2. m = 0 => tk + k <= Edge(f - 1)
    BY <2>1
  <2>3. ~(tk + k <= Edge(f - 1))
    BY <2>1
  <2> QED BY <2>1, <2>2, <2>3
<1>b. B \in Nat /\ B > 0
  BY Sizes
<1> HIDE DEF ns, E
<1>5. ASSUME NEW p \in 1 .. m
      PROVE  Before(ns, p) = Max2(0, E(p - 1) - tk) /\ (In(p) <=> E(p - 1) < tk + k /\ tk + k <= E(p))
  <2>1. p - 1 \in 0 .. m
    OBVIOUS
  <2>2. Before(ns, p) = Max2(0, E(p - 1) - tk)
    BY <1>1, <2>1 DEF Before
  <2> DEFINE e == E(p - 1)
  <2>3. e \in Nat /\ E(p) = e + B /\ ns[p] = B - Clamp(tk - e)
    BY <1>3
  <2> HIDE DEF e
  <2>5. p = 1 => e <= tk
    <3>1. p = 1 => p - 1 = 0
      OBVIOUS
    <3> QED BY <1>4, <3>1 DEF e
  <2>6. (Max2(0, e - tk) < k /\ k <= Max2(0, e - tk) + (B - Clamp(tk - e)))
          <=> (e < tk + k /\ tk + k <= e + B)
    BY <1>b, <2>3 DEF Clamp, Max2, Min2
  <2> QED BY <2>2, <2>3, <2>6 DEF e
<1>6. \E p \in 1 .. m : In(p)
  <2> DEFINE T == {p \in 1 .. m : tk + k <= E(p)}
  <2>1. m \in T
    BY <1>4 DEF E
  <2>2. PICK p \in T : \A x \in T : p <= x
    <3>1. T \in SUBSET Nat /\ T # {}
      BY <2>1
    <3> HIDE DEF T
    <3> QED BY <3>1, Least
  <2>3. E(p - 1) < tk + k
    <3>1. CASE p = 1
      <4>1. E(p - 1) = E(0) /\ E(p - 1) \in Nat
        BY <3>1, <1>3
      <4> QED BY <1>4, <4>1
    <3>2. CASE p # 1
      <4>1. p - 1 \in 1 .. m /\ ~(p <= p - 1)
        BY <3>2
      <4>2. p - 1 \notin T
        BY <2>2, <4>1
      <4>3. ~(tk + k <= E(p - 1)) /\ E(p - 1) \in Nat
        BY <1>3, <4>1, <4>2
      <4> QED BY <4>3
    <3> QED BY <3>1, <3>2
  <2>4. tk + k <= E(p) /\ p \in 1 .. m
    BY <2>2
  <2> HIDE DEF T, In
  <2> QED BY <1>5, <2>3, <2>4
<1>7. j \in 1 .. m /\ In(j)
  <2> HIDE DEF In
  <2> QED BY <1>2, <1>6
<1>8. FreeCell(places, k) = <<places[j].id, places[j].base + k - Before(ns, j) - 1>>
  BY DEF FreeCell, ns
<1> HIDE DEF j
<1> DEFINE e == E(j - 1)
           id == f + j - 1
<1>9. e \in Nat /\ E(j) = e + B /\ e < tk + k /\ tk + k <= E(j) /\ Before(ns, j) = Max2(0, e - tk)
  <2> HIDE DEF In
  <2> QED BY <1>3, <1>5, <1>7
<1>10. id \in Nat \ {0} /\ Edge(id - 1) = e /\ Edge(id) = E(j)
  <2>1. id - 1 = f - 1 + (j - 1) /\ id = f - 1 + j /\ id \in Nat \ {0}
    BY <1>7
  <2> QED BY <2>1 DEF E
<1>11. places[j].id = id /\ places[j].base = Clamp(tk - e)
  <2>1. places[j] = Room(id, tk)
    BY <1>2, <1>7
  <2> HIDE DEF id
  <2>2. places[j].id = id /\ places[j].base = Clamp(tk - Edge(id - 1))
    BY <2>1 DEF Room
  <2> QED BY <1>10, <2>2
<1> HIDE DEF id, e
<1>12. Clamp(tk - e) + k - Max2(0, e - tk) - 1 = ((tk + k) - 1) - e
  BY <1>b, <1>9 DEF Clamp, Max2, Min2
<1>13. FreeCell(places, k) = <<id, ((tk + k) - 1) - Edge(id - 1)>>
  BY <1>8, <1>9, <1>10, <1>11, <1>12
<1>14. Edge(id - 1) < tk + k /\ tk + k <= Edge(id)
  BY <1>9, <1>10
<1> QED BY <1>10, <1>13, <1>14

LEMMA EdgeUnique ==
  ASSUME NEW a \in Nat \ {0}, NEW b \in Nat \ {0}, NEW x \in Int,
         Edge(a - 1) < x, x <= Edge(a), Edge(b - 1) < x, x <= Edge(b)
  PROVE  a = b
<1>1. a - 1 \in Nat /\ b - 1 \in Nat /\ a \in Nat /\ b \in Nat
  OBVIOUS
<1>2. Edge(a) \in Nat /\ Edge(b) \in Nat /\ Edge(a - 1) \in Nat /\ Edge(b - 1) \in Nat /\ B \in Nat
  BY <1>1, EdgeSteps, Sizes
<1>3. ~(a < b)
  <2> SUFFICES ASSUME a < b PROVE FALSE
    OBVIOUS
  <2>1. a = b - 1 \/ a < b - 1
    BY <1>1
  <2>2. a < b - 1 => Edge(a) + B <= Edge(b - 1)
    BY <1>1, EdgeGrows
  <2> QED BY <1>2, <2>1, <2>2
<1>4. ~(b < a)
  <2> SUFFICES ASSUME b < a PROVE FALSE
    OBVIOUS
  <2>1. b = a - 1 \/ b < a - 1
    BY <1>1
  <2>2. b < a - 1 => Edge(b) + B <= Edge(a - 1)
    BY <1>1, EdgeGrows
  <2> QED BY <1>2, <2>1, <2>2
<1> QED BY <1>1, <1>3, <1>4

(* Exact iovecs are the free space of the container, cell by cell.         *)
LEMMA IovecsFreeHolds ==
  ASSUME TwoIovecs, Geometry, Exact(vec, Len(mem), taken)
  PROVE  IovecsFree
<1> DEFINE f == First
           m == overflow + 2
           n == Len(mem)
           g == n - 1
           two == 2
           pos == Pos
           free == [j \in DOMAIN cbufs |-> Iovec(cbufs[j])]
<1>1. /\ taken \in Nat /\ pos \in Nat /\ pos <= taken /\ overflow \in Nat
      /\ f \in Nat \ {0} /\ n = f + overflow + 1 /\ cbufs = Row(f, m, pos, taken)
      /\ Edge(f - 1 + overflow) <= taken /\ taken <= Edge(f + overflow + 1)
      /\ Edge(f - 1) <= pos /\ vec \in Seq(Iovecs) /\ Len(vec) = two
  BY GeometryFacts
<1>2. /\ m \in Nat /\ pos \in Int /\ taken \in Int /\ two \in Nat /\ g \in Nat \ {0}
      /\ f - 1 + m = n /\ g - 1 + two = n /\ g - 1 = f - 1 + overflow /\ f + overflow + 1 = n
      /\ n \in Nat \ {0} /\ m >= 1 /\ g + 1 = n
  <2> HIDE DEF f, n
  <2> QED BY <1>1
<1> HIDE DEF f, n, g, pos, m, two
<1>3. /\ Edge(f - 1) <= taken /\ Edge(g - 1) <= taken /\ Edge(n) \in Nat /\ taken <= Edge(n)
  <2>1. Edge(f - 1) \in Nat
    BY <1>1, EdgeSteps
  <2>2. Edge(n) \in Nat
    BY <1>2, EdgeSteps
  <2> QED BY <1>1, <1>2, <2>1, <2>2
<1>4. cbufs \in [1 .. m -> Bufs]
  <2>1. cbufs = Row(f, m, pos, taken)
    BY <1>1
  <2>2. f \in Nat \ {0}
    BY <1>1
  <2> QED BY <1>2, <2>1, <2>2, RowShape
<1>5. free = Rooms(f, m, taken)
  <2>1. ASSUME NEW j \in 1 .. m PROVE Iovec(cbufs[j]) = Room(f + j - 1, taken)
    <3>1. Iovec(Row(f, m, pos, taken)[j]) = Room(f + j - 1, taken)
      <4>1. f \in Nat \ {0} /\ m \in Nat /\ pos \in Int /\ taken \in Int
        BY <1>1, <1>2
      <4> QED BY <4>1, RoomOf
    <3> QED BY <1>1, <3>1
  <2>2. DOMAIN cbufs = 1 .. m
    BY <1>4
  <2> QED BY <2>1, <2>2 DEF Rooms
<1>6. vec = Rooms(g, two, taken)
  <2>1. vec[1] = Room(g, taken) /\ vec[2] = Room(g + 1, taken)
    <3>1. g = Len(mem) - 1 /\ g + 1 = Len(mem)
      BY <1>2 DEF g, n
    <3> QED BY <3>1 DEF Exact
  <2>2. vec \in [1 .. two -> Iovecs]
    <3>1. vec \in [1 .. Len(vec) -> Iovecs] /\ Len(vec) = two
      BY <1>1
    <3> QED BY <3>1
  <2>3. ASSUME NEW j \in 1 .. two PROVE vec[j] = Room(g + j - 1, taken)
    <3>1. j = 1 \/ j = 2
      BY DEF two
    <3>2. CASE j = 1
      <4>1. g + j - 1 = g
        BY <1>2, <3>2
      <4> QED BY <2>1, <3>2, <4>1
    <3>3. CASE j = 2
      <4>1. g + j - 1 = g + 1
        BY <1>2, <3>3
      <4> QED BY <2>1, <3>3, <4>1
    <3> QED BY <3>1, <3>2, <3>3
  <2> QED BY <2>2, <2>3 DEF Rooms
<1>7. overflow = Len(cbufs) - count
  <2>1. Len(cbufs) = m /\ count = 2
    BY <1>2, <1>4, CountTwo
  <2> QED BY <1>1, <2>1 DEF m
<1>8. ASSUME NEW h \in Nat \ {0}, NEW l \in Nat, h - 1 + l = n, Edge(h - 1) <= taken,
             NEW places, places = Rooms(h, l, taken)
      PROVE  Sum(Lens(places)) = Edge(n) - taken
  <2> DEFINE ns == Lens(places)
  <2> HIDE DEF ns
  <2>1. ns = Lens(Rooms(h, l, taken))
    BY <1>8 DEF ns
  <2>2. /\ ns \in [1 .. l -> Int]
        /\ \A i \in 0 .. l : Sums(ns)[i] = Max2(0, Edge(h - 1 + i) - taken)
    <3>1. taken \in Int /\ Edge(h - 1) <= taken
      BY <1>2, <1>8
    <3>2. /\ Lens(Rooms(h, l, taken)) \in [1 .. l -> Int]
          /\ \A i \in 0 .. l : Sums(Lens(Rooms(h, l, taken)))[i] = Max2(0, Edge(h - 1 + i) - taken)
      BY <3>1, RoomsLens
    <3> QED BY <2>1, <3>2
  <2>3. Len(ns) = l /\ l \in 0 .. l
    BY <2>2
  <2>4. Sum(ns) = Max2(0, Edge(n) - taken)
    BY <1>8, <2>2, <2>3 DEF Sum
  <2>5. Max2(0, Edge(n) - taken) = Edge(n) - taken
    BY <1>1, <1>3 DEF Max2
  <2> QED BY <2>4, <2>5 DEF ns
<1>9. Sum(Lens(vec)) = Edge(n) - taken
  BY <1>2, <1>3, <1>6, <1>8
<1>10. Sum(Lens(free)) = Edge(n) - taken
  <2> HIDE DEF free
  <2> QED BY <1>1, <1>2, <1>3, <1>5, <1>8
<1> HIDE DEF free
<1>11. ASSUME NEW k \in 1 .. (Edge(n) - taken) PROVE FreeCell(vec, k) = FreeCell(free, k)
  <2>1. k \in Nat \ {0} /\ taken + k <= Edge(n)
    BY <1>1, <1>3
  <2>2. PICK a \in Nat \ {0} :
          /\ Edge(a - 1) < taken + k /\ taken + k <= Edge(a)
          /\ FreeCell(vec, k) = <<a, ((taken + k) - 1) - Edge(a - 1)>>
    <3>1. taken + k <= Edge(g - 1 + two)
      BY <1>2, <2>1
    <3> QED BY <1>2, <1>3, <1>6, <2>1, <3>1, FreeCellIs
  <2>3. PICK b \in Nat \ {0} :
          /\ Edge(b - 1) < taken + k /\ taken + k <= Edge(b)
          /\ FreeCell(free, k) = <<b, ((taken + k) - 1) - Edge(b - 1)>>
    <3>1. taken + k <= Edge(f - 1 + m)
      BY <1>2, <2>1
    <3>2. f \in Nat \ {0}
      BY <1>1
    <3> QED BY <1>2, <1>3, <1>5, <2>1, <3>1, <3>2, FreeCellIs
  <2>4. a = b
    <3>1. taken + k \in Int
      BY <1>1
    <3> QED BY <2>2, <2>3, <3>1, EdgeUnique
  <2> QED BY <2>2, <2>3, <2>4
<1> QED BY <1>7, <1>9, <1>10, <1>11 DEF IovecsFree, free

(* readv() puts the next n cells of the stream on the tape.                *)
LEMMA SharesOf ==
  ASSUME NEW m \in Nat, NEW ns \in [1 .. m -> Int], NEW n \in Int, NEW j \in 1 .. m
  PROVE  Shares(ns, n)[j] = Min2(ns[j], Max2(0, n - Sums(ns)[j - 1]))
  BY DEF Shares

LEMMA FilledCell ==
  ASSUME NEW n \in Nat, Geometry, Exact(vec, Len(mem), taken), taken + n <= Edge(Len(mem)),
         NEW b \in 1 .. Len(mem), NEW i \in 0 .. (B + HEADER - 1)
  PROVE  /\ Filled(n)[b][i] \in Int
         /\ i < B /\ Edge(b - 1) + i < taken => Filled(n)[b][i] = mem[b][i]
         /\ i < B /\ Edge(b - 1) + i >= taken /\ Edge(b - 1) + i < taken + n
              => Filled(n)[b][i] = Edge(b - 1) + i + 1
<1> DEFINE N == Len(mem)
           g == N - 1
           ns == Lens(vec)
           part == Shares(ns, n)
           Hits == {j \in DOMAIN vec : vec[j].id = b /\ i \in vec[j].base .. (vec[j].base + part[j] - 1)}
           Cell(j) == taken + Before(ns, j) + i - vec[j].base + 1
           h == CHOOSE j \in Hits : \A k \in Hits : k <= j
<1>1. /\ taken \in Nat /\ N \in Nat /\ mem \in Seq(Cells) /\ vec \in Seq(Iovecs) /\ Len(vec) = 2
      /\ g \in Nat \ {0} /\ Edge(g - 1) <= taken /\ g + 1 = N
  <2>1. /\ taken \in Nat /\ overflow \in Nat /\ First \in Nat \ {0} /\ N = First + overflow + 1
        /\ mem \in Seq(Cells) /\ vec \in Seq(Iovecs) /\ Len(vec) = 2
        /\ Edge(First - 1 + overflow) <= taken
    BY GeometryFacts
  <2> HIDE DEF N
  <2>2. g - 1 = First - 1 + overflow /\ g \in Nat \ {0} /\ g + 1 = N /\ N \in Nat
    BY <2>1
  <2> QED BY <2>1, <2>2
<1>2. vec[1] = Room(g, taken) /\ vec[2] = Room(g + 1, taken)
  BY <1>1 DEF Exact
<1>3. DOMAIN vec = 1 .. 2
  <2>1. DOMAIN vec = 1 .. Len(vec) /\ Len(vec) = 2
    BY <1>1
  <2> QED BY <2>1
<1>5. mem[b] \in Cells /\ DOMAIN mem = 1 .. Len(mem)
  BY <1>1
<1>6. DOMAIN mem[b] = 0 .. (B + HEADER - 1) /\ mem[b][i] \in Int
  BY <1>5 DEF Cells
<1>4. Filled(n)[b][i] = IF Hits = {} THEN mem[b][i] ELSE Cell(h)
  BY <1>5, <1>6 DEF Filled
<1>b. B \in Nat /\ B > 0
  BY Sizes
<1> HIDE DEF N, g
<1> DEFINE two == 2
<1> HIDE DEF two
<1>7. vec = Rooms(g, two, taken)
  <2>1. vec = [j \in 1 .. 2 |-> vec[j]]
    <3>1. vec = [j \in 1 .. Len(vec) |-> vec[j]] /\ Len(vec) = 2
      BY <1>1
    <3> QED BY <3>1
  <2>2. ASSUME NEW j \in 1 .. 2 PROVE vec[j] = Room(g + j - 1, taken)
    <3>1. CASE j = 1
      <4>1. g + j - 1 = g
        BY <1>1, <3>1
      <4> QED BY <1>2, <3>1, <4>1
    <3>2. CASE j = 2
      <4>1. g + j - 1 = g + 1
        BY <1>1, <3>2
      <4> QED BY <1>2, <3>2, <4>1
    <3> QED BY <3>1, <3>2
  <2> QED BY <2>1, <2>2 DEF Rooms, two
<1>8. /\ ns \in [1 .. two -> Int]
      /\ \A k \in 0 .. two : Sums(ns)[k] = Max2(0, Edge(g - 1 + k) - taken)
  <2>1. two \in Nat /\ taken \in Int
    BY <1>1 DEF two
  <2>2. /\ Lens(Rooms(g, two, taken)) \in [1 .. two -> Int]
        /\ \A k \in 0 .. two : Sums(Lens(Rooms(g, two, taken)))[k] = Max2(0, Edge(g - 1 + k) - taken)
    BY <1>1, <2>1, RoomsLens
  <2> QED BY <1>7, <2>2
<1> DEFINE E(j) == Edge(g - 1 + (j - 1))
<1>9. ASSUME NEW j \in 1 .. 2
      PROVE  /\ E(j) \in Nat /\ vec[j].id = g + j - 1 /\ vec[j].base = Clamp(taken - E(j))
             /\ Before(ns, j) = Max2(0, E(j) - taken)
             /\ part[j] = Min2(B - Clamp(taken - E(j)), Max2(0, n - Max2(0, E(j) - taken)))
             /\ Edge((g + j - 1) - 1) = E(j)
  <2>1. j \in Nat \ {0} /\ j \in 1 .. two /\ two \in Nat /\ j - 1 \in 0 .. two
        /\ (g + j - 1) - 1 = g - 1 + (j - 1)
    BY <1>1 DEF two
  <2>2. E(j) \in Nat
    BY <1>1, <2>1, EdgeAt
  <2>3. vec[j] = Room(g + j - 1, taken)
    BY <1>7, <2>1 DEF Rooms
  <2>4. vec[j].id = g + j - 1 /\ vec[j].base = Clamp(taken - E(j)) /\ vec[j].len = B - Clamp(taken - E(j))
    <3> DEFINE a == g + j - 1
    <3>3. a - 1 = g - 1 + (j - 1)
      BY <2>1, Zenon
    <3>4. Edge(a - 1) = E(j)
      BY <3>3, Zenon
    <3>1. vec[j] = Room(a, taken) /\ Edge(a - 1) = E(j)
      BY <2>3, <3>4, Zenon
    <3> HIDE DEF a, E
    <3>2. vec[j].id = a /\ vec[j].base = Clamp(taken - E(j)) /\ vec[j].len = B - Clamp(taken - E(j))
      BY <3>1 DEF Room
    <3> QED BY <3>2 DEF a
  <2>5. ns[j] = B - Clamp(taken - E(j))
    BY <1>3, <2>4 DEF Lens
  <2>6. Before(ns, j) = Max2(0, E(j) - taken)
    BY <1>8, <2>1 DEF Before
  <2>7. part[j] = Min2(ns[j], Max2(0, n - Sums(ns)[j - 1]))
    <3> HIDE DEF ns
    <3>1. n \in Int
      OBVIOUS
    <3> QED BY <1>8, <2>1, <3>1, SharesOf
  <2>8. Sums(ns)[j - 1] = Max2(0, E(j) - taken)
    BY <2>6 DEF Before
  <2> HIDE DEF ns, part, E
  <2> QED BY <2>1, <2>2, <2>4, <2>5, <2>6, <2>7, <2>8 DEF E
<1> HIDE DEF E, ns, part
<1>10. ASSUME NEW j \in Hits
       PROVE  /\ j \in 1 .. 2 /\ b = g + j - 1 /\ E(j) = Edge(b - 1)
              /\ Cell(j) = E(j) + i + 1 /\ E(j) + i >= taken
  <2>1. j \in 1 .. 2 /\ vec[j].id = b /\ i \in vec[j].base .. (vec[j].base + part[j] - 1)
    BY <1>3
  <2>2. b = g + j - 1 /\ E(j) = Edge(b - 1)
    <3>1. vec[j].id = g + j - 1 /\ Edge((g + j - 1) - 1) = E(j)
      BY <1>9, <2>1
    <3>2. b = g + j - 1
      BY <2>1, <3>1, Zenon
    <3>3. Edge(b - 1) = Edge((g + j - 1) - 1)
      BY <3>2, Zenon
    <3>4. Edge((g + j - 1) - 1) = E(j)
      BY <3>1, Zenon
    <3> QED BY <3>2, <3>3, <3>4, Zenon
  <2> DEFINE e == E(j)
             x == Clamp(taken - e)
             y == Min2(B - x, Max2(0, n - Max2(0, e - taken)))
  <2>3. e \in Nat /\ i \in x .. (x + y - 1)
    BY <1>9, <2>1
  <2>4. Cell(j) = taken + Max2(0, e - taken) + i - x + 1
    BY <1>9, <2>1
  <2> HIDE DEF e, Cell
  <2>5. taken + Max2(0, e - taken) + i - x + 1 = e + i + 1 /\ e + i >= taken
    BY <1>1, <1>b, <2>3 DEF Clamp, Max2, Min2
  <2> QED BY <2>1, <2>2, <2>4, <2>5 DEF e
<1>11. Hits # {} => /\ h \in Hits
                    /\ Filled(n)[b][i] = Edge(b - 1) + i + 1 /\ Edge(b - 1) + i >= taken
  <2> SUFFICES ASSUME Hits # {}
               PROVE  /\ h \in Hits
                      /\ Filled(n)[b][i] = Edge(b - 1) + i + 1 /\ Edge(b - 1) + i >= taken
    OBVIOUS
  <2>1. PICK j \in Hits : TRUE
    OBVIOUS
  <2>2. \A k \in Hits : k = j
    <3>1. ASSUME NEW k \in Hits PROVE k = j
      <4>1. k \in 1 .. 2 /\ j \in 1 .. 2 /\ g + k - 1 = g + j - 1
        BY <1>10
      <4> QED BY <1>1, <4>1
    <3> QED BY <3>1
  <2>3. h \in Hits
    <3>1. j \in 1 .. 2
      BY <1>10
    <3>2. j \in Hits /\ \A k \in Hits : k <= j
      BY <2>2, <3>1
    <3> HIDE DEF Hits
    <3> QED BY <3>2
  <2>4. Filled(n)[b][i] = Cell(h)
    BY <1>4
  <2> HIDE DEF h, Hits, Cell
  <2> QED BY <1>10, <2>3, <2>4
<1>12. Edge(b - 1) \in Nat
  <2>1. b - 1 \in Nat
    OBVIOUS
  <2> QED BY <2>1, EdgeSteps
<1>13. ASSUME i < B, Edge(b - 1) + i >= taken, Edge(b - 1) + i < taken + n PROVE Hits # {}
  <2> DEFINE j == b - g + 1
  <2>1. b >= g
    <3> SUFFICES ASSUME b < g PROVE FALSE
      BY <1>1
    <3>1. b - 1 \in Nat /\ g - 1 \in Nat /\ b - 1 < g - 1
      BY <1>1
    <3>2. Edge(b - 1) + B <= Edge(g - 1) /\ Edge(g - 1) \in Nat
      BY <3>1, EdgeGrows, EdgeSteps
    <3> QED BY <1>1, <1>12, <1>13, <1>b, <3>2
  <2>2. j \in 1 .. 2 /\ b = g + j - 1
    BY <1>1, <2>1 DEF N
  <2> HIDE DEF j
  <2> DEFINE e == E(j)
             x == Clamp(taken - e)
             y == Min2(B - x, Max2(0, n - Max2(0, e - taken)))
  <2>3. e \in Nat /\ e = Edge(b - 1) /\ vec[j].id = b /\ vec[j].base = x /\ part[j] = y
    <3>1. /\ E(j) \in Nat /\ vec[j].id = g + j - 1 /\ vec[j].base = x /\ part[j] = y
          /\ Edge((g + j - 1) - 1) = E(j)
      <4>1. j \in 1 .. 2
        BY <2>2
      <4> QED BY <1>9, <4>1
    <3>2. Edge(b - 1) = Edge((g + j - 1) - 1)
      BY <2>2, Zenon
    <3> QED BY <2>2, <3>1, <3>2, Zenon
  <2> HIDE DEF e
  <2>5. x \in Int /\ y \in Int
    <3>1. /\ e \in Int /\ taken \in Int /\ B \in Int /\ n \in Int
      BY <1>1, <1>b, <2>3
    <3>2. x \in Int
      BY <3>1 DEF Clamp, Max2, Min2
    <3> HIDE DEF x
    <3>3. y \in Int
      BY <3>1, <3>2 DEF Max2, Min2
    <3> QED BY <3>2, <3>3
  <2>8. e + i >= taken /\ e + i < taken + n /\ i < B /\ e \in Nat /\ taken \in Nat /\ i \in Nat
    BY <1>1, <1>13, <1>b, <2>3, Sizes
  <2>4. x <= i /\ i <= x + y - 1
    <3>1. CASE e <= taken
      BY <1>b, <2>8, <3>1 DEF Clamp, Max2, Min2
    <3>2. CASE e > taken
      BY <1>b, <2>8, <3>2 DEF Clamp, Max2, Min2
    <3> QED BY <2>8, <3>1, <3>2
  <2> HIDE DEF x, y
  <2>6. i \in x .. (x + y - 1)
    BY <2>4, <2>5
  <2>7. j \in Hits
    BY <1>3, <2>2, <2>3, <2>6
  <2> QED BY <2>7
<1>14. Filled(n)[b][i] \in Int
  <2>1. CASE Hits = {}
    BY <1>4, <1>6, <2>1
  <2>2. CASE Hits # {}
    BY <1>11, <1>12, <2>2
  <2> QED BY <2>1, <2>2
<1> HIDE DEF Hits, h, Cell
<1>15. ASSUME i < B, Edge(b - 1) + i < taken PROVE Filled(n)[b][i] = mem[b][i]
  <2>1. ~(Edge(b - 1) + i >= taken)
    BY <1>1, <1>12, <1>15
  <2> QED BY <1>4, <1>11, <2>1
<1> QED BY <1>11, <1>13, <1>14, <1>15

LEMMA RoomsSum ==
  ASSUME NEW f \in Nat \ {0}, NEW m \in Nat, NEW tk \in Int,
         Edge(f - 1) <= tk, tk <= Edge(f - 1 + m)
  PROVE  Sum(Lens(Rooms(f, m, tk))) = Edge(f - 1 + m) - tk
<1> DEFINE ns == Lens(Rooms(f, m, tk))
           e == Edge(f - 1 + m)
<1>1. ns \in [1 .. m -> Int] /\ \A i \in 0 .. m : Sums(ns)[i] = Max2(0, Edge(f - 1 + i) - tk)
  BY RoomsLens
<1>2. e \in Nat
  <2>1. f - 1 + m \in Nat
    OBVIOUS
  <2> QED BY <2>1, EdgeSteps
<1> HIDE DEF ns
<1>3. Len(ns) = m /\ m \in 0 .. m
  BY <1>1
<1>4. Sum(ns) = Max2(0, e - tk)
  BY <1>1, <1>3 DEF Sum
<1> HIDE DEF e
<1>5. Max2(0, e - tk) = e - tk
  BY <1>2 DEF Max2, e
<1> QED BY <1>4, <1>5 DEF ns, e

LEMMA VecRooms ==
  ASSUME Geometry, Exact(vec, Len(mem), taken), NEW two, two = 2
  PROVE  /\ vec = Rooms(Len(mem) - 1, two, taken) /\ Len(mem) - 1 \in Nat \ {0}
         /\ Edge(Len(mem) - 1 - 1) <= taken /\ taken <= Edge(Len(mem)) /\ Len(mem) \in Nat
<1> DEFINE N == Len(mem)
           g == N - 1
<1>1. /\ overflow \in Nat /\ First \in Nat \ {0} /\ N = First + overflow + 1
      /\ vec \in Seq(Iovecs) /\ Len(vec) = 2
      /\ Edge(First - 1 + overflow) <= taken /\ taken <= Edge(First + overflow + 1)
  BY GeometryFacts
<1>2. g - 1 = First - 1 + overflow /\ g \in Nat \ {0} /\ g + 1 = N /\ N \in Nat
      /\ First + overflow + 1 = N
  <2> HIDE DEF N
  <2> QED BY <1>1
<1>3. vec[1] = Room(g, taken) /\ vec[2] = Room(g + 1, taken)
  BY <1>2 DEF Exact
<1>4. Edge(g - 1) <= taken /\ taken <= Edge(N)
  BY <1>1, <1>2
<1> HIDE DEF g, N
<1>5. vec = [j \in 1 .. two |-> vec[j]]
  <2>1. vec = [j \in 1 .. Len(vec) |-> vec[j]] /\ Len(vec) = two
    BY <1>1
  <2> QED BY <2>1
<1>6. ASSUME NEW j \in 1 .. 2 PROVE vec[j] = Room(g + j - 1, taken)
  <2>1. CASE j = 1
    <3>1. g + j - 1 = g
      BY <1>2, <2>1
    <3> QED BY <1>3, <2>1, <3>1
  <2>2. CASE j = 2
    <3>1. g + j - 1 = g + 1
      BY <1>2, <2>2
    <3> QED BY <1>3, <2>2, <3>1
  <2> QED BY <2>1, <2>2
<1>7. vec = Rooms(g, two, taken)
  BY <1>5, <1>6 DEF Rooms
<1> QED BY <1>2, <1>4, <1>7 DEF g, N

LEMMA VecSum ==
  ASSUME Geometry, Exact(vec, Len(mem), taken)
  PROVE  Sum(Lens(vec)) \in Int
<1> DEFINE two == 2
<1>1. /\ vec = Rooms(Len(mem) - 1, two, taken) /\ Len(mem) - 1 \in Nat \ {0}
      /\ Edge(Len(mem) - 1 - 1) <= taken
  BY VecRooms
<1>2. two \in Nat /\ taken \in Int
  BY GeometryFacts
<1> DEFINE g == Len(mem) - 1
           ns == Lens(Rooms(g, two, taken))
<1> HIDE DEF g, two
<1>3. ns \in [1 .. two -> Int]
  BY <1>1, <1>2, RoomsLens DEF g
<1>4. ns \in Seq(Int) /\ Len(ns) \in 0 .. Len(ns)
  <2> HIDE DEF ns
  <2> QED BY <1>2, <1>3
<1>5. Sums(ns)[Len(ns)] \in Int
  <2> HIDE DEF ns
  <2> QED BY <1>4, SumsType
<1> QED BY <1>1, <1>5 DEF Sum, g

LEMMA FilledKeeps ==
  ASSUME NEW n \in Nat, Geometry, Linear, Exact(vec, Len(mem), taken), taken + n <= Edge(Len(mem))
  PROVE  /\ Filled(n) \in Seq(Cells) /\ Len(Filled(n)) = Len(mem)
         /\ Tape(Filled(n), taken + n)
<1> DEFINE ms == Filled(n)
           N == Len(mem)
<1>1. mem \in Seq(Cells) /\ taken \in Nat
  BY GeometryFacts
<1>2. N \in Nat /\ DOMAIN mem = 1 .. N /\ \A b \in 1 .. N : mem[b] \in Cells
  BY <1>1
<1>3. ASSUME NEW b \in 1 .. N PROVE ms[b] \in Cells
  <2>1. DOMAIN mem[b] = 0 .. (B + HEADER - 1)
    BY <1>2 DEF Cells
  <2>2. ms[b] = [i \in DOMAIN mem[b] |-> ms[b][i]]
    BY <1>2 DEF Filled
  <2>3. \A i \in 0 .. (B + HEADER - 1) : ms[b][i] \in Int
    BY FilledCell
  <2> HIDE DEF ms
  <2> QED BY <2>1, <2>2, <2>3 DEF Cells
<1>4. ms = [b \in 1 .. N |-> ms[b]]
  BY <1>2 DEF Filled
<1>5. ASSUME NEW b \in 1 .. N, NEW p \in 0 .. (B - 1), Edge(b - 1) + p < taken + n
      PROVE  ms[b][p] = Edge(b - 1) + p + 1
  <2>1. p \in 0 .. (B + HEADER - 1) /\ p < B
    BY Sizes
  <2>2. Edge(b - 1) \in Nat
    <3>1. b - 1 \in Nat
      OBVIOUS
    <3> QED BY <3>1, EdgeSteps
  <2>3. CASE Edge(b - 1) + p < taken
    <3>1. ms[b][p] = mem[b][p]
      BY <2>1, <2>3, FilledCell
    <3>2. mem[b][p] = Edge(b - 1) + p + 1
      BY <2>3 DEF Linear, Tape
    <3> QED BY <3>1, <3>2
  <2>4. CASE ~(Edge(b - 1) + p < taken)
    <3>1. Edge(b - 1) + p >= taken
      BY <1>1, <2>2, <2>4
    <3> QED BY <1>5, <2>1, <3>1, FilledCell
  <2> QED BY <2>3, <2>4
<1> HIDE DEF ms, N
<1>6. ms \in [1 .. N -> Cells]
  BY <1>3, <1>4
<1>7. ms \in Seq(Cells) /\ Len(ms) = N
  BY <1>2, <1>6
<1>8. Tape(ms, taken + n)
  BY <1>5, <1>7 DEF Tape
<1> QED BY <1>7, <1>8 DEF ms, N

LEMMA ReadvKeeps ==
  ASSUME TwoIovecs, Geometry, Linear, Vectors, pc = "recv", pc' = "parse", Sent \in Int,
         NEW n \in Nat, Readv(n)
  PROVE  Geometry' /\ Linear' /\ Vectors'
<1> DEFINE N == Len(mem)
           f == First
           m == overflow + 2
           two == 2
<1>1. /\ taken \in Nat /\ offset \in 0 .. taken /\ Pos \in Nat /\ Pos <= taken
      /\ overflow \in Nat /\ f \in Nat \ {0} /\ N = f + overflow + 1
      /\ mem \in Seq(Cells) /\ vec \in Seq(Iovecs) /\ Len(vec) = 2
      /\ cbufs = Row(f, m, Pos, taken)
      /\ Edge(f - 1 + overflow) <= taken /\ taken <= Edge(f + overflow + 1)
      /\ Edge(f - 1) <= Pos /\ Pos < Edge(f)
  BY GeometryFacts
<1>2. Exact(vec, N, taken) /\ Matches(vec, N, taken)
  BY DEF Vectors
<1>3. /\ n >= 1 /\ n <= Sum(Lens(vec))
      /\ mem' = Filled(n) /\ cbufs' = StepForwardTail(n) /\ taken' = taken + n /\ offset' = offset + n
      /\ vec' = vec /\ overflow' = overflow
  <2>1. n \in 1 .. Min2(Sent - taken, Sum(Lens(vec)))
    BY DEF Readv
  <2>2. n <= Sum(Lens(vec))
    <3>1. Sum(Lens(vec)) \in Int
      BY <1>2, VecSum
    <3> DEFINE x == Sum(Lens(vec))
               y == Sent - taken
    <3>2. n \in 1 .. Min2(y, x) /\ x \in Int /\ y \in Int
      BY <1>1, <2>1, <3>1
    <3> HIDE DEF x, y
    <3>3. n <= x
      BY <3>2 DEF Min2
    <3> QED BY <3>3 DEF x
  <2> QED BY <2>1, <2>2 DEF Readv
<1>4. taken + n <= Edge(N)
  <2>1. /\ vec = Rooms(Len(mem) - 1, two, taken) /\ Len(mem) - 1 \in Nat \ {0}
        /\ Edge(Len(mem) - 1 - 1) <= taken /\ taken <= Edge(Len(mem)) /\ Len(mem) \in Nat
    BY <1>2, VecRooms
  <2> DEFINE g == N - 1
  <2>2. g \in Nat \ {0} /\ two \in Nat /\ taken \in Int /\ g - 1 + two = N
    BY <1>1, <2>1
  <2> HIDE DEF g, two
  <2>3. Sum(Lens(Rooms(g, two, taken))) = Edge(g - 1 + two) - taken
    <3>1. Edge(g - 1) <= taken /\ taken <= Edge(g - 1 + two)
      BY <2>1, <2>2 DEF g
    <3> QED BY <2>2, <3>1, RoomsSum
  <2>4. Sum(Lens(vec)) = Edge(N) - taken
    BY <2>1, <2>2, <2>3 DEF g
  <2>5. Edge(N) \in Nat
    BY <2>1, EdgeSteps
  <2> QED BY <1>1, <1>3, <2>4, <2>5
<1>5. mem' \in Seq(Cells) /\ Len(mem') = N /\ Tape(mem', taken')
  BY <1>2, <1>3, <1>4, FilledKeeps
<1>6. Pos' = Pos /\ First' = First /\ taken' \in Nat /\ offset' \in 0 .. taken'
  <2>1. taken' = taken + n /\ offset' = offset + n /\ overflow' = overflow /\ Len(mem') = Len(mem)
    BY <1>3, <1>5
  <2>2. taken \in Nat /\ offset \in 0 .. taken
    BY <1>1
  <2>3. (taken + n) - (offset + n) = taken - offset
    BY <2>2
  <2>4. Pos' = (taken + n) - (offset + n)
    BY <2>1 DEF Pos
  <2>5. Pos' = Pos
    BY <2>3, <2>4 DEF Pos
  <2>6. First' = First
    BY <2>1 DEF First
  <2> QED BY <2>1, <2>2, <2>5, <2>6
<1>7. cbufs' = Row(f, m, Pos, taken')
  <2>1. Edge(f - 1) \in Nat
    <3>1. f - 1 \in Nat
      BY <1>1
    <3> QED BY <3>1, EdgeSteps
  <2>2. Edge(f - 1) <= taken /\ taken \in Int /\ Pos \in Int /\ m \in Nat
    BY <1>1, <2>1
  <2>3. StepForwardTail(n) = Row(f, m, Pos, taken + n)
    <3> HIDE DEF f, m
    <3> QED BY <1>1, <2>2, TailSteps
  <2> QED BY <1>3, <2>3
<1>8. cbufs' \in Seq(Bufs)
  <2>1. m \in Nat /\ Pos \in Int /\ taken' \in Int /\ f \in Nat \ {0}
    BY <1>1, <1>6
  <2> HIDE DEF m, f
  <2> QED BY <1>7, <2>1, RowIn
<1>9. Edge(f - 1 + overflow) <= taken' /\ taken' <= Edge(f + overflow + 1)
  <2>1. Edge(f - 1 + overflow) \in Nat
    <3>1. f - 1 + overflow \in Nat
      BY <1>1
    <3> QED BY <3>1, EdgeSteps
  <2>2. Edge(N) = Edge(f + overflow + 1)
    BY <1>1
  <2> QED BY <1>1, <1>3, <1>4, <2>1, <2>2
<1>10. Shape(Now', f, Pos, taken')
  <2>1. Now' = [mem |-> mem', cbufs |-> cbufs', vec |-> vec, overflow |-> overflow]
    BY <1>3 DEF Now
  <2>2. [mem |-> mem', cbufs |-> cbufs', vec |-> vec, overflow |-> overflow] \in Containers
    <3>1. mem' \in Seq(Cells) /\ vec \in Seq(Iovecs) /\ overflow \in Nat
      BY <1>1, <1>5
    <3> QED BY <1>8, <3>1, MakeContainer
  <2> DEFINE c == Now'
  <2>3. c \in Containers /\ c.mem = mem' /\ c.cbufs = cbufs' /\ c.vec = vec /\ c.overflow = overflow
    BY <2>1, <2>2
  <2>4. Len(mem') = f + overflow + 1 /\ Len(vec) = 2
    BY <1>1, <1>5
  <2> HIDE DEF c
  <2>5. Shape(c, f, Pos, taken')
    BY <1>7, <1>9, <2>3, <2>4 DEF Shape
  <2> QED BY <2>5 DEF c
<1>11. Geometry'
  BY <1>1, <1>6, <1>10 DEF Geometry
<1>12. Linear'
  BY <1>5 DEF Linear
<1>13. Vectors'
  <2>1. Len(mem') = N /\ vec' = vec /\ taken' = taken + n
    BY <1>3, <1>5
  <2>2. taken' < Edge(N - 1) => vec[2] = Room(N, taken')
    <3> SUFFICES ASSUME taken' < Edge(N - 1) PROVE vec[2] = Room(N, taken')
      OBVIOUS
    <3>1. vec[2] = Room(N, taken)
      BY <1>2 DEF Exact
    <3>2. Edge(N - 1) \in Nat
      <4>1. N - 1 \in Nat
        BY <1>1
      <4> QED BY <4>1, EdgeSteps
    <3>3. Clamp(taken - Edge(N - 1)) = 0 /\ Clamp(taken' - Edge(N - 1)) = 0
      <4>1. taken - Edge(N - 1) \in Int /\ taken - Edge(N - 1) <= 0
            /\ taken' - Edge(N - 1) \in Int /\ taken' - Edge(N - 1) <= 0
        BY <1>1, <2>1, <3>2
      <4> QED BY <4>1, ClampFacts
    <3>4. Room(N, taken) = Room(N, taken')
      BY <3>3 DEF Room
    <3> QED BY <3>1, <3>4
  <2>3. vec[1].id = N - 1 /\ vec[2].id = N
    BY <1>2 DEF Matches
  <2>4. Matches(vec', Len(mem'), taken')
    BY <2>1, <2>2, <2>3 DEF Matches
  <2> QED BY <2>4 DEF Vectors
<1> QED BY <1>11, <1>12, <1>13

LEMMA KeptTape ==
  ASSUME NEW ms \in Seq(Cells), NEW ns \in Seq(Cells), NEW tk \in Int,
         Kept(ms, ns), Tape(ms, tk), tk <= Edge(Len(ms))
  PROVE  Tape(ns, tk)
<1> DEFINE N == Len(ms)
<1>1. N \in Nat /\ Len(ns) \in Nat
  OBVIOUS
<1>2. ASSUME NEW b \in 1 .. Len(ns), NEW p \in 0 .. (B - 1), Edge(b - 1) + p < tk
      PROVE  ns[b][p] = Edge(b - 1) + p + 1
  <2>1. b \in 1 .. N
    <3> SUFFICES ASSUME b > N PROVE FALSE
      BY <1>1
    <3>1. Edge(N) <= Edge(b - 1) /\ Edge(b - 1) \in Nat /\ Edge(N) \in Nat
      <4>1. b - 1 \in Nat /\ (N = b - 1 \/ N < b - 1)
        BY <1>1
      <4>2. Edge(b - 1) \in Nat /\ Edge(N) \in Nat /\ B \in Nat
        BY <1>1, <4>1, EdgeSteps, Sizes
      <4>3. N < b - 1 => Edge(N) + B <= Edge(b - 1)
        BY <1>1, <4>1, EdgeGrows
      <4> QED BY <4>1, <4>2, <4>3
    <3>2. tk <= Edge(N)
      OBVIOUS
    <3> HIDE DEF N
    <3> QED BY <1>2, <3>1, <3>2
  <2>2. ns[b] = ms[b]
    BY <2>1 DEF Kept
  <2>3. ms[b][p] = Edge(b - 1) + p + 1
    BY <1>2, <2>1 DEF Tape
  <2> QED BY <2>2, <2>3
<1> QED BY <1>2 DEF Tape

(* A header that crosses the edge is completed behind it: the tape itself  *)
(* is as it was.                                                           *)
LEMMA JoinedKeeps ==
  ASSUME Geometry, Linear
  PROVE  Joined \in Seq(Cells) /\ Len(Joined) = Len(mem) /\ Tape(Joined, taken)
<1> DEFINE N == Len(mem)
           f == cbufs[1]
           over == HEADER - (B - f.offset)
           W == [i \in DOMAIN mem[f.id] |->
                   IF i >= B /\ i < B + over THEN mem[cbufs[2].id][i - B] ELSE mem[f.id][i]]
<1>1. /\ taken \in Nat /\ overflow \in Nat /\ First \in Nat \ {0} /\ N = First + overflow + 1
      /\ mem \in Seq(Cells) /\ cbufs = Row(First, overflow + 2, Pos, taken) /\ Pos \in Nat
  BY GeometryFacts
<1>2. N \in Nat /\ DOMAIN mem = 1 .. N /\ \A b \in 1 .. N : mem[b] \in Cells
  BY <1>1
<1>3. CASE ~IsEdge(f.offset)
  <2>1. Joined = mem
    BY <1>3, Zenon DEF Joined
  <2> QED BY <1>1, <2>1 DEF Linear
<1>4. CASE IsEdge(f.offset)
  <2>1. Joined = [mem EXCEPT ![f.id] = W]
    <3>1. Joined = [mem EXCEPT ![f.id] =
             [i \in DOMAIN @ |-> IF i >= B /\ i < B + over THEN mem[cbufs[2].id][i - B] ELSE @[i]]]
      BY <1>4, Zenon DEF Joined
    <3> HIDE DEF f, over
    <3> QED BY <3>1
  <2>2. f.id = First /\ cbufs[2].id = First + 1 /\ f.offset \in 0 .. B
    <3> DEFINE m == overflow + 2
    <3>1. m \in Nat /\ 1 \in 1 .. m /\ 2 \in 1 .. m /\ First + 1 - 1 = First /\ First + 2 - 1 = First + 1
      BY <1>1
    <3>2. cbufs = Row(First, m, Pos, taken)
      BY <1>1
    <3> HIDE DEF m
    <3>3. cbufs[1] = Buf(First + 1 - 1, Pos, taken) /\ cbufs[2] = Buf(First + 2 - 1, Pos, taken)
      BY <3>1, <3>2 DEF Row
    <3>4. cbufs[1].id = First /\ cbufs[2].id = First + 1
      BY <3>1, <3>3 DEF Buf
    <3>5. cbufs \in [1 .. m -> Bufs]
      <4>1. Pos \in Int /\ taken \in Int /\ First \in Nat \ {0}
        BY <1>1
      <4> QED BY <3>1, <3>2, <4>1, RowShape
    <3>6. cbufs[1] \in Bufs
      BY <3>1, <3>5
    <3>7. cbufs[1].offset \in 0 .. B
      BY <3>6 DEF Bufs
    <3> QED BY <3>4, <3>7
  <2>3. First \in 1 .. N /\ First + 1 \in 1 .. N
    <3> HIDE DEF N
    <3> QED BY <1>1
  <2> DEFINE u == mem[First]
             v == mem[First + 1]
  <2>4. u \in Cells /\ v \in Cells
    BY <1>2, <2>3
  <2>5. W = [i \in DOMAIN u |-> IF i >= B /\ i < B + over THEN v[i - B] ELSE u[i]]
    BY <2>2
  <2>6. DOMAIN u = 0 .. (B + HEADER - 1) /\ u \in [0 .. (B + HEADER - 1) -> Int]
        /\ v \in [0 .. (B + HEADER - 1) -> Int]
    BY <2>4 DEF Cells
  <2>7. over \in Int /\ over <= HEADER /\ B \in Nat /\ HEADER \in Nat
    <3>1. B \in Nat /\ HEADER \in Nat
      BY Sizes
    <3> QED BY <2>2, <3>1
  <2> HIDE DEF u, v, W, over, f
  <2>8. W \in Cells
    <3>1. ASSUME NEW i \in 0 .. (B + HEADER - 1)
          PROVE  (IF i >= B /\ i < B + over THEN v[i - B] ELSE u[i]) \in Int
      <4>1. CASE i >= B /\ i < B + over
        <5>1. i - B \in 0 .. (B + HEADER - 1)
          BY <2>7, <4>1
        <5> QED BY <2>6, <4>1, <5>1
      <4>2. CASE ~(i >= B /\ i < B + over)
        BY <2>6, <4>2
      <4> QED BY <4>1, <4>2
    <3> QED BY <2>5, <2>6, <3>1 DEF Cells
  <2>9. ASSUME NEW p \in 0 .. (B - 1) PROVE W[p] = u[p]
    <3>1. p \in DOMAIN u /\ ~(p >= B)
      BY <2>6, <2>7
    <3> QED BY <2>5, <3>1
  <2> DEFINE js == Joined
  <2>10. js = [b \in 1 .. N |-> IF b = First THEN W ELSE mem[b]]
    BY <1>2, <2>1, <2>2
  <2> HIDE DEF js
  <2>11. js \in [1 .. N -> Cells]
    <3> HIDE DEF N
    <3> QED BY <1>2, <2>8, <2>10
  <2>12. js \in Seq(Cells) /\ Len(js) = N
    <3> HIDE DEF N
    <3> QED BY <1>2, <2>11
  <2>13. ASSUME NEW b \in 1 .. N, NEW p \in 0 .. (B - 1), Edge(b - 1) + p < taken
         PROVE  js[b][p] = Edge(b - 1) + p + 1
    <3>1. mem[b][p] = Edge(b - 1) + p + 1
      BY <2>13 DEF Linear, Tape
    <3>2. CASE b = First
      <4>1. js[b] = W /\ mem[b] = u
        BY <2>10, <3>2 DEF u
      <4> QED BY <2>9, <3>1, <4>1
    <3>3. CASE b # First
      <4>1. js[b] = mem[b]
        BY <2>10, <3>3
      <4> QED BY <3>1, <4>1
    <3> QED BY <3>2, <3>3
  <2>14. Tape(js, taken)
    BY <2>12, <2>13 DEF Tape
  <2> QED BY <2>12, <2>14 DEF js
<1> QED BY <1>3, <1>4

LEMMA UpdatePreserves ==
  ASSUME TwoIovecs, Geometry, Matches(vec, Len(mem), taken),
         NEW m \in Seq(Cells), Len(m) = Len(mem), Tape(m, taken),
         NEW cs, NEW pos \in Nat, cs = Row(First, overflow + 2, pos, taken),
         Pos <= pos, pos <= taken, pos < Edge(First + 2),
         Update(m, cs), taken' = taken, offset' = taken - pos
  PROVE  Geometry' /\ Linear' /\ Vectors' /\ Len(mem) <= Len(mem')
<1>1. /\ taken \in Nat /\ Pos \in Nat
      /\ overflow \in Nat /\ First \in Nat \ {0} /\ Len(mem) = First + overflow + 1
      /\ vec \in Seq(Iovecs) /\ Len(vec) = 2
      /\ Edge(First - 1 + overflow) <= taken /\ taken <= Edge(First + overflow + 1)
      /\ Edge(First - 1) <= Pos
  BY GeometryFacts
<1>2. Edge(First - 1) \in Nat
  <2>1. First - 1 \in Nat
    BY <1>1
  <2> QED BY <2>1, EdgeSteps
<1> DEFINE f == First
<1>3. Len(m) = f + overflow + 1 /\ Matches(vec, Len(m), taken) /\ Edge(f - 1) <= pos
      /\ f \in Nat \ {0} /\ pos \in Int /\ taken \in Int
  BY <1>1, <1>2
<1>4. cs = Row(f, overflow + 2, pos, taken) /\ pos < Edge(f + 2)
      /\ Edge(f - 1 + overflow) <= taken /\ taken <= Edge(f + overflow + 1)
  BY <1>1
<1> HIDE DEF f
<1>5. /\ First' \in Nat \ {0} /\ Shape(Now', First', pos, taken)
      /\ Edge(First' - 1) <= pos /\ pos < Edge(First')
      /\ Kept(m, mem') /\ Exact(vec', Len(mem'), taken)
  BY <1>1, <1>3, <1>4, UpdateKeeps
<1>6. Pos' = pos
  <2>1. Pos' = taken - (taken - pos)
    BY DEF Pos
  <2>2. taken - (taken - pos) = pos
    BY <1>1
  <2> QED BY <2>1, <2>2
<1>7. taken' \in Nat /\ offset' \in 0 .. taken'
  BY <1>1
<1>8. Geometry'
  BY <1>5, <1>6, <1>7 DEF Geometry
<1>9. mem' \in Seq(Cells)
  <2> DEFINE c == Now'
  <2>1. c \in Containers /\ c.mem = mem'
    BY <1>5 DEF Shape, Now
  <2> HIDE DEF c
  <2>2. c.mem \in Seq(Cells)
    BY <2>1 DEF Containers
  <2> QED BY <2>1, <2>2
<1>10. Linear'
  <2>1. taken <= Edge(Len(m))
    BY <1>3, <1>4
  <2>2. Tape(mem', taken)
    BY <1>3, <1>5, <1>9, <2>1, KeptTape
  <2> QED BY <2>2 DEF Linear
<1>11. Vectors'
  <2>1. Exact(vec', Len(mem'), taken')
    BY <1>5
  <2>2. Matches(vec', Len(mem'), taken')
    <3>1. vec'[1] = Room(Len(mem') - 1, taken') /\ vec'[2] = Room(Len(mem'), taken')
      BY <2>1 DEF Exact
    <3>2. Room(Len(mem') - 1, taken').id = Len(mem') - 1 /\ Room(Len(mem'), taken').id = Len(mem')
      BY DEF Room
    <3> QED BY <3>1, <3>2 DEF Matches
  <2> QED BY <2>1, <2>2 DEF Vectors
<1>12. Len(mem) <= Len(mem')
  BY <1>5 DEF Kept
<1> QED BY <1>8, <1>10, <1>11, <1>12
(* One round of the tokenizer.                                             *)
Pdus == [op : {"WRITE", "DATA"}, w : Nat, itt : ITTS, lba : Nat, len : Nat, off : Nat,
         at : Nat, dlength : 0 .. MRDS, final : BOOLEAN]

LEMMA ParseKeeps ==
  ASSUME TwoIovecs, Geometry, Linear, Vectors, stream \in Seq(Pdus), PartialHead \/ ParsedHeader
  PROVE  Geometry' /\ Linear' /\ Vectors' /\ Len(mem) <= Len(mem')
<1>1. /\ taken \in Nat /\ offset \in 0 .. taken /\ Pos \in Nat /\ Pos <= taken
      /\ overflow \in Nat /\ First \in Nat \ {0}
      /\ mem \in Seq(Cells)
      /\ cbufs = Row(First, overflow + 2, Pos, taken)
      /\ Edge(First - 1) <= Pos /\ Pos < Edge(First)
  BY GeometryFacts
<1>2. Matches(vec, Len(mem), taken)
  BY DEF Vectors
<1>3. /\ Edge(First) \in Nat /\ Edge(First + 1) = Edge(First) + B /\ Edge(First + 2) = Edge(First) + B + B
      /\ B \in Nat /\ B > 0 /\ HEADER \in Nat
  <2> DEFINE f == First
  <2>1. f \in Nat /\ f + 1 \in Nat /\ f + 2 = f + 1 + 1
    BY <1>1
  <2> HIDE DEF f
  <2>2. Edge(f) \in Nat /\ Edge(f + 1) = Edge(f) + B /\ Edge(f + 1 + 1) = Edge(f + 1) + B
    BY <2>1, EdgeSteps
  <2>3. B \in Nat /\ B > 0 /\ HEADER \in Nat
    BY Sizes
  <2>4. Edge(f + 2) = Edge(f) + B + B
    BY <2>1, <2>2
  <2> QED BY <2>2, <2>3, <2>4 DEF f
<1>4. Pos < Edge(First + 2)
  BY <1>1, <1>3
<1>5. taken - Pos = offset
  BY <1>1 DEF Pos
<1>6. Tape(mem, taken) /\ Joined \in Seq(Cells) /\ Len(Joined) = Len(mem) /\ Tape(Joined, taken)
  BY JoinedKeeps DEF Linear
<1>7. CASE PartialHead
  <2>1. Update(mem, cbufs) /\ taken' = taken /\ offset' = taken - Pos
    BY <1>5, <1>7 DEF PartialHead
  <2>2. Pos <= Pos
    BY <1>1
  <2> QED BY <1>1, <1>2, <1>4, <1>6, <2>1, <2>2, UpdatePreserves
<1>8. CASE ParsedHeader
  <2> DEFINE starts == {k \in DOMAIN stream : stream[k].at + 1 = HeaderCells(Joined, cbufs[1].id, cbufs[1].offset)[1]}
             k == CHOOSE p \in starts : TRUE
             n == GetPDULength(stream[k])
  <2>1. /\ starts # {} /\ taken' = taken
        /\ \/ Update(Joined, cbufs) /\ offset' = offset
           \/ n <= offset /\ Token(k, cbufs[1])
    BY <1>8 DEF ParsedHeader
  <2>2. k \in DOMAIN stream
    <3>1. k \in starts
      BY <2>1
    <3> HIDE DEF k
    <3> QED BY <3>1
  <2>3. stream[k] \in Pdus
    <3> HIDE DEF k
    <3> QED BY <2>2
  <2>4. n \in Nat /\ n <= 2 * B
    <3> DEFINE q == stream[k]
    <3>1. q.dlength \in 0 .. MRDS
      BY <2>3 DEF Pdus
    <3>2. MRDS \in Nat
      BY Sizes
    <3>3. n = HEADER + q.dlength
      BY DEF GetPDULength
    <3> HIDE DEF q, n
    <3> QED BY <1>3, <3>1, <3>2, <3>3 DEF TwoIovecs
  <2>5. CASE Update(Joined, cbufs) /\ offset' = offset
    <3>1. Pos <= Pos /\ offset' = taken - Pos
      BY <1>1, <1>5, <2>5
    <3> QED BY <1>1, <1>2, <1>4, <1>6, <2>1, <2>5, <3>1, UpdatePreserves
  <2>6. CASE n <= offset /\ Token(k, cbufs[1])
    <3>1. offset' = offset - n /\ Update(Joined, StepForwardOffset(n))
      BY <2>6 DEF Token
    <3> HIDE DEF n, k
    <3>2. /\ Pos + n \in Nat /\ Pos <= Pos + n /\ Pos + n <= taken /\ Pos + n < Edge(First + 2)
          /\ offset' = taken - (Pos + n) /\ Pos \in Int /\ taken \in Int /\ overflow + 2 \in Nat
      BY <1>1, <1>3, <1>5, <2>4, <2>6, <3>1
    <3>3. StepForwardOffset(n) = Row(First, overflow + 2, Pos + n, taken)
      <4> DEFINE f == First
                 m == overflow + 2
      <4>1. /\ f \in Nat \ {0} /\ m \in Nat /\ Edge(f - 1) <= Pos /\ cbufs = Row(f, m, Pos, taken)
        BY <1>1, <3>2
      <4> HIDE DEF f, m
      <4>2. StepForwardOffset(n) = Row(f, m, Pos + n, taken)
        BY <2>4, <3>2, <4>1, OffsetSteps
      <4> QED BY <4>2 DEF f, m
    <3>4. /\ Geometry' /\ Linear' /\ Vectors' /\ Len(mem) <= Len(mem')
      BY <1>1, <1>2, <1>6, <2>1, <3>1, <3>2, <3>3, UpdatePreserves
    <3> QED BY <3>4
  <2> QED BY <2>1, <2>5, <2>6
<1> QED BY <1>7, <1>8
-----------------------------------------------------------------------------
(* What the variables that the buffers do not decide may hold.             *)
TokenSet == [pdu : Nat, id : Nat, off : Nat, bufs : UNION {[S -> Nat] : S \in SUBSET Nat}]
WriteSet == [itt : ITTS, lba : Nat, len : 0 .. (Word - 1), sent : Nat, grant : Nat,
             waits : BOOLEAN, done : BOOLEAN]
ReplySet == [op : {"RSP", "R2T"}, itt : ITTS, offset : Nat, length : Nat, r2tsn : Nat]
Pending == [lba : Nat, total : Nat, remain : Nat, r2tsn : Nat]

Modes ==
  /\ pc \in {"recv", "parse", "work"} /\ session \in {"up", "down"}
  /\ status \in {"TOKEN_HEAD", "TOKEN_PARTIAL"}
  /\ initialR2T \in BOOLEAN /\ immediateEnabled \in BOOLEAN
Streams == stream \in Seq(Pdus)
Tokened == bhss \in Seq(TokenSet) /\ \A i \in DOMAIN bhss : bhss[i].pdu \in DOMAIN stream
Asking == writes \in Seq(WriteSet) /\ bad \in Nat /\ wire \in Seq(ReplySet)
Pendings ==
  /\ sendtask \in Seq(ReplySet)
  /\ DOMAIN recvinfo \subseteq ITTS
  /\ recvinfo \in [DOMAIN recvinfo -> Pending]
Typed == Modes /\ Streams /\ Tokened /\ Asking /\ Pendings

LEMMA Parameters ==
  /\ FirstBurstLength \in Nat \ {0} /\ MaxBurstLength \in Nat /\ MaxBurstLength >= FirstBurstLength
  /\ InitiatorMRDS \in Nat \ {0} /\ TotalSize \in Nat /\ ITTS \subseteq Nat
  /\ MaxSends \in Nat /\ MRDS \in Nat \ {0} /\ MRDS < Word /\ Word \in Nat \ {0}
  /\ Unit \in Nat \ {0} /\ Unit <= MRDS
<1>1. /\ MRDS \in Nat /\ Unit <= MRDS /\ Word \in Nat /\ MRDS < Word /\ Unit \in Nat \ {0}
  BY TransferAssumption, SizesAssumption, UnitAssumption
<1>2. MRDS \in Nat \ {0} /\ Word \in Nat \ {0}
  BY <1>1
<1> QED BY <1>1, <1>2, TransferAssumption

(* Blocks to cells and back, and numbers of a word.                        *)
LEMMA Cells1 ==
  ASSUME NEW n \in Nat
  PROVE  LBA2OFFSET(n) \in Nat /\ OFFSET2LBA(n) \in Nat /\ OFFSET2LBA(LBA2OFFSET(n)) = n
<1>1. Unit \in Nat \ {0}
  BY Parameters
<1>2. n * Unit \in Nat
  BY <1>1
<1>3. n \div Unit \in Nat
  BY <1>1
<1>4. (n * Unit) \div Unit = n
  BY <1>1
<1> QED BY <1>2, <1>3, <1>4 DEF LBA2OFFSET, OFFSET2LBA

LEMMA Words ==
  ASSUME NEW x \in Int
  PROVE  x % Word \in 0 .. (Word - 1) /\ (x \in 0 .. (Word - 1) => x % Word = x)
<1>1. Word \in Nat \ {0}
  BY Parameters
<1> QED BY <1>1

LEMMA CommandType ==
  ASSUME NEW c \in Commands \cup BadCommands
  PROVE  c[1] \in Nat /\ c[2] \in Nat /\ LBA2OFFSET(c[2]) \in 0 .. (Word - 1)
<1>1. c[1] \in Nat /\ c[2] \in Nat /\ LBA2OFFSET(c[2]) < Word /\ Word \in Nat
  BY TransferAssumption
<1>2. LBA2OFFSET(c[2]) \in Nat
  BY <1>1, Cells1
<1> QED
  <2> DEFINE l == LBA2OFFSET(c[2])
  <2>1. l < Word /\ l \in Nat
    BY <1>1, <1>2
  <2> HIDE DEF l
  <2>2. l \in 0 .. (Word - 1)
    BY <1>1, <2>1
  <2> QED BY <1>1, <2>2 DEF l

LEMMA SentType ==
  ASSUME stream \in Seq(Pdus)
  PROVE  Sent \in Nat
<1>1. CASE stream = << >>
  BY <1>1 DEF Sent
<1>2. CASE stream # << >>
  <2> DEFINE q == stream[Len(stream)]
  <2>1. q \in Pdus /\ Last(stream) = q
    BY <1>2 DEF Last
  <2>2. Sent = q.at + (HEADER + q.dlength)
    BY <1>2, <2>1 DEF Sent, GetPDULength
  <2>3. q.at \in Nat /\ q.dlength \in 0 .. MRDS /\ HEADER \in Nat /\ MRDS \in Nat
    BY <2>1, Sizes DEF Pdus
  <2> HIDE DEF q
  <2> QED BY <2>2, <2>3
<1> QED BY <1>1, <1>2

(* The initiator's PDUs: each of its steps appends one.                    *)
SentPdu(pdu) == [pdu EXCEPT !.at = Sent]

LEMMA SendKeeps ==
  ASSUME Streams, Tokened, NEW pdu \in Pdus, Send(pdu)
  PROVE  /\ SentPdu(pdu) \in Pdus /\ stream' = Append(stream, SentPdu(pdu))
         /\ Streams' /\ Tokened' /\ UNCHANGED <<taken, mem, cbufs, vec, overflow, status, offset, bhss>>
<1> DEFINE new == SentPdu(pdu)
<1>1. stream \in Seq(Pdus) /\ Sent \in Nat
  BY SentType DEF Streams
<1>2. new \in Pdus
  BY <1>1 DEF SentPdu, Pdus
<1>3. stream' = Append(stream, new)
      /\ UNCHANGED <<taken, mem, cbufs, vec, overflow, status, offset, bhss>>
  BY DEF Send, SentPdu
<1> HIDE DEF new
<1>4. stream' \in Seq(Pdus) /\ Len(stream') = Len(stream) + 1
      /\ \A k \in 1 .. Len(stream) : stream'[k] = stream[k]
  BY <1>1, <1>2, <1>3
<1>6. Streams'
  BY <1>4 DEF Streams
<1>7. Tokened'
  <2>1. DOMAIN stream \subseteq DOMAIN stream'
    BY <1>1, <1>4
  <2> QED BY <1>3, <2>1 DEF Tokened
<1> QED BY <1>2, <1>3, <1>6, <1>7 DEF new

LEMMA InitiatorKeeps ==
  ASSUME Typed, Initiator \/ Serve
  PROVE  Typed' /\ UNCHANGED <<taken, mem, cbufs, vec, overflow, status, offset, bhss, rvars, modes>>
<1>1. /\ Modes /\ Streams /\ Tokened /\ Asking /\ Pendings
      /\ writes \in Seq(WriteSet) /\ bad \in Nat /\ wire \in Seq(ReplySet)
  BY DEF Typed, Asking
<1>2. MRDS \in Nat /\ FirstBurstLength \in Nat
  BY Parameters
<1>3. ASSUME NEW itt \in ITTS, NEW c \in Commands, NEW imm \in 0 .. MRDS, NEW final \in BOOLEAN,
             SendWrite(itt, c[1], c[2], imm, final)
      PROVE  Typed' /\ UNCHANGED <<taken, mem, cbufs, vec, overflow, status, offset, bhss, rvars, modes>>
  <2> DEFINE cells == LBA2OFFSET(c[2])
             burst == Min2(cells, FirstBurstLength)
             waiting == ~initialR2T /\ final /\ imm < burst
             rest == IF final THEN 0 ELSE burst - imm
             new == [itt |-> itt, lba |-> c[1], len |-> cells, sent |-> imm,
                     grant |-> rest, waits |-> waiting, done |-> FALSE]
  <2>1. c[1] \in Nat /\ c[2] \in Nat /\ cells \in 0 .. (Word - 1) /\ Word \in Nat
    BY CommandType, Parameters
  <2>2. /\ Send(WritePdu(Len(writes) + 1, itt, c[1], c[2], imm, final))
        /\ writes' = Append(writes, new) /\ UNCHANGED <<rvars, wire, bad, modes>>
    BY <1>3 DEF SendWrite
  <2>3. imm <= Min2(burst, IF immediateEnabled THEN MRDS ELSE 0)
    BY <1>3 DEF SendWrite
  <2>4. burst \in Nat /\ imm <= burst /\ rest \in Nat
    <3>1. burst \in Nat
      <4> HIDE DEF cells
      <4> QED BY <1>2, <2>1 DEF Min2
    <3>2. imm <= burst
      <4> HIDE DEF burst
      <4> QED BY <1>2, <2>3, <3>1 DEF Min2
    <3>3. rest \in Nat
      <4> HIDE DEF burst
      <4> QED BY <3>1, <3>2
    <3> QED BY <3>1, <3>2, <3>3
  <2>5. WritePdu(Len(writes) + 1, itt, c[1], c[2], imm, final) \in Pdus
    <3> DEFINE l == Len(writes) + 1
    <3>1. l \in Nat /\ itt \in ITTS /\ imm \in 0 .. MRDS
      BY <1>1
    <3> HIDE DEF l
    <3> QED BY <2>1, <3>1 DEF WritePdu, Pdus
  <2>6. waiting \in BOOLEAN
    OBVIOUS
  <2> HIDE DEF burst, waiting, rest, cells
  <2>7. new \in WriteSet
    BY <2>1, <2>4, <2>6 DEF WriteSet
  <2> HIDE DEF new
  <2>8. writes' \in Seq(WriteSet)
    BY <1>1, <2>2, <2>7
  <2> DEFINE pdu == WritePdu(Len(writes) + 1, itt, c[1], c[2], imm, final)
  <2>9. pdu \in Pdus /\ Send(pdu)
    BY <2>2, <2>5
  <2> HIDE DEF pdu
  <2>10. Streams' /\ Tokened' /\ UNCHANGED <<taken, mem, cbufs, vec, overflow, status, offset, bhss>>
    BY <1>1, <2>9, SendKeeps
  <2> QED BY <1>1, <2>2, <2>8, <2>10 DEF Typed, Modes, Asking, Pendings, rvars, modes
<1>4. ASSUME NEW pdu \in Pdus, Bad(pdu)
      PROVE  Typed' /\ UNCHANGED <<taken, mem, cbufs, vec, overflow, status, offset, bhss, rvars, modes>>
  <2>1. Send(pdu) /\ bad' = bad + 1 /\ UNCHANGED <<rvars, wire, writes, modes>>
    BY <1>4 DEF Bad
  <2>2. Streams' /\ Tokened' /\ UNCHANGED <<taken, mem, cbufs, vec, overflow, status, offset, bhss>>
    BY <1>1, <1>4, <2>1, SendKeeps
  <2>3. bad' \in Nat
    BY <1>1, <2>1
  <2> QED BY <1>1, <2>1, <2>2, <2>3 DEF Typed, Modes, Asking, Pendings, rvars, modes
<1>5. ASSUME NEW itt \in ITTS, NEW c \in BadCommands, SendBadWrite(itt, c[1], c[2])
      PROVE  Typed' /\ UNCHANGED <<taken, mem, cbufs, vec, overflow, status, offset, bhss, rvars, modes>>
  <2>1. c[1] \in Nat /\ c[2] \in Nat
    BY TransferAssumption
  <2> DEFINE pdu == WritePdu(0, itt, c[1], c[2], 0, TRUE)
  <2>2. pdu \in Pdus
    BY <1>2, <2>1 DEF WritePdu, Pdus
  <2>3. Bad(pdu)
    BY <1>5 DEF SendBadWrite
  <2> HIDE DEF pdu
  <2> QED BY <1>4, <2>2, <2>3
<1>6. ASSUME NEW itt \in ITTS, SendEndless(itt)
      PROVE  Typed' /\ UNCHANGED <<taken, mem, cbufs, vec, overflow, status, offset, bhss, rvars, modes>>
  <2> DEFINE pdu == WritePdu(0, itt, 0, 1, LBA2OFFSET(1), FALSE)
  <2>1. LBA2OFFSET(1) \in 0 .. MRDS
    BY Parameters DEF LBA2OFFSET
  <2>2. pdu \in Pdus
    BY <2>1 DEF WritePdu, Pdus
  <2>3. Bad(pdu)
    BY <1>6 DEF SendEndless
  <2> HIDE DEF pdu
  <2> QED BY <1>4, <2>2, <2>3
<1>7. ASSUME NEW itt \in ITTS, NEW d \in 1 .. MRDS, SendBadData(itt, d)
      PROVE  Typed' /\ UNCHANGED <<taken, mem, cbufs, vec, overflow, status, offset, bhss, rvars, modes>>
  <2> DEFINE pdu == DataPdu(0, itt, 0, d, TRUE)
  <2>1. d \in 0 .. MRDS
    BY <1>2
  <2>2. pdu \in Pdus /\ pdu.op # "WRITE"
    BY <2>1 DEF DataPdu, Pdus
  <2>3. Bad(pdu)
    BY <1>7 DEF SendBadData
  <2> HIDE DEF pdu
  <2> QED BY <1>4, <2>2, <2>3
<1>12. ASSUME NEW itt \in ITTS, NEW c \in Commands, NEW d \in 1 .. MRDS, SendOverlong(itt, c[1], c[2], d)
      PROVE  Typed' /\ UNCHANGED <<taken, mem, cbufs, vec, overflow, status, offset, bhss, rvars, modes>>
  <2>1. c[1] \in Nat /\ c[2] \in Nat /\ d \in 0 .. MRDS
    BY <1>2, CommandType
  <2> DEFINE pdu == WritePdu(0, itt, c[1], c[2], d, TRUE)
  <2>2. pdu \in Pdus
    BY <2>1 DEF WritePdu, Pdus
  <2>3. Bad(pdu)
    BY <1>12 DEF SendOverlong
  <2> HIDE DEF pdu
  <2> QED BY <1>4, <2>2, <2>3
<1>8. ASSUME NEW w \in DOMAIN writes, NEW d \in 1 .. MRDS, SendData(w, d)
      PROVE  Typed' /\ UNCHANGED <<taken, mem, cbufs, vec, overflow, status, offset, bhss, rvars, modes>>
  <2> DEFINE q == writes[w]
             new == [[q EXCEPT !.sent = @ + d] EXCEPT !.grant = @ - d]
             fin == (d = q.grant)
             pdu == DataPdu(w, q.itt, q.sent, d, fin)
  <2>1. q \in WriteSet
    BY <1>1
  <2>2. q.sent \in Nat /\ q.grant \in Nat /\ q.itt \in ITTS /\ d \in 0 .. MRDS /\ w \in Nat
    BY <1>1, <1>2, <2>1 DEF WriteSet
  <2>3. /\ d <= Min2(q.grant, MRDS) /\ Send(pdu)
        /\ writes' = [writes EXCEPT ![w].sent = @ + d, ![w].grant = @ - d]
        /\ UNCHANGED <<rvars, wire, bad, modes>>
    BY <1>8 DEF SendData
  <2>4. writes' = [writes EXCEPT ![w] = new]
    BY <1>1, <2>3
  <2>5. d <= q.grant
    <3> HIDE DEF q
    <3> QED BY <1>2, <2>2, <2>3 DEF Min2
  <2>6. new \in WriteSet
    <3> DEFINE r == [q EXCEPT !.sent = @ + d]
    <3> HIDE DEF q
    <3>1. r \in WriteSet /\ r.grant = q.grant
      BY <2>1, <2>2 DEF WriteSet
    <3>2. q.grant - d \in Nat
      BY <2>2, <2>5
    <3>3. new = [r EXCEPT !.grant = q.grant - d]
      BY <3>1
    <3> HIDE DEF r, new
    <3> QED BY <3>1, <3>2, <3>3 DEF WriteSet
  <2>7. pdu \in Pdus /\ pdu.op # "WRITE"
    <3>1. fin \in BOOLEAN
      OBVIOUS
    <3> HIDE DEF q, fin
    <3> QED BY <2>2, <3>1 DEF DataPdu, Pdus
  <2> HIDE DEF new, pdu, q
  <2>8. writes' \in Seq(WriteSet)
    BY <1>1, <2>4, <2>6
  <2>9. Streams' /\ Tokened' /\ UNCHANGED <<taken, mem, cbufs, vec, overflow, status, offset, bhss>>
    BY <1>1, <2>3, <2>7, SendKeeps
  <2> QED BY <1>1, <2>3, <2>8, <2>9 DEF Typed, Modes, Asking, Pendings, rvars, modes
<1>9. ASSUME TakeReply
      PROVE  Typed' /\ UNCHANGED <<taken, mem, cbufs, vec, overflow, status, offset, bhss, rvars, modes>>
  <2> DEFINE reply == Head(wire)
             open == {v \in DOMAIN writes : writes[v].itt = reply.itt /\ ~writes[v].done}
             w == CHOOSE v \in open : TRUE
             q == writes[w]
             asked == [[q EXCEPT !.sent = reply.offset] EXCEPT !.grant = reply.length]
             over == [q EXCEPT !.done = TRUE]
  <2>1. /\ wire # << >> /\ wire' = Tail(wire) /\ UNCHANGED <<tvars, rvars, bad, modes>>
        /\ writes' = IF open = {} THEN writes
                     ELSE IF reply.op = "R2T"
                     THEN [writes EXCEPT ![w].sent = reply.offset, ![w].grant = reply.length]
                     ELSE [writes EXCEPT ![w].done = TRUE]
    BY <1>9 DEF TakeReply
  <2>2. reply \in ReplySet /\ wire' \in Seq(ReplySet)
    BY <1>1, <2>1
  <2>3. reply.offset \in Nat /\ reply.length \in Nat
    BY <2>2 DEF ReplySet
  <2>5. writes' \in Seq(WriteSet)
    <3>1. CASE open = {}
      <4>1. writes' = writes
        <5> HIDE DEF open, w, reply
        <5> QED BY <2>1, <3>1
      <4> QED BY <1>1, <4>1
    <3>2. CASE open # {}
      <4>0. w \in DOMAIN writes
        <5>1. w \in open
          <6> HIDE DEF open
          <6> QED BY <3>2
        <5> HIDE DEF w
        <5> QED BY <5>1
      <4>1. q \in WriteSet
        <5> HIDE DEF w
        <5> QED BY <1>1, <4>0
      <4>2. asked \in WriteSet /\ over \in WriteSet
        <5> HIDE DEF q
        <5> QED BY <2>3, <4>1 DEF WriteSet
      <4> DEFINE new == IF reply.op = "R2T" THEN asked ELSE over
      <4>3. new \in WriteSet
        BY <4>2
      <4>4. writes' = [writes EXCEPT ![w] = new]
        <5> HIDE DEF open, w, reply
        <5> QED BY <2>1, <3>2
      <4> HIDE DEF new, w, open
      <4> QED BY <1>1, <4>0, <4>3, <4>4
    <3> QED BY <3>1, <3>2
  <2> HIDE DEF reply, w
  <2>6. stream' = stream /\ bhss' = bhss
    BY <2>1 DEF tvars
  <2>7. Streams' /\ Tokened'
    BY <1>1, <2>6 DEF Streams, Tokened
  <2> QED BY <1>1, <2>1, <2>2, <2>5, <2>7 DEF Typed, Modes, Asking, Pendings, rvars, modes, tvars
<1> QED BY <1>3, <1>5, <1>6, <1>7, <1>8, <1>9, <1>12 DEF Initiator, Serve
(* What one call of doWork()'s handler can come to, by the name of what it *)
(* does to the session and to its task.                                    *)
Req == stream[Head(bhss).pdu]
Left == (LBA2OFFSET(Req.len) - Req.dlength) % Word
Dinfo == recvinfo[Req.itt]
Rest == Dinfo.remain - Req.dlength
After == [Dinfo EXCEPT !.remain = Rest]
WithPushed == Pushed(Req, Cut(Req, Req.lba))
DataLba == Dinfo.lba + OFFSET2LBA((Dinfo.total - Dinfo.remain) % Word)
DataPushed == IF IsCut(Req) THEN Pushed(Req, Cut(Req, DataLba)) ELSE pushed

Refused ==
  /\ \/ Req.op = "WRITE" /\ Invalid(Req)
     \/ Req.op = "DATA" /\ Req.itt \notin DOMAIN recvinfo
  /\ session' = "down" /\ UNCHANGED <<recvinfo, pushed, sendtask>>
AcceptedWrite == Req.op = "WRITE" /\ ~Invalid(Req)
EndedEarly ==
  /\ AcceptedWrite /\ immediateEnabled /\ Left = 0 /\ ~Req.final
  /\ session' = "down" /\ pushed' = WithPushed /\ UNCHANGED <<recvinfo, sendtask>>
AllAtOnce ==
  /\ AcceptedWrite /\ immediateEnabled /\ Left = 0 /\ Req.final
  /\ pushed' = WithPushed /\ sendtask' = Append(sendtask, Rsp(Req.itt))
  /\ UNCHANGED <<session, recvinfo>>
RestOf == IF immediateEnabled THEN Left ELSE LBA2OFFSET(Req.len)
Begun ==
  /\ AcceptedWrite /\ ~(immediateEnabled /\ Left = 0)
  /\ pushed' = IF immediateEnabled THEN WithPushed ELSE pushed
  /\ AskForRest(Req, RestOf) /\ UNCHANGED session
KnownData == Req.op = "DATA" /\ Req.itt \in DOMAIN recvinfo /\ pushed' = DataPushed
Overrun ==
  /\ KnownData /\ Dinfo.remain < Req.dlength
  /\ session' = "down" /\ UNCHANGED <<recvinfo, sendtask>>
More ==
  /\ KnownData /\ Dinfo.remain >= Req.dlength /\ ~Req.final
  /\ recvinfo' = [recvinfo EXCEPT ![Req.itt] = After] /\ UNCHANGED <<session, sendtask>>
Finished ==
  /\ KnownData /\ Dinfo.remain >= Req.dlength /\ Req.final /\ Rest = 0
  /\ sendtask' = Append(sendtask, Rsp(Req.itt))
  /\ recvinfo' = [t \in DOMAIN recvinfo \ {Req.itt} |-> recvinfo[t]] /\ UNCHANGED session
AskedAgain ==
  /\ KnownData /\ Dinfo.remain >= Req.dlength /\ Req.final /\ Rest > 0
  /\ sendtask' = Append(sendtask, R2T(Req.itt, After, Rest))
  /\ recvinfo' = [recvinfo EXCEPT ![Req.itt] = [After EXCEPT !.r2tsn = @ + 1]]
  /\ UNCHANGED session
Outcome == \/ Refused \/ EndedEarly \/ AllAtOnce \/ Begun
           \/ Overrun \/ More \/ Finished \/ AskedAgain

LEMMA ReqType ==
  ASSUME Typed, bhss # << >>
  PROVE  /\ Head(bhss) \in TokenSet /\ Tail(bhss) \in Seq(TokenSet)
         /\ Head(bhss).pdu \in DOMAIN stream /\ Req \in Pdus
<1>1. bhss \in Seq(TokenSet) /\ \A i \in DOMAIN bhss : bhss[i].pdu \in DOMAIN stream
  BY DEF Typed, Tokened
<1>2. 1 \in DOMAIN bhss /\ Head(bhss) = bhss[1]
  BY <1>1
<1>3. Head(bhss).pdu \in DOMAIN stream
  BY <1>1, <1>2
<1>4. stream \in Seq(Pdus)
  BY DEF Typed, Streams
<1>5. Req \in Pdus
  BY <1>3, <1>4 DEF Req
<1> QED BY <1>1, <1>2, <1>3, <1>5

LEMMA WorkCases ==
  ASSUME Typed, Work
  PROVE  /\ pc = "work" /\ session = "up"
         /\ UNCHANGED <<stream, taken, mem, cbufs, vec, overflow, status, offset, ivars, modes>>
         /\ \/ bhss = << >> /\ pc' = "recv" /\ UNCHANGED <<bhss, session, recvinfo, pushed, sendtask>>
            \/ bhss # << >> /\ bhss' = Tail(bhss) /\ UNCHANGED pc /\ Outcome
<1>1. /\ pc = "work" /\ session = "up"
      /\ UNCHANGED <<stream, taken, mem, cbufs, vec, overflow, status, offset, ivars, modes>>
  BY DEF Work
<1>2. CASE bhss = << >>
  BY <1>1, <1>2 DEF Work
<1>3. CASE bhss # << >>
  <2>1. /\ bhss' = Tail(bhss) /\ UNCHANGED pc
        /\ IF Req.op = "WRITE" THEN WriteHandler(Req) ELSE DataOutHandler(Req)
    BY <1>3, Zenon DEF Work, Req
  <2> SUFFICES Outcome
    BY <1>1, <1>3, <2>1
  <2>2. Req \in Pdus
    BY <1>3, ReqType
  <2>3. Req.op \in {"WRITE", "DATA"} /\ Req.final \in BOOLEAN /\ immediateEnabled \in BOOLEAN
    BY <2>2 DEF Pdus, Typed, Modes
  <2>4. CASE Req.op = "WRITE"
    <3>1. WriteHandler(Req)
      BY <2>1, <2>4
    <3>2. CASE Invalid(Req) /\ Refuse
      BY <2>4, <3>2 DEF Outcome, Refused, Refuse
    <3>3. CASE /\ ~Invalid(Req)
               /\ pushed' = IF immediateEnabled THEN WithPushed ELSE pushed
               /\ \/ /\ immediateEnabled /\ Left = 0
                     /\ UNCHANGED recvinfo
                     /\ \/ ~Req.final /\ session' = "down" /\ UNCHANGED sendtask
                        \/ Req.final /\ sendtask' = Append(sendtask, Rsp(Req.itt)) /\ UNCHANGED session
                  \/ /\ ~(immediateEnabled /\ Left = 0)
                     /\ AskForRest(Req, RestOf)
                     /\ UNCHANGED session
      <4>1. AcceptedWrite
        BY <2>4, <3>3 DEF AcceptedWrite
      <4>2. CASE immediateEnabled /\ Left = 0
        <5>1. pushed' = WithPushed
          BY <3>3, <4>2
        <5>2. CASE ~Req.final /\ session' = "down" /\ UNCHANGED sendtask
          BY <3>3, <4>1, <4>2, <5>1, <5>2 DEF Outcome, EndedEarly
        <5>3. CASE Req.final /\ sendtask' = Append(sendtask, Rsp(Req.itt)) /\ UNCHANGED session
          BY <3>3, <4>1, <4>2, <5>1, <5>3 DEF Outcome, AllAtOnce
        <5> QED BY <3>3, <4>2, <5>2, <5>3
      <4>3. CASE ~(immediateEnabled /\ Left = 0)
        BY <3>3, <4>1, <4>3, Zenon DEF Outcome, Begun
      <4> QED BY <4>2, <4>3
    <3> QED BY <3>1, <3>2, <3>3, Zenon DEF WriteHandler, Left, RestOf, WithPushed
  <2>5. CASE Req.op = "DATA"
    <3>1. DataOutHandler(Req)
      BY <2>1, <2>5
    <3>2. CASE Req.itt \notin DOMAIN recvinfo
      <4>1. Refuse
        BY <3>1, <3>2 DEF DataOutHandler
      <4> QED BY <2>5, <3>2, <4>1 DEF Outcome, Refused, Refuse
    <3>3. CASE Req.itt \in DOMAIN recvinfo
      <4>1. /\ pushed' = DataPushed
            /\ \/ /\ Dinfo.remain < Req.dlength
                  /\ session' = "down" /\ UNCHANGED <<recvinfo, sendtask>>
               \/ /\ Dinfo.remain >= Req.dlength
                  /\ DataTaken(Req, Dinfo, Rest)
        BY <3>1, <3>3, Zenon DEF DataOutHandler, DataPushed, DataLba, Dinfo, Rest
      <4>2. KnownData
        BY <2>5, <3>3, <4>1 DEF KnownData
      <4>3. CASE Dinfo.remain < Req.dlength /\ session' = "down" /\ UNCHANGED <<recvinfo, sendtask>>
        BY <4>2, <4>3 DEF Outcome, Overrun
      <4>4. CASE Dinfo.remain >= Req.dlength /\ DataTaken(Req, Dinfo, Rest)
        <5>1. /\ UNCHANGED session
              /\ \/ /\ ~Req.final
                    /\ recvinfo' = [recvinfo EXCEPT ![Req.itt] = After] /\ UNCHANGED sendtask
                 \/ /\ Req.final /\ Rest = 0
                    /\ sendtask' = Append(sendtask, Rsp(Req.itt))
                    /\ recvinfo' = [t \in DOMAIN recvinfo \ {Req.itt} |-> recvinfo[t]]
                 \/ /\ Req.final /\ Rest > 0
                    /\ sendtask' = Append(sendtask, R2T(Req.itt, After, Rest))
                    /\ recvinfo' = [recvinfo EXCEPT ![Req.itt] = [After EXCEPT !.r2tsn = @ + 1]]
          BY <4>4, Zenon DEF DataTaken, After
        <5> QED BY <4>2, <4>4, <5>1, Zenon DEF Outcome, More, Finished, AskedAgain
      <4> QED BY <4>1, <4>3, <4>4
    <3> QED BY <3>2, <3>3
  <2> QED BY <2>3, <2>4, <2>5
<1> QED BY <1>2, <1>3
LEMMA WorkKeeps ==
  ASSUME Typed, Work
  PROVE  Typed' /\ UNCHANGED <<stream, taken, mem, cbufs, vec, overflow, status, offset>>
<1>1. /\ Modes /\ Streams /\ Tokened /\ Asking /\ Pendings
      /\ sendtask \in Seq(ReplySet) /\ DOMAIN recvinfo \subseteq ITTS
      /\ recvinfo \in [DOMAIN recvinfo -> Pending]
  BY DEF Typed, Pendings
<1>2. /\ UNCHANGED <<stream, taken, mem, cbufs, vec, overflow, status, offset, ivars, modes>>
      /\ \/ bhss = << >> /\ pc' = "recv" /\ UNCHANGED <<bhss, session, recvinfo, pushed, sendtask>>
         \/ bhss # << >> /\ bhss' = Tail(bhss) /\ UNCHANGED pc /\ Outcome
  BY WorkCases
<1>3. Streams' /\ Asking'
  BY <1>1, <1>2 DEF Streams, Asking, ivars
<1>4. CASE bhss = << >> /\ pc' = "recv" /\ UNCHANGED <<bhss, session, recvinfo, pushed, sendtask>>
  BY <1>1, <1>2, <1>3, <1>4 DEF Typed, Modes, Tokened, Pendings, modes
<1>5. CASE bhss # << >> /\ bhss' = Tail(bhss) /\ UNCHANGED pc /\ Outcome
  <2>1. /\ bhss' \in Seq(TokenSet) /\ Req \in Pdus
        /\ \A i \in DOMAIN bhss : bhss[i].pdu \in DOMAIN stream
    BY <1>1, <1>5, ReqType DEF Tokened
  <2>2. Tokened'
    <3>1. ASSUME NEW i \in DOMAIN bhss' PROVE bhss'[i].pdu \in DOMAIN stream
      <4>1. i + 1 \in DOMAIN bhss /\ bhss'[i] = bhss[i + 1]
        BY <1>1, <1>5 DEF Tokened
      <4> QED BY <2>1, <4>1
    <3> QED BY <1>2, <2>1, <3>1 DEF Tokened
  <2>3. /\ Req.itt \in ITTS /\ Req.lba \in Nat /\ Req.len \in Nat /\ Req.dlength \in Nat
        /\ InitiatorMRDS \in Nat
    <3> DEFINE q == Req
    <3>1. q \in Pdus /\ MRDS \in Nat /\ InitiatorMRDS \in Nat
      BY <2>1, Parameters
    <3> HIDE DEF q
    <3>2. q.itt \in ITTS /\ q.lba \in Nat /\ q.len \in Nat /\ q.dlength \in Nat
      BY <3>1 DEF Pdus
    <3> QED BY <3>1, <3>2 DEF q
  <2>4. Rsp(Req.itt) \in ReplySet
    BY <2>3 DEF Rsp, ReplySet
  <2>5. ASSUME NEW dinfo \in Pending, NEW remain \in Nat
        PROVE  R2T(Req.itt, dinfo, remain) \in ReplySet
    <3>1. dinfo.total \in Nat /\ dinfo.r2tsn \in Nat
      BY DEF Pending
    <3>2. (dinfo.total - remain) % Word \in Nat
      <4> DEFINE x == dinfo.total - remain
      <4>1. x \in Int
        BY <3>1
      <4> HIDE DEF x
      <4>2. x % Word \in 0 .. (Word - 1) /\ Word \in Nat
        BY <4>1, Words, Parameters
      <4> QED BY <4>2 DEF x
    <3>3. Min2(remain, InitiatorMRDS) \in Nat
      BY <2>3 DEF Min2
    <3> QED BY <2>3, <3>1, <3>2, <3>3 DEF R2T, ReplySet
  <2>6. ASSUME Req.itt \in DOMAIN recvinfo
        PROVE  /\ Dinfo \in Pending /\ Dinfo.remain \in Nat /\ Dinfo.total \in Nat
               /\ Dinfo.r2tsn \in Nat
    <3>1. Dinfo \in Pending
      BY <1>1, <2>6 DEF Dinfo
    <3> QED BY <3>1 DEF Pending
  <2>7. session' \in {"up", "down"}
    BY <1>1, <1>5 DEF Modes, Outcome, Refused, EndedEarly, AllAtOnce, Begun, Overrun, More, Finished, AskedAgain
  <2>8. Pendings'
    <3>1. CASE UNCHANGED <<recvinfo, sendtask>>
      BY <1>1, <3>1 DEF Pendings
    <3>2. CASE AllAtOnce
      <4>1. recvinfo' = recvinfo /\ sendtask' = Append(sendtask, Rsp(Req.itt))
        BY <3>2 DEF AllAtOnce
      <4>2. sendtask' \in Seq(ReplySet)
        BY <1>1, <2>4, <4>1
      <4> QED BY <1>1, <4>1, <4>2 DEF Pendings
    <3>3. CASE Begun
      <4> DEFINE total == LBA2OFFSET(Req.len)
                 d == DataOutInfo(Req.lba, total, RestOf)
                 e == [d EXCEPT !.r2tsn = IF Asks(Req) THEN @ + 1 ELSE @]
      <4>1. RestOf \in Nat /\ total \in Nat
        <5>1. total \in Nat
          BY <2>3, Cells1
        <5> DEFINE x == total - Req.dlength
        <5>2. x \in Int /\ Left = x % Word
          BY <2>3, <5>1 DEF Left
        <5> HIDE DEF x
        <5>3. x % Word \in 0 .. (Word - 1) /\ Word \in Nat
          BY <5>2, Words, Parameters
        <5>4. Left \in Nat
          BY <5>2, <5>3
        <5> HIDE DEF total
        <5> QED BY <5>1, <5>4 DEF RestOf, total
      <4>2. d \in Pending /\ d.r2tsn = 0
        BY <2>3, <4>1 DEF DataOutInfo, Pending
      <4>3. /\ sendtask' = IF Asks(Req) THEN Append(sendtask, R2T(Req.itt, d, RestOf)) ELSE sendtask
            /\ recvinfo' = Put(recvinfo, Req.itt, e)
        BY <3>3 DEF Begun, AskForRest
      <4> HIDE DEF d
      <4>4. e \in Pending
        BY <4>2 DEF Pending
      <4>5. sendtask' \in Seq(ReplySet)
        <5>1. R2T(Req.itt, d, RestOf) \in ReplySet
          BY <2>5, <4>1, <4>2
        <5> QED BY <1>1, <4>3, <5>1
      <4> HIDE DEF e
      <4>6. CASE Req.itt \in DOMAIN recvinfo
        <5>1. recvinfo' = recvinfo
          BY <4>3, <4>6 DEF Put
        <5> QED BY <1>1, <4>5, <5>1 DEF Pendings
      <4>7. CASE Req.itt \notin DOMAIN recvinfo
        <5>1. recvinfo' = [t \in DOMAIN recvinfo \cup {Req.itt} |-> IF t = Req.itt THEN e ELSE recvinfo[t]]
          BY <4>3, <4>7 DEF Put
        <5>2. DOMAIN recvinfo' \subseteq ITTS /\ recvinfo' \in [DOMAIN recvinfo' -> Pending]
          BY <1>1, <2>3, <4>4, <5>1
        <5> QED BY <4>5, <5>2 DEF Pendings
      <4> QED BY <4>6, <4>7
    <3>4. ASSUME Req.itt \in DOMAIN recvinfo, Dinfo.remain >= Req.dlength
          PROVE  /\ Rest \in Nat /\ After \in Pending /\ After.remain = Rest
                 /\ After.r2tsn \in Nat
      <4> DEFINE d == Dinfo
                 a == After
                 r == Rest
      <4>1. /\ d \in Pending /\ d.remain \in Nat /\ d.total \in Nat
            /\ d.r2tsn \in Nat
        BY <2>6, <3>4
      <4>2. r = d.remain - Req.dlength /\ a = [d EXCEPT !.remain = r]
        BY DEF Rest, After
      <4> HIDE DEF d, a, r
      <4>3. r \in Nat
        BY <2>3, <3>4, <4>1, <4>2 DEF d
      <4>4. a \in Pending /\ a.remain = r /\ a.r2tsn \in Nat
        BY <4>1, <4>2, <4>3 DEF Pending
      <4> QED BY <4>3, <4>4 DEF a, r
    <3>5. ASSUME Req.itt \in DOMAIN recvinfo, NEW a \in Pending,
                 recvinfo' = [recvinfo EXCEPT ![Req.itt] = a], sendtask' \in Seq(ReplySet)
          PROVE  Pendings'
      <4>1. DOMAIN recvinfo' = DOMAIN recvinfo /\ recvinfo' \in [DOMAIN recvinfo' -> Pending]
        BY <1>1, <3>5
      <4> QED BY <1>1, <3>5, <4>1 DEF Pendings
    <3>6. CASE More
      <4>1. /\ Req.itt \in DOMAIN recvinfo /\ Dinfo.remain >= Req.dlength /\ sendtask' = sendtask
            /\ recvinfo' = [recvinfo EXCEPT ![Req.itt] = After]
        BY <3>6 DEF More, KnownData
      <4> DEFINE a == After
      <4>2. a \in Pending
        BY <3>4, <4>1
      <4>3. recvinfo' = [recvinfo EXCEPT ![Req.itt] = a] /\ sendtask' \in Seq(ReplySet)
        BY <1>1, <4>1
      <4> HIDE DEF a
      <4> QED BY <3>5, <4>1, <4>2, <4>3
    <3>7. CASE Finished
      <4>1. /\ recvinfo' = [t \in DOMAIN recvinfo \ {Req.itt} |-> recvinfo[t]]
            /\ sendtask' = Append(sendtask, Rsp(Req.itt))
        BY <3>7 DEF Finished
      <4>2. sendtask' \in Seq(ReplySet)
        BY <1>1, <2>4, <4>1
      <4>3. DOMAIN recvinfo' \subseteq DOMAIN recvinfo /\ \A t \in DOMAIN recvinfo' : recvinfo'[t] = recvinfo[t]
        BY <4>1
      <4>4. recvinfo' \in [DOMAIN recvinfo' -> Pending]
        BY <1>1, <4>1
      <4> QED BY <1>1, <4>2, <4>3, <4>4 DEF Pendings
    <3>8. CASE AskedAgain
      <4> DEFINE a == After
                 b == [a EXCEPT !.r2tsn = @ + 1]
      <4>1. /\ Req.itt \in DOMAIN recvinfo /\ Dinfo.remain >= Req.dlength
            /\ sendtask' = Append(sendtask, R2T(Req.itt, a, Rest))
            /\ recvinfo' = [recvinfo EXCEPT ![Req.itt] = b]
        BY <3>8 DEF AskedAgain, KnownData
      <4>2. a \in Pending /\ a.remain = Rest /\ a.r2tsn \in Nat /\ Rest \in Nat
        BY <3>4, <4>1
      <4> HIDE DEF a
      <4>3. b \in Pending
        BY <4>2 DEF Pending
      <4> HIDE DEF b
      <4>4. R2T(Req.itt, a, Rest) \in ReplySet
        BY <2>5, <4>2
      <4>5. sendtask' \in Seq(ReplySet)
        BY <1>1, <4>1, <4>4
      <4> QED BY <3>5, <4>1, <4>3, <4>5
    <3> QED BY <1>5, <3>1, <3>2, <3>3, <3>6, <3>7, <3>8 DEF Outcome, Refused, EndedEarly, Overrun
  <2> QED BY <1>1, <1>2, <1>3, <1>5, <2>2, <2>7, <2>8 DEF Typed, Modes, modes
<1> QED BY <1>2, <1>4, <1>5
Used(k) == {i \in DOMAIN cbufs : Before(Unread(cbufs), i) < GetPDULength(stream[k])}
TokenOf(k) ==
  [pdu |-> k, id |-> cbufs[1].id, off |-> cbufs[1].offset, bufs |-> [j \in Used(k) |-> cbufs[j].id]]

LEMMA TokenMade ==
  ASSUME Typed, Geometry, NEW k \in DOMAIN stream, Token(k, cbufs[1])
  PROVE  /\ bhss' = Append(bhss, TokenOf(k)) /\ TokenOf(k) \in TokenSet /\ TokenOf(k).pdu = k
         /\ bhss' \in Seq(TokenSet) /\ Len(bhss') = Len(bhss) + 1
         /\ \A i \in 1 .. Len(bhss) : bhss'[i] = bhss[i]
         /\ bhss'[Len(bhss) + 1] = TokenOf(k)
<1> DEFINE used == Used(k)
           ids == [j \in used |-> cbufs[j].id]
           new == TokenOf(k)
<1>1. bhss' = Append(bhss, new)
  BY DEF Token, Unread, Used, TokenOf
<1>2. cbufs \in Seq(Bufs) /\ Len(cbufs) = overflow + 2 /\ overflow \in Nat
  <2>1. cbufs = Row(First, overflow + 2, Pos, taken) /\ overflow \in Nat /\ First \in Nat \ {0}
        /\ Pos \in Int /\ taken \in Int
    BY GeometryFacts
  <2> DEFINE f == First
             m == overflow + 2
  <2>2. m \in Nat /\ f \in Nat \ {0} /\ cbufs = Row(f, m, Pos, taken)
    BY <2>1
  <2> HIDE DEF f, m
  <2>3. cbufs \in [1 .. m -> Bufs]
    <3>1. Pos \in Int /\ taken \in Int
      BY <2>1
    <3> QED BY <2>2, <3>1, RowShape
  <2>4. cbufs \in Seq(Bufs) /\ Len(cbufs) = m
    BY <2>2, <2>3
  <2> QED BY <2>1, <2>4 DEF m
<1>3. DOMAIN cbufs \subseteq Nat /\ 1 \in DOMAIN cbufs /\ \A j \in DOMAIN cbufs : cbufs[j].id \in Nat /\ cbufs[j].offset \in Nat
  <2>1. \A j \in DOMAIN cbufs : cbufs[j] \in Bufs
    BY <1>2
  <2>2. \A c \in Bufs : c.id \in Nat /\ c.offset \in 0 .. B
    BY DEF Bufs
  <2>3. B \in Nat
    BY Sizes
  <2> QED BY <1>2, <2>1, <2>2, <2>3
<1>4. used \in SUBSET Nat /\ ids \in [used -> Nat]
  <2>1. used \subseteq DOMAIN cbufs
    BY DEF Used
  <2> HIDE DEF used
  <2> QED BY <1>3, <2>1
<1>5. new \in TokenSet
  <2>1. ids \in UNION {[S -> Nat] : S \in SUBSET Nat}
    <3> HIDE DEF used, ids
    <3> QED BY <1>4
  <2>2. k \in Nat
    BY DEF Typed, Streams
  <2>3. new = [pdu |-> k, id |-> cbufs[1].id, off |-> cbufs[1].offset, bufs |-> ids]
    BY DEF TokenOf
  <2> HIDE DEF ids, new
  <2> QED BY <1>3, <2>1, <2>2, <2>3 DEF TokenSet
<1>6. bhss \in Seq(TokenSet)
  BY DEF Typed, Tokened
<1> HIDE DEF new
<1>7. /\ bhss' \in Seq(TokenSet) /\ Len(bhss') = Len(bhss) + 1
      /\ \A i \in 1 .. Len(bhss) : bhss'[i] = bhss[i]
      /\ bhss'[Len(bhss) + 1] = new
  BY <1>1, <1>5, <1>6
<1>8. new.pdu = k
  BY DEF TokenOf, new
<1> QED BY <1>1, <1>5, <1>7, <1>8 DEF new

(* What one round of the tokenizer leaves of the tokens.                   *)
ParsedPdu(k) == k \in DOMAIN stream /\ stream[k].at + 1 = HeaderCells(Joined, cbufs[1].id, cbufs[1].offset)[1]

LEMMA ParseCases ==
  ASSUME Typed, PartialHead \/ ParsedHeader
  PROVE  /\ UNCHANGED <<stream, taken>>
         /\ \/ /\ status = "TOKEN_HEAD" /\ offset < HEADER
               /\ UNCHANGED <<status, offset, bhss>>
            \/ \E k \in DOMAIN stream : ParsedPdu(k)
                 /\ GetPDULength(stream[k]) > offset
                 /\ (status = "TOKEN_PARTIAL" \/ offset >= HEADER)
                 /\ status' = "TOKEN_PARTIAL" /\ UNCHANGED <<offset, bhss>>
            \/ \E k \in DOMAIN stream : ParsedPdu(k)
                 /\ GetPDULength(stream[k]) <= offset
                 /\ (status = "TOKEN_PARTIAL" \/ offset >= HEADER)
                 /\ status' = "TOKEN_HEAD" /\ Token(k, cbufs[1])
<1>1. CASE PartialHead
  BY <1>1 DEF PartialHead
<1>2. CASE ParsedHeader
  <2> DEFINE starts == {p \in DOMAIN stream : stream[p].at + 1 = HeaderCells(Joined, cbufs[1].id, cbufs[1].offset)[1]}
             k == CHOOSE p \in starts : TRUE
  <2>1. /\ starts # {} /\ UNCHANGED <<stream, taken>> /\ (status = "TOKEN_PARTIAL" \/ offset >= HEADER)
        /\ \/ /\ GetPDULength(stream[k]) > offset
              /\ status' = "TOKEN_PARTIAL" /\ UNCHANGED <<offset, bhss>>
           \/ /\ GetPDULength(stream[k]) <= offset
              /\ status' = "TOKEN_HEAD"
              /\ Token(k, cbufs[1])
    BY <1>2 DEF ParsedHeader
  <2>2. k \in starts
    BY <2>1
  <2>3. k \in DOMAIN stream /\ ParsedPdu(k)
    <3> HIDE DEF k
    <3> QED BY <2>2 DEF ParsedPdu
  <2> HIDE DEF k, starts
  <2> QED BY <2>1, <2>3
<1> QED BY <1>1, <1>2

LEMMA TargetKeeps ==
  ASSUME Typed, Geometry, Target
  PROVE  Typed'
<1>1. Modes /\ Streams /\ Tokened /\ Asking /\ Pendings
  BY DEF Typed
<1>2. CASE Receive
  <2>1. /\ pc' = "parse" /\ UNCHANGED <<session, recvinfo, pushed, sendtask, ivars, modes>>
        /\ UNCHANGED <<stream, vec, overflow, status, bhss>>
    BY <1>2 DEF Receive, Readv
  <2> QED BY <1>1, <2>1 DEF Typed, Modes, Streams, Tokened, Asking, Pendings, ivars, modes
<1>3. CASE Parse
  <2>1. /\ PartialHead \/ ParsedHeader
        /\ pc' \in {"parse", "work"} /\ UNCHANGED <<session, recvinfo, pushed, sendtask, ivars, modes>>
    BY <1>3 DEF Parse
  <2>2. /\ UNCHANGED <<stream, taken>>
        /\ \/ UNCHANGED bhss /\ status' \in {status, "TOKEN_PARTIAL"}
           \/ \E k \in DOMAIN stream : status' = "TOKEN_HEAD" /\ Token(k, cbufs[1])
    BY <2>1, ParseCases
  <2>3. Tokened'
    <3>1. CASE UNCHANGED bhss
      BY <1>1, <2>2, <3>1 DEF Tokened
    <3>2. ASSUME NEW k \in DOMAIN stream, Token(k, cbufs[1]) PROVE Tokened'
      <4>1. /\ bhss' \in Seq(TokenSet) /\ Len(bhss') = Len(bhss) + 1 /\ Len(bhss) \in Nat
            /\ \A i \in 1 .. Len(bhss) : bhss'[i] = bhss[i]
            /\ bhss'[Len(bhss) + 1] = TokenOf(k) /\ TokenOf(k).pdu = k
        <5>1. Len(bhss) \in Nat
          BY <1>1 DEF Tokened
        <5> QED BY <3>2, <5>1, TokenMade
      <4>2. ASSUME NEW i \in DOMAIN bhss' PROVE bhss'[i].pdu \in DOMAIN stream
        <5>1. i \in 1 .. Len(bhss) \/ i = Len(bhss) + 1
          BY <4>1, <4>2
        <5>2. CASE i \in 1 .. Len(bhss)
          BY <1>1, <4>1, <5>2 DEF Tokened
        <5>3. CASE i = Len(bhss) + 1
          BY <4>1, <5>3
        <5> QED BY <5>1, <5>2, <5>3
      <4> QED BY <2>2, <4>1, <4>2 DEF Tokened
    <3> QED BY <2>2, <3>1, <3>2
  <2>4. Modes'
    BY <1>1, <2>1, <2>2 DEF Modes, modes
  <2> QED BY <1>1, <2>1, <2>2, <2>3, <2>4 DEF Typed, Streams, Asking, Pendings, ivars
<1>4. CASE Work
  BY <1>4, WorkKeeps
<1>5. CASE Invoke
  <2>1. /\ wire' = wire \o sendtask /\ sendtask' = << >>
        /\ UNCHANGED <<tvars, pc, session, recvinfo, pushed, writes, bad, modes>>
    BY <1>5 DEF Invoke
  <2>2. wire' \in Seq(ReplySet) /\ sendtask' \in Seq(ReplySet)
    BY <1>1, <2>1 DEF Asking, Pendings
  <2> QED BY <1>1, <2>1, <2>2 DEF Typed, Modes, Streams, Tokened, Asking, Pendings, tvars, modes
<1> QED BY <1>2, <1>3, <1>4, <1>5 DEF Target

LEMMA TypedInit == Init => Typed
<1> SUFFICES ASSUME Init PROVE Typed
  OBVIOUS
<1>1. /\ stream = << >> /\ bhss = << >> /\ status = "TOKEN_HEAD"
      /\ pc = "recv" /\ session = "up" /\ initialR2T \in BOOLEAN /\ immediateEnabled \in BOOLEAN
      /\ recvinfo = << >> /\ sendtask = << >> /\ wire = << >> /\ writes = << >> /\ bad = 0
  BY DEF Init, TokenizerInit
<1>2. DOMAIN recvinfo = {} /\ recvinfo \in [DOMAIN recvinfo -> Pending]
  BY <1>1
<1> QED BY <1>1, <1>2 DEF Typed, Modes, Streams, Tokened, Asking, Pendings
(* The receive side of the session, once and for all.                      *)
Receiving == Geometry /\ Linear /\ Vectors

LEMMA ReceivingInit == Init /\ TwoIovecs => Receiving
<1> SUFFICES ASSUME Init, TwoIovecs PROVE Receiving
  OBVIOUS
<1>1. count = 2
  BY CountTwo
<1>2. /\ taken = 0 /\ offset = 0 /\ overflow = 0
      /\ mem = [b \in 1 .. 2 |-> Blank]
      /\ cbufs = [b \in 1 .. 2 |-> NewBuf(b)]
      /\ vec = [b \in 1 .. 2 |-> Iovec(NewBuf(b))]
  BY <1>1 DEF Init, TokenizerInit
<1>3. B \in Nat /\ B > 0 /\ HEADER \in Nat
  BY Sizes
<1>4. Edge(0) = 0 /\ Edge(1) = B /\ Edge(2) = B + B
  BY <1>3 DEF Edge
<1>5. Blank \in Cells
  BY <1>3 DEF Blank, Cells
<1>6. mem \in Seq(Cells) /\ Len(mem) = 2
  <2> DEFINE z == Blank
  <2>1. z \in Cells /\ mem = [b \in 1 .. 2 |-> z]
    BY <1>2, <1>5
  <2> HIDE DEF z
  <2> QED BY <2>1
<1>7. First = 1 /\ Pos = 0
  BY <1>2, <1>6 DEF First, Pos
<1>8. \A b \in Nat \ {0} : Buf(b, 0, 0) = NewBuf(b) /\ NewBuf(b) \in Bufs
  <2> TAKE b \in Nat \ {0}
  <2>1. b - 1 \in Nat
    OBVIOUS
  <2>2. 0 - Edge(b - 1) \in Int /\ 0 - Edge(b - 1) <= 0
    BY <2>1, EdgeSteps
  <2>3. Clamp(0 - Edge(b - 1)) = 0
    BY <2>2, ClampFacts
  <2>4. NewBuf(b) \in Bufs
    BY <1>3 DEF NewBuf, Bufs
  <2> QED BY <2>3, <2>4 DEF Buf, NewBuf
<1>9. cbufs = Row(1, 2, 0, 0)
  <2>1. \A j \in 1 .. 2 : 1 + j - 1 = j /\ j \in Nat \ {0}
    OBVIOUS
  <2> QED BY <1>2, <1>8, <2>1 DEF Row
<1>10. cbufs \in Seq(Bufs)
  <2>1. \A b \in 1 .. 2 : NewBuf(b) \in Bufs
    BY <1>8
  <2> HIDE <1>8
  <2> QED BY <1>2, <2>1
<1>11. vec[1] = Room(1, 0) /\ vec[2] = Room(2, 0) /\ vec \in Seq(Iovecs) /\ Len(vec) = 2
  <2>1. ASSUME NEW b \in 1 .. 2 PROVE vec[b] = Room(b, 0) /\ vec[b] \in Iovecs
    <3>1. vec[b] = Iovec(NewBuf(b)) /\ b \in Nat \ {0}
      BY <1>2
    <3>2. Iovec(NewBuf(b)) = [id |-> b, base |-> 0, len |-> B]
      BY <1>3 DEF Iovec, NewBuf, GetCapacity
    <3>3. Clamp(0 - Edge(b - 1)) = 0
      <4>1. b - 1 \in Nat
        BY <3>1
      <4>2. 0 - Edge(b - 1) \in Int /\ 0 - Edge(b - 1) <= 0
        BY <4>1, EdgeSteps
      <4> QED BY <4>2, ClampFacts
    <3>4. Room(b, 0) = [id |-> b, base |-> 0, len |-> B]
      BY <1>3, <3>3 DEF Room
    <3>5. [id |-> b, base |-> 0, len |-> B] \in Iovecs
      BY <1>3, <3>1 DEF Iovecs
    <3> QED BY <3>1, <3>2, <3>4, <3>5
  <2>2. vec = [b \in 1 .. 2 |-> vec[b]]
    BY <1>2
  <2>3. vec \in Seq(Iovecs) /\ Len(vec) = 2
    <3>1. \A b \in 1 .. 2 : vec[b] \in Iovecs
      BY <2>1
    <3> QED BY <2>2, <3>1
  <2> QED BY <2>1, <2>3
<1>12. Shape(Now, First, Pos, taken)
  <2>1. Now \in Containers
    <3>1. 0 \in Nat /\ overflow = 0
      BY <1>2
    <3> QED BY <1>6, <1>10, <1>11, <3>1, MakeContainer DEF Now
  <2>2. Now.mem = mem /\ Now.cbufs = cbufs /\ Now.vec = vec /\ Now.overflow = overflow
    BY DEF Now
  <2> QED BY <1>2, <1>3, <1>4, <1>6, <1>7, <1>9, <1>11, <2>1, <2>2 DEF Shape
<1>13. Geometry
  BY <1>2, <1>3, <1>4, <1>7, <1>12 DEF Geometry
<1>14. Linear
  <2>1. ASSUME NEW b \in 1 .. Len(mem), NEW p \in 0 .. (B - 1) PROVE ~(Edge(b - 1) + p < taken)
    <3>1. b - 1 \in Nat /\ p \in Nat
      BY <1>3, <1>6
    <3>2. Edge(b - 1) \in Nat
      BY <3>1, EdgeSteps
    <3> QED BY <1>2, <3>1, <3>2
  <2> QED BY <2>1 DEF Linear, Tape
<1>15. Vectors
  <2>1. Exact(vec, Len(mem), taken)
    BY <1>2, <1>6, <1>11 DEF Exact
  <2>2. Matches(vec, Len(mem), taken)
    <3>1. Room(1, 0).id = 1 /\ Room(2, 0).id = 2
      BY DEF Room
    <3> QED BY <1>2, <1>6, <1>11, <3>1 DEF Matches
  <2> QED BY <2>1, <2>2 DEF Vectors
<1> QED BY <1>13, <1>14, <1>15 DEF Receiving

LEMMA ReceivingStutters ==
  ASSUME Receiving, UNCHANGED <<taken, mem, cbufs, vec, overflow, offset>>, pc' = "parse" => pc = "parse",
         pc = "parse" => pc' = "parse"
  PROVE  Receiving'
<1>1. Now' = Now /\ First' = First /\ Pos' = Pos /\ taken' = taken /\ offset' = offset
      /\ mem' = mem /\ vec' = vec
  BY DEF Now, First, Pos
<1>2. Geometry'
  BY <1>1 DEF Geometry, Receiving
<1>3. Linear'
  BY <1>1 DEF Linear, Receiving
<1>4. Vectors'
  BY <1>1 DEF Vectors, Receiving
<1> QED BY <1>2, <1>3, <1>4 DEF Receiving

LEMMA ReceivingKeeps ==
  ASSUME TwoIovecs, Typed, Receiving, Target
  PROVE  Receiving' /\ Len(mem) <= Len(mem')
<1>1. Geometry /\ Linear /\ Vectors /\ stream \in Seq(Pdus) /\ Len(mem) \in Nat
  BY GeometryFacts DEF Receiving, Typed, Streams
<1>2. CASE Receive
  <2>1. /\ pc = "recv" /\ pc' = "parse" /\ \E n \in 1 .. (count * B) : Readv(n)
    BY <1>2 DEF Receive, Idle
  <2>2. count * B \in Nat
    BY CountTwo, Sizes
  <2>3. PICK n \in Nat : Readv(n)
    BY <2>1, <2>2
  <2>4. Sent \in Int
    BY <1>1, SentType
  <2>5. Receiving'
    BY <1>1, <2>1, <2>3, <2>4, ReadvKeeps DEF Receiving
  <2>6. Len(mem') = Len(mem)
    <3>1. mem' = Filled(n)
      BY <2>3 DEF Readv
    <3> DEFINE G(b) == Filled(n)[b]
    <3>2. Filled(n) = [b \in DOMAIN mem |-> G(b)]
      BY DEF Filled
    <3> HIDE DEF G
    <3>3. DOMAIN mem = 1 .. Len(mem)
      BY <1>1, GeometryFacts
    <3>4. Filled(n) = [b \in 1 .. Len(mem) |-> G(b)]
      BY <3>2, <3>3
    <3> QED BY <1>1, <3>1, <3>4
  <2> QED BY <1>1, <2>5, <2>6
<1>3. CASE Parse
  <2>1. PartialHead \/ ParsedHeader
    BY <1>3 DEF Parse
  <2> QED BY <1>1, <2>1, ParseKeeps DEF Receiving
<1>4. CASE Work
  <2>1. /\ UNCHANGED <<taken, mem, cbufs, vec, overflow, offset>>
        /\ pc # "parse" /\ pc' # "parse"
    BY <1>4, WorkCases
  <2> QED BY <1>1, <2>1, ReceivingStutters
<1>5. CASE Invoke
  <2>1. UNCHANGED <<taken, mem, cbufs, vec, overflow, offset, pc>>
    BY <1>5 DEF Invoke, tvars
  <2> QED BY <1>1, <2>1, ReceivingStutters
<1> QED BY <1>2, <1>3, <1>4, <1>5 DEF Target

RInv == Typed /\ Receiving

LEMMA RInvKeeps ==
  ASSUME TwoIovecs, RInv, [Next]_vars
  PROVE  RInv'
<1>1. Typed /\ Receiving /\ Geometry
  BY DEF RInv, Receiving
<1>2. CASE Target
  BY <1>1, <1>2, TargetKeeps, ReceivingKeeps DEF RInv
<1>3. CASE Initiator \/ Serve
  <2>1. Typed' /\ UNCHANGED <<taken, mem, cbufs, vec, overflow, status, offset, bhss, rvars, modes>>
    BY <1>1, <1>3, InitiatorKeeps
  <2>2. pc' = pc
    BY <2>1 DEF rvars
  <2> QED BY <1>1, <2>1, <2>2, ReceivingStutters DEF RInv
<1>4. CASE UNCHANGED vars
  <2>1. UNCHANGED <<taken, mem, cbufs, vec, overflow, offset, pc>>
    BY <1>4 DEF vars, tvars, rvars
  <2>2. Receiving'
    BY <1>1, <2>1, ReceivingStutters
  <2>3. Typed'
    BY <1>1, <1>4 DEF vars, tvars, rvars, ivars, modes, Typed, Modes, Streams, Tokened, Asking, Pendings
  <2> QED BY <2>2, <2>3 DEF RInv
<1> QED BY <1>2, <1>3, <1>4 DEF Next

(* While a PDU fits in two common buffers, what readv() put in the buffers *)
(* and the tokenizer has not made a token of is the end of what was        *)
(* received, each cell in its place, and between two rounds of the receive *)
(* loop the iovecs are the free space of the buffers, in order: however    *)
(* the stream is cut, IovecContainer loses and overwrites nothing.         *)
THEOREM ReceiveSoundHolds ==
  ASSUME TwoIovecs
  PROVE  Spec => []ReceiveSound
<1>1. Init => RInv
  BY TypedInit, ReceivingInit DEF RInv
<1>2. RInv /\ [Next]_vars => RInv'
  BY RInvKeeps
<1>3. RInv => ReceiveSound
  <2> SUFFICES ASSUME RInv PROVE ReceiveSound
    OBVIOUS
  <2>1. Geometry /\ Linear /\ Vectors
    BY DEF RInv, Receiving
  <2>2. Buffered
    BY <2>1, BufferedHolds
  <2>3. Idle => IovecsFree
    <3> SUFFICES ASSUME Idle PROVE IovecsFree
      OBVIOUS
    <3>1. Exact(vec, Len(mem), taken)
      BY <2>1 DEF Vectors, Idle
    <3> QED BY <2>1, <3>1, IovecsFreeHolds
  <2> QED BY <2>2, <2>3 DEF ReceiveSound
<1> QED BY <1>1, <1>2, <1>3, PTL DEF Spec
-----------------------------------------------------------------------------
(* Where the PDUs lie in the stream, and which of them are in tokens.      *)
Ends(s, m) == IF m = 0 THEN 0 ELSE s[m].at + GetPDULength(s[m])
Laid(s) ==
  /\ \A k \in 1 .. Len(s) : s[k].at = Ends(s, k - 1)
  /\ \A k, l \in 0 .. Len(s) : k < l => Ends(s, k) + HEADER <= Ends(s, l)

LEMMA EndsType ==
  ASSUME NEW s \in Seq(Pdus), NEW m \in 0 .. Len(s)
  PROVE  Ends(s, m) \in Nat
<1>1. CASE m = 0
  BY <1>1 DEF Ends
<1>2. CASE m # 0
  <2> DEFINE q == s[m]
  <2>1. q \in Pdus
    BY <1>2
  <2>2. Ends(s, m) = q.at + (HEADER + q.dlength)
    BY <1>2 DEF Ends, GetPDULength
  <2>3. MRDS \in Nat /\ HEADER \in Nat
    BY Sizes
  <2> HIDE DEF q
  <2>4. q.at \in Nat /\ q.dlength \in Nat
    BY <2>1, <2>3 DEF Pdus
  <2> QED BY <2>2, <2>3, <2>4
<1> QED BY <1>1, <1>2

LEMMA EndsUnique ==
  ASSUME NEW s \in Seq(Pdus), Laid(s), NEW a \in 0 .. Len(s), NEW b \in 0 .. Len(s),
         Ends(s, a) = Ends(s, b)
  PROVE  a = b
<1>1. Ends(s, a) \in Nat /\ Ends(s, b) \in Nat /\ HEADER \in Nat /\ HEADER > 0
  BY EndsType, Sizes
<1>2. ~(a < b)
  <2> SUFFICES ASSUME a < b PROVE FALSE
    OBVIOUS
  <2>1. Ends(s, a) + HEADER <= Ends(s, b)
    BY DEF Laid
  <2> QED BY <1>1, <2>1
<1>3. ~(b < a)
  <2> SUFFICES ASSUME b < a PROVE FALSE
    OBVIOUS
  <2>1. Ends(s, b) + HEADER <= Ends(s, a)
    BY DEF Laid
  <2> QED BY <1>1, <2>1
<1> QED BY <1>2, <1>3

LEMMA EndsMonotone ==
  ASSUME NEW s \in Seq(Pdus), Laid(s), NEW a \in 0 .. Len(s), NEW b \in 0 .. Len(s), a <= b
  PROVE  Ends(s, a) <= Ends(s, b)
<1>1. Ends(s, a) \in Nat /\ Ends(s, b) \in Nat /\ HEADER \in Nat
  BY EndsType, Sizes
<1>2. CASE a = b
  BY <1>1, <1>2
<1>3. CASE a < b
  <2>1. Ends(s, a) + HEADER <= Ends(s, b)
    BY <1>3 DEF Laid
  <2> QED BY <1>1, <2>1
<1> QED BY <1>2, <1>3

LEMMA SentIs ==
  ASSUME stream \in Seq(Pdus)
  PROVE  Sent = Ends(stream, Len(stream))
<1>1. CASE stream = << >>
  BY <1>1 DEF Sent, Ends
<1>2. CASE stream # << >>
  <2>1. Len(stream) # 0 /\ Last(stream) = stream[Len(stream)]
    BY <1>2 DEF Last
  <2> QED BY <1>2, <2>1 DEF Sent, Ends
<1> QED BY <1>1, <1>2

LEMMA LaidAppend ==
  ASSUME NEW s \in Seq(Pdus), Laid(s), NEW q \in Pdus, q.at = Ends(s, Len(s)), NEW u, u = Append(s, q)
  PROVE  /\ Laid(u)
         /\ \A m \in 0 .. Len(s) : Ends(u, m) = Ends(s, m)
<1> DEFINE n == Len(s)
<1>1. /\ n \in Nat /\ u \in Seq(Pdus) /\ Len(u) = n + 1
      /\ u[n + 1] = q /\ \A m \in 1 .. n : u[m] = s[m]
  OBVIOUS
<1>2. HEADER \in Nat /\ MRDS \in Nat
  BY Sizes
<1> HIDE DEF n
<1>3. ASSUME NEW m \in 0 .. n PROVE Ends(u, m) = Ends(s, m)
  <2>1. CASE m = 0
    BY <2>1 DEF Ends
  <2>2. CASE m # 0
    <3>1. u[m] = s[m]
      BY <1>1, <2>2
    <3> QED BY <3>1, <2>2 DEF Ends
  <2> QED BY <2>1, <2>2
<1>4. Ends(u, n + 1) = Ends(s, n) + HEADER + q.dlength /\ q.dlength \in Nat
  <2>1. Ends(u, n + 1) = q.at + (HEADER + q.dlength)
    BY <1>1 DEF Ends, GetPDULength
  <2>2. q.at \in Nat /\ q.dlength \in Nat
    BY <1>2 DEF Pdus
  <2> QED BY <1>2, <2>1, <2>2 DEF n
<1>5. \A m \in 0 .. n : Ends(s, m) \in Nat
  BY EndsType DEF n
<1>6. ASSUME NEW k \in 1 .. (n + 1) PROVE u[k].at = Ends(u, k - 1)
  <2>1. CASE k \in 1 .. n
    <3>1. k - 1 \in 0 .. n /\ u[k] = s[k]
      BY <1>1, <2>1
    <3>2. s[k].at = Ends(s, k - 1)
      BY <2>1 DEF Laid, n
    <3> QED BY <1>3, <3>1, <3>2
  <2>2. CASE k = n + 1
    <3>1. k - 1 = n /\ n \in 0 .. n
      BY <1>1, <2>2
    <3> QED BY <1>1, <1>3, <2>2, <3>1 DEF n
  <2> QED BY <1>1, <2>1, <2>2
<1>7. ASSUME NEW k \in 0 .. (n + 1), NEW l \in 0 .. (n + 1), k < l
      PROVE  Ends(u, k) + HEADER <= Ends(u, l)
  <2>1. k \in 0 .. n
    BY <1>1, <1>7
  <2>2. CASE l \in 0 .. n
    <3>1. Ends(s, k) + HEADER <= Ends(s, l)
      BY <1>7, <2>1, <2>2 DEF Laid, n
    <3> QED BY <1>3, <2>1, <2>2, <3>1
  <2>3. CASE l = n + 1
    <3>1. Ends(s, k) <= Ends(s, n)
      <4>1. n \in 0 .. Len(s) /\ k \in 0 .. Len(s) /\ k <= n
        BY <1>1, <2>1 DEF n
      <4> QED BY <4>1, EndsMonotone
    <3>2. Ends(u, k) = Ends(s, k) /\ Ends(s, k) \in Nat /\ Ends(s, n) \in Nat
      BY <1>1, <1>3, <1>5, <2>1
    <3> QED BY <1>2, <1>4, <2>3, <3>1, <3>2
  <2> QED BY <1>1, <2>2, <2>3
<1> QED BY <1>1, <1>3, <1>6, <1>7 DEF Laid, n

(* The PDUs that became tokens, and those of them that were worked on.     *)
Parsed == CHOOSE m \in 0 .. Len(stream) : Ends(stream, m) = Pos
Handled == Parsed - Len(bhss)
Following ==
  /\ Laid(stream) /\ taken <= Sent
  /\ \E m \in 0 .. Len(stream) : Ends(stream, m) = Pos
  /\ Handled \in Nat
  /\ \A i \in DOMAIN bhss : bhss[i].pdu = Handled + i
Paused ==
  /\ status = "TOKEN_PARTIAL" => offset >= HEADER
  /\ pc = "recv" => bhss = << >>
  /\ pc # "parse" => \/ offset < HEADER
                     \/ \E k \in DOMAIN stream : /\ stream[k].at = Pos
                                                 /\ GetPDULength(stream[k]) > offset

LEMMA ParsedIs ==
  ASSUME stream \in Seq(Pdus), Laid(stream), NEW m \in 0 .. Len(stream), Ends(stream, m) = Pos
  PROVE  Parsed = m
<1>1. Parsed \in 0 .. Len(stream) /\ Ends(stream, Parsed) = Pos
  BY DEF Parsed
<1> QED BY <1>1, EndsUnique

LEMMA ParsedFacts ==
  ASSUME Typed, Following
  PROVE  /\ stream \in Seq(Pdus) /\ Laid(stream)
         /\ Parsed \in 0 .. Len(stream) /\ Ends(stream, Parsed) = Pos
         /\ Handled \in Nat /\ Parsed = Handled + Len(bhss) /\ Len(bhss) \in Nat
         /\ Handled <= Len(stream)
<1>1. stream \in Seq(Pdus) /\ Laid(stream) /\ Len(bhss) \in Nat /\ Handled \in Nat
  BY DEF Typed, Streams, Tokened, Following
<1>2. Parsed \in 0 .. Len(stream) /\ Ends(stream, Parsed) = Pos
  BY DEF Parsed, Following
<1>3. Parsed = Handled + Len(bhss)
  BY <1>1, <1>2 DEF Handled
<1> QED BY <1>1, <1>2, <1>3

(* A new PDU behind the others changes nothing of this.                    *)
LEMMA SendFollows ==
  ASSUME Typed, taken \in Nat, Following, Paused, NEW q \in Pdus, q.at = Sent, stream' = Append(stream, q),
         UNCHANGED <<taken, offset, bhss, status, pc>>
  PROVE  Following' /\ Paused' /\ Handled' = Handled /\ Parsed' = Parsed
<1>1. /\ stream \in Seq(Pdus) /\ Laid(stream)
      /\ Parsed \in 0 .. Len(stream) /\ Ends(stream, Parsed) = Pos
      /\ Handled \in Nat /\ Len(bhss) \in Nat
  BY ParsedFacts
<1>2. q.at = Ends(stream, Len(stream))
  BY <1>1, SentIs
<1>3. Laid(stream') /\ \A m \in 0 .. Len(stream) : Ends(stream', m) = Ends(stream, m)
  BY <1>1, <1>2, LaidAppend
<1>4. stream' \in Seq(Pdus) /\ Len(stream') = Len(stream) + 1 /\ Len(stream) \in Nat
      /\ \A k \in 1 .. Len(stream) : stream'[k] = stream[k]
  BY <1>1
<1>5. Pos' = Pos
  BY DEF Pos
<1>6. Parsed' = Parsed
  <2> DEFINE p == Parsed
  <2>1. p \in 0 .. Len(stream') /\ Ends(stream', p) = Pos'
    BY <1>1, <1>3, <1>4, <1>5
  <2> HIDE DEF p
  <2>2. Parsed' \in 0 .. Len(stream') /\ Ends(stream', Parsed') = Pos'
    <3> DEFINE S == {m \in 0 .. Len(stream') : Ends(stream', m) = Pos'}
    <3>1. p \in S
      BY <2>1
    <3>2. Parsed' = CHOOSE m \in 0 .. Len(stream') : Ends(stream', m) = Pos'
      BY DEF Parsed
    <3> QED BY <2>1, <3>2
  <2>3. p = Parsed'
    BY <1>3, <1>4, <2>1, <2>2, EndsUnique
  <2> QED BY <2>3 DEF p
<1>7. Handled' = Handled
  BY <1>6 DEF Handled
<1>8. Sent' \in Nat /\ taken' <= Sent'
  <2>1. Sent' = Ends(stream', Len(stream) + 1)
    <3>1. stream' # << >> /\ Last(stream') = stream'[Len(stream) + 1]
      BY <1>4 DEF Last
    <3>2. Sent' = (stream'[Len(stream) + 1]).at + GetPDULength(stream'[Len(stream) + 1])
      BY <3>1 DEF Sent
    <3> QED BY <1>4, <3>2 DEF Ends
  <2>2. Ends(stream', Len(stream)) = Sent
    BY <1>1, <1>3, <1>4, SentIs
  <2> DEFINE n == Len(stream)
             u == stream'
  <2>7. n \in 0 .. Len(u) /\ n + 1 \in 0 .. Len(u) /\ n <= n + 1 /\ u \in Seq(Pdus) /\ Laid(u)
    BY <1>3, <1>4
  <2> HIDE DEF n, u
  <2>3. Ends(u, n) <= Ends(u, n + 1)
    BY <2>7, EndsMonotone
  <2>4. Ends(u, n) \in Nat /\ Ends(u, n + 1) \in Nat
    BY <2>7, EndsType
  <2>5. taken <= Sent /\ Sent \in Nat
    BY <1>1, SentType DEF Following
  <2>6. taken <= Sent'
    <3>1. Sent <= Sent' /\ Sent' \in Nat
      BY <2>1, <2>2, <2>3, <2>4 DEF u, n
    <3> QED BY <2>5, <3>1
  <2> QED BY <2>1, <2>4, <2>6 DEF u, n
<1>9. Following'
  <2>1. \E m \in 0 .. Len(stream') : Ends(stream', m) = Pos'
    BY <1>1, <1>3, <1>4, <1>5
  <2> QED BY <1>1, <1>3, <1>7, <1>8, <2>1 DEF Following
<1>10. Paused'
  BY <1>4, <1>5 DEF Paused
<1> QED BY <1>6, <1>7, <1>9, <1>10
LEMMA HeaderAt ==
  ASSUME Geometry, Linear, offset >= 1
  PROVE  HeaderCells(Joined, cbufs[1].id, cbufs[1].offset)[1] = Pos + 1
<1>1. /\ taken \in Nat /\ offset \in 0 .. taken /\ overflow \in Nat /\ First \in Nat \ {0}
      /\ Len(mem) = First + overflow + 1 /\ Pos \in Nat
      /\ cbufs = Row(First, overflow + 2, Pos, taken)
      /\ Edge(First - 1) <= Pos /\ Pos < Edge(First)
  BY GeometryFacts
<1>2. B \in Nat /\ HEADER \in Nat \ {0}
  BY Sizes
<1>3. Edge(First - 1) \in Nat /\ Edge(First) = Edge(First - 1) + B
  <2> DEFINE g == First - 1
  <2>1. g \in Nat /\ g + 1 = First
    BY <1>1
  <2> HIDE DEF g
  <2>2. Edge(g) \in Nat /\ Edge(g + 1) = Edge(g) + B
    BY <2>1, EdgeSteps
  <2> QED BY <2>1, <2>2 DEF g
<1> DEFINE e == Edge(First - 1)
           p == Pos - e
<1>4. p \in 0 .. (B - 1) /\ e + p = Pos /\ Pos < taken
  <2>1. Pos = taken - offset
    BY DEF Pos
  <2> QED BY <1>1, <1>2, <1>3, <2>1
<1>5. cbufs[1].id = First /\ cbufs[1].offset = p
  <2> DEFINE f == First
             m == overflow + 2
  <2>1. 1 \in 1 .. m /\ f + 1 - 1 = f /\ cbufs = Row(f, m, Pos, taken)
    BY <1>1
  <2> HIDE DEF f, m
  <2>2. cbufs[1] = Buf(f, Pos, taken)
    BY <2>1 DEF Row
  <2>3. cbufs[1].id = f /\ cbufs[1].offset = Clamp(Pos - Edge(f - 1))
    BY <2>2 DEF Buf
  <2>4. Clamp(p) = p
    <3> HIDE DEF p
    <3> QED BY <1>2, <1>4 DEF Clamp, Max2, Min2
  <2> QED BY <2>3, <2>4 DEF f
<1>6. Joined[First][p] = Pos + 1
  <2>1. Len(Joined) = Len(mem) /\ Tape(Joined, taken)
    BY JoinedKeeps
  <2>2. First \in 1 .. Len(Joined)
    BY <1>1, <2>1
  <2> HIDE DEF p
  <2>3. Joined[First][p] = e + p + 1
    BY <1>4, <2>1, <2>2 DEF Tape
  <2> QED BY <1>4, <2>3
<1>7. HeaderCells(Joined, First, p)[1] = Joined[First][p]
  <2>1. 1 \in 1 .. HEADER
    BY <1>2
  <2>2. p + 1 - 1 = p
    BY <1>4
  <2> HIDE DEF p
  <2> QED BY <2>1, <2>2 DEF HeaderCells
<1> QED BY <1>5, <1>6, <1>7

(* The PDU that the tokenizer finds at the read position is the next one.  *)
LEMMA ParsedNext ==
  ASSUME Typed, Geometry, Linear, Following, offset >= 1, NEW k \in DOMAIN stream, ParsedPdu(k)
  PROVE  /\ stream[k].at = Pos /\ k = Parsed + 1
         /\ Ends(stream, k) = Pos + GetPDULength(stream[k]) /\ GetPDULength(stream[k]) \in Nat
<1>1. /\ stream \in Seq(Pdus) /\ Laid(stream)
      /\ Parsed \in 0 .. Len(stream) /\ Ends(stream, Parsed) = Pos
  BY ParsedFacts
<1> DEFINE q == stream[k]
<1>2. q \in Pdus /\ k \in 1 .. Len(stream)
  BY <1>1
<1>3. q.at \in Nat /\ q.dlength \in Nat /\ HEADER \in Nat /\ Pos \in Nat
  BY <1>2, Sizes, GeometryFacts DEF Pdus
<1>4. q.at + 1 = Pos + 1
  BY HeaderAt DEF ParsedPdu
<1> HIDE DEF q
<1>5. q.at = Pos
  BY <1>3, <1>4
<1>6. Ends(stream, k - 1) = Ends(stream, Parsed)
  BY <1>1, <1>2, <1>5 DEF Laid, q
<1>7. k - 1 = Parsed
  <2>1. k - 1 \in 0 .. Len(stream)
    BY <1>1, <1>2
  <2> QED BY <1>1, <1>6, <2>1, EndsUnique
<1>8. k = Parsed + 1 /\ k # 0
  BY <1>1, <1>2, <1>7
<1>9. Ends(stream, k) = q.at + GetPDULength(q)
  BY <1>8 DEF Ends, q
<1>10. GetPDULength(q) \in Nat
  BY <1>3 DEF GetPDULength
<1> QED BY <1>5, <1>8, <1>9, <1>10 DEF q

(* One token more, one more PDU that is parsed.                            *)
LEMMA TokenFollows ==
  ASSUME Typed, Typed', Geometry, Linear, Following, offset >= 1, UNCHANGED <<stream, taken>>,
         NEW k \in DOMAIN stream, ParsedPdu(k), GetPDULength(stream[k]) <= offset, Token(k, cbufs[1])
  PROVE  /\ Following' /\ Handled' = Handled /\ Parsed' = Parsed + 1
         /\ offset' = offset - GetPDULength(stream[k]) /\ offset' \in Nat
<1> DEFINE n == GetPDULength(stream[k])
<1>1. /\ stream \in Seq(Pdus) /\ Laid(stream) /\ Parsed \in 0 .. Len(stream)
      /\ Handled \in Nat /\ Parsed = Handled + Len(bhss) /\ Len(bhss) \in Nat
  BY ParsedFacts
<1>2. k = Parsed + 1 /\ Ends(stream, k) = Pos + n /\ n \in Nat
  BY ParsedNext
<1>3. /\ bhss' \in Seq(TokenSet) /\ Len(bhss') = Len(bhss) + 1
      /\ \A i \in 1 .. Len(bhss) : bhss'[i] = bhss[i]
      /\ bhss'[Len(bhss) + 1] = TokenOf(k) /\ TokenOf(k).pdu = k
  BY TokenMade
<1>4. taken \in Nat /\ offset \in Nat /\ offset' = offset - n /\ n <= offset
  BY GeometryFacts DEF Token
<1> HIDE DEF n
<1>5. Pos' = Ends(stream, k)
  <2>1. Pos' = taken - (offset - n) /\ Pos = taken - offset
    BY <1>4 DEF Pos
  <2> QED BY <1>2, <1>4, <2>1
<1>6. Sent' = Sent
  BY DEF Sent
<1>7. k - Len(bhss') = Handled /\ k \in 0 .. Len(stream')
  BY <1>1, <1>2, <1>3
<1>8. ASSUME NEW i \in DOMAIN bhss' PROVE bhss'[i].pdu = k - Len(bhss') + i
  <2>1. i \in 1 .. Len(bhss) \/ i = Len(bhss) + 1
    BY <1>1, <1>3, <1>8
  <2>2. CASE i \in 1 .. Len(bhss)
    <3>1. i \in DOMAIN bhss
      BY <2>2 DEF Typed, Tokened
    <3>2. bhss'[i].pdu = Handled + i
      BY <1>3, <2>2, <3>1 DEF Following
    <3> QED BY <1>7, <3>2
  <2>3. CASE i = Len(bhss) + 1
    <3>1. Handled + i = k
      BY <1>1, <1>2, <2>3
    <3> QED BY <1>3, <1>7, <2>3, <3>1
  <2> QED BY <2>1, <2>2, <2>3
<1>9. Following' /\ Parsed' = k /\ Handled' = k - Len(bhss')
  <2> DEFINE m == k
  <2>1. /\ Laid(stream') /\ taken' <= Sent' /\ m \in 0 .. Len(stream') /\ Ends(stream', m) = Pos'
        /\ m - Len(bhss') \in Nat
    BY <1>1, <1>5, <1>6, <1>7 DEF Following
  <2>2. Parsed' = m
    <3>1. Parsed' \in 0 .. Len(stream') /\ Ends(stream', Parsed') = Pos'
      <4>1. Parsed' = CHOOSE x \in 0 .. Len(stream') : Ends(stream', x) = Pos'
        BY DEF Parsed
      <4> QED BY <2>1, <4>1
    <3>2. Ends(stream, Parsed') = Ends(stream, m) /\ m \in 0 .. Len(stream) /\ Parsed' \in 0 .. Len(stream)
      BY <2>1, <3>1
    <3> QED BY <1>1, <3>2, EndsUnique
  <2>3. Handled' = m - Len(bhss')
    BY <2>2 DEF Handled
  <2> QED BY <1>8, <2>1, <2>2, <2>3 DEF Following
<1> QED BY <1>2, <1>4, <1>7, <1>9 DEF n
(* Whatever the session does, it works on the PDUs in their order: only a  *)
(* step of doWork() that takes a token counts one up.                      *)
LEMMA TargetFollows ==
  ASSUME Typed, Typed', Receiving, Following, Paused, Target
  PROVE  /\ Following' /\ Paused'
         /\ ~(Work /\ bhss # << >>) => Handled' = Handled
         /\ (Work /\ bhss # << >>) => /\ Handled' = Handled + 1 /\ Head(bhss).pdu = Handled + 1
                                     /\ Handled + 1 \in DOMAIN stream
<1>1. /\ stream \in Seq(Pdus) /\ Laid(stream)
      /\ Parsed \in 0 .. Len(stream) /\ Ends(stream, Parsed) = Pos
      /\ Handled \in Nat /\ Parsed = Handled + Len(bhss) /\ Len(bhss) \in Nat
      /\ taken <= Sent
  BY ParsedFacts DEF Following
<1>2. /\ Geometry /\ Linear /\ taken \in Nat /\ offset \in 0 .. taken /\ HEADER \in Nat \ {0}
      /\ bhss \in Seq(TokenSet) /\ \A i \in DOMAIN bhss : bhss[i].pdu = Handled + i
  BY GeometryFacts, Sizes DEF Receiving, Typed, Tokened, Following
<1>3. ASSUME UNCHANGED <<stream, bhss>>, taken' <= Sent, Pos' = Pos
      PROVE  Following' /\ Handled' = Handled
  <2>1. Parsed' = Parsed /\ Sent' = Sent
    BY <1>3 DEF Parsed, Sent
  <2>2. Handled' = Handled
    BY <1>3, <2>1 DEF Handled
  <2> QED BY <1>3, <2>1, <2>2 DEF Following
<1>4. CASE Receive
  <2>1. /\ pc' = "parse" /\ \E n \in 1 .. (count * B) : Readv(n)
    BY <1>4 DEF Receive
  <2>2. PICK n : Readv(n)
    BY <2>1
  <2>3. /\ n \in 1 .. Min2(Sent - taken, Sum(Lens(vec)))
        /\ taken' = taken + n /\ offset' = offset + n /\ UNCHANGED <<stream, status, bhss>>
    BY <2>2 DEF Readv
  <2>4. n \in Nat /\ n <= Sent - taken
    <3>1. Sent \in Nat
      BY <1>1, SentType
    <3> DEFINE x == Sum(Lens(vec))
               y == Sent - taken
    <3>2. x \in Int
      <4>1. Exact(vec, Len(mem), taken)
        BY <1>4 DEF Receiving, Vectors, Receive, Idle
      <4> QED BY <1>2, <4>1, VecSum
    <3>3. n \in 1 .. Min2(y, x) /\ y \in Int
      BY <1>2, <2>3, <3>1
    <3> HIDE DEF x, y
    <3>4. n \in Nat /\ n <= y
      BY <3>2, <3>3 DEF Min2
    <3> QED BY <3>4 DEF y
  <2>5. taken' <= Sent /\ Pos' = Pos
    <3>1. Sent \in Nat
      BY <1>1, SentType
    <3>2. taken + n <= Sent /\ (taken + n) - (offset + n) = taken - offset
      BY <1>2, <2>4, <3>1
    <3> QED BY <2>3, <3>2 DEF Pos
  <2>6. Following' /\ Handled' = Handled
    BY <1>3, <2>3, <2>5
  <2>7. Paused'
    BY <1>2, <2>1, <2>3, <2>4 DEF Paused
  <2>8. ~Work
    BY <1>4 DEF Receive, Idle, Work
  <2> QED BY <2>6, <2>7, <2>8
<1>5. CASE Parse
  <2>1. /\ pc = "parse" /\ (PartialHead \/ ParsedHeader)
        /\ pc' = IF Len(bhss') > Len(bhss) /\ offset' > 0 THEN "parse" ELSE "work"
    BY <1>5 DEF Parse
  <2>2. pc' \in {"parse", "work"} /\ ~Work
    BY <2>1 DEF Work
  <2>3. status = "TOKEN_PARTIAL" => offset >= HEADER
    BY DEF Paused
  <2>4. CASE /\ status = "TOKEN_HEAD" /\ offset < HEADER /\ UNCHANGED <<stream, taken, status, offset, bhss>>
    <3>1. Pos' = Pos
      BY <2>4 DEF Pos
    <3>2. Following' /\ Handled' = Handled
      BY <1>1, <1>3, <2>4, <3>1
    <3>3. Paused'
      BY <2>2, <2>4 DEF Paused
    <3> QED BY <2>2, <3>2, <3>3
  <2>5. CASE \E k \in DOMAIN stream : ParsedPdu(k)
                 /\ GetPDULength(stream[k]) > offset
                 /\ (status = "TOKEN_PARTIAL" \/ offset >= HEADER)
                 /\ status' = "TOKEN_PARTIAL" /\ UNCHANGED <<stream, taken, offset, bhss>>
    <3>1. PICK k \in DOMAIN stream :
                 /\ ParsedPdu(k)
                 /\ GetPDULength(stream[k]) > offset
                 /\ (status = "TOKEN_PARTIAL" \/ offset >= HEADER)
                 /\ status' = "TOKEN_PARTIAL" /\ UNCHANGED <<stream, taken, offset, bhss>>
      BY <2>5
    <3>2. offset >= HEADER /\ offset >= 1
      BY <1>2, <2>3, <3>1
    <3>3. stream[k].at = Pos
      BY <1>2, <3>1, <3>2, ParsedNext
    <3>4. Pos' = Pos
      BY <3>1 DEF Pos
    <3>5. Following' /\ Handled' = Handled
      BY <1>1, <1>3, <3>1, <3>4
    <3>6. Paused'
      BY <2>2, <3>1, <3>2, <3>3, <3>4 DEF Paused
    <3> QED BY <2>2, <3>5, <3>6
  <2>6. CASE \E k \in DOMAIN stream : ParsedPdu(k)
                 /\ GetPDULength(stream[k]) <= offset
                 /\ (status = "TOKEN_PARTIAL" \/ offset >= HEADER)
                 /\ status' = "TOKEN_HEAD" /\ Token(k, cbufs[1]) /\ UNCHANGED <<stream, taken>>
    <3>1. PICK k \in DOMAIN stream :
                 /\ ParsedPdu(k)
                 /\ GetPDULength(stream[k]) <= offset
                 /\ (status = "TOKEN_PARTIAL" \/ offset >= HEADER)
                 /\ status' = "TOKEN_HEAD" /\ Token(k, cbufs[1]) /\ UNCHANGED <<stream, taken>>
      BY <2>6
    <3>2. offset >= HEADER /\ offset >= 1
      BY <1>2, <2>3, <3>1
    <3>3. Following' /\ Handled' = Handled /\ offset' \in Nat
      BY <1>2, <3>1, <3>2, TokenFollows
    <3>4. Len(bhss') = Len(bhss) + 1
      BY <1>2, <3>1, TokenMade
    <3>5. pc' # "parse" => offset' < HEADER
      BY <1>1, <1>2, <2>1, <3>3, <3>4
    <3>6. Paused'
      BY <2>2, <3>1, <3>5 DEF Paused
    <3> QED BY <2>2, <3>3, <3>6
  <2> QED BY <2>1, <2>4, <2>5, <2>6, ParseCases
<1>6. CASE Work
  <2>1. /\ pc = "work" /\ UNCHANGED <<stream, taken, offset, status>>
        /\ \/ bhss = << >> /\ pc' = "recv" /\ UNCHANGED bhss
           \/ bhss # << >> /\ bhss' = Tail(bhss) /\ UNCHANGED pc
    BY <1>6, WorkCases
  <2>2. Pos' = Pos /\ Sent' = Sent /\ Parsed' = Parsed
    BY <2>1 DEF Pos, Sent, Parsed
  <2>3. Paused'
    BY <2>1, <2>2 DEF Paused
  <2>4. CASE bhss = << >>
    <3>1. Following' /\ Handled' = Handled
      BY <1>1, <1>3, <2>1, <2>2, <2>4
    <3> QED BY <2>3, <2>4, <3>1
  <2>5. CASE bhss # << >>
    <3>1. /\ bhss' = Tail(bhss) /\ Len(bhss') = Len(bhss) - 1 /\ Len(bhss) >= 1
          /\ \A i \in DOMAIN bhss' : i + 1 \in DOMAIN bhss /\ bhss'[i] = bhss[i + 1] /\ i \in Nat
          /\ Head(bhss) = bhss[1] /\ 1 \in DOMAIN bhss
      BY <1>2, <2>1, <2>5
    <3>2. Handled' = Handled + 1
      <4>1. Handled' = Parsed - (Len(bhss) - 1)
        BY <2>2, <3>1 DEF Handled
      <4> QED BY <1>1, <4>1
    <3>3. Head(bhss).pdu = Handled + 1 /\ Handled + 1 \in DOMAIN stream
      BY <1>1, <1>2, <3>1
    <3>4. \A i \in DOMAIN bhss' : bhss'[i].pdu = Handled' + i
      <4> TAKE i \in DOMAIN bhss'
      <4>1. bhss'[i].pdu = Handled + (i + 1) /\ i \in Nat
        BY <1>2, <3>1
      <4> QED BY <1>1, <3>2, <4>1
    <3>5. Following'
      <4>1. Laid(stream') /\ taken' <= Sent' /\ Handled' \in Nat
        BY <1>1, <2>1, <2>2, <3>2
      <4>2. Parsed \in 0 .. Len(stream') /\ Ends(stream', Parsed) = Pos'
        BY <1>1, <2>1, <2>2
      <4>3. \E m \in 0 .. Len(stream') : Ends(stream', m) = Pos'
        BY <4>2
      <4> QED BY <3>4, <4>1, <4>3 DEF Following
    <3> QED BY <1>6, <2>3, <2>5, <3>2, <3>3, <3>5
  <2> QED BY <2>4, <2>5
<1>7. CASE Invoke
  <2>1. UNCHANGED <<stream, taken, offset, bhss, status, pc>> /\ pc = "recv"
    BY <1>7 DEF Invoke, Idle, tvars
  <2>2. Pos' = Pos
    BY <2>1 DEF Pos
  <2>3. Following' /\ Handled' = Handled
    BY <1>1, <1>3, <2>1, <2>2
  <2>4. Paused' /\ ~Work
    BY <2>1, <2>2 DEF Paused, Work
  <2> QED BY <2>3, <2>4
<1> QED BY <1>4, <1>5, <1>6, <1>7 DEF Target

(* Nothing is left once all that was sent has been received and worked on. *)
LEMMA NothingLeft ==
  ASSUME Typed, Receiving, Following, Paused, Idle, taken = Sent
  PROVE  Handled = Len(stream)
<1>1. /\ stream \in Seq(Pdus) /\ Laid(stream)
      /\ Parsed \in 0 .. Len(stream) /\ Ends(stream, Parsed) = Pos
      /\ Handled \in Nat /\ Parsed = Handled + Len(bhss)
  BY ParsedFacts
<1>2. bhss = << >> /\ pc # "parse"
  BY DEF Idle, Paused
<1>3. Handled = Parsed
  BY <1>1, <1>2
<1>4. /\ taken \in Nat /\ offset \in 0 .. taken /\ HEADER \in Nat \ {0} /\ Pos = taken - offset
  BY GeometryFacts, Sizes DEF Receiving, Pos
<1>5. ASSUME Parsed # Len(stream) PROVE FALSE
  <2> DEFINE n == Len(stream)
             p == Parsed
             e == Ends(stream, n)
  <2>1. p \in 0 .. n /\ p < n /\ n \in 0 .. n /\ n \in Nat
    BY <1>1, <1>5
  <2>2. Ends(stream, p) + HEADER <= e /\ e = taken /\ Ends(stream, p) = Pos
    <3>1. Ends(stream, p) + HEADER <= e
      BY <1>1, <2>1 DEF Laid
    <3> QED BY <1>1, <3>1, SentIs
  <2>3. offset >= HEADER
    <3> HIDE DEF e, p
    <3> QED BY <1>4, <2>2
  <2>4. PICK k \in DOMAIN stream : stream[k].at = Pos /\ GetPDULength(stream[k]) > offset
    BY <1>2, <1>4, <2>3 DEF Paused
  <2>5. k \in 1 .. n /\ k \in 0 .. n /\ k # 0 /\ k <= n
    BY <1>1, <2>1
  <2>6. Ends(stream, k) = Pos + GetPDULength(stream[k])
    BY <2>4, <2>5 DEF Ends
  <2>7. Ends(stream, k) <= e
    BY <1>1, <2>1, <2>5, EndsMonotone
  <2>8. GetPDULength(stream[k]) \in Int
    <3>1. stream[k] \in Pdus
      BY <1>1
    <3>2. stream[k].dlength \in Int
      BY <3>1, Sizes DEF Pdus
    <3> QED BY <1>4, <3>2 DEF GetPDULength
  <2> HIDE DEF e
  <2> QED BY <1>4, <2>2, <2>4, <2>6, <2>7, <2>8
<1> QED BY <1>3, <1>5
-----------------------------------------------------------------------------
(* The books of the session and its initiator: s are the PDUs, ws the      *)
(* WRITEs, b the bad PDUs, rs the replies that are under way, info the     *)
(* pending tasks, h how many PDUs were worked on; r2t and imm are the      *)
(* negotiated modes.                                                       *)
Mine(s, w, k) == {l \in 1 .. (k - 1) : s[l].w = w}
EndsAt(q) == q.off + q.dlength
LastOf(S) == CHOOSE m \in S : \A n \in S : n <= m
Upto(s, w, k) == IF Mine(s, w, k) = {} THEN 0 ELSE EndsAt(s[LastOf(Mine(s, w, k))])
Settled(s, w, h) == \A k \in (h + 1) .. Len(s) : s[k].w # w
Seen(s, w, h) == Mine(s, w, h + 1) # {}
RepliedTo(rs, itt) == \E i \in DOMAIN rs : rs[i].itt = itt

(* The initiator keeps to the rules with a PDU of WRITE v, of which upto   *)
(* cells were sent before.                                                 *)
GoodPdu(q, v, upto, first, r2t, imm) ==
  /\ q.itt = v.itt /\ q.off = upto /\ EndsAt(q) <= v.len
  /\ ~q.final => EndsAt(q) < v.len
  /\ (q.op = "WRITE") <=> first
  /\ q.op = "DATA" => q.dlength > 0
  /\ q.op = "WRITE" =>
       /\ q.lba = v.lba /\ LBA2OFFSET(q.len) = v.len
       /\ q.len > 0 /\ q.lba + q.len <= TotalSize
       /\ imm \/ q.dlength = 0
       /\ q.final \/ (~r2t /\ q.dlength < FirstBurstLength)
       /\ v.waits = (~r2t /\ q.final /\ q.dlength < Min2(v.len, FirstBurstLength))

(* Or it does not.  With more immediate data than it writes, a WRITE       *)
(* spoils its tag: of a spoiled tag the books keep no account.             *)
Overlong(q) == q.op = "WRITE" /\ q.dlength > LBA2OFFSET(q.len)
SpoiledIn(s) ==
  {s[k].itt : k \in {j \in DOMAIN s : /\ s[j].w = 0 /\ s[j].op = "WRITE"
                                     /\ s[j].dlength > LBA2OFFSET(s[j].len)}}
EvilPdu(q, b, imm) ==
  /\ b > 0
  /\ q.op = "WRITE" => \/ q.len = 0 \/ q.lba + q.len > TotalSize
                       \/ imm /\ LBA2OFFSET(q.len) = q.dlength /\ ~q.final
                       \/ Overlong(q)
  /\ q.op = "DATA" => q.dlength > 0

SoundPdus(s, ws, b, r2t, imm) ==
  \A k \in 1 .. Len(s) :
    /\ s[k].w # 0 => /\ s[k].w \in 1 .. Len(ws)
                     /\ GoodPdu(s[k], ws[s[k].w], Upto(s, s[k].w, k), Mine(s, s[k].w, k) = {}, r2t, imm)
    /\ s[k].w = 0 => EvilPdu(s[k], b, imm)
Totals(s, ws) ==
  \A w \in 1 .. Len(ws) :
    /\ Mine(s, w, Len(s) + 1) # {} /\ ws[w].sent = Upto(s, w, Len(s) + 1)
    /\ ws[w].grant <= ws[w].len - ws[w].sent
Finals(s, h) ==
  \A k, l \in (h + 1) .. Len(s) : k < l /\ s[k].w = s[l].w /\ s[k].w # 0 => ~s[k].final
Strays(s, ws, h) ==
  \A k \in (h + 1) .. Len(s) : s[k].w = 0 /\ s[k].op = "DATA" =>
    \A w \in 1 .. Len(ws) : ~ws[w].done /\ ws[w].itt = s[k].itt /\ Mine(s, w, k) # {}
                              => s[k].dlength > ws[w].len - Upto(s, w, k)
Distinct(ws) ==
  \A v, w \in 1 .. Len(ws) : ~ws[v].done /\ ~ws[w].done /\ ws[v].itt = ws[w].itt => v = w
EntryOf(s, ws, info, h, t, w) ==
  /\ ~ws[w].done /\ ws[w].itt = t /\ Seen(s, w, h)
  /\ info[t].lba = ws[w].lba /\ info[t].total = ws[w].len
  /\ info[t].remain = ws[w].len - Upto(s, w, h + 1) /\ info[t].remain > 0
Clean(s, ws) == \A w \in 1 .. Len(ws) : ~ws[w].done => ws[w].itt \notin SpoiledIn(s)
Entries(s, ws, info, h) ==
  \A t \in DOMAIN info \ SpoiledIn(s) : \E w \in 1 .. Len(ws) : EntryOf(s, ws, info, h, t, w)
Attended(s, ws, rs, info, h) ==
  \A w \in 1 .. Len(ws) : ~ws[w].done /\ Seen(s, w, h) =>
    ws[w].itt \in DOMAIN info \/ RepliedTo(rs, ws[w].itt)
ReplyTo(s, ws, h, r, w) ==
  /\ ~ws[w].done /\ ws[w].itt = r.itt /\ Seen(s, w, h) /\ Settled(s, w, h) /\ ws[w].grant = 0
  /\ r.op = "RSP" => ws[w].sent = ws[w].len
  /\ r.op = "R2T" => r.offset = ws[w].sent /\ r.length > 0 /\ r.length <= ws[w].len - r.offset
Replying(s, ws, rs, info, h) ==
  \A i \in DOMAIN rs : rs[i].itt \notin SpoiledIn(s) =>
    /\ \A j \in DOMAIN rs : rs[j].itt = rs[i].itt => i = j
    /\ (rs[i].op = "R2T") <=> (rs[i].itt \in DOMAIN info)
    /\ \E w \in 1 .. Len(ws) : ReplyTo(s, ws, h, rs[i], w)
Granted(s, ws, h) ==
  \A w \in 1 .. Len(ws) : \A k \in (h + 1) .. Len(s) :
    ~ws[w].done /\ s[k].w = w /\ Settled(s, w, k) => (s[k].final <=> (ws[w].grant = 0))
Waiting(s, ws, rs, h) ==
  \A w \in 1 .. Len(ws) : ~ws[w].done /\ Settled(s, w, h) =>
    ws[w].grant > 0 \/ ws[w].waits \/ RepliedTo(rs, ws[w].itt)
Closed(s, ws, h) ==
  \A w \in 1 .. Len(ws) : ws[w].done =>
    Settled(s, w, h) /\ ws[w].grant = 0 /\ ws[w].sent = ws[w].len

Tracks(s, ws, b, h, r2t, imm) ==
  /\ SoundPdus(s, ws, b, r2t, imm) /\ Totals(s, ws) /\ Finals(s, h) /\ Strays(s, ws, h)
  /\ Distinct(ws) /\ Clean(s, ws) /\ Granted(s, ws, h) /\ Closed(s, ws, h)
Tasks(s, ws, rs, info, h) ==
  /\ Entries(s, ws, info, h) /\ Attended(s, ws, rs, info, h)
  /\ Replying(s, ws, rs, info, h) /\ Waiting(s, ws, rs, h)

LEMMA LastIs ==
  ASSUME NEW S \in SUBSET Nat, NEW m \in S, \A n \in S : n <= m
  PROVE  LastOf(S) = m
<1>1. \E z \in S : \A n \in S : n <= z
  OBVIOUS
<1>2. LastOf(S) \in S /\ \A n \in S : n <= LastOf(S)
  BY <1>1, Zenon DEF LastOf
<1>3. LastOf(S) \in Nat /\ m \in Nat /\ m <= LastOf(S) /\ LastOf(S) <= m
  BY <1>2
<1> QED BY <1>3

LEMMA LastExists ==
  ASSUME NEW k \in Nat, NEW S \in SUBSET (1 .. k), S # {}
  PROVE  LastOf(S) \in S /\ \A n \in S : n <= LastOf(S)
<1> DEFINE D == {d \in Nat : k - d \in S}
<1>1. PICK x \in S : TRUE
  OBVIOUS
<1>2. k - x \in D
  <2>1. x \in Nat /\ k - x \in Nat /\ k - (k - x) = x
    BY <1>1
  <2> QED BY <1>1, <2>1
<1>3. D \in SUBSET Nat /\ D # {}
  BY <1>2
<1>4. PICK m \in D : \A y \in D : m <= y
  <2> HIDE DEF D
  <2> QED BY <1>3, Least
<1>5. k - m \in S /\ m \in Nat
  BY <1>4
<1>6. ASSUME NEW n \in S PROVE n <= k - m
  <2>1. k - n \in Nat /\ k - (k - n) = n /\ n \in Nat
    OBVIOUS
  <2>2. k - n \in D
    BY <2>1
  <2>3. m <= k - n
    BY <1>4, <2>2
  <2> QED BY <1>5, <2>1, <2>3
<1>7. \E z \in S : \A n \in S : n <= z
  BY <1>5, <1>6
<1> QED BY <1>7 DEF LastOf

LEMMA MineNext ==
  ASSUME NEW s, NEW w, NEW k \in Nat \ {0}
  PROVE  /\ s[k].w = w => Mine(s, w, k + 1) # {}
         /\ s[k].w # w => Mine(s, w, k + 1) = Mine(s, w, k)
<1>1. \A l : l \in 1 .. (k + 1 - 1) <=> (l \in 1 .. (k - 1) \/ l = k)
  OBVIOUS
<1> QED BY <1>1 DEF Mine

LEMMA UptoNext ==
  ASSUME NEW s, NEW w, NEW k \in Nat \ {0}
  PROVE  /\ s[k].w = w => Upto(s, w, k + 1) = EndsAt(s[k])
         /\ s[k].w # w => Upto(s, w, k + 1) = Upto(s, w, k)
<1>1. ASSUME s[k].w = w PROVE Upto(s, w, k + 1) = EndsAt(s[k])
  <2> DEFINE S == Mine(s, w, k + 1)
  <2>1. k \in 1 .. (k + 1 - 1) /\ \A l \in 1 .. (k + 1 - 1) : l \in Nat /\ l <= k
    OBVIOUS
  <2>2. S \in SUBSET Nat /\ k \in S /\ \A n \in S : n <= k
    BY <1>1, <2>1 DEF Mine
  <2>3. LastOf(S) = k
    <3> HIDE DEF S
    <3> QED BY <2>2, LastIs
  <2>4. Upto(s, w, k + 1) = IF S = {} THEN 0 ELSE EndsAt(s[LastOf(S)])
    BY Zenon DEF Upto
  <2> HIDE DEF S
  <2> QED BY <2>2, <2>3, <2>4
<1>2. ASSUME s[k].w # w PROVE Upto(s, w, k + 1) = Upto(s, w, k)
  BY <1>2, MineNext DEF Upto
<1> QED BY <1>1, <1>2

LEMMA UptoType ==
  ASSUME NEW s \in Seq(Pdus), NEW w, NEW k \in 1 .. (Len(s) + 1)
  PROVE  Upto(s, w, k) \in Nat
<1>1. CASE Mine(s, w, k) = {}
  BY <1>1 DEF Upto
<1>2. CASE Mine(s, w, k) # {}
  <2> DEFINE S == Mine(s, w, k)
             l == LastOf(S)
  <2>1. k - 1 \in Nat /\ S \in SUBSET (1 .. (k - 1))
    BY DEF Mine
  <2>2. l \in S
    <3> HIDE DEF S
    <3>1. S # {}
      BY <1>2 DEF S
    <3> QED BY <2>1, <3>1, LastExists
  <2>3. l \in 1 .. Len(s)
    <3> HIDE DEF l, S
    <3> QED BY <2>1, <2>2
  <2> DEFINE q == s[l]
  <2>4. q \in Pdus
    <3> HIDE DEF l
    <3> QED BY <2>3
  <2>5. q.off \in Nat /\ q.dlength \in Nat
    <3> HIDE DEF q
    <3> QED BY <2>4, Parameters DEF Pdus
  <2>6. EndsAt(q) \in Nat
    BY <2>5 DEF EndsAt
  <2> QED BY <1>2, <2>6 DEF Upto
<1> QED BY <1>1, <1>2

(* A PDU behind the others changes nothing before it.                      *)
LEMMA MineAppend ==
  ASSUME NEW s \in Seq(Pdus), NEW q \in Pdus, NEW w, NEW k \in 1 .. (Len(s) + 1)
  PROVE  Mine(Append(s, q), w, k) = Mine(s, w, k) /\ Upto(Append(s, q), w, k) = Upto(s, w, k)
<1> DEFINE u == Append(s, q)
<1>1. \A l \in 1 .. Len(s) : u[l] = s[l]
  OBVIOUS
<1>2. k - 1 \in Nat /\ 1 .. (k - 1) \subseteq 1 .. Len(s)
  OBVIOUS
<1>3. Mine(u, w, k) = Mine(s, w, k)
  BY <1>1, <1>2 DEF Mine
<1>4. CASE Mine(s, w, k) = {}
  BY <1>3, <1>4 DEF Upto
<1>5. CASE Mine(s, w, k) # {}
  <2> DEFINE S == Mine(s, w, k)
             l == LastOf(S)
  <2>1. S \in SUBSET (1 .. (k - 1)) /\ S # {}
    BY <1>5 DEF Mine
  <2>2. l \in S
    <3> HIDE DEF S
    <3> QED BY <1>2, <2>1, LastExists
  <2>3. u[l] = s[l]
    <3> HIDE DEF l, S
    <3> QED BY <1>1, <1>2, <2>1, <2>2
  <2> QED BY <1>3, <1>5, <2>3 DEF Upto
<1> QED BY <1>3, <1>4, <1>5

LEMMA SettledAppend ==
  ASSUME NEW s \in Seq(Pdus), NEW q \in Pdus, NEW u, u = Append(s, q), NEW w,
         NEW h \in 0 .. Len(s)
  PROVE  Settled(u, w, h) <=> (Settled(s, w, h) /\ q.w # w)
<1>1. Len(u) = Len(s) + 1 /\ u[Len(s) + 1] = q /\ \A l \in 1 .. Len(s) : u[l] = s[l]
  OBVIOUS
<1>2. \A k : k \in (h + 1) .. Len(u) <=> (k \in (h + 1) .. Len(s) \/ k = Len(s) + 1)
  BY <1>1
<1>3. (h + 1) .. Len(s) \subseteq 1 .. Len(s)
  OBVIOUS
<1> QED BY <1>1, <1>2, <1>3 DEF Settled

LEMMA SettledNext ==
  ASSUME NEW s \in Seq(Pdus), NEW w, NEW h \in Nat, h + 1 \in 1 .. Len(s)
  PROVE  Settled(s, w, h) <=> (s[h + 1].w # w /\ Settled(s, w, h + 1))
<1>1. \A k : k \in (h + 1) .. Len(s) <=> (k \in (h + 1 + 1) .. Len(s) \/ k = h + 1)
  OBVIOUS
<1> QED BY <1>1 DEF Settled

LEMMA UptoSettled ==
  ASSUME NEW s \in Seq(Pdus), NEW w, NEW h \in 0 .. Len(s), Settled(s, w, h)
  PROVE  /\ Mine(s, w, Len(s) + 1) = Mine(s, w, h + 1)
         /\ Upto(s, w, Len(s) + 1) = Upto(s, w, h + 1)
<1>1. ASSUME NEW l \in 1 .. (Len(s) + 1 - 1), s[l].w = w PROVE l \in 1 .. (h + 1 - 1)
  <2>1. l \in (h + 1) .. Len(s) \/ l \in 1 .. h
    OBVIOUS
  <2>2. l \notin (h + 1) .. Len(s)
    BY <1>1 DEF Settled
  <2> QED BY <2>1, <2>2
<1>2. 1 .. (h + 1 - 1) \subseteq 1 .. (Len(s) + 1 - 1)
  OBVIOUS
<1>3. Mine(s, w, Len(s) + 1) = Mine(s, w, h + 1)
  BY <1>1, <1>2 DEF Mine
<1> QED BY <1>3 DEF Upto
(* One PDU more: q, of the WRITE q.w of vs or of none.                     *)
SameTask(v, w) == v.itt = w.itt /\ v.lba = w.lba /\ v.len = w.len /\ v.waits = w.waits /\ v.done = w.done
Extends(ws, vs, n) ==
  /\ Len(ws) <= Len(vs)
  /\ \A w \in 1 .. Len(ws) : SameTask(vs[w], ws[w]) /\ (w # n => vs[w] = ws[w])
  /\ \A w \in 1 .. Len(vs) : w \in 1 .. Len(ws) \/ w = n
NewPdu(s, ws, vs, q, c, r2t, imm) ==
  /\ q.w # 0 =>
       /\ q.w \in 1 .. Len(vs) /\ ~vs[q.w].done
       /\ GoodPdu(q, vs[q.w], Upto(s, q.w, Len(s) + 1), Mine(s, q.w, Len(s) + 1) = {}, r2t, imm)
       /\ vs[q.w].sent = EndsAt(q) /\ vs[q.w].grant <= vs[q.w].len - vs[q.w].sent
       /\ q.final <=> (vs[q.w].grant = 0)
  /\ q.w \in 1 .. Len(ws) => ws[q.w].grant > 0
  /\ q.w = 0 =>
       /\ EvilPdu(q, c, imm)
       /\ q.op = "DATA" => \A w \in 1 .. Len(vs) : ~vs[w].done /\ vs[w].itt = q.itt
                              => q.dlength > vs[w].len - vs[w].sent

LEMMA SpoiledAppend ==
  ASSUME NEW s \in Seq(Pdus), NEW q \in Pdus, NEW u, u = Append(s, q)
  PROVE  /\ SpoiledIn(s) \subseteq SpoiledIn(u)
         /\ \A t \in SpoiledIn(u) : t \in SpoiledIn(s) \/ (q.w = 0 /\ Overlong(q) /\ t = q.itt)
<1>1. /\ Len(s) \in Nat /\ DOMAIN s = 1 .. Len(s) /\ DOMAIN u = 1 .. (Len(s) + 1)
      /\ \A k \in DOMAIN s : u[k] = s[k]
      /\ u[Len(s) + 1] = q
  OBVIOUS
<1>2. /\ \A k \in DOMAIN s : k \in DOMAIN u
      /\ \A k \in DOMAIN u : k \in DOMAIN s \/ k = Len(s) + 1
  BY <1>1
<1> QED BY <1>1, <1>2, Zenon DEF SpoiledIn, Overlong

LEMMA GoodSame ==
  ASSUME NEW q, NEW v, NEW w, SameTask(w, v), NEW x, NEW f, NEW r2t, NEW imm,
         GoodPdu(q, v, x, f, r2t, imm)
  PROVE  GoodPdu(q, w, x, f, r2t, imm)
  BY DEF GoodPdu, SameTask

LEMMA AppendTracks ==
  ASSUME NEW s \in Seq(Pdus), NEW q \in Pdus, NEW u, u = Append(s, q),
         NEW ws \in Seq(WriteSet), NEW vs \in Seq(WriteSet), Extends(ws, vs, q.w),
         NEW b \in Nat, NEW c \in Nat, b <= c, NEW h \in 0 .. Len(s),
         NEW r2t, NEW imm, NewPdu(s, ws, vs, q, c, r2t, imm), Distinct(vs), Clean(u, vs),
         Tracks(s, ws, b, h, r2t, imm)
  PROVE  Tracks(u, vs, c, h, r2t, imm)
<1> DEFINE n == Len(s)
<1>1. /\ n \in Nat /\ Len(u) = n + 1 /\ u[n + 1] = q /\ u \in Seq(Pdus)
      /\ \A l \in 1 .. n : u[l] = s[l]
  OBVIOUS
<1>2. \A k : k \in 1 .. (n + 1) <=> (k \in 1 .. n \/ k = n + 1)
  BY <1>1
<1>3. \A k : k \in (h + 1) .. (n + 1) <=> (k \in (h + 1) .. n \/ k = n + 1)
  BY <1>1
<1>4. h \in Nat /\ (h + 1) .. n \subseteq 1 .. n /\ 1 .. n \subseteq 1 .. (n + 1)
      /\ h + 1 \in 1 .. (n + 1) /\ n + 1 \in Nat \ {0} /\ n + 1 \in 1 .. (n + 1)
  BY <1>1
<1>5. \A w, k : k \in 1 .. (n + 1) => Mine(u, w, k) = Mine(s, w, k) /\ Upto(u, w, k) = Upto(s, w, k)
  <2> SUFFICES ASSUME NEW w, NEW k \in 1 .. (Len(s) + 1)
               PROVE  Mine(u, w, k) = Mine(s, w, k) /\ Upto(u, w, k) = Upto(s, w, k)
    OBVIOUS
  <2>1. Mine(Append(s, q), w, k) = Mine(s, w, k) /\ Upto(Append(s, q), w, k) = Upto(s, w, k)
    BY MineAppend
  <2> QED BY <2>1
<1>6. \A w : \A k \in 0 .. n : Settled(u, w, k) <=> (Settled(s, w, k) /\ q.w # w)
  BY SettledAppend
<1>7. \A w \in 1 .. Len(ws) : SameTask(vs[w], ws[w]) /\ (w # q.w => vs[w] = ws[w]) /\ w \in 1 .. Len(vs)
  <2>1. Len(ws) \in Nat /\ Len(vs) \in Nat /\ Len(ws) <= Len(vs)
    BY DEF Extends
  <2> QED BY <2>1 DEF Extends
<1>8. \A w \in 1 .. Len(vs) : w \in 1 .. Len(ws) \/ w = q.w
  BY DEF Extends
<1>9. \A w \in 1 .. Len(vs) : w # 0 /\ w \in Nat
  OBVIOUS
<1>10. /\ SoundPdus(s, ws, b, r2t, imm) /\ Totals(s, ws) /\ Finals(s, h) /\ Strays(s, ws, h)
       /\ Granted(s, ws, h) /\ Closed(s, ws, h)
  BY DEF Tracks
<1>11. \A w \in 1 .. Len(vs) : w \notin 1 .. Len(ws) => \A k \in 1 .. (n + 1) : Mine(s, w, k) = {}
  <2> SUFFICES ASSUME NEW w \in 1 .. Len(vs), w \notin 1 .. Len(ws), NEW k \in 1 .. (n + 1),
                      NEW l \in Mine(s, w, k)
               PROVE  FALSE
    OBVIOUS
  <2>1. l \in 1 .. n /\ s[l].w = w
    BY <1>1 DEF Mine
  <2>2. w \in 1 .. Len(ws)
    BY <1>9, <1>10, <2>1 DEF SoundPdus
  <2> QED BY <2>2
<1> HIDE DEF n
<1>12. SoundPdus(u, vs, c, r2t, imm)
  <2> SUFFICES ASSUME NEW k \in 1 .. (n + 1)
               PROVE  /\ u[k].w # 0 => /\ u[k].w \in 1 .. Len(vs)
                                       /\ GoodPdu(u[k], vs[u[k].w], Upto(u, u[k].w, k), Mine(u, u[k].w, k) = {}, r2t, imm)
                      /\ u[k].w = 0 => EvilPdu(u[k], c, imm)
    BY <1>1 DEF SoundPdus
  <2>1. CASE k \in 1 .. n
    <3> DEFINE w == s[k].w
    <3>1. u[k] = s[k] /\ Mine(u, w, k) = Mine(s, w, k) /\ Upto(u, w, k) = Upto(s, w, k)
      <4>1. k \in 1 .. (n + 1)
        OBVIOUS
      <4> HIDE DEF w
      <4> QED BY <1>1, <1>5, <2>1, <4>1
    <3>2. /\ w # 0 => /\ w \in 1 .. Len(ws)
                      /\ GoodPdu(s[k], ws[w], Upto(s, w, k), Mine(s, w, k) = {}, r2t, imm)
          /\ w = 0 => EvilPdu(s[k], b, imm)
      BY <1>10, <2>1 DEF SoundPdus, n
    <3> HIDE DEF w
    <3>3. w # 0 => w \in 1 .. Len(vs) /\ GoodPdu(s[k], vs[w], Upto(s, w, k), Mine(s, w, k) = {}, r2t, imm)
      <4> SUFFICES ASSUME w # 0 PROVE w \in 1 .. Len(vs) /\ GoodPdu(s[k], vs[w], Upto(s, w, k), Mine(s, w, k) = {}, r2t, imm)
        OBVIOUS
      <4>1. w \in 1 .. Len(vs) /\ SameTask(vs[w], ws[w])
        BY <1>7, <3>2
      <4> DEFINE x == Upto(s, w, k)
                 f == (Mine(s, w, k) = {})
                 p == s[k]
                 v == ws[w]
                 v2 == vs[w]
      <4>2. SameTask(v2, v) /\ GoodPdu(p, v, x, f, r2t, imm)
        BY <3>2, <4>1
      <4> HIDE DEF x, f, p, v, v2
      <4>3. GoodPdu(p, v2, x, f, r2t, imm)
        BY <4>2, GoodSame
      <4> QED BY <4>1, <4>3 DEF x, f, p, v, v2
    <3>4. EvilPdu(s[k], b, imm) => EvilPdu(s[k], c, imm)
      BY DEF EvilPdu
    <3>5. w = 0 => EvilPdu(s[k], c, imm)
      BY <3>2, <3>4
    <3>6. u[k].w = w
      BY <3>1 DEF w
    <3> QED BY <3>1, <3>3, <3>5, <3>6
  <2>2. CASE k = n + 1
    <3> DEFINE w == q.w
    <3>1. u[k] = q /\ Mine(u, w, k) = Mine(s, w, n + 1) /\ Upto(u, w, k) = Upto(s, w, n + 1)
      BY <1>1, <1>4, <1>5, <2>2
    <3>2. /\ w # 0 => w \in 1 .. Len(vs) /\ GoodPdu(q, vs[w], Upto(s, w, n + 1), Mine(s, w, n + 1) = {}, r2t, imm)
          /\ w = 0 => EvilPdu(q, c, imm)
      BY DEF NewPdu, n
    <3>3. u[k].w = w
      BY <3>1
    <3> HIDE DEF w
    <3> QED BY <3>1, <3>2, <3>3
  <2> QED BY <1>2, <2>1, <2>2
<1>13. Totals(u, vs)
  <2> SUFFICES ASSUME NEW w \in 1 .. Len(vs)
               PROVE  /\ Mine(u, w, n + 1 + 1) # {} /\ vs[w].sent = Upto(u, w, n + 1 + 1)
                      /\ vs[w].grant <= vs[w].len - vs[w].sent
    BY <1>1 DEF Totals
  <2>1. CASE w = q.w
    <3>1. u[n + 1].w = w
      BY <1>1, <2>1
    <3>2. Mine(u, w, n + 1 + 1) # {} /\ Upto(u, w, n + 1 + 1) = EndsAt(q)
      <4> DEFINE j == n + 1
      <4>1. j \in Nat \ {0} /\ u[j].w = w /\ u[j] = q
        BY <1>1, <1>4, <3>1
      <4> HIDE DEF j
      <4>2. Mine(u, w, j + 1) # {}
        BY <4>1, MineNext
      <4>3. Upto(u, w, j + 1) = EndsAt(u[j])
        BY <4>1, UptoNext
      <4> QED BY <4>1, <4>2, <4>3 DEF j
    <3> QED BY <1>9, <2>1, <3>2 DEF NewPdu
  <2>2. CASE w # q.w
    <3>1. w \in 1 .. Len(ws) /\ vs[w] = ws[w] /\ u[n + 1].w # w
      BY <1>1, <1>7, <1>8, <2>2
    <3>2. Mine(u, w, n + 1 + 1) = Mine(u, w, n + 1) /\ Upto(u, w, n + 1 + 1) = Upto(u, w, n + 1)
      BY <1>4, <3>1, MineNext, UptoNext
    <3>3. Mine(u, w, n + 1) = Mine(s, w, n + 1) /\ Upto(u, w, n + 1) = Upto(s, w, n + 1)
      BY <1>4, <1>5
    <3>4. Mine(s, w, n + 1) # {} /\ ws[w].sent = Upto(s, w, n + 1) /\ ws[w].grant <= ws[w].len - ws[w].sent
      BY <1>10, <3>1 DEF Totals, n
    <3> QED BY <3>1, <3>2, <3>3, <3>4
  <2> QED BY <2>1, <2>2
<1>14. Finals(u, h)
  <2> SUFFICES ASSUME NEW k \in (h + 1) .. (n + 1), NEW l \in (h + 1) .. (n + 1),
                      k < l, u[k].w = u[l].w, u[k].w # 0
               PROVE  ~u[k].final
    BY <1>1 DEF Finals
  <2>1. k \in (h + 1) .. n /\ u[k] = s[k] /\ k \in 1 .. n
    BY <1>1, <1>4
  <2>2. CASE l \in (h + 1) .. n
    <3>1. u[l] = s[l]
      BY <1>1, <1>4, <2>2
    <3> QED BY <1>10, <2>1, <2>2, <3>1 DEF Finals, n
  <2>3. CASE l = n + 1
    <3> DEFINE w == q.w
    <3>1. s[k].w = w /\ w # 0
      BY <1>1, <2>1, <2>3
    <3>2. w \in 1 .. Len(ws) /\ ws[w].grant > 0 /\ ~vs[w].done
      BY <1>10, <2>1, <3>1 DEF SoundPdus, NewPdu, n
    <3>3. ~ws[w].done
      BY <1>7, <3>2 DEF SameTask
    <3>4. CASE Settled(s, w, k)
      <4>1. s[k].final <=> (ws[w].grant = 0)
        BY <1>10, <2>1, <3>1, <3>2, <3>3, <3>4 DEF Granted, n
      <4>2. ws[w].grant # 0
        BY <3>2
      <4> QED BY <2>1, <4>1, <4>2
    <3>5. CASE ~Settled(s, w, k)
      <4>1. PICK m \in (k + 1) .. n : s[m].w = w
        BY <3>5 DEF Settled, n
      <4>2. m \in (h + 1) .. n /\ k < m
        BY <1>1, <1>4, <2>1
      <4> QED BY <1>10, <2>1, <3>1, <4>1, <4>2 DEF Finals, n
    <3> QED BY <3>4, <3>5
  <2> QED BY <1>3, <2>2, <2>3
<1>15. Strays(u, vs, h)
  <2> SUFFICES ASSUME NEW k \in (h + 1) .. (n + 1), u[k].w = 0, u[k].op = "DATA",
                      NEW w \in 1 .. Len(vs), ~vs[w].done, vs[w].itt = u[k].itt, Mine(u, w, k) # {}
               PROVE  u[k].dlength > vs[w].len - Upto(u, w, k)
    BY <1>1 DEF Strays
  <2>1. k \in 1 .. (n + 1) /\ Mine(u, w, k) = Mine(s, w, k) /\ Upto(u, w, k) = Upto(s, w, k)
    BY <1>4, <1>5
  <2>2. w \in 1 .. Len(ws) /\ SameTask(vs[w], ws[w])
    BY <1>7, <1>11, <2>1
  <2>3. CASE k \in (h + 1) .. n
    <3>1. u[k] = s[k]
      BY <1>1, <1>4, <2>3
    <3>2. ~ws[w].done /\ ws[w].itt = s[k].itt /\ vs[w].len = ws[w].len
      BY <2>2, <3>1 DEF SameTask
    <3>3. s[k].dlength > ws[w].len - Upto(s, w, k)
      BY <1>10, <2>1, <2>2, <2>3, <3>1, <3>2 DEF Strays, n
    <3> QED BY <2>1, <3>1, <3>2, <3>3
  <2>4. CASE k = n + 1
    <3>1. u[k] = q
      BY <1>1, <2>4
    <3>2. q.dlength > vs[w].len - vs[w].sent
      BY <3>1 DEF NewPdu
    <3>3. vs[w] = ws[w]
      BY <1>7, <1>9, <2>2, <3>1
    <3>4. ws[w].sent = Upto(s, w, n + 1)
      BY <1>10, <2>2 DEF Totals, n
    <3> QED BY <2>1, <2>4, <3>1, <3>2, <3>3, <3>4
  <2> QED BY <1>3, <2>3, <2>4
<1>16. Granted(u, vs, h)
  <2> SUFFICES ASSUME NEW w \in 1 .. Len(vs), NEW k \in (h + 1) .. (n + 1),
                      ~vs[w].done, u[k].w = w, Settled(u, w, k)
               PROVE  u[k].final <=> (vs[w].grant = 0)
    BY <1>1 DEF Granted
  <2>1. CASE k \in (h + 1) .. n
    <3>1. k \in 0 .. n /\ u[k] = s[k]
      BY <1>1, <1>4, <2>1
    <3>2. Settled(s, w, k) /\ q.w # w
      BY <1>6, <3>1
    <3>3. w \in 1 .. Len(ws) /\ vs[w] = ws[w]
      BY <1>7, <1>8, <3>2
    <3> QED BY <1>10, <2>1, <3>1, <3>2, <3>3 DEF Granted, n
  <2>2. CASE k = n + 1
    <3>1. u[k] = q /\ w = q.w /\ q.w # 0
      BY <1>1, <1>9, <2>2
    <3> QED BY <3>1 DEF NewPdu
  <2> QED BY <1>3, <2>1, <2>2
<1>17. Closed(u, vs, h)
  <2> SUFFICES ASSUME NEW w \in 1 .. Len(vs), vs[w].done
               PROVE  Settled(u, w, h) /\ vs[w].grant = 0 /\ vs[w].sent = vs[w].len
    BY DEF Closed
  <2>1. w # q.w
    BY <1>9 DEF NewPdu
  <2>2. w \in 1 .. Len(ws) /\ vs[w] = ws[w]
    BY <1>7, <1>8, <2>1
  <2>3. Settled(s, w, h) /\ ws[w].grant = 0 /\ ws[w].sent = ws[w].len
    BY <1>10, <2>2 DEF Closed
  <2>4. Settled(u, w, h)
    BY <1>6, <2>1, <2>3 DEF n
  <2> QED BY <2>2, <2>3, <2>4
<1> QED BY <1>12, <1>13, <1>14, <1>15, <1>16, <1>17 DEF Tracks
LEMMA AppendTasks ==
  ASSUME NEW s \in Seq(Pdus), NEW q \in Pdus, NEW u, u = Append(s, q),
         NEW ws \in Seq(WriteSet), NEW vs \in Seq(WriteSet), Extends(ws, vs, q.w),
         NEW b, NEW c, NEW h \in 0 .. Len(s),
         NEW r2t, NEW imm, NewPdu(s, ws, vs, q, c, r2t, imm), SoundPdus(s, ws, b, r2t, imm),
         NEW rs, NEW info, Tasks(s, ws, rs, info, h)
  PROVE  Tasks(u, vs, rs, info, h)
<1>0. SpoiledIn(s) \subseteq SpoiledIn(u)
  BY SpoiledAppend
<1>1. h + 1 \in 1 .. (Len(s) + 1) /\ h \in 0 .. Len(s)
  OBVIOUS
<1>2. ASSUME NEW w
      PROVE  /\ Mine(u, w, h + 1) = Mine(s, w, h + 1) /\ Upto(u, w, h + 1) = Upto(s, w, h + 1)
             /\ Seen(u, w, h) <=> Seen(s, w, h)
             /\ Settled(u, w, h) <=> (Settled(s, w, h) /\ q.w # w)
  <2>1. Mine(Append(s, q), w, h + 1) = Mine(s, w, h + 1) /\ Upto(Append(s, q), w, h + 1) = Upto(s, w, h + 1)
    BY <1>1, MineAppend
  <2>2. Settled(u, w, h) <=> (Settled(s, w, h) /\ q.w # w)
    BY SettledAppend
  <2> QED BY <2>1, <2>2 DEF Seen
<1>3. \A w \in 1 .. Len(ws) : SameTask(vs[w], ws[w]) /\ (w # q.w => vs[w] = ws[w]) /\ w \in 1 .. Len(vs)
  <2>1. Len(ws) \in Nat /\ Len(vs) \in Nat /\ Len(ws) <= Len(vs)
    BY DEF Extends
  <2> QED BY <2>1 DEF Extends
<1>4. \A w \in 1 .. Len(vs) : w \in 1 .. Len(ws) \/ w = q.w
  BY DEF Extends
<1>5. \A w \in 1 .. Len(vs) : Seen(s, w, h) => w \in 1 .. Len(ws)
  <2> SUFFICES ASSUME NEW w \in 1 .. Len(vs), NEW l \in Mine(s, w, h + 1)
               PROVE  w \in 1 .. Len(ws)
    BY DEF Seen
  <2>1. l \in 1 .. Len(s) /\ s[l].w = w /\ w # 0
    BY DEF Mine
  <2> QED BY <2>1 DEF SoundPdus
<1>6. Entries(u, vs, info, h)
  <2> SUFFICES ASSUME NEW t \in DOMAIN info \ SpoiledIn(u) PROVE \E w \in 1 .. Len(vs) : EntryOf(u, vs, info, h, t, w)
    BY DEF Entries
  <2>1. PICK w \in 1 .. Len(ws) : EntryOf(s, ws, info, h, t, w)
    BY <1>0 DEF Tasks, Entries
  <2>2. SameTask(vs[w], ws[w]) /\ w \in 1 .. Len(vs)
    BY <1>3
  <2>3. EntryOf(u, vs, info, h, t, w)
    BY <1>2, <2>1, <2>2 DEF EntryOf, SameTask
  <2> QED BY <2>2, <2>3
<1>7. Attended(u, vs, rs, info, h)
  <2> SUFFICES ASSUME NEW w \in 1 .. Len(vs), ~vs[w].done, Seen(u, w, h)
               PROVE  vs[w].itt \in DOMAIN info \/ RepliedTo(rs, vs[w].itt)
    BY DEF Attended
  <2>1. w \in 1 .. Len(ws) /\ Seen(s, w, h)
    BY <1>2, <1>5
  <2>2. SameTask(vs[w], ws[w])
    BY <1>3, <2>1
  <2>3. ~ws[w].done /\ vs[w].itt = ws[w].itt
    BY <2>2 DEF SameTask
  <2>4. ws[w].itt \in DOMAIN info \/ RepliedTo(rs, ws[w].itt)
    BY <2>1, <2>3 DEF Tasks, Attended
  <2> QED BY <2>3, <2>4
<1>8. Replying(u, vs, rs, info, h)
  <2> SUFFICES ASSUME NEW i \in DOMAIN rs, rs[i].itt \notin SpoiledIn(u)
               PROVE  /\ \A j \in DOMAIN rs : rs[j].itt = rs[i].itt => i = j
                      /\ (rs[i].op = "R2T") <=> (rs[i].itt \in DOMAIN info)
                      /\ \E w \in 1 .. Len(vs) : ReplyTo(u, vs, h, rs[i], w)
    BY DEF Replying
  <2>1. /\ \A j \in DOMAIN rs : rs[j].itt = rs[i].itt => i = j
        /\ (rs[i].op = "R2T") <=> (rs[i].itt \in DOMAIN info)
        /\ \E w \in 1 .. Len(ws) : ReplyTo(s, ws, h, rs[i], w)
    BY <1>0 DEF Tasks, Replying
  <2>2. PICK w \in 1 .. Len(ws) : ReplyTo(s, ws, h, rs[i], w)
    BY <2>1
  <2>3. w # q.w
    <3> SUFFICES ASSUME w = q.w PROVE FALSE
      OBVIOUS
    <3>1. ws[w].grant > 0
      BY DEF NewPdu
    <3>2. ws[w].grant = 0
      BY <2>2 DEF ReplyTo
    <3> QED BY <3>1, <3>2
  <2>4. vs[w] = ws[w] /\ w \in 1 .. Len(vs)
    BY <1>3, <2>3
  <2>5. ReplyTo(u, vs, h, rs[i], w)
    <3>1. Seen(u, w, h) /\ Settled(u, w, h)
      BY <1>2, <2>2, <2>3 DEF ReplyTo
    <3> QED BY <2>2, <2>4, <3>1 DEF ReplyTo
  <2> QED BY <2>1, <2>4, <2>5
<1>9. Waiting(u, vs, rs, h)
  <2> SUFFICES ASSUME NEW w \in 1 .. Len(vs), ~vs[w].done, Settled(u, w, h)
               PROVE  vs[w].grant > 0 \/ vs[w].waits \/ RepliedTo(rs, vs[w].itt)
    BY DEF Waiting
  <2>1. Settled(s, w, h) /\ w # q.w
    BY <1>2
  <2>2. w \in 1 .. Len(ws) /\ vs[w] = ws[w]
    BY <1>3, <1>4, <2>1
  <2> QED BY <2>1, <2>2 DEF Tasks, Waiting
<1> QED BY <1>6, <1>7, <1>8, <1>9 DEF Tasks
Books ==
  /\ Tracks(stream, writes, bad, Handled, initialR2T, immediateEnabled)
  /\ Tasks(stream, writes, wire \o sendtask, recvinfo, Handled)

LEMMA BooksSend ==
  ASSUME Typed, Typed', Following, Books, NEW q \in Pdus, stream' = Append(stream, q),
         Extends(writes, writes', q.w), bad <= bad',
         NewPdu(stream, writes, writes', q, bad', initialR2T, immediateEnabled), Distinct(writes'),
         Clean(stream', writes'),
         UNCHANGED <<wire, sendtask, recvinfo, initialR2T, immediateEnabled>>, Handled' = Handled
  PROVE  Books'
<1> DEFINE s == stream
           u == stream'
           ws == writes
           vs == writes'
           b == bad
           c == bad'
           h == Handled
           r2t == initialR2T
           imm == immediateEnabled
           rs == wire \o sendtask
           info == recvinfo
<1>1. /\ s \in Seq(Pdus) /\ ws \in Seq(WriteSet) /\ vs \in Seq(WriteSet) /\ b \in Nat /\ c \in Nat
      /\ h \in 0 .. Len(s)
  <2>1. h \in Nat /\ h <= Len(s)
    BY ParsedFacts
  <2> QED BY <2>1 DEF Typed, Streams, Asking
<1>2. u = Append(s, q) /\ Extends(ws, vs, q.w) /\ b <= c /\ NewPdu(s, ws, vs, q, c, r2t, imm) /\ Distinct(vs)
      /\ Clean(u, vs)
  OBVIOUS
<1>3. Tracks(s, ws, b, h, r2t, imm) /\ Tasks(s, ws, rs, info, h) /\ SoundPdus(s, ws, b, r2t, imm)
  BY DEF Books, Tracks
<1>4. /\ Handled' = h /\ initialR2T' = r2t /\ immediateEnabled' = imm /\ recvinfo' = info
      /\ wire' \o sendtask' = rs
  OBVIOUS
<1> HIDE DEF s, u, ws, vs, b, c, h, r2t, imm, rs, info
<1>5. Tracks(u, vs, c, h, r2t, imm)
  BY <1>1, <1>2, <1>3, AppendTracks
<1>6. Tasks(u, vs, rs, info, h)
  BY <1>1, <1>2, <1>3, AppendTasks
<1>7. /\ Tracks(stream', writes', bad', Handled', initialR2T', immediateEnabled')
      /\ Tasks(stream', writes', wire' \o sendtask', recvinfo', Handled')
  BY <1>4, <1>5, <1>6 DEF u, vs, c
<1> QED BY <1>7 DEF Books

(* What the steps of the initiator amount to.                              *)
LEMMA SentFields ==
  ASSUME stream \in Seq(Pdus), NEW pdu \in Pdus
  PROVE  LET q == SentPdu(pdu)
         IN /\ q \in Pdus /\ q.at = Sent /\ q.op = pdu.op /\ q.w = pdu.w /\ q.itt = pdu.itt
            /\ q.lba = pdu.lba /\ q.len = pdu.len /\ q.off = pdu.off
            /\ q.dlength = pdu.dlength /\ q.final = pdu.final
<1>1. Sent \in Nat
  BY SentType
<1> QED BY <1>1 DEF SentPdu, Pdus

NewWrite(q, v, n, r2t, imm) ==
  LET burst == Min2(v.len, FirstBurstLength) IN
  /\ q.w = n /\ q.op = "WRITE" /\ q.itt = v.itt /\ q.lba = v.lba /\ LBA2OFFSET(q.len) = v.len /\ q.off = 0
  /\ q.len > 0 /\ q.lba + q.len <= TotalSize
  /\ q.dlength = v.sent /\ ~v.done /\ v.sent <= burst /\ (imm \/ v.sent = 0)
  /\ q.final \/ (~r2t /\ v.sent < burst)
  /\ v.grant = (IF q.final THEN 0 ELSE burst - v.sent)
  /\ v.waits = (~r2t /\ q.final /\ v.sent < burst)

LEMMA NewWriteIs ==
  ASSUME NEW s \in Seq(Pdus), NEW ws \in Seq(WriteSet), NEW b, NEW c, NEW r2t \in BOOLEAN, NEW imm \in BOOLEAN,
         SoundPdus(s, ws, b, r2t, imm), Totals(s, ws),
         NEW q \in Pdus, NEW v \in WriteSet, NewWrite(q, v, Len(ws) + 1, r2t, imm)
  PROVE  Extends(ws, Append(ws, v), q.w) /\ NewPdu(s, ws, Append(ws, v), q, c, r2t, imm)
<1> DEFINE n == Len(ws)
           vs == Append(ws, v)
           burst == Min2(v.len, FirstBurstLength)
<1>0. /\ q.w = Len(ws) + 1 /\ q.op = "WRITE" /\ q.itt = v.itt /\ q.lba = v.lba /\ LBA2OFFSET(q.len) = v.len
      /\ q.off = 0 /\ q.len > 0 /\ q.lba + q.len <= TotalSize
      /\ q.dlength = v.sent /\ ~v.done /\ v.sent <= burst /\ (imm \/ v.sent = 0)
      /\ q.final \/ (~r2t /\ v.sent < burst)
      /\ v.grant = (IF q.final THEN 0 ELSE burst - v.sent)
      /\ v.waits = (~r2t /\ q.final /\ v.sent < burst)
  BY Zenon DEF NewWrite
<1>1. /\ n \in Nat /\ Len(vs) = n + 1 /\ vs[n + 1] = v /\ \A w \in 1 .. n : vs[w] = ws[w]
  OBVIOUS
<1>2. Extends(ws, vs, q.w)
  BY <1>0, <1>1 DEF Extends, SameTask
<1>3. q.w # 0 /\ q.w \notin 1 .. n /\ q.w \in 1 .. Len(vs) /\ vs[q.w] = v
  BY <1>0, <1>1
<1>4. Mine(s, q.w, Len(s) + 1) = {}
  <2> SUFFICES ASSUME NEW l \in Mine(s, q.w, Len(s) + 1) PROVE FALSE
    OBVIOUS
  <2>1. l \in 1 .. Len(s) /\ s[l].w = q.w
    BY DEF Mine
  <2>2. q.w \in 1 .. Len(ws)
    BY <1>3, <2>1 DEF SoundPdus
  <2> QED BY <1>3, <2>2
<1>5. Upto(s, q.w, Len(s) + 1) = 0
  BY <1>4 DEF Upto
<1>6. /\ v.len \in Nat /\ Word \in Nat /\ v.sent \in Nat /\ v.grant \in Nat /\ FirstBurstLength \in Nat /\ v.waits \in BOOLEAN
      /\ q.final \in BOOLEAN
  BY Parameters DEF WriteSet, Pdus
<1>7. /\ burst \in Nat /\ burst <= v.len /\ burst <= FirstBurstLength
  BY <1>6 DEF Min2
<1> HIDE DEF burst
<1>8. EndsAt(q) = v.sent
  BY <1>0, <1>6 DEF EndsAt
<1>9. v.grant <= v.len - v.sent /\ (q.final <=> (v.grant = 0))
  BY <1>0, <1>6, <1>7
<1>10. GoodPdu(q, v, 0, TRUE, r2t, imm)
  <2>1. EndsAt(q) <= v.len /\ (~q.final => EndsAt(q) < v.len)
    BY <1>0, <1>6, <1>7, <1>8
  <2>2. q.final \/ (~r2t /\ q.dlength < FirstBurstLength)
    BY <1>0, <1>6, <1>7
  <2>3. v.waits = (~r2t /\ q.final /\ q.dlength < Min2(v.len, FirstBurstLength))
    BY <1>0 DEF burst
  <2> QED BY <1>0, <2>1, <2>2, <2>3 DEF GoodPdu
<1> HIDE DEF n, vs
<1>11. NewPdu(s, ws, vs, q, c, r2t, imm)
  BY <1>0, <1>3, <1>4, <1>5, <1>8, <1>9, <1>10 DEF NewPdu, n
<1> QED BY <1>2, <1>11 DEF vs

NewData(q, v, new, w, d) ==
  /\ d <= v.grant /\ q.w = w /\ q.op = "DATA" /\ q.itt = v.itt /\ q.off = v.sent /\ q.dlength = d
  /\ q.final <=> (d = v.grant)
  /\ SameTask(new, v) /\ new.sent = v.sent + d /\ new.grant = v.grant - d
OneChanged(ws, vs, w, new) ==
  Len(vs) = Len(ws) /\ vs[w] = new /\ \A x \in 1 .. Len(ws) : x # w => vs[x] = ws[x]

LEMMA NewDataIs ==
  ASSUME NEW s \in Seq(Pdus), NEW ws \in Seq(WriteSet), NEW b, NEW c, NEW r2t \in BOOLEAN, NEW imm \in BOOLEAN,
         NEW h,
         Tracks(s, ws, b, h, r2t, imm),
         NEW q \in Pdus, NEW w \in 1 .. Len(ws), NEW d \in Nat \ {0}, NEW new, NEW vs,
         NewData(q, ws[w], new, w, d), OneChanged(ws, vs, w, new)
  PROVE  Extends(ws, vs, q.w) /\ NewPdu(s, ws, vs, q, c, r2t, imm) /\ Distinct(vs)
         /\ Clean(s, vs)
<1> DEFINE v == ws[w]
<1>1. v \in WriteSet
  OBVIOUS
<1>0. /\ d <= v.grant /\ q.w = w /\ q.op = "DATA" /\ q.itt = v.itt /\ q.off = v.sent /\ q.dlength = d
      /\ q.final <=> (d = v.grant)
      /\ SameTask(new, v) /\ new.sent = v.sent + d /\ new.grant = v.grant - d
  BY DEF NewData
<1>2. v.sent \in Nat /\ v.grant \in Nat /\ v.len \in Nat /\ d \in Nat /\ d # 0
  <2>1. Word \in Nat
    BY Parameters
  <2> QED BY <1>1, <2>1 DEF WriteSet
<1>3. /\ new.itt = v.itt /\ new.lba = v.lba /\ new.len = v.len /\ new.waits = v.waits /\ new.done = v.done
      /\ new.sent = v.sent + d /\ new.grant = v.grant - d
  BY <1>0 DEF SameTask
<1>4. Len(vs) = Len(ws) /\ vs[w] = new /\ \A x \in 1 .. Len(ws) : x # w => vs[x] = ws[x]
  BY DEF OneChanged
<1>5. \A x \in 1 .. Len(ws) : SameTask(vs[x], ws[x])
  BY <1>3, <1>4 DEF SameTask
<1>6. Extends(ws, vs, q.w)
  BY <1>0, <1>4, <1>5 DEF Extends
<1>7. /\ Mine(s, w, Len(s) + 1) # {} /\ v.sent = Upto(s, w, Len(s) + 1)
      /\ v.grant <= v.len - v.sent
  BY DEF Tracks, Totals
<1>8. ~v.done
  <2> SUFFICES ASSUME v.done PROVE FALSE
    OBVIOUS
  <2>1. v.grant = 0
    BY DEF Tracks, Closed
  <2> QED BY <1>0, <1>2, <2>1
<1>9. EndsAt(q) = v.sent + d
  BY <1>0 DEF EndsAt
<1>10. GoodPdu(q, new, Upto(s, w, Len(s) + 1), Mine(s, w, Len(s) + 1) = {}, r2t, imm)
  <2>1. v.sent + d <= v.len /\ (d # v.grant => v.sent + d < v.len)
    BY <1>0, <1>2, <1>7
  <2>2. d > 0
    BY <1>2
  <2> QED BY <1>0, <1>3, <1>7, <1>9, <2>1, <2>2 DEF GoodPdu
<1>11. NewPdu(s, ws, vs, q, c, r2t, imm)
  <2>3. v.grant - d <= v.len - (v.sent + d) /\ (d = v.grant <=> (v.grant - d = 0)) /\ v.grant > 0
    BY <1>0, <1>2, <1>7
  <2>1. /\ new.sent = EndsAt(q) /\ new.grant <= new.len - new.sent /\ (q.final <=> (new.grant = 0))
        /\ ~new.done /\ v.grant > 0
    BY <1>0, <1>3, <1>8, <1>9, <2>3
  <2>2. q.w # 0
    BY <1>0
  <2> QED BY <1>0, <1>4, <1>10, <2>1, <2>2 DEF NewPdu
<1>12. Distinct(vs)
  <2>1. Distinct(ws)
    BY DEF Tracks
  <2> QED BY <1>4, <1>5, <2>1 DEF Distinct, SameTask
<1>13. Clean(s, vs)
  <2>1. Clean(s, ws)
    BY DEF Tracks
  <2> QED BY <1>4, <1>5, <2>1 DEF Clean, SameTask
<1> QED BY <1>6, <1>11, <1>12, <1>13

LEMMA SentStep ==
  ASSUME Typed, taken \in Nat, Following, Paused, Books, Initiator \/ Serve,
         NEW pdu \in Pdus, Send(pdu),
         Extends(writes, writes', pdu.w), bad <= bad',
         NewPdu(stream, writes, writes', SentPdu(pdu), bad', initialR2T, immediateEnabled),
         Distinct(writes'), UNCHANGED wire,
         \A w \in 1 .. Len(writes') : ~writes'[w].done =>
           writes'[w].itt \notin SpoiledIn(stream) /\ (pdu.w = 0 /\ Overlong(pdu) => writes'[w].itt # pdu.itt)
  PROVE  Books' /\ Following' /\ Paused'
<1> DEFINE q == SentPdu(pdu)
<1>1. Typed' /\ UNCHANGED <<taken, offset, bhss, status, rvars, modes>>
  BY InitiatorKeeps
<1>2. UNCHANGED <<pc, recvinfo, sendtask, initialR2T, immediateEnabled>>
  BY <1>1 DEF rvars, modes
<1>3. q \in Pdus /\ q.at = Sent /\ q.w = pdu.w /\ q.itt = pdu.itt /\ (Overlong(q) <=> Overlong(pdu))
  <2>1. q \in Pdus /\ q.at = Sent /\ q.w = pdu.w /\ q.itt = pdu.itt /\ q.op = pdu.op /\ q.dlength = pdu.dlength
        /\ q.len = pdu.len
    BY SentFields DEF Typed, Streams
  <2> QED BY <2>1 DEF Overlong
<1>30. q \in Pdus /\ q.at = Sent /\ q.w = pdu.w
  BY SentFields DEF Typed, Streams
<1>4. stream' = Append(stream, q)
  BY SendKeeps DEF Typed
<1> HIDE DEF q
<1>5. Following' /\ Paused' /\ Handled' = Handled
  BY <1>1, <1>2, <1>3, <1>4, SendFollows
<1>6. Extends(writes, writes', q.w)
      /\ NewPdu(stream, writes, writes', q, bad', initialR2T, immediateEnabled)
  BY <1>3 DEF q
<1>8. Clean(stream', writes')
  <2>1. \A t \in SpoiledIn(stream') : t \in SpoiledIn(stream) \/ (q.w = 0 /\ Overlong(q) /\ t = q.itt)
    <3> DEFINE u == stream'
    <3>1. stream \in Seq(Pdus) /\ u = Append(stream, q)
      BY <1>4 DEF Typed, Streams
    <3> HIDE DEF u
    <3>2. \A t \in SpoiledIn(u) : t \in SpoiledIn(stream) \/ (q.w = 0 /\ Overlong(q) /\ t = q.itt)
      BY <1>3, <3>1, SpoiledAppend
    <3> QED BY <3>2 DEF u
  <2> QED BY <1>3, <2>1 DEF Clean
<1>7. Books'
  BY <1>1, <1>2, <1>3, <1>4, <1>5, <1>6, <1>8, BooksSend
<1> QED BY <1>5, <1>7

LEMMA SendWriteBooks ==
  ASSUME Typed, taken \in Nat, Following, Paused, Books, Initiator,
         NEW itt \in ITTS, NEW cm \in Commands, NEW im \in 0 .. MRDS, NEW final \in BOOLEAN,
         SendWrite(itt, cm[1], cm[2], im, final)
  PROVE  Books' /\ Following' /\ Paused'
<1> DEFINE cells == LBA2OFFSET(cm[2])
           burst == Min2(cells, FirstBurstLength)
           waiting == (~initialR2T /\ final /\ im < burst)
           rest == IF final THEN 0 ELSE burst - im
           v == [itt |-> itt, lba |-> cm[1], len |-> cells, sent |-> im,
                 grant |-> rest, waits |-> waiting, done |-> FALSE]
           pdu == WritePdu(Len(writes) + 1, itt, cm[1], cm[2], im, final)
           q == SentPdu(pdu)
<1>1. /\ stream \in Seq(Pdus) /\ writes \in Seq(WriteSet) /\ Len(writes) + 1 \in Nat /\ bad \in Nat
      /\ initialR2T \in BOOLEAN /\ immediateEnabled \in BOOLEAN
  BY DEF Typed, Streams, Asking, Modes
<1>2. cm[1] \in Nat /\ cm[2] \in Nat /\ cm[2] > 0 /\ cm[1] + cm[2] <= TotalSize /\ cells \in 0 .. (Word - 1)
      /\ Word \in Nat
  BY CommandType, TransferAssumption, Parameters
<1>3. /\ Send(pdu) /\ writes' = Append(writes, v) /\ NextTag(itt)
      /\ im <= Min2(burst, IF immediateEnabled THEN MRDS ELSE 0)
      /\ final \/ (~initialR2T /\ im < burst)
      /\ UNCHANGED <<wire, bad>>
  BY DEF SendWrite
<1>4. FirstBurstLength \in Nat /\ MRDS \in Nat
  BY Parameters
<1>5. burst \in Nat
  <2> HIDE DEF cells
  <2> QED BY <1>2, <1>4 DEF Min2
<1>6. waiting \in BOOLEAN
  OBVIOUS
<1>7. pdu \in Pdus /\ pdu.w = Len(writes) + 1 /\ pdu.op = "WRITE" /\ pdu.itt = itt /\ pdu.lba = cm[1]
      /\ pdu.len = cm[2] /\ pdu.off = 0 /\ pdu.dlength = im /\ pdu.final = final
  <2> DEFINE l == Len(writes) + 1
  <2>1. l \in Nat /\ im \in 0 .. MRDS
    BY <1>1
  <2> HIDE DEF l
  <2> QED BY <1>2, <2>1 DEF WritePdu, Pdus
<1> DEFINE bst == burst
<1> HIDE DEF waiting, burst, cells
<1>8. im <= burst /\ (immediateEnabled \/ im = 0)
  BY <1>1, <1>3, <1>4, <1>5 DEF Min2
<1>9. rest \in Nat
  BY <1>5, <1>8
<1> HIDE DEF rest
<1>10. /\ v \in WriteSet /\ v.itt = itt /\ v.lba = cm[1] /\ v.len = cells /\ v.sent = im /\ v.grant = rest
       /\ v.waits = waiting /\ ~v.done
  BY <1>2, <1>6, <1>9 DEF WriteSet
<1> HIDE DEF v, pdu
<1>11. /\ q \in Pdus /\ q.op = "WRITE" /\ q.w = Len(writes) + 1 /\ q.itt = itt /\ q.lba = cm[1] /\ q.len = cm[2]
       /\ q.off = 0 /\ q.dlength = im /\ q.final = final
  BY <1>1, <1>7, SentFields
<1> HIDE DEF q
<1>12. Extends(writes, Append(writes, v), q.w)
       /\ NewPdu(stream, writes, Append(writes, v), q, bad', initialR2T, immediateEnabled)
  <2>1. SoundPdus(stream, writes, bad, initialR2T, immediateEnabled) /\ Totals(stream, writes)
    BY DEF Books, Tracks
  <2>2. burst = Min2(v.len, FirstBurstLength) /\ v.sent <= burst
    BY <1>8, <1>10, Zenon DEF burst
  <2>3. q.final \/ (~initialR2T /\ v.sent < burst)
    BY <1>3, <1>10, <1>11
  <2>4. v.grant = (IF q.final THEN 0 ELSE burst - v.sent)
    BY <1>10, <1>11 DEF rest
  <2>5. v.waits = (~initialR2T /\ q.final /\ v.sent < burst)
    BY <1>10, <1>11 DEF waiting
  <2>6. q.itt = v.itt /\ q.lba = v.lba /\ LBA2OFFSET(q.len) = v.len /\ q.dlength = v.sent
    BY <1>10, <1>11, Zenon DEF cells
  <2>7. /\ q.len > 0 /\ q.lba + q.len <= TotalSize
        /\ immediateEnabled \/ v.sent = 0
    BY <1>2, <1>8, <1>10, <1>11
  <2>8. NewWrite(q, v, Len(writes) + 1, initialR2T, immediateEnabled)
    BY <1>10, <1>11, <2>2, <2>3, <2>4, <2>5, <2>6, <2>7 DEF NewWrite
  <2> QED BY <1>1, <1>10, <1>11, <2>1, <2>8, NewWriteIs
<1>13. Distinct(writes')
  <2> DEFINE n == Len(writes)
  <2>1. n \in Nat /\ Len(writes') = n + 1 /\ writes'[n + 1] = v /\ \A w \in 1 .. n : writes'[w] = writes[w]
    BY <1>1, <1>3, <1>10
  <2>2. \A w \in 1 .. n : writes[w].itt = itt => writes[w].done
    BY <1>1, <1>3 DEF NextTag, Busy
  <2>3. \A x, y \in 1 .. n : ~writes[x].done /\ ~writes[y].done /\ writes[x].itt = writes[y].itt => x = y
    BY DEF Books, Tracks, Distinct
  <2> HIDE DEF n
  <2>4. \A x \in 1 .. Len(writes') : x \in 1 .. n \/ x = n + 1
    BY <2>1
  <2> QED BY <1>10, <2>1, <2>2, <2>3, <2>4 DEF Distinct
<1>14. Extends(writes, writes', pdu.w)
       /\ NewPdu(stream, writes, writes', SentPdu(pdu), bad', initialR2T, immediateEnabled)
  BY <1>3, <1>7, <1>11, <1>12 DEF q
<1>15. \A w \in 1 .. Len(writes') : ~writes'[w].done =>
         writes'[w].itt \notin SpoiledIn(stream) /\ (pdu.w = 0 /\ Overlong(pdu) => writes'[w].itt # pdu.itt)
  <2> DEFINE n == Len(writes)
  <2>1. n \in Nat /\ Len(writes') = n + 1 /\ writes'[n + 1] = v /\ \A w \in 1 .. n : writes'[w] = writes[w]
    BY <1>1, <1>3, <1>10
  <2>2. itt \notin SpoiledIn(stream)
    BY <1>3 DEF NextTag, Busy, Spoiled, SpoiledIn
  <2>3. \A x \in 1 .. n : ~writes[x].done => writes[x].itt \notin SpoiledIn(stream)
    BY DEF Books, Tracks, Clean
  <2>4. pdu.w # 0
    BY <1>1, <1>7
  <2> HIDE DEF n
  <2>5. \A x \in 1 .. Len(writes') : x \in 1 .. n \/ x = n + 1
    BY <2>1
  <2> QED BY <1>10, <2>1, <2>2, <2>3, <2>4, <2>5
<1>16. bad <= bad'
  BY <1>1, <1>3
<1> QED BY <1>3, <1>7, <1>13, <1>14, <1>15, <1>16, SentStep

LEMMA SendDataBooks ==
  ASSUME Typed, taken \in Nat, Following, Paused, Books, Serve,
         NEW w \in DOMAIN writes, NEW d \in 1 .. MRDS, SendData(w, d)
  PROVE  Books' /\ Following' /\ Paused'
<1> DEFINE v == writes[w]
           new == [[v EXCEPT !.sent = @ + d] EXCEPT !.grant = @ - d]
           fin == (d = v.grant)
           pdu == DataPdu(w, v.itt, v.sent, d, fin)
           q == SentPdu(pdu)
<1>1. /\ stream \in Seq(Pdus) /\ writes \in Seq(WriteSet) /\ bad \in Nat /\ w \in 1 .. Len(writes) /\ w \in Nat
      /\ initialR2T \in BOOLEAN /\ immediateEnabled \in BOOLEAN /\ MRDS \in Nat
  BY Parameters DEF Typed, Streams, Asking, Modes
<1>2. v \in WriteSet
  BY <1>1
<1>3. v.sent \in Nat /\ v.grant \in Nat /\ v.itt \in ITTS /\ d \in 0 .. MRDS /\ d \in Nat \ {0}
  BY <1>1, <1>2 DEF WriteSet
<1>4. /\ d <= Min2(v.grant, MRDS) /\ Send(pdu)
      /\ writes' = [writes EXCEPT ![w].sent = @ + d, ![w].grant = @ - d]
      /\ UNCHANGED <<wire, bad>>
  BY DEF SendData
<1>5. writes' = [writes EXCEPT ![w] = new]
  BY <1>1, <1>4
<1>6. /\ new.itt = v.itt /\ new.lba = v.lba /\ new.len = v.len /\ new.waits = v.waits /\ new.done = v.done
      /\ new.sent = v.sent + d /\ new.grant = v.grant - d
  <2> HIDE DEF v
  <2> QED BY <1>2 DEF WriteSet
<1>7. SameTask(new, v)
  BY <1>6 DEF SameTask
<1>8. fin \in BOOLEAN
  OBVIOUS
<1> HIDE DEF new, v
<1>9. d <= v.grant
  BY <1>1, <1>3, <1>4 DEF Min2
<1>10. Len(writes') = Len(writes) /\ writes'[w] = new
       /\ \A x \in 1 .. Len(writes) : x # w => writes'[x] = writes[x]
  BY <1>1, <1>5
<1> HIDE DEF fin
<1>11. /\ pdu \in Pdus /\ pdu.op = "DATA" /\ pdu.w = w /\ pdu.itt = v.itt /\ pdu.off = v.sent
       /\ pdu.dlength = d /\ pdu.final = fin
  BY <1>1, <1>3, <1>8 DEF DataPdu, Pdus
<1> HIDE DEF pdu
<1>12. /\ q \in Pdus /\ q.op = "DATA" /\ q.w = w /\ q.itt = v.itt /\ q.off = v.sent /\ q.dlength = d /\ q.final = fin
  BY <1>1, <1>11, SentFields
<1> HIDE DEF q
<1>13. q.final <=> (d = v.grant)
  BY <1>12 DEF fin
<1>14. Tracks(stream, writes, bad, Handled, initialR2T, immediateEnabled)
  BY DEF Books
<1>15. Extends(writes, writes', q.w) /\ Distinct(writes') /\ Clean(stream, writes')
       /\ NewPdu(stream, writes, writes', q, bad', initialR2T, immediateEnabled)
  <2>1. NewData(q, writes[w], new, w, d)
    BY <1>6, <1>7, <1>9, <1>12, <1>13 DEF NewData, v
  <2>2. OneChanged(writes, writes', w, new)
    BY <1>10 DEF OneChanged
  <2>3. q \in Pdus /\ q.w = w /\ d \in Nat \ {0} /\ w \in 1 .. Len(writes)
    BY <1>1, <1>3, <1>12
  <2>4. Extends(writes, writes', q.w) /\ NewPdu(stream, writes, writes', q, bad', initialR2T, immediateEnabled)
        /\ Distinct(writes') /\ Clean(stream, writes')
    BY <1>1, <1>14, <2>1, <2>2, <2>3, NewDataIs
  <2> QED BY <2>4
<1>16. Extends(writes, writes', pdu.w)
       /\ NewPdu(stream, writes, writes', SentPdu(pdu), bad', initialR2T, immediateEnabled)
  BY <1>11, <1>12, <1>15 DEF q
<1>17. bad <= bad' /\ pdu.w # 0
  BY <1>1, <1>4, <1>11
<1>18. \A x \in 1 .. Len(writes') : ~writes'[x].done =>
         writes'[x].itt \notin SpoiledIn(stream) /\ (pdu.w = 0 /\ Overlong(pdu) => writes'[x].itt # pdu.itt)
  BY <1>15, <1>17 DEF Clean
<1> QED BY <1>4, <1>11, <1>15, <1>16, <1>17, <1>18, SentStep

(* A PDU that breaks the rules is of no WRITE.                             *)
LEMMA BadBooks ==
  ASSUME Typed, taken \in Nat, Following, Paused, Books, Initiator,
         NEW pdu \in Pdus, Bad(pdu), pdu.w = 0,
         pdu.op = "WRITE" => /\ NextTag(pdu.itt)
                             /\ \/ pdu.len = 0 \/ pdu.lba + pdu.len > TotalSize
                                \/ immediateEnabled /\ LBA2OFFSET(pdu.len) = pdu.dlength /\ ~pdu.final
                                \/ Overlong(pdu),
         pdu.op = "DATA" => /\ pdu.dlength > 0
                            /\ \A w \in 1 .. Len(writes) : ~writes[w].done /\ writes[w].itt = pdu.itt
                                 => pdu.dlength > writes[w].len - writes[w].sent
  PROVE  Books' /\ Following' /\ Paused'
<1> DEFINE q == SentPdu(pdu)
<1>1. Send(pdu) /\ bad' = bad + 1 /\ UNCHANGED <<rvars, wire, writes, modes>>
  BY DEF Bad
<1>2. bad \in Nat /\ writes \in Seq(WriteSet) /\ stream \in Seq(Pdus)
  BY DEF Typed, Asking, Streams
<1>3. bad <= bad' /\ bad' > 0
  BY <1>1, <1>2
<1>4. /\ q.w = 0 /\ q.op = pdu.op /\ q.itt = pdu.itt /\ q.dlength = pdu.dlength /\ q.len = pdu.len
      /\ q.lba = pdu.lba /\ q.final = pdu.final
  BY <1>2, SentFields
<1> HIDE DEF q
<1>5. EvilPdu(q, bad', immediateEnabled)
  BY <1>3, <1>4 DEF EvilPdu, Overlong
<1>6. NewPdu(stream, writes, writes, q, bad', initialR2T, immediateEnabled)
  <2>1. 0 \notin 1 .. Len(writes)
    OBVIOUS
  <2> QED BY <1>4, <1>5, <2>1 DEF NewPdu
<1>7. Extends(writes, writes, 0)
  BY DEF Extends, SameTask
<1>8. Distinct(writes)
  BY DEF Books, Tracks
<1>9. /\ Extends(writes, writes', pdu.w) /\ Distinct(writes') /\ UNCHANGED wire
      /\ NewPdu(stream, writes, writes', SentPdu(pdu), bad', initialR2T, immediateEnabled)
  BY <1>1, <1>6, <1>7, <1>8 DEF q
<1>10. \A w \in 1 .. Len(writes') : ~writes'[w].done =>
         writes'[w].itt \notin SpoiledIn(stream) /\ (pdu.w = 0 /\ Overlong(pdu) => writes'[w].itt # pdu.itt)
  <2>1. \A x \in 1 .. Len(writes) : ~writes[x].done => writes[x].itt \notin SpoiledIn(stream)
    BY DEF Books, Tracks, Clean
  <2>2. Overlong(pdu) => \A x \in 1 .. Len(writes) : ~writes[x].done => writes[x].itt # pdu.itt
    <3>1. DOMAIN writes = 1 .. Len(writes)
      BY <1>2
    <3> QED BY <3>1 DEF Overlong, NextTag, Busy
  <2> QED BY <1>1, <2>1, <2>2
<1> QED BY <1>1, <1>3, <1>9, <1>10, SentStep

LEMMA BadCasesBooks ==
  ASSUME Typed, taken \in Nat, Following, Paused, Books, Initiator,
         \/ \E itt \in ITTS, cm \in BadCommands : SendBadWrite(itt, cm[1], cm[2])
         \/ \E itt \in ITTS : SendEndless(itt)
         \/ \E itt \in ITTS, cm \in Commands, d \in 1 .. MRDS : SendOverlong(itt, cm[1], cm[2], d)
         \/ \E itt \in ITTS, d \in 1 .. MRDS : SendBadData(itt, d)
  PROVE  Books' /\ Following' /\ Paused'
<1>1. MRDS \in Nat \ {0} /\ writes \in Seq(WriteSet)
  BY Parameters DEF Typed, Asking
<1>2. ASSUME NEW itt \in ITTS, NEW cm \in BadCommands, SendBadWrite(itt, cm[1], cm[2])
      PROVE  Books' /\ Following' /\ Paused'
  <2>1. /\ cm[1] \in Nat /\ cm[2] \in Nat
        /\ cm[2] = 0 \/ cm[1] + cm[2] > TotalSize
    BY TransferAssumption
  <2> DEFINE pdu == WritePdu(0, itt, cm[1], cm[2], 0, TRUE)
  <2>2. /\ pdu \in Pdus /\ pdu.op = "WRITE" /\ pdu.w = 0 /\ pdu.itt = itt
        /\ pdu.lba = cm[1] /\ pdu.len = cm[2]
    BY <1>1, <2>1 DEF WritePdu, Pdus
  <2>3. Bad(pdu) /\ NextTag(itt)
    BY <1>2 DEF SendBadWrite
  <2> HIDE DEF pdu
  <2> QED BY <2>1, <2>2, <2>3, BadBooks
<1>3. ASSUME NEW itt \in ITTS, SendEndless(itt)
      PROVE  Books' /\ Following' /\ Paused'
  <2> DEFINE pdu == WritePdu(0, itt, 0, 1, LBA2OFFSET(1), FALSE)
  <2>1. LBA2OFFSET(1) \in 0 .. MRDS
    BY Parameters DEF LBA2OFFSET
  <2>2. /\ pdu \in Pdus /\ pdu.op = "WRITE" /\ pdu.w = 0 /\ pdu.itt = itt
        /\ LBA2OFFSET(pdu.len) = pdu.dlength /\ ~pdu.final
    BY <2>1 DEF WritePdu, Pdus
  <2>3. Bad(pdu) /\ immediateEnabled /\ NextTag(itt)
    BY <1>3 DEF SendEndless
  <2> HIDE DEF pdu
  <2> QED BY <2>2, <2>3, BadBooks
<1>4. ASSUME NEW itt \in ITTS, NEW d \in 1 .. MRDS, SendBadData(itt, d)
      PROVE  Books' /\ Following' /\ Paused'
  <2> DEFINE pdu == DataPdu(0, itt, 0, d, TRUE)
  <2>1. d \in 0 .. MRDS
    BY <1>1
  <2>2. /\ pdu \in Pdus /\ pdu.op = "DATA" /\ pdu.w = 0 /\ pdu.itt = itt /\ pdu.dlength = d /\ d > 0
    BY <2>1 DEF DataPdu, Pdus
  <2>3. Bad(pdu)
    BY <1>4 DEF SendBadData
  <2>4. \A w \in 1 .. Len(writes) : writes[w].itt = itt /\ ~writes[w].done
                                     => d > writes[w].len - writes[w].sent
    <3>1. DOMAIN writes = 1 .. Len(writes)
      BY <1>1
    <3> QED BY <1>4, <3>1 DEF SendBadData
  <2> HIDE DEF pdu
  <2> QED BY <2>2, <2>3, <2>4, BadBooks
<1>5. ASSUME NEW itt \in ITTS, NEW cm \in Commands, NEW d \in 1 .. MRDS, SendOverlong(itt, cm[1], cm[2], d)
      PROVE  Books' /\ Following' /\ Paused'
  <2>1. cm[1] \in Nat /\ cm[2] \in Nat /\ d \in 0 .. MRDS
    BY <1>1, CommandType
  <2> DEFINE pdu == WritePdu(0, itt, cm[1], cm[2], d, TRUE)
  <2>2. /\ pdu \in Pdus /\ pdu.op = "WRITE" /\ pdu.w = 0 /\ pdu.itt = itt
        /\ pdu.dlength = d /\ pdu.len = cm[2]
    BY <2>1 DEF WritePdu, Pdus
  <2>3. Bad(pdu) /\ NextTag(itt) /\ d > LBA2OFFSET(cm[2])
    BY <1>5 DEF SendOverlong
  <2> HIDE DEF pdu
  <2>4. Overlong(pdu)
    BY <2>2, <2>3 DEF Overlong
  <2> QED BY <2>2, <2>3, <2>4, BadBooks
<1> QED BY <1>2, <1>3, <1>4, <1>5

(* The initiator takes reply r: its WRITE gets the length that r asks for, *)
(* or is done; rs are the replies before it is taken, ts those after.      *)
RepliedWith(new, v, r) ==
  /\ new.itt = v.itt /\ new.lba = v.lba /\ new.len = v.len /\ new.waits = v.waits /\ new.sent = v.sent
  /\ r.op = "R2T" => new.grant = r.length /\ new.done = v.done
  /\ r.op = "RSP" => new.grant = v.grant /\ new.done
WithoutHead(rs, ts) ==
  /\ rs # << >> /\ Len(ts) = Len(rs) - 1
  /\ \A i \in 1 .. Len(ts) : ts[i] = rs[i + 1]

LEMMA ReplyTracks ==
  ASSUME NEW s \in Seq(Pdus), NEW ws \in Seq(WriteSet), NEW vs \in Seq(WriteSet), NEW w \in 1 .. Len(ws), NEW new,
         OneChanged(ws, vs, w, new), NEW r \in ReplySet, RepliedWith(new, ws[w], r),
         NEW h, ReplyTo(s, ws, h, r, w), NEW b, NEW r2t, NEW imm, Tracks(s, ws, b, h, r2t, imm)
  PROVE  Tracks(s, vs, b, h, r2t, imm)
<1> DEFINE v == ws[w]
<1>1. /\ Len(vs) = Len(ws) /\ vs[w] = new /\ \A x \in 1 .. Len(ws) : x # w => vs[x] = ws[x]
      /\ r.op \in {"R2T", "RSP"}
  BY DEF OneChanged, ReplySet
<1>2. /\ ~v.done /\ Settled(s, w, h) /\ v.grant = 0
      /\ r.op = "RSP" => v.sent = v.len
      /\ r.op = "R2T" => r.offset = v.sent /\ r.length <= v.len - r.offset
  BY DEF ReplyTo
<1>3. \A x \in 1 .. Len(ws) : /\ vs[x].itt = ws[x].itt /\ vs[x].lba = ws[x].lba /\ vs[x].len = ws[x].len
                              /\ vs[x].waits = ws[x].waits /\ vs[x].sent = ws[x].sent
                              /\ ws[x].done => vs[x].done
  BY <1>1, <1>2 DEF RepliedWith
<1>4. SoundPdus(s, vs, b, r2t, imm)
  <2>1. SoundPdus(s, ws, b, r2t, imm)
    BY DEF Tracks
  <2> SUFFICES ASSUME NEW k \in 1 .. Len(s)
               PROVE  /\ s[k].w # 0 => /\ s[k].w \in 1 .. Len(vs)
                                       /\ GoodPdu(s[k], vs[s[k].w], Upto(s, s[k].w, k), Mine(s, s[k].w, k) = {}, r2t, imm)
                      /\ s[k].w = 0 => EvilPdu(s[k], b, imm)
    BY DEF SoundPdus
  <2>2. CASE s[k].w # 0
    <3> DEFINE x == s[k].w
               u == Upto(s, s[k].w, k)
               f == (Mine(s, s[k].w, k) = {})
    <3>1. x \in 1 .. Len(ws) /\ GoodPdu(s[k], ws[x], u, f, r2t, imm)
      BY <2>1, <2>2 DEF SoundPdus
    <3> HIDE DEF x, u, f
    <3>2. GoodPdu(s[k], vs[x], u, f, r2t, imm)
      BY <1>3, <3>1 DEF GoodPdu
    <3> QED BY <1>1, <2>2, <3>1, <3>2 DEF x, u, f
  <2>3. CASE s[k].w = 0
    BY <2>1, <2>3 DEF SoundPdus
  <2> QED BY <2>2, <2>3
<1>5. Totals(s, vs)
  <2> SUFFICES ASSUME NEW x \in 1 .. Len(ws)
               PROVE  /\ Mine(s, x, Len(s) + 1) # {} /\ vs[x].sent = Upto(s, x, Len(s) + 1)
                      /\ vs[x].grant <= vs[x].len - vs[x].sent
    BY <1>1 DEF Totals
  <2>1. /\ Mine(s, x, Len(s) + 1) # {} /\ ws[x].sent = Upto(s, x, Len(s) + 1)
        /\ ws[x].grant <= ws[x].len - ws[x].sent
    BY DEF Tracks, Totals
  <2>2. vs[x].grant <= vs[x].len - vs[x].sent
    <3>1. CASE x # w
      BY <1>1, <2>1, <3>1
    <3>2. CASE x = w
      BY <1>1, <1>2, <2>1, <3>2 DEF RepliedWith
    <3> QED BY <3>1, <3>2
  <2> QED BY <1>3, <2>1, <2>2
<1>6. Finals(s, h)
  BY DEF Tracks
<1>7. Strays(s, vs, h)
  <2>1. Strays(s, ws, h)
    BY DEF Tracks
  <2> QED BY <1>1, <1>3, <2>1 DEF Strays
<1>8. Distinct(vs)
  BY <1>1, <1>3 DEF Tracks, Distinct
<1>9. Granted(s, vs, h)
  <2>1. Granted(s, ws, h)
    BY DEF Tracks
  <2> SUFFICES ASSUME NEW x \in 1 .. Len(ws), NEW k \in (h + 1) .. Len(s),
                      ~vs[x].done, s[k].w = x, Settled(s, x, k)
               PROVE  s[k].final <=> (vs[x].grant = 0)
    BY <1>1 DEF Granted
  <2>2. x # w
    BY <1>2 DEF Settled
  <2> QED BY <1>1, <2>1, <2>2 DEF Granted
<1>10. Closed(s, vs, h)
  <2>1. Closed(s, ws, h)
    BY DEF Tracks
  <2> SUFFICES ASSUME NEW x \in 1 .. Len(ws), vs[x].done
               PROVE  Settled(s, x, h) /\ vs[x].grant = 0 /\ vs[x].sent = vs[x].len
    BY <1>1 DEF Closed
  <2>2. CASE x # w
    BY <1>1, <2>1, <2>2 DEF Closed
  <2>3. CASE x = w
    BY <1>1, <1>2, <2>3 DEF RepliedWith
  <2> QED BY <2>2, <2>3
<1>11. Clean(s, vs)
  <2>1. Clean(s, ws)
    BY DEF Tracks
  <2> QED BY <1>1, <1>3, <2>1 DEF Clean
<1> QED BY <1>4, <1>5, <1>6, <1>7, <1>8, <1>9, <1>10, <1>11 DEF Tracks

LEMMA ReplyTasks ==
  ASSUME NEW s \in Seq(Pdus), NEW ws \in Seq(WriteSet), NEW vs \in Seq(WriteSet), NEW w \in 1 .. Len(ws), NEW new,
         OneChanged(ws, vs, w, new), NEW rs \in Seq(ReplySet), NEW ts \in Seq(ReplySet), WithoutHead(rs, ts),
         RepliedWith(new, ws[w], rs[1]), Distinct(ws), Clean(s, ws),
         NEW h, ReplyTo(s, ws, h, rs[1], w), NEW info, Tasks(s, ws, rs, info, h)
  PROVE  Tasks(s, vs, ts, info, h)
<1> DEFINE v == ws[w]
           r == rs[1]
<1>1. /\ Len(vs) = Len(ws) /\ vs[w] = new /\ \A x \in 1 .. Len(ws) : x # w => vs[x] = ws[x]
  BY DEF OneChanged
<1>2. /\ 1 \in DOMAIN rs /\ r \in ReplySet /\ r.op \in {"R2T", "RSP"}
      /\ \A i \in DOMAIN ts : i + 1 \in DOMAIN rs /\ i + 1 # 1 /\ ts[i] = rs[i + 1] /\ i \in Nat
      /\ \A i \in DOMAIN rs : i = 1 \/ (i - 1 \in DOMAIN ts /\ ts[i - 1] = rs[i])
  <2>1. /\ Len(rs) \in Nat /\ Len(rs) > 0 /\ DOMAIN rs = 1 .. Len(rs) /\ DOMAIN ts = 1 .. Len(ts)
        /\ Len(ts) = Len(rs) - 1 /\ \A i \in 1 .. Len(ts) : ts[i] = rs[i + 1]
    BY DEF WithoutHead
  <2>2. 1 \in DOMAIN rs /\ r \in ReplySet /\ r.op \in {"R2T", "RSP"}
    <3>1. 1 \in DOMAIN rs
      BY <2>1
    <3>2. r \in ReplySet
      BY <3>1
    <3>3. r.op \in {"RSP", "R2T"}
      BY <3>2 DEF ReplySet
    <3> QED BY <3>1, <3>2, <3>3
  <2>3. ASSUME NEW i \in DOMAIN ts PROVE i + 1 \in DOMAIN rs /\ i + 1 # 1 /\ ts[i] = rs[i + 1] /\ i \in Nat
    BY <2>1
  <2>4. ASSUME NEW i \in DOMAIN rs, i # 1 PROVE i - 1 \in DOMAIN ts /\ ts[i - 1] = rs[i]
    <3>1. i - 1 \in 1 .. Len(ts) /\ (i - 1) + 1 = i
      BY <2>1, <2>4
    <3> QED BY <2>1, <3>1
  <2> QED BY <2>2, <2>3, <2>4
<1>3. /\ ~v.done /\ v.itt = r.itt /\ v.grant = 0
      /\ r.op = "R2T" => r.length > 0
  BY DEF ReplyTo
<1>4. \A x \in 1 .. Len(ws) : /\ vs[x].itt = ws[x].itt /\ vs[x].lba = ws[x].lba /\ vs[x].len = ws[x].len
                              /\ vs[x].waits = ws[x].waits /\ vs[x].sent = ws[x].sent
                              /\ ws[x].done => vs[x].done
  BY <1>1, <1>3 DEF RepliedWith
<1>5. \A x \in 1 .. Len(ws) : ~vs[x].done /\ ws[x].itt = r.itt => x = w /\ r.op = "R2T"
  <2> SUFFICES ASSUME NEW x \in 1 .. Len(ws), ~vs[x].done, ws[x].itt = r.itt PROVE x = w /\ r.op = "R2T"
    OBVIOUS
  <2>1. x = w
    BY <1>3, <1>4 DEF Distinct
  <2>2. r.op # "RSP"
    BY <1>1, <2>1 DEF RepliedWith
  <2> QED BY <1>2, <2>1, <2>2
<1>60. r.itt \notin SpoiledIn(s)
  BY <1>3 DEF Clean
<1>6. (r.op = "R2T") <=> (r.itt \in DOMAIN info)
  BY <1>2, <1>60 DEF Tasks, Replying
<1>7. \A x \in 1 .. Len(ws) : ~vs[x].done /\ RepliedTo(rs, ws[x].itt)
                                => (x = w /\ r.op = "R2T") \/ RepliedTo(ts, ws[x].itt)
  <2> SUFFICES ASSUME NEW x \in 1 .. Len(ws), ~vs[x].done, RepliedTo(rs, ws[x].itt)
               PROVE  (x = w /\ r.op = "R2T") \/ RepliedTo(ts, ws[x].itt)
    OBVIOUS
  <2>1. PICK i \in DOMAIN rs : rs[i].itt = ws[x].itt
    BY DEF RepliedTo
  <2>2. CASE i = 1
    BY <1>5, <2>1, <2>2
  <2>3. CASE i # 1
    <3>1. i - 1 \in DOMAIN ts /\ ts[i - 1].itt = ws[x].itt
      BY <1>2, <2>1, <2>3
    <3> QED BY <3>1 DEF RepliedTo
  <2> QED BY <2>2, <2>3
<1>8. Entries(s, vs, info, h)
  <2> SUFFICES ASSUME NEW t \in DOMAIN info \ SpoiledIn(s)
               PROVE  \E x \in 1 .. Len(vs) : EntryOf(s, vs, info, h, t, x)
    BY DEF Entries
  <2>1. PICK x \in 1 .. Len(ws) : EntryOf(s, ws, info, h, t, x)
    BY DEF Tasks, Entries
  <2>2. ~vs[x].done
    <3>1. CASE x # w
      BY <1>1, <2>1, <3>1 DEF EntryOf
    <3>2. CASE x = w
      <4>1. r.op = "R2T"
        BY <1>3, <1>6, <2>1, <3>2 DEF EntryOf
      <4> QED BY <1>1, <1>3, <3>2, <4>1 DEF RepliedWith
    <3> QED BY <3>1, <3>2
  <2> QED BY <1>1, <1>4, <2>1, <2>2 DEF EntryOf
<1>9. Attended(s, vs, ts, info, h)
  <2> SUFFICES ASSUME NEW x \in 1 .. Len(ws), ~vs[x].done, Seen(s, x, h)
               PROVE  ws[x].itt \in DOMAIN info \/ RepliedTo(ts, ws[x].itt)
    BY <1>1, <1>4 DEF Attended
  <2>1. ws[x].itt \in DOMAIN info \/ RepliedTo(rs, ws[x].itt)
    BY <1>4 DEF Tasks, Attended
  <2> QED BY <1>3, <1>6, <1>7, <2>1
<1>10. Replying(s, vs, ts, info, h)
  <2> SUFFICES ASSUME NEW i \in DOMAIN ts, ts[i].itt \notin SpoiledIn(s)
               PROVE  /\ \A j \in DOMAIN ts : ts[j].itt = ts[i].itt => i = j
                      /\ (ts[i].op = "R2T") <=> (ts[i].itt \in DOMAIN info)
                      /\ \E x \in 1 .. Len(vs) : ReplyTo(s, vs, h, ts[i], x)
    BY DEF Replying
  <2> DEFINE n == i + 1
  <2>1. n \in DOMAIN rs /\ n # 1 /\ ts[i] = rs[n] /\ i \in Nat
    BY <1>2
  <2> HIDE DEF n
  <2>2. /\ \A j \in DOMAIN rs : rs[j].itt = rs[n].itt => n = j
        /\ (rs[n].op = "R2T") <=> (rs[n].itt \in DOMAIN info)
        /\ \E x \in 1 .. Len(ws) : ReplyTo(s, ws, h, rs[n], x)
    BY <2>1 DEF Tasks, Replying
  <2>3. ASSUME NEW j \in DOMAIN ts, ts[j].itt = ts[i].itt PROVE i = j
    <3>1. j + 1 \in DOMAIN rs /\ rs[j + 1] = ts[j] /\ j \in Nat
      BY <1>2
    <3>2. n = j + 1
      BY <2>1, <2>2, <2>3, <3>1
    <3> QED BY <2>1, <3>1, <3>2 DEF n
  <2>4. PICK x \in 1 .. Len(ws) : ReplyTo(s, ws, h, rs[n], x)
    BY <2>2
  <2>5. x # w
    <3> SUFFICES ASSUME x = w PROVE FALSE
      OBVIOUS
    <3>1. rs[n].itt = r.itt
      BY <1>3, <2>4 DEF ReplyTo
    <3> QED BY <1>2, <2>1, <2>2, <3>1
  <2>6. vs[x] = ws[x]
    BY <1>1, <2>5
  <2>7. ReplyTo(s, vs, h, ts[i], x)
    BY <2>1, <2>4, <2>6 DEF ReplyTo
  <2> QED BY <1>1, <2>1, <2>2, <2>3, <2>7
<1>11. Waiting(s, vs, ts, h)
  <2> SUFFICES ASSUME NEW x \in 1 .. Len(ws), ~vs[x].done, Settled(s, x, h)
               PROVE  vs[x].grant > 0 \/ vs[x].waits \/ RepliedTo(ts, ws[x].itt)
    BY <1>1, <1>4 DEF Waiting
  <2>1. CASE x # w
    <3>1. ws[x].grant > 0 \/ ws[x].waits \/ RepliedTo(rs, ws[x].itt)
      BY <1>4 DEF Tasks, Waiting
    <3> QED BY <1>1, <1>7, <2>1, <3>1
  <2>2. CASE x = w
    <3>1. r.op = "R2T"
      BY <1>3, <1>5, <2>2
    <3> QED BY <1>1, <1>3, <2>2, <3>1 DEF RepliedWith
  <2> QED BY <2>1, <2>2
<1> QED BY <1>8, <1>9, <1>10, <1>11 DEF Tasks

(* The reply to a spoiled WRITE changes nothing of any other.              *)
LEMMA SpoiledReplyTasks ==
  ASSUME NEW s, NEW ws, NEW rs \in Seq(ReplySet), NEW ts \in Seq(ReplySet), WithoutHead(rs, ts),
         rs[1].itt \in SpoiledIn(s), Clean(s, ws),
         NEW h, NEW info, Tasks(s, ws, rs, info, h)
  PROVE  Tasks(s, ws, ts, info, h)
<1>1. /\ \A i \in DOMAIN ts : i + 1 \in DOMAIN rs /\ ts[i] = rs[i + 1] /\ i \in Nat
      /\ \A i \in DOMAIN rs : i = 1 \/ (i - 1 \in DOMAIN ts /\ ts[i - 1] = rs[i])
  <2>1. /\ Len(rs) \in Nat /\ Len(rs) > 0 /\ DOMAIN rs = 1 .. Len(rs) /\ DOMAIN ts = 1 .. Len(ts)
        /\ Len(ts) = Len(rs) - 1 /\ \A i \in 1 .. Len(ts) : ts[i] = rs[i + 1]
    BY DEF WithoutHead
  <2>2. ASSUME NEW i \in DOMAIN ts PROVE i + 1 \in DOMAIN rs /\ ts[i] = rs[i + 1] /\ i \in Nat
    BY <2>1
  <2>3. ASSUME NEW i \in DOMAIN rs, i # 1 PROVE i - 1 \in DOMAIN ts /\ ts[i - 1] = rs[i]
    <3>1. i - 1 \in 1 .. Len(ts) /\ (i - 1) + 1 = i
      BY <2>1, <2>3
    <3> QED BY <2>1, <3>1
  <2> QED BY <2>2, <2>3
<1>2. \A x \in 1 .. Len(ws) : ~ws[x].done /\ RepliedTo(rs, ws[x].itt) => RepliedTo(ts, ws[x].itt)
  <2> SUFFICES ASSUME NEW x \in 1 .. Len(ws), ~ws[x].done, RepliedTo(rs, ws[x].itt)
               PROVE  RepliedTo(ts, ws[x].itt)
    OBVIOUS
  <2>1. PICK i \in DOMAIN rs : rs[i].itt = ws[x].itt
    BY DEF RepliedTo
  <2>2. i # 1
    BY <2>1 DEF Clean
  <2>3. i - 1 \in DOMAIN ts /\ ts[i - 1].itt = ws[x].itt
    BY <1>1, <2>1, <2>2
  <2> QED BY <2>3 DEF RepliedTo
<1>3. Entries(s, ws, info, h)
  BY DEF Tasks
<1>4. Attended(s, ws, ts, info, h)
  BY <1>2 DEF Tasks, Attended
<1>5. Waiting(s, ws, ts, h)
  BY <1>2 DEF Tasks, Waiting
<1>6. Replying(s, ws, ts, info, h)
  <2> SUFFICES ASSUME NEW i \in DOMAIN ts, ts[i].itt \notin SpoiledIn(s)
               PROVE  /\ \A j \in DOMAIN ts : ts[j].itt = ts[i].itt => i = j
                      /\ (ts[i].op = "R2T") <=> (ts[i].itt \in DOMAIN info)
                      /\ \E x \in 1 .. Len(ws) : ReplyTo(s, ws, h, ts[i], x)
    BY DEF Replying
  <2> DEFINE n == i + 1
  <2>1. n \in DOMAIN rs /\ ts[i] = rs[n] /\ i \in Nat
    BY <1>1
  <2> HIDE DEF n
  <2>2. /\ \A j \in DOMAIN rs : rs[j].itt = rs[n].itt => n = j
        /\ (rs[n].op = "R2T") <=> (rs[n].itt \in DOMAIN info)
        /\ \E x \in 1 .. Len(ws) : ReplyTo(s, ws, h, rs[n], x)
    BY <2>1 DEF Tasks, Replying
  <2>3. ASSUME NEW j \in DOMAIN ts, ts[j].itt = ts[i].itt PROVE i = j
    <3>1. j + 1 \in DOMAIN rs /\ rs[j + 1] = ts[j] /\ j \in Nat
      BY <1>1
    <3>2. n = j + 1
      BY <2>1, <2>2, <2>3, <3>1
    <3> QED BY <2>1, <3>1, <3>2 DEF n
  <2> QED BY <2>1, <2>2, <2>3
<1> QED BY <1>3, <1>4, <1>5, <1>6 DEF Tasks

LEMMA TakeReplyBooks ==
  ASSUME Typed, taken \in Nat, Following, Paused, Books, TakeReply
  PROVE  Books' /\ Following' /\ Paused'
<1> DEFINE r == Head(wire)
           open == {v \in DOMAIN writes : writes[v].itt = r.itt /\ ~writes[v].done}
           w == CHOOSE v \in open : TRUE
           v == writes[w]
           asked == [[v EXCEPT !.sent = r.offset] EXCEPT !.grant = r.length]
           over == [v EXCEPT !.done = TRUE]
           new == IF r.op = "R2T" THEN asked ELSE over
           rs == wire \o sendtask
           ts == Tail(wire) \o sendtask
<1>1. /\ wire # << >> /\ wire' = Tail(wire) /\ UNCHANGED <<tvars, rvars, bad, modes>>
      /\ writes' = IF open = {} THEN writes
                   ELSE IF r.op = "R2T"
                   THEN [writes EXCEPT ![w].sent = r.offset, ![w].grant = r.length]
                   ELSE [writes EXCEPT ![w].done = TRUE]
  BY DEF TakeReply
<1>2. /\ stream \in Seq(Pdus) /\ writes \in Seq(WriteSet) /\ wire \in Seq(ReplySet) /\ sendtask \in Seq(ReplySet)
  BY DEF Typed, Streams, Asking, Pendings
<1>3. Typed' /\ writes' \in Seq(WriteSet)
  <2>1. Typed'
    BY InitiatorKeeps DEF Serve
  <2> QED BY <2>1 DEF Typed, Asking
<1>4. /\ rs \in Seq(ReplySet) /\ ts \in Seq(ReplySet) /\ WithoutHead(rs, ts) /\ rs[1] = r /\ r \in ReplySet
      /\ 1 \in DOMAIN rs
  <2> DEFINE m == Len(wire)
             n == Len(sendtask)
  <2>1. m \in Nat \ {0} /\ n \in Nat
    BY <1>1, <1>2
  <2>2. Len(Tail(wire)) = m - 1 /\ Tail(wire) \in Seq(ReplySet)
        /\ \A i \in 1 .. (m - 1) : Tail(wire)[i] = wire[i + 1]
    BY <1>1, <1>2
  <2>3. /\ rs \in Seq(ReplySet) /\ ts \in Seq(ReplySet) /\ Len(rs) = m + n /\ Len(ts) = (m - 1) + n
    BY <1>2, <2>2
  <2>4. \A i \in 1 .. (m + n) : rs[i] = IF i <= m THEN wire[i] ELSE sendtask[i - m]
    BY <1>2
  <2>5. \A i \in 1 .. ((m - 1) + n) : ts[i] = IF i <= m - 1 THEN wire[i + 1] ELSE sendtask[i - (m - 1)]
    BY <1>2, <2>2
  <2>6. r = wire[1]
    BY <1>1, <1>2
  <2> HIDE DEF rs, ts, m, n, r
  <2>7. ASSUME NEW i \in 1 .. Len(ts) PROVE ts[i] = rs[i + 1]
    <3>1. i \in Nat /\ i \in 1 .. ((m - 1) + n) /\ i + 1 \in 1 .. (m + n)
      BY <2>1, <2>3
    <3>2. CASE i <= m - 1
      <4>1. i + 1 <= m
        BY <2>1, <3>1, <3>2
      <4> QED BY <2>4, <2>5, <3>1, <3>2, <4>1
    <3>3. CASE ~(i <= m - 1)
      <4>1. ~(i + 1 <= m) /\ (i + 1) - m = i - (m - 1)
        BY <2>1, <3>1, <3>3
      <4>2. ts[i] = sendtask[i - (m - 1)]
        BY <2>5, <3>1, <3>3
      <4> DEFINE k == i + 1
      <4>3. k \in 1 .. (m + n) /\ ~(k <= m)
        BY <3>1, <4>1
      <4> HIDE DEF k
      <4>4. rs[k] = sendtask[k - m]
        BY <2>4, <4>3
      <4> QED BY <4>1, <4>2, <4>4 DEF k
    <3> QED BY <3>2, <3>3
  <2>8. Len(rs) > 0 /\ Len(ts) = Len(rs) - 1 /\ 1 \in DOMAIN rs /\ 1 \in 1 .. (m + n) /\ 1 <= m
    BY <2>1, <2>3
  <2>9. rs[1] = r /\ rs # << >>
    BY <2>3, <2>4, <2>6, <2>8
  <2>10. r \in ReplySet
    BY <2>3, <2>8, <2>9
  <2> QED BY <2>3, <2>7, <2>8, <2>9, <2>10 DEF WithoutHead
<1> HIDE DEF rs, ts
<1>5. /\ Tracks(stream, writes, bad, Handled, initialR2T, immediateEnabled)
      /\ Tasks(stream, writes, rs, recvinfo, Handled)
  BY DEF Books, rs
<1>7. Distinct(writes) /\ Clean(stream, writes)
  BY <1>5 DEF Tracks
<1>18. UNCHANGED <<stream, taken, offset, bhss, status, pc, session, recvinfo, sendtask, bad, initialR2T, immediateEnabled>>
  BY <1>1 DEF tvars, rvars, modes
<1>19. Following' /\ Paused' /\ Handled' = Handled
  BY <1>18 DEF Following, Paused, Handled, Parsed, Pos, Sent
<1>20. wire' \o sendtask' = ts
  BY <1>1, <1>18 DEF ts
<1>21. CASE r.itt \in SpoiledIn(stream)
  <2>1. open = {}
    <3>1. DOMAIN writes = 1 .. Len(writes)
      BY <1>2
    <3> QED BY <1>7, <1>21, <3>1 DEF Clean
  <2>2. writes' = writes
    <3> HIDE DEF open, w, r
    <3> QED BY <1>1, <2>1
  <2> HIDE DEF open, w, r
  <2>3. Tasks(stream, writes, ts, recvinfo, Handled)
    BY <1>4, <1>5, <1>7, <1>21, SpoiledReplyTasks
  <2>4. Books'
    BY <1>5, <1>18, <1>19, <1>20, <2>2, <2>3 DEF Books
  <2> QED BY <1>19, <2>4
<1>22. CASE r.itt \notin SpoiledIn(stream)
  <2>6. PICK x \in 1 .. Len(writes) : ReplyTo(stream, writes, Handled, r, x)
    BY <1>4, <1>5, <1>22 DEF Tasks, Replying
  <2>8. w = x
    <3> HIDE DEF r
    <3>1. x \in DOMAIN writes /\ writes[x].itt = r.itt /\ ~writes[x].done /\ DOMAIN writes = 1 .. Len(writes)
      BY <1>2, <2>6 DEF ReplyTo
    <3>3. x \in open
      BY <3>1
    <3>4. w \in open
      <4> HIDE DEF open
      <4> QED BY <3>3
    <3> HIDE DEF w
    <3>2. w \in DOMAIN writes /\ writes[w].itt = r.itt /\ ~writes[w].done
      BY <3>4
    <3> QED BY <1>7, <3>1, <3>2 DEF Distinct
  <2>80. open # {}
    <3>1. x \in open
      <4> HIDE DEF r
      <4> QED BY <1>2, <2>6 DEF ReplyTo
    <3> QED BY <3>1
  <2> HIDE DEF w, r, open
  <2>9. w \in 1 .. Len(writes) /\ w \in DOMAIN writes /\ ReplyTo(stream, writes, Handled, r, w) /\ v \in WriteSet
    BY <1>2, <2>6, <2>8
  <2>10. r.offset \in Nat /\ r.length \in Nat /\ r.op \in {"RSP", "R2T"}
    BY <1>4 DEF ReplySet
  <2>11. writes' = [writes EXCEPT ![w] = new]
    BY <1>1, <1>2, <2>9, <2>80
  <2> HIDE DEF v
  <2>12. RepliedWith(new, v, r)
    <3>1. r.op = "R2T" => r.offset = v.sent
      BY <2>9 DEF ReplyTo, v
    <3>2. CASE r.op = "R2T"
      <4>1. new = asked
        BY <3>2
      <4> HIDE DEF new
      <4>2. /\ asked.itt = v.itt /\ asked.lba = v.lba /\ asked.len = v.len /\ asked.waits = v.waits
            /\ asked.sent = r.offset /\ asked.grant = r.length /\ asked.done = v.done
        BY <2>9 DEF WriteSet
      <4> HIDE DEF asked
      <4> QED BY <3>1, <3>2, <4>1, <4>2 DEF RepliedWith
    <3>3. CASE r.op # "R2T"
      <4>1. new = over
        BY <3>3
      <4> HIDE DEF new
      <4>2. /\ over.itt = v.itt /\ over.lba = v.lba /\ over.len = v.len /\ over.waits = v.waits
            /\ over.sent = v.sent /\ over.grant = v.grant /\ over.done
        BY <2>9 DEF WriteSet
      <4> HIDE DEF over
      <4> QED BY <3>3, <4>1, <4>2 DEF RepliedWith
    <3> QED BY <3>2, <3>3
  <2> HIDE DEF new
  <2>13. OneChanged(writes, writes', w, new)
    BY <1>2, <2>9, <2>11 DEF OneChanged
  <2>14. RepliedWith(new, writes[w], r)
    BY <2>12 DEF v
  <2>15. Tracks(stream, writes', bad, Handled, initialR2T, immediateEnabled)
    BY <1>2, <1>3, <1>4, <1>5, <2>9, <2>13, <2>14, ReplyTracks
  <2>16. RepliedWith(new, writes[w], rs[1]) /\ ReplyTo(stream, writes, Handled, rs[1], w)
    BY <1>4, <2>9, <2>14
  <2>17. Tasks(stream, writes', ts, recvinfo, Handled)
    BY <1>2, <1>3, <1>4, <1>5, <1>7, <2>9, <2>13, <2>16, ReplyTasks
  <2>21. Books'
    BY <2>15, <2>17, <1>18, <1>19, <1>20 DEF Books
  <2> QED BY <1>19, <2>21
<1> QED BY <1>21, <1>22

(* Every step of the initiator keeps the books.                            *)
LEMMA InitiatorBooks ==
  ASSUME Typed, taken \in Nat, Following, Paused, Books, Initiator \/ Serve
  PROVE  Books' /\ Following' /\ Paused'
<1>1. ASSUME NEW itt \in ITTS, NEW cm \in Commands, NEW im \in 0 .. MRDS, NEW final \in BOOLEAN, Initiator,
             SendWrite(itt, cm[1], cm[2], im, final)
      PROVE  Books' /\ Following' /\ Paused'
  BY <1>1, SendWriteBooks
<1>2. ASSUME Initiator,
             \/ \E itt \in ITTS, cm \in BadCommands : SendBadWrite(itt, cm[1], cm[2])
             \/ \E itt \in ITTS : SendEndless(itt)
             \/ \E itt \in ITTS, cm \in Commands, d \in 1 .. MRDS : SendOverlong(itt, cm[1], cm[2], d)
             \/ \E itt \in ITTS, d \in 1 .. MRDS : SendBadData(itt, d)
      PROVE  Books' /\ Following' /\ Paused'
  BY <1>2, BadCasesBooks
<1>3. ASSUME Serve, NEW w \in DOMAIN writes, NEW d \in 1 .. MRDS, SendData(w, d)
      PROVE  Books' /\ Following' /\ Paused'
  BY <1>3, SendDataBooks
<1>4. ASSUME TakeReply
      PROVE  Books' /\ Following' /\ Paused'
  BY <1>4, TakeReplyBooks
<1>5. CASE Initiator
  BY <1>1, <1>2, <1>5 DEF Initiator
<1>6. CASE Serve
  BY <1>3, <1>4, <1>6 DEF Serve
<1> QED BY <1>5, <1>6
-----------------------------------------------------------------------------
(* The session works on the next PDU: h + 1.  What is behind it, and what  *)
(* is told of the other WRITEs, stays as it was.                           *)
LEMMA AdvanceTracks ==
  ASSUME NEW s \in Seq(Pdus), NEW ws \in Seq(WriteSet), NEW h \in Nat, h + 1 \in 1 .. Len(s),
         NEW b, NEW r2t, NEW imm, Tracks(s, ws, b, h, r2t, imm)
  PROVE  Tracks(s, ws, b, h + 1, r2t, imm)
<1> DEFINE n == h + 1
<1>1. \A k \in (n + 1) .. Len(s) : k \in (h + 1) .. Len(s)
  OBVIOUS
<1> HIDE DEF n
<1>2. Finals(s, n)
  <2>1. Finals(s, h)
    BY DEF Tracks
  <2> QED BY <1>1, <2>1 DEF Finals
<1>3. Strays(s, ws, n)
  <2>1. Strays(s, ws, h)
    BY DEF Tracks
  <2> QED BY <1>1, <2>1 DEF Strays
<1>4. Granted(s, ws, n)
  <2>1. Granted(s, ws, h)
    BY DEF Tracks
  <2> QED BY <1>1, <2>1 DEF Granted
<1>5. Closed(s, ws, n)
  <2>1. Closed(s, ws, h)
    BY DEF Tracks
  <2> QED BY <1>1, <2>1 DEF Closed, Settled
<1>6. Tracks(s, ws, b, n, r2t, imm)
  BY <1>2, <1>3, <1>4, <1>5 DEF Tracks
<1> QED BY <1>6 DEF n

LEMMA OthersTurn ==
  ASSUME NEW s \in Seq(Pdus), NEW h \in Nat, h + 1 \in 1 .. Len(s), NEW w, w # s[h + 1].w
  PROVE  /\ Seen(s, w, h + 1) <=> Seen(s, w, h)
         /\ Upto(s, w, h + 1 + 1) = Upto(s, w, h + 1)
         /\ Settled(s, w, h + 1) <=> Settled(s, w, h)
<1> DEFINE n == h + 1
<1>1. n \in Nat \ {0} /\ s[n].w # w
  OBVIOUS
<1>2. Settled(s, w, h + 1) <=> Settled(s, w, h)
  BY SettledNext
<1> HIDE DEF n
<1>3. Mine(s, w, n + 1) = Mine(s, w, n) /\ Upto(s, w, n + 1) = Upto(s, w, n)
  BY <1>1, MineNext, UptoNext
<1> QED BY <1>2, <1>3 DEF Seen, n

ReplyAdded(rs, us, r) ==
  /\ Len(us) = Len(rs) + 1 /\ us[Len(rs) + 1] = r
  /\ \A i \in 1 .. Len(rs) : us[i] = rs[i]
SameBut(info, new, t) ==
  \A u : u # t => (u \in DOMAIN new <=> u \in DOMAIN info) /\ (u \in DOMAIN info => new[u] = info[u])
TurnOf(s, ws, info, h, w, rs, us, r) ==
  /\ ws[w].itt \in DOMAIN info => EntryOf(s, ws, info, h, ws[w].itt, w)
  /\ \/ /\ us = rs /\ ws[w].itt \in DOMAIN info
        /\ Settled(s, w, h) => ws[w].grant > 0 \/ ws[w].waits
     \/ /\ ReplyAdded(rs, us, r) /\ r.itt = ws[w].itt
        /\ (r.op = "R2T") <=> (ws[w].itt \in DOMAIN info)
        /\ ReplyTo(s, ws, h, r, w)

LEMMA TurnTasks ==
  ASSUME NEW s \in Seq(Pdus), NEW ws \in Seq(WriteSet), NEW h \in Nat, h + 1 \in 1 .. Len(s),
         NEW w \in 1 .. Len(ws), s[h + 1].w = w, ~ws[w].done, Distinct(ws),
         NEW rs \in Seq(ReplySet), NEW us \in Seq(ReplySet), NEW r, NEW info, NEW new, SameBut(info, new, ws[w].itt),
         ~RepliedTo(rs, ws[w].itt), TurnOf(s, ws, new, h + 1, w, rs, us, r), Tasks(s, ws, rs, info, h)
  PROVE  Tasks(s, ws, us, new, h + 1)
<1> DEFINE n == h + 1
           itt == ws[w].itt
<1>1. \A x : x # w => /\ Seen(s, x, n) <=> Seen(s, x, h)
                      /\ Upto(s, x, n + 1) = Upto(s, x, n)
                      /\ Settled(s, x, n) <=> Settled(s, x, h)
  BY OthersTurn
<1>2. TurnOf(s, ws, new, n, w, rs, us, r) /\ n = h + 1
  OBVIOUS
<1> HIDE DEF n
<1>3. \A x \in 1 .. Len(ws) : x # w /\ ~ws[x].done => ws[x].itt # itt
  BY DEF Distinct
<1>4. DOMAIN rs = 1 .. Len(rs) /\ DOMAIN us = 1 .. Len(us) /\ Len(rs) \in Nat
  OBVIOUS
<1>5. \A i \in DOMAIN rs : i \in DOMAIN us /\ us[i] = rs[i] /\ rs[i].itt # itt
  <2>1. \A i \in DOMAIN rs : rs[i].itt # itt
    BY DEF RepliedTo
  <2>2. CASE us = rs
    BY <2>1, <2>2
  <2>3. CASE ReplyAdded(rs, us, r)
    BY <1>4, <2>1, <2>3 DEF ReplyAdded
  <2> QED BY <1>2, <2>2, <2>3 DEF TurnOf
<1>6. \A i \in DOMAIN us : i \in DOMAIN rs
        \/ (i = Len(rs) + 1 /\ us[i] = r /\ ReplyAdded(rs, us, r) /\ r.itt = itt
            /\ ((r.op = "R2T") <=> (itt \in DOMAIN new)) /\ ReplyTo(s, ws, n, r, w))
  <2>1. CASE us = rs
    BY <2>1
  <2>2. CASE /\ ReplyAdded(rs, us, r) /\ r.itt = itt
             /\ (r.op = "R2T") <=> (itt \in DOMAIN new)
             /\ ReplyTo(s, ws, n, r, w)
    BY <1>4, <2>2 DEF ReplyAdded
  <2> QED BY <1>2, <2>1, <2>2 DEF TurnOf
<1>7. \A t : RepliedTo(rs, t) => RepliedTo(us, t)
  BY <1>5 DEF RepliedTo
<1>8. itt \in DOMAIN new \/ RepliedTo(us, itt)
  <2>1. ASSUME ReplyAdded(rs, us, r), r.itt = itt PROVE RepliedTo(us, itt)
    BY <1>4, <2>1 DEF ReplyAdded, RepliedTo
  <2> QED BY <1>2, <2>1 DEF TurnOf
<1>9. Entries(s, ws, new, n)
  <2> SUFFICES ASSUME NEW t \in DOMAIN new \ SpoiledIn(s) PROVE \E x \in 1 .. Len(ws) : EntryOf(s, ws, new, n, t, x)
    BY DEF Entries
  <2>1. CASE t = itt
    BY <1>2, <2>1 DEF TurnOf
  <2>2. CASE t # itt
    <3>1. t \in DOMAIN info \ SpoiledIn(s) /\ new[t] = info[t]
      BY <2>2 DEF SameBut
    <3>2. PICK x \in 1 .. Len(ws) : EntryOf(s, ws, info, h, t, x)
      BY <3>1 DEF Tasks, Entries
    <3>3. x # w
      BY <2>2, <3>2 DEF EntryOf
    <3>4. EntryOf(s, ws, new, n, t, x)
      BY <1>1, <1>2, <3>1, <3>2, <3>3 DEF EntryOf
    <3> QED BY <3>4
  <2> QED BY <2>1, <2>2
<1>10. Attended(s, ws, us, new, n)
  <2> SUFFICES ASSUME NEW x \in 1 .. Len(ws), ~ws[x].done, Seen(s, x, n)
               PROVE  ws[x].itt \in DOMAIN new \/ RepliedTo(us, ws[x].itt)
    BY DEF Attended
  <2>1. CASE x = w
    BY <1>8, <2>1
  <2>2. CASE x # w
    <3>1. ws[x].itt \in DOMAIN info \/ RepliedTo(rs, ws[x].itt)
      BY <1>1, <2>2 DEF Tasks, Attended
    <3>2. ws[x].itt # itt
      BY <1>3, <2>2
    <3> QED BY <1>7, <3>1, <3>2 DEF SameBut
  <2> QED BY <2>1, <2>2
<1>11. Replying(s, ws, us, new, n)
  <2> SUFFICES ASSUME NEW i \in DOMAIN us, us[i].itt \notin SpoiledIn(s)
               PROVE  /\ \A j \in DOMAIN us : us[j].itt = us[i].itt => i = j
                      /\ (us[i].op = "R2T") <=> (us[i].itt \in DOMAIN new)
                      /\ \E x \in 1 .. Len(ws) : ReplyTo(s, ws, n, us[i], x)
    BY DEF Replying
  <2>1. CASE i \in DOMAIN rs
    <3>1. /\ \A j \in DOMAIN rs : rs[j].itt = rs[i].itt => i = j
          /\ (rs[i].op = "R2T") <=> (rs[i].itt \in DOMAIN info)
          /\ \E x \in 1 .. Len(ws) : ReplyTo(s, ws, h, rs[i], x)
      BY <1>5, <2>1 DEF Tasks, Replying
    <3>2. us[i] = rs[i] /\ rs[i].itt # itt
      BY <1>5, <2>1
    <3>3. (us[i].op = "R2T") <=> (us[i].itt \in DOMAIN new)
      BY <3>1, <3>2 DEF SameBut
    <3>4. PICK x \in 1 .. Len(ws) : ReplyTo(s, ws, h, rs[i], x)
      BY <3>1
    <3>5. x # w
      BY <3>2, <3>4 DEF ReplyTo
    <3>6. ReplyTo(s, ws, n, us[i], x)
      BY <1>1, <3>2, <3>4, <3>5 DEF ReplyTo
    <3>7. ASSUME NEW j \in DOMAIN us, us[j].itt = us[i].itt PROVE i = j
      <4>1. j \in DOMAIN rs
        BY <1>6, <3>2, <3>7
      <4> QED BY <1>5, <3>1, <3>2, <3>7, <4>1
    <3> QED BY <3>3, <3>6, <3>7
  <2>2. CASE i \notin DOMAIN rs
    <3>1. /\ i = Len(rs) + 1 /\ us[i] = r /\ r.itt = itt
          /\ (r.op = "R2T") <=> (itt \in DOMAIN new)
          /\ ReplyTo(s, ws, n, r, w)
      BY <1>6, <2>2
    <3>2. ASSUME NEW j \in DOMAIN us, us[j].itt = us[i].itt PROVE i = j
      BY <1>5, <1>6, <3>1, <3>2
    <3> QED BY <3>1, <3>2
  <2> QED BY <2>1, <2>2
<1>12. Waiting(s, ws, us, n)
  <2> SUFFICES ASSUME NEW x \in 1 .. Len(ws), ~ws[x].done, Settled(s, x, n)
               PROVE  ws[x].grant > 0 \/ ws[x].waits \/ RepliedTo(us, ws[x].itt)
    BY DEF Waiting
  <2>1. CASE x = w
    <3>1. ASSUME ReplyAdded(rs, us, r), r.itt = itt PROVE RepliedTo(us, itt)
      BY <1>4, <3>1 DEF ReplyAdded, RepliedTo
    <3> QED BY <1>2, <2>1, <3>1 DEF TurnOf
  <2>2. CASE x # w
    BY <1>1, <1>7, <2>2 DEF Tasks, Waiting
  <2> QED BY <2>1, <2>2
<1>13. Tasks(s, ws, us, new, n)
  BY <1>9, <1>10, <1>11, <1>12 DEF Tasks
<1> QED BY <1>13 DEF n

(* What the books tell of the PDU q that is next, and of its WRITE v.      *)
Turn(s, h, q, w, v, rs, info, r2t, imm) ==
  /\ w # 0 /\ ~v.done /\ ~RepliedTo(rs, v.itt)
  /\ GoodPdu(q, v, Upto(s, w, h + 1), Mine(s, w, h + 1) = {}, r2t, imm)
  /\ Seen(s, w, h + 1) /\ Upto(s, w, h + 1 + 1) = EndsAt(q)
  /\ q.final => Settled(s, w, h + 1) /\ v.grant = 0 /\ v.sent = EndsAt(q)
  /\ ~q.final /\ Settled(s, w, h + 1) => v.grant > 0
  /\ q.op = "WRITE" => v.itt \notin DOMAIN info
  /\ q.op = "DATA" => /\ v.itt \in DOMAIN info
                      /\ info[v.itt].lba = v.lba /\ info[v.itt].total = v.len
                      /\ info[v.itt].remain = v.len - q.off

LEMMA TurnFacts ==
  ASSUME NEW s \in Seq(Pdus), NEW ws \in Seq(WriteSet), NEW h \in Nat, h + 1 \in 1 .. Len(s),
         s[h + 1].w # 0, NEW b, NEW r2t, NEW imm, NEW rs, NEW info,
         Tracks(s, ws, b, h, r2t, imm), Tasks(s, ws, rs, info, h)
  PROVE  /\ s[h + 1].w \in 1 .. Len(ws)
         /\ Turn(s, h, s[h + 1], s[h + 1].w, ws[s[h + 1].w], rs, info, r2t, imm)
<1> DEFINE n == h + 1
           q == s[n]
           w == q.w
           v == ws[w]
<1>1. /\ w \in 1 .. Len(ws) /\ GoodPdu(q, v, Upto(s, w, n), Mine(s, w, n) = {}, r2t, imm)
  BY DEF Tracks, SoundPdus
<1>2. /\ n = h + 1 /\ n \in 1 .. Len(s) /\ n \in (h + 1) .. Len(s) /\ n \in Nat \ {0} /\ Len(s) \in Nat
      /\ s[n].w = w /\ w # 0 /\ q \in Pdus
  OBVIOUS
<1> HIDE DEF n
<1>3. ~Settled(s, w, h)
  BY <1>2 DEF Settled
<1>4. q.final => Settled(s, w, n)
  <2> SUFFICES ASSUME NEW l \in (n + 1) .. Len(s), s[l].w = w, q.final PROVE FALSE
    BY DEF Settled
  <2>1. l \in (h + 1) .. Len(s) /\ n < l
    BY <1>2
  <2> QED BY <1>2, <2>1 DEF Tracks, Finals
<1> HIDE DEF q
<1>5. s[n] = q
  BY DEF q
<1> HIDE DEF w
<1>6. q.w = w
  BY DEF w
<1> HIDE DEF v
<1>7. v = ws[w] /\ v \in WriteSet
  BY <1>1 DEF v
<1>8. v.grant \in Nat
  BY <1>7 DEF WriteSet
<1>9. ~v.done
  BY <1>1, <1>3, <1>7 DEF Tracks, Closed
<1>10. \A x \in 1 .. Len(ws) : ~ws[x].done /\ ws[x].itt = v.itt => x = w
  BY <1>1, <1>7, <1>9 DEF Tracks, Distinct
<1>20. v.itt \notin SpoiledIn(s)
  BY <1>1, <1>7, <1>9 DEF Tracks, Clean
<1>11. ~RepliedTo(rs, v.itt)
  <2> SUFFICES ASSUME NEW i \in DOMAIN rs, rs[i].itt = v.itt PROVE FALSE
    BY DEF RepliedTo
  <2>1. PICK x \in 1 .. Len(ws) : ReplyTo(s, ws, h, rs[i], x)
    BY <1>20 DEF Tasks, Replying
  <2> QED BY <1>3, <1>10, <2>1 DEF ReplyTo
<1>12. Mine(s, w, n + 1) # {} /\ Upto(s, w, n + 1) = EndsAt(q)
  BY <1>2, <1>5, MineNext, UptoNext
<1>13. Settled(s, w, n) => (q.final <=> (v.grant = 0)) /\ v.sent = EndsAt(q)
  <2> SUFFICES ASSUME Settled(s, w, n) PROVE (q.final <=> (v.grant = 0)) /\ v.sent = EndsAt(q)
    OBVIOUS
  <2>1. q.final <=> (v.grant = 0)
    BY <1>1, <1>2, <1>5, <1>7, <1>9 DEF Tracks, Granted
  <2>2. Upto(s, w, Len(s) + 1) = Upto(s, w, n + 1)
    <3>1. n \in 0 .. Len(s)
      BY <1>2
    <3> QED BY <3>1, UptoSettled
  <2>3. v.sent = Upto(s, w, Len(s) + 1)
    BY <1>1, <1>7 DEF Tracks, Totals
  <2> QED BY <1>12, <2>1, <2>2, <2>3
<1>14. ASSUME v.itt \in DOMAIN info
       PROVE  /\ Mine(s, w, n) # {} /\ info[v.itt].lba = v.lba /\ info[v.itt].total = v.len
              /\ info[v.itt].remain = v.len - Upto(s, w, n)
  <2>1. PICK x \in 1 .. Len(ws) : EntryOf(s, ws, info, h, v.itt, x)
    BY <1>14, <1>20 DEF Tasks, Entries
  <2>2. x = w
    BY <1>10, <2>1 DEF EntryOf
  <2> QED BY <1>2, <1>7, <2>1, <2>2 DEF EntryOf, Seen
<1>15. Mine(s, w, n) # {} => v.itt \in DOMAIN info
  BY <1>1, <1>2, <1>7, <1>9, <1>11 DEF Tasks, Attended, Seen
<1>16. /\ q.op = "WRITE" <=> Mine(s, w, n) = {}
       /\ q.off = Upto(s, w, n) /\ q.op \in {"WRITE", "DATA"}
  BY <1>1, <1>2 DEF GoodPdu, Pdus
<1>17. q.op = "WRITE" => v.itt \notin DOMAIN info
  BY <1>14, <1>16
<1>18. q.op = "DATA" => /\ v.itt \in DOMAIN info
                        /\ info[v.itt].lba = v.lba /\ info[v.itt].total = v.len
                        /\ info[v.itt].remain = v.len - q.off
  BY <1>14, <1>15, <1>16
<1>19. Turn(s, h, q, w, v, rs, info, r2t, imm)
  BY <1>1, <1>2, <1>4, <1>8, <1>9, <1>11, <1>12, <1>13, <1>17, <1>18 DEF Turn, Seen
<1> QED BY <1>1, <1>19 DEF n, q, w, v

(* A PDU of no WRITE and of no spoiled tag ends the session: the books     *)
(* leave no other outcome.                                                 *)
LEMMA StrayFacts ==
  ASSUME NEW s \in Seq(Pdus), NEW ws \in Seq(WriteSet), NEW h \in Nat, h + 1 \in 1 .. Len(s),
         s[h + 1].w = 0, NEW b, NEW r2t, NEW imm, NEW rs, NEW info,
         Tracks(s, ws, b, h, r2t, imm), Tasks(s, ws, rs, info, h)
  PROVE  /\ EvilPdu(s[h + 1], b, imm)
         /\ s[h + 1].op = "DATA" /\ s[h + 1].itt \in DOMAIN info \ SpoiledIn(s)
              => s[h + 1].dlength > info[s[h + 1].itt].remain
<1> DEFINE n == h + 1
           q == s[n]
<1>1. n = h + 1 /\ n \in 1 .. Len(s) /\ n \in (h + 1) .. Len(s) /\ q.w = 0
  OBVIOUS
<1> HIDE DEF n
<1>2. EvilPdu(q, b, imm)
  BY <1>1 DEF Tracks, SoundPdus
<1>3. ASSUME q.op = "DATA", q.itt \in DOMAIN info \ SpoiledIn(s) PROVE q.dlength > info[q.itt].remain
  <2>1. PICK x \in 1 .. Len(ws) : EntryOf(s, ws, info, h, q.itt, x)
    BY <1>3 DEF Tasks, Entries
  <2>2. ~ws[x].done /\ ws[x].itt = q.itt /\ Mine(s, x, n) # {} /\ info[q.itt].remain = ws[x].len - Upto(s, x, n)
    BY <1>1, <2>1 DEF EntryOf, Seen
  <2>3. q.dlength > ws[x].len - Upto(s, x, n)
    BY <1>1, <1>3, <2>2 DEF Tracks, Strays
  <2> QED BY <2>2, <2>3
<1> QED BY <1>2, <1>3 DEF n

(* What is done for a spoiled tag changes nothing of any WRITE.            *)
LEMMA SpoiledTasks ==
  ASSUME NEW s \in Seq(Pdus), NEW ws \in Seq(WriteSet), NEW h \in Nat, h + 1 \in 1 .. Len(s),
         s[h + 1].w = 0, NEW itt \in SpoiledIn(s), Clean(s, ws),
         NEW rs \in Seq(ReplySet), NEW us \in Seq(ReplySet), NEW r,
         NEW info, NEW new, SameBut(info, new, itt),
         us = rs \/ (ReplyAdded(rs, us, r) /\ r.itt = itt), Tasks(s, ws, rs, info, h)
  PROVE  Tasks(s, ws, us, new, h + 1)
<1> DEFINE n == h + 1
<1>1. \A x : x # 0 => /\ Seen(s, x, n) <=> Seen(s, x, h)
                      /\ Upto(s, x, n + 1) = Upto(s, x, n)
                      /\ Settled(s, x, n) <=> Settled(s, x, h)
  BY OthersTurn
<1>2. n = h + 1 /\ \A x \in 1 .. Len(ws) : x # 0
  OBVIOUS
<1> HIDE DEF n
<1>3. \A x \in 1 .. Len(ws) : ~ws[x].done => ws[x].itt # itt
  BY DEF Clean
<1>4. DOMAIN rs = 1 .. Len(rs) /\ DOMAIN us = 1 .. Len(us) /\ Len(rs) \in Nat
  OBVIOUS
<1>5. /\ \A i \in DOMAIN rs : i \in DOMAIN us /\ us[i] = rs[i]
      /\ \A i \in DOMAIN us : i \in DOMAIN rs \/ us[i].itt = itt
  <2>1. CASE us = rs
    BY <2>1
  <2>2. CASE ReplyAdded(rs, us, r) /\ r.itt = itt
    BY <1>4, <2>2 DEF ReplyAdded
  <2> QED BY <2>1, <2>2
<1>6. \A t : RepliedTo(rs, t) => RepliedTo(us, t)
  BY <1>5 DEF RepliedTo
<1>7. Entries(s, ws, new, n)
  <2> SUFFICES ASSUME NEW t \in DOMAIN new \ SpoiledIn(s) PROVE \E x \in 1 .. Len(ws) : EntryOf(s, ws, new, n, t, x)
    BY DEF Entries
  <2>1. t \in DOMAIN info \ SpoiledIn(s) /\ new[t] = info[t]
    BY DEF SameBut
  <2>2. PICK x \in 1 .. Len(ws) : EntryOf(s, ws, info, h, t, x)
    BY <2>1 DEF Tasks, Entries
  <2>3. EntryOf(s, ws, new, n, t, x)
    BY <1>1, <1>2, <2>1, <2>2 DEF EntryOf
  <2> QED BY <2>3
<1>8. Attended(s, ws, us, new, n)
  <2> SUFFICES ASSUME NEW x \in 1 .. Len(ws), ~ws[x].done, Seen(s, x, n)
               PROVE  ws[x].itt \in DOMAIN new \/ RepliedTo(us, ws[x].itt)
    BY DEF Attended
  <2>1. ws[x].itt \in DOMAIN info \/ RepliedTo(rs, ws[x].itt)
    BY <1>1, <1>2 DEF Tasks, Attended
  <2> QED BY <1>3, <1>6, <2>1 DEF SameBut
<1>9. Replying(s, ws, us, new, n)
  <2> SUFFICES ASSUME NEW i \in DOMAIN us, us[i].itt \notin SpoiledIn(s)
               PROVE  /\ \A j \in DOMAIN us : us[j].itt = us[i].itt => i = j
                      /\ (us[i].op = "R2T") <=> (us[i].itt \in DOMAIN new)
                      /\ \E x \in 1 .. Len(ws) : ReplyTo(s, ws, n, us[i], x)
    BY DEF Replying
  <2>1. i \in DOMAIN rs /\ us[i] = rs[i] /\ rs[i].itt # itt
    BY <1>5
  <2>2. /\ \A j \in DOMAIN rs : rs[j].itt = rs[i].itt => i = j
        /\ (rs[i].op = "R2T") <=> (rs[i].itt \in DOMAIN info)
        /\ \E x \in 1 .. Len(ws) : ReplyTo(s, ws, h, rs[i], x)
    BY <2>1 DEF Tasks, Replying
  <2>3. PICK x \in 1 .. Len(ws) : ReplyTo(s, ws, h, rs[i], x)
    BY <2>2
  <2>4. ReplyTo(s, ws, n, us[i], x)
    BY <1>1, <1>2, <2>1, <2>3 DEF ReplyTo
  <2>5. ASSUME NEW j \in DOMAIN us, us[j].itt = us[i].itt PROVE i = j
    BY <1>5, <2>1, <2>2, <2>5
  <2>6. (us[i].op = "R2T") <=> (us[i].itt \in DOMAIN new)
    BY <2>1, <2>2 DEF SameBut
  <2> QED BY <2>4, <2>5, <2>6
<1>10. Waiting(s, ws, us, n)
  BY <1>1, <1>2, <1>6 DEF Tasks, Waiting
<1>11. Tasks(s, ws, us, new, n)
  BY <1>7, <1>8, <1>9, <1>10 DEF Tasks
<1> QED BY <1>11 DEF n

LEMMA ReplyAppended ==
  ASSUME NEW ws \in Seq(ReplySet), NEW ts \in Seq(ReplySet), NEW r \in ReplySet
  PROVE  ReplyAdded(ws \o ts, ws \o Append(ts, r), r)
<1> DEFINE m == Len(ws)
           n == Len(ts)
           us == Append(ts, r)
           a == ws \o ts
           b == ws \o us
<1>1. m \in Nat /\ n \in Nat /\ us \in Seq(ReplySet) /\ Len(us) = n + 1 /\ us[n + 1] = r
      /\ \A i \in 1 .. n : us[i] = ts[i]
  OBVIOUS
<1> HIDE DEF us
<1>2. /\ Len(a) = m + n /\ \A i \in 1 .. (m + n) : a[i] = IF i <= m THEN ws[i] ELSE ts[i - m]
      /\ Len(b) = m + (n + 1) /\ \A i \in 1 .. (m + (n + 1)) : b[i] = IF i <= m THEN ws[i] ELSE us[i - m]
  BY <1>1
<1> HIDE DEF a, b, m, n
<1>3. Len(b) = Len(a) + 1
  BY <1>1, <1>2
<1>4. b[Len(a) + 1] = r
  <2> DEFINE k == Len(a) + 1
  <2>1. k \in 1 .. (m + (n + 1)) /\ ~(k <= m) /\ k - m = n + 1
    BY <1>1, <1>2
  <2> HIDE DEF k
  <2>2. b[k] = us[k - m]
    BY <1>2, <2>1
  <2> QED BY <1>1, <2>1, <2>2 DEF k
<1>5. ASSUME NEW i \in 1 .. Len(a) PROVE b[i] = a[i]
  <2>1. i \in 1 .. (m + n) /\ i \in 1 .. (m + (n + 1)) /\ i \in Nat
    BY <1>1, <1>2
  <2>2. CASE i <= m
    BY <1>2, <2>1, <2>2
  <2>3. CASE ~(i <= m)
    <3>1. i - m \in 1 .. n
      BY <1>1, <2>1, <2>3
    <3>2. b[i] = us[i - m] /\ a[i] = ts[i - m]
      BY <1>2, <2>1, <2>3
    <3> QED BY <1>1, <3>1, <3>2
  <2> QED BY <2>2, <2>3
<1>6. ReplyAdded(a, b, r)
  BY <1>3, <1>4, <1>5 DEF ReplyAdded
<1> QED BY <1>6 DEF a, b, us

(* The session works on the PDU of a WRITE and stays up.                   *)
LEMMA TurnBooks ==
  ASSUME Typed, Typed', Books, Handled \in Nat, Handled' = Handled + 1, Handled + 1 \in DOMAIN stream,
         UNCHANGED <<stream, ivars, modes>>,
         NEW q, q = stream[Handled + 1], q.w # 0, NEW r,
         SameBut(recvinfo, recvinfo', q.itt),
         TurnOf(stream, writes, recvinfo', Handled + 1, q.w, wire \o sendtask, wire \o sendtask', r)
  PROVE  Books'
<1> DEFINE h == Handled
           s == stream
           ws == writes
           rs == wire \o sendtask
           us == wire \o sendtask'
           w == q.w
<1>1. /\ s \in Seq(Pdus) /\ ws \in Seq(WriteSet) /\ wire \in Seq(ReplySet) /\ sendtask \in Seq(ReplySet)
      /\ sendtask' \in Seq(ReplySet)
  BY DEF Typed, Streams, Asking, Pendings
<1>2. rs \in Seq(ReplySet) /\ us \in Seq(ReplySet)
  BY <1>1
<1>3. /\ h \in Nat /\ h + 1 \in 1 .. Len(s) /\ s[h + 1] = q
      /\ Tracks(s, ws, bad, h, initialR2T, immediateEnabled) /\ Tasks(s, ws, rs, recvinfo, h)
      /\ TurnOf(s, ws, recvinfo', h + 1, w, rs, us, r)
  BY <1>1 DEF Books
<1>4. h' = h + 1
  OBVIOUS
<1>5. s[h + 1].w = w /\ w # 0
  BY <1>3
<1>6. UNCHANGED <<stream, writes, wire, bad, initialR2T, immediateEnabled>>
  BY DEF ivars, modes
<1> HIDE DEF h, rs, us, w
<1>7. Turn(s, h, q, w, ws[w], rs, recvinfo, initialR2T, immediateEnabled) /\ w \in 1 .. Len(ws)
  BY <1>1, <1>3, <1>5, TurnFacts
<1>8. /\ ~ws[w].done /\ ~RepliedTo(rs, ws[w].itt) /\ q.itt = ws[w].itt
  BY <1>7 DEF Turn, GoodPdu
<1>9. Distinct(ws) /\ SameBut(recvinfo, recvinfo', ws[w].itt)
  BY <1>3, <1>8 DEF Tracks
<1>10. Tracks(s, ws, bad, h + 1, initialR2T, immediateEnabled)
  BY <1>1, <1>3, AdvanceTracks
<1>11. Tasks(s, ws, us, recvinfo', h + 1)
  BY <1>1, <1>2, <1>3, <1>5, <1>7, <1>8, <1>9, TurnTasks
<1>12. wire' \o sendtask' = us
  BY <1>6 DEF us
<1>13. Tracks(stream', writes', bad', h', initialR2T', immediateEnabled')
  BY <1>4, <1>6, <1>10
<1>14. Tasks(stream', writes', wire' \o sendtask', recvinfo', h')
  BY <1>4, <1>6, <1>11, <1>12
<1> QED BY <1>13, <1>14 DEF Books, h

(* Or on a PDU of a spoiled tag.                                           *)
LEMMA SpoiledBooks ==
  ASSUME Typed, Typed', Books, Handled \in Nat, Handled' = Handled + 1, Handled + 1 \in DOMAIN stream,
         UNCHANGED <<stream, ivars, modes>>,
         NEW q, q = stream[Handled + 1], q.w = 0, q.itt \in SpoiledIn(stream),
         SameBut(recvinfo, recvinfo', q.itt),
         sendtask' = sendtask \/ \E r \in ReplySet : r.itt = q.itt /\ sendtask' = Append(sendtask, r)
  PROVE  Books'
<1> DEFINE h == Handled
           s == stream
           ws == writes
           rs == wire \o sendtask
           us == wire \o sendtask'
           t == q.itt
<1>1. /\ s \in Seq(Pdus) /\ ws \in Seq(WriteSet) /\ wire \in Seq(ReplySet) /\ sendtask \in Seq(ReplySet)
      /\ sendtask' \in Seq(ReplySet)
  BY DEF Typed, Streams, Asking, Pendings
<1>2. rs \in Seq(ReplySet) /\ us \in Seq(ReplySet)
  BY <1>1
<1>3. PICK r : us = rs \/ (ReplyAdded(rs, us, r) /\ r.itt = t)
  <2>1. CASE sendtask' = sendtask
    BY <2>1
  <2>2. CASE sendtask' # sendtask
    <3>1. PICK r \in ReplySet : r.itt = t /\ sendtask' = Append(sendtask, r)
      BY <2>2
    <3>2. ReplyAdded(rs, us, r)
      BY <1>1, <3>1, ReplyAppended
    <3> QED BY <3>1, <3>2
  <2> QED BY <2>1, <2>2
<1>4. /\ h \in Nat /\ h + 1 \in 1 .. Len(s) /\ s[h + 1].w = 0 /\ t \in SpoiledIn(s)
      /\ Tracks(s, ws, bad, h, initialR2T, immediateEnabled) /\ Tasks(s, ws, rs, recvinfo, h)
      /\ SameBut(recvinfo, recvinfo', t) /\ h' = h + 1
  BY <1>1 DEF Books
<1>5. UNCHANGED <<stream, writes, wire, bad, initialR2T, immediateEnabled>>
  BY DEF ivars, modes
<1>6. wire' \o sendtask' = us
  BY <1>5
<1> HIDE DEF h, rs, us, t
<1>7. Tracks(s, ws, bad, h + 1, initialR2T, immediateEnabled)
  BY <1>1, <1>4, AdvanceTracks
<1>8. Clean(s, ws)
  BY <1>4 DEF Tracks
<1>9. Tasks(s, ws, us, recvinfo', h + 1)
  BY <1>1, <1>2, <1>3, <1>4, <1>8, SpoiledTasks
<1>10. Tracks(stream', writes', bad', h', initialR2T', immediateEnabled')
  BY <1>4, <1>5, <1>7
<1>11. Tasks(stream', writes', wire' \o sendtask', recvinfo', h')
  BY <1>4, <1>5, <1>6, <1>9
<1> QED BY <1>10, <1>11 DEF Books, h

(* What the handlers do with the PDU of a WRITE.                           *)
Due ==
  /\ Typed /\ Typed' /\ Books /\ bhss # << >>
  /\ Handled \in Nat /\ Handled' = Handled + 1 /\ Head(bhss).pdu = Handled + 1 /\ Handled + 1 \in DOMAIN stream
  /\ UNCHANGED <<stream, ivars, modes>>
  /\ Req.w # 0
Its == writes[Req.w]

LEMMA DueFacts ==
  ASSUME Due
  PROVE  /\ Req \in Pdus /\ Its \in WriteSet /\ Req.itt = Its.itt
         /\ Turn(stream, Handled, Req, Req.w, Its, wire \o sendtask, recvinfo, initialR2T, immediateEnabled)
         /\ Req.off \in Nat /\ Req.dlength \in Nat /\ Req.len \in Nat /\ Req.lba \in Nat
         /\ Its.len \in Nat /\ Its.len \in 0 .. (Word - 1) /\ Its.lba \in Nat /\ Its.grant \in Nat /\ Req.itt \in ITTS
         /\ Req.final \in BOOLEAN /\ Its.waits \in BOOLEAN /\ Its.sent \in Nat
         /\ Req.op = "WRITE" => Req.off = 0 /\ LBA2OFFSET(Req.len) = Its.len
         /\ Req.off + Req.dlength <= Its.len /\ (~Req.final => Req.off + Req.dlength < Its.len)
         /\ EndsAt(Req) = Req.off + Req.dlength
         /\ wire \in Seq(ReplySet) /\ sendtask \in Seq(ReplySet)
<1>1. /\ stream \in Seq(Pdus) /\ writes \in Seq(WriteSet) /\ wire \in Seq(ReplySet) /\ sendtask \in Seq(ReplySet)
  BY DEF Due, Typed, Streams, Asking, Pendings
<1>2. /\ Tracks(stream, writes, bad, Handled, initialR2T, immediateEnabled)
      /\ Tasks(stream, writes, wire \o sendtask, recvinfo, Handled)
      /\ Handled \in Nat /\ Handled + 1 \in 1 .. Len(stream) /\ Req = stream[Handled + 1]
      /\ stream[Handled + 1].w # 0
  BY <1>1 DEF Due, Books, Req
<1>3. /\ Req.w \in 1 .. Len(writes)
      /\ Turn(stream, Handled, Req, Req.w, Its, wire \o sendtask, recvinfo, initialR2T, immediateEnabled)
  <2> DEFINE rs == wire \o sendtask
  <2> HIDE DEF rs
  <2>1. /\ stream[Handled + 1].w \in 1 .. Len(writes)
        /\ Turn(stream, Handled, stream[Handled + 1], stream[Handled + 1].w, writes[stream[Handled + 1].w],
                rs, recvinfo, initialR2T, immediateEnabled)
    BY <1>1, <1>2, TurnFacts DEF rs
  <2> QED BY <1>2, <2>1 DEF Its, rs
<1>4. Req \in Pdus
  BY ReqType DEF Due
<1>5. Its \in WriteSet
  BY <1>1, <1>3 DEF Its
<1>6. /\ Req.off \in Nat /\ Req.dlength \in Nat /\ Req.len \in Nat /\ Req.lba \in Nat
      /\ Its.len \in Nat /\ Its.len \in 0 .. (Word - 1) /\ Its.lba \in Nat /\ Its.grant \in Nat /\ Req.itt \in ITTS
      /\ Req.final \in BOOLEAN /\ Its.waits \in BOOLEAN /\ Its.sent \in Nat
  BY <1>4, <1>5, Parameters DEF Pdus, WriteSet
<1>7. /\ Req.itt = Its.itt /\ EndsAt(Req) <= Its.len /\ (~Req.final => EndsAt(Req) < Its.len)
      /\ Req.off = Upto(stream, Req.w, Handled + 1)
      /\ (Req.op = "WRITE") <=> (Mine(stream, Req.w, Handled + 1) = {})
      /\ Req.op = "WRITE" => LBA2OFFSET(Req.len) = Its.len
  BY <1>3 DEF Turn, GoodPdu
<1>8. Req.op = "WRITE" => Req.off = 0
  BY <1>7 DEF Upto
<1>9. EndsAt(Req) = Req.off + Req.dlength
  BY DEF EndsAt
<1> QED BY <1>1, <1>3, <1>4, <1>5, <1>6, <1>7, <1>8, <1>9

(* What remains behind the immediate data does not wrap.                   *)
LEMMA LeftIs ==
  ASSUME Due, Req.op = "WRITE"
  PROVE  Left = Its.len - Req.dlength /\ Left \in Nat
<1>1. /\ LBA2OFFSET(Req.len) = Its.len /\ Its.len \in 0 .. (Word - 1) /\ Req.dlength \in Nat
      /\ Its.len \in Nat /\ Req.off = 0 /\ Req.off + Req.dlength <= Its.len
  BY DueFacts
<1> DEFINE x == Its.len - Req.dlength
<1>2. x \in 0 .. (Word - 1) /\ x \in Int /\ x \in Nat
  <2> DEFINE l == Its.len
             d == Req.dlength
  <2>1. l \in Nat /\ l <= Word - 1 /\ d \in Nat /\ 0 + d <= l /\ Word \in Nat
    BY <1>1, Parameters
  <2> HIDE DEF l, d
  <2>2. l - d \in 0 .. (Word - 1) /\ l - d \in Nat
    BY <2>1
  <2> QED BY <2>2 DEF l, d
<1>3. Left = x % Word
  BY <1>1 DEF Left
<1> HIDE DEF x
<1>4. x % Word = x
  BY <1>2, Words
<1> QED BY <1>2, <1>3, <1>4 DEF x

(* What the handlers can cut into a segment.                               *)
LEMMA CutIs ==
  ASSUME NEW req, req.dlength \in Nat
  PROVE  /\ IsCut(req) <=> req.dlength > 0 /\ req.dlength % Unit = 0
         /\ IsCut(req) => LBA2OFFSET(OFFSET2LBA(req.dlength)) = req.dlength
         /\ OFFSET2LBA(req.dlength) \in Nat
<1> DEFINE d == req.dlength
           n == d \div Unit
           r == d % Unit
           l == n * Unit
<1>1. Unit \in Nat \ {0} /\ d \in Nat
  BY Parameters
<1>2. n \in Nat /\ r \in Nat /\ d = Unit * n + r
  <2> HIDE DEF d
  <2> QED BY <1>1
<1>3. l = Unit * n /\ l \in Nat
  <2> HIDE DEF n
  <2> QED BY <1>1, <1>2
<1>4. LBA2OFFSET(OFFSET2LBA(d)) = l /\ OFFSET2LBA(d) = n
  BY DEF LBA2OFFSET, OFFSET2LBA
<1>5. IsCut(req) <=> d > 0 /\ d <= l
  BY <1>4 DEF IsCut, HasSegment
<1> HIDE DEF d, n, r, l
<1>6. d = l + r
  BY <1>1, <1>2, <1>3
<1>7. d <= l <=> r = 0
  BY <1>1, <1>2, <1>3, <1>6
<1>8. IsCut(req) => l = d
  BY <1>2, <1>3, <1>5, <1>6, <1>7
<1> QED BY <1>2, <1>4, <1>5, <1>7, <1>8 DEF d, r

LEMMA DueBooks ==
  ASSUME Due, NEW r, SameBut(recvinfo, recvinfo', Req.itt),
         TurnOf(stream, writes, recvinfo', Handled + 1, Req.w, wire \o sendtask, wire \o sendtask', r)
  PROVE  Books'
<1>1. Req = stream[Handled + 1]
  BY DEF Due, Req
<1> QED BY <1>1, TurnBooks DEF Due

(* The response goes out: all of the WRITE has come.                       *)
LEMMA ResponseBooks ==
  ASSUME Due, Req.final, Req.off + Req.dlength = Its.len, sendtask' = Append(sendtask, Rsp(Req.itt)),
         Req.itt \notin DOMAIN recvinfo', SameBut(recvinfo, recvinfo', Req.itt)
  PROVE  Books'
<1> DEFINE r == Rsp(Req.itt)
<1>1. /\ Turn(stream, Handled, Req, Req.w, Its, wire \o sendtask, recvinfo, initialR2T, immediateEnabled)
      /\ Req.itt = Its.itt /\ Req.itt \in ITTS /\ EndsAt(Req) = Its.len
      /\ wire \in Seq(ReplySet) /\ sendtask \in Seq(ReplySet)
  BY DueFacts
<1>2. r \in ReplySet /\ r.op = "RSP" /\ r.itt = Req.itt
  BY <1>1 DEF Rsp, ReplySet
<1> HIDE DEF r
<1>3. ReplyAdded(wire \o sendtask, wire \o sendtask', r)
  BY <1>1, <1>2, ReplyAppended DEF r
<1>4. /\ ~Its.done /\ Seen(stream, Req.w, Handled + 1) /\ Settled(stream, Req.w, Handled + 1)
      /\ Its.grant = 0 /\ Its.sent = Its.len
  BY <1>1 DEF Turn
<1>5. ReplyTo(stream, writes, Handled + 1, r, Req.w)
  BY <1>1, <1>2, <1>4 DEF ReplyTo, Its
<1>6. writes[Req.w].itt = Req.itt
  BY <1>1 DEF Its
<1>7. TurnOf(stream, writes, recvinfo', Handled + 1, Req.w, wire \o sendtask, wire \o sendtask', r)
  BY <1>2, <1>3, <1>5, <1>6 DEF TurnOf
<1> QED BY <1>7, DueBooks

(* The WRITE is pending: remain cells have not come.   It is asked for     *)
(* them, or the initiator knows without.                                   *)
PendingEntry(info) ==
  /\ Req.itt \in DOMAIN info /\ info[Req.itt].lba = Its.lba /\ info[Req.itt].total = Its.len
  /\ info[Req.itt].remain = Its.len - (Req.off + Req.dlength) /\ info[Req.itt].remain > 0
AsksRest(r) ==
  /\ r \in ReplySet /\ r.op = "R2T" /\ r.itt = Req.itt /\ r.offset = Req.off + Req.dlength
  /\ r.length > 0 /\ r.length <= Its.len - r.offset

LEMMA PendingIs ==
  ASSUME Due, NEW info, PendingEntry(info)
  PROVE  EntryOf(stream, writes, info, Handled + 1, writes[Req.w].itt, Req.w)
<1>1. /\ Turn(stream, Handled, Req, Req.w, Its, wire \o sendtask, recvinfo, initialR2T, immediateEnabled)
      /\ Req.itt = Its.itt /\ EndsAt(Req) = Req.off + Req.dlength
  BY DueFacts
<1>2. ~Its.done /\ Seen(stream, Req.w, Handled + 1) /\ Upto(stream, Req.w, Handled + 1 + 1) = Req.off + Req.dlength
  BY <1>1 DEF Turn
<1> QED BY <1>1, <1>2 DEF EntryOf, PendingEntry, Its

LEMMA AskedBooks ==
  ASSUME Due, Req.final, NEW r, AsksRest(r), sendtask' = Append(sendtask, r),
         PendingEntry(recvinfo'), SameBut(recvinfo, recvinfo', Req.itt)
  PROVE  Books'
<1>1. /\ Turn(stream, Handled, Req, Req.w, Its, wire \o sendtask, recvinfo, initialR2T, immediateEnabled)
      /\ Req.itt = Its.itt /\ EndsAt(Req) = Req.off + Req.dlength
      /\ wire \in Seq(ReplySet) /\ sendtask \in Seq(ReplySet)
  BY DueFacts
<1>2. /\ ~Its.done /\ Seen(stream, Req.w, Handled + 1) /\ Settled(stream, Req.w, Handled + 1)
      /\ Its.grant = 0 /\ Its.sent = Req.off + Req.dlength
  BY <1>1 DEF Turn
<1>3. ReplyAdded(wire \o sendtask, wire \o sendtask', r)
  BY <1>1, ReplyAppended DEF AsksRest
<1>4. ReplyTo(stream, writes, Handled + 1, r, Req.w)
  BY <1>1, <1>2 DEF ReplyTo, Its, AsksRest
<1>5. writes[Req.w].itt = Req.itt /\ Req.itt \in DOMAIN recvinfo' /\ r.op = "R2T" /\ r.itt = Req.itt
  BY <1>1 DEF Its, PendingEntry, AsksRest
<1>6. EntryOf(stream, writes, recvinfo', Handled + 1, writes[Req.w].itt, Req.w)
  BY PendingIs
<1>7. TurnOf(stream, writes, recvinfo', Handled + 1, Req.w, wire \o sendtask, wire \o sendtask', r)
  BY <1>3, <1>4, <1>5, <1>6 DEF TurnOf
<1> QED BY <1>7, DueBooks

LEMMA UnaskedBooks ==
  ASSUME Due, sendtask' = sendtask, PendingEntry(recvinfo'), SameBut(recvinfo, recvinfo', Req.itt),
         Req.final => Its.waits
  PROVE  Books'
<1>1. /\ Turn(stream, Handled, Req, Req.w, Its, wire \o sendtask, recvinfo, initialR2T, immediateEnabled)
      /\ Req.itt = Its.itt
  BY DueFacts
<1>2. Settled(stream, Req.w, Handled + 1) => Its.grant > 0 \/ Its.waits
  BY <1>1 DEF Turn
<1>3. writes[Req.w].itt = Req.itt /\ Req.itt \in DOMAIN recvinfo'
  BY <1>1 DEF Its, PendingEntry
<1>4. EntryOf(stream, writes, recvinfo', Handled + 1, writes[Req.w].itt, Req.w)
  BY PendingIs
<1>5. wire \o sendtask' = wire \o sendtask
  OBVIOUS
<1>6. TurnOf(stream, writes, recvinfo', Handled + 1, Req.w, wire \o sendtask, wire \o sendtask', Rsp(Req.itt))
  BY <1>2, <1>3, <1>4, <1>5 DEF TurnOf, Its
<1> QED BY <1>6, DueBooks

LEMMA AllAtOnceBooks ==
  ASSUME Due, AllAtOnce
  PROVE  Books'
<1>1. /\ Turn(stream, Handled, Req, Req.w, Its, wire \o sendtask, recvinfo, initialR2T, immediateEnabled)
      /\ Req.itt = Its.itt /\ Req.len \in Nat /\ Req.dlength \in Nat /\ Its.len \in Nat
      /\ Req.op = "WRITE" => Req.off = 0
  BY DueFacts
<1>2. /\ Req.op = "WRITE" /\ Left = 0 /\ Req.final /\ recvinfo' = recvinfo
      /\ sendtask' = Append(sendtask, Rsp(Req.itt))
  BY DEF AllAtOnce, AcceptedWrite
<1>3. Req.itt \notin DOMAIN recvinfo
  BY <1>1, <1>2 DEF Turn
<1>4. Req.off + Req.dlength = Its.len
  BY <1>1, <1>2, LeftIs
<1>5. SameBut(recvinfo, recvinfo', Req.itt)
  BY <1>2 DEF SameBut
<1> QED BY <1>2, <1>3, <1>4, <1>5, ResponseBooks

LEMMA KnownFacts ==
  ASSUME Due, KnownData
  PROVE  /\ Dinfo \in Pending /\ Dinfo.lba = Its.lba /\ Dinfo.total = Its.len /\ Dinfo.remain = Its.len - Req.off
         /\ Rest = Its.len - (Req.off + Req.dlength) /\ Rest \in Nat /\ Dinfo.remain >= Req.dlength
         /\ ~Req.final => Rest > 0
<1>1. /\ Turn(stream, Handled, Req, Req.w, Its, wire \o sendtask, recvinfo, initialR2T, immediateEnabled)
      /\ Req.itt = Its.itt /\ Req.off \in Nat /\ Req.dlength \in Nat /\ Its.len \in Nat
      /\ Req.off + Req.dlength <= Its.len /\ (~Req.final => Req.off + Req.dlength < Its.len)
  BY DueFacts
<1>2. Req.op = "DATA" /\ Req.itt \in DOMAIN recvinfo
  BY DEF KnownData
<1>3. Dinfo.lba = Its.lba /\ Dinfo.total = Its.len /\ Dinfo.remain = Its.len - Req.off
  BY <1>1, <1>2 DEF Turn, Dinfo
<1>4. Dinfo \in Pending
  BY <1>2 DEF Due, Typed, Pendings, Dinfo
<1>5. Rest = Its.len - (Req.off + Req.dlength)
  BY <1>1, <1>3 DEF Rest
<1> QED BY <1>1, <1>3, <1>4, <1>5

LEMMA FinishedBooks ==
  ASSUME Due, Finished
  PROVE  Books'
<1>1. /\ KnownData /\ Req.final /\ Rest = 0 /\ sendtask' = Append(sendtask, Rsp(Req.itt))
      /\ recvinfo' = [t \in DOMAIN recvinfo \ {Req.itt} |-> recvinfo[t]]
  BY DEF Finished
<1>2. Rest = Its.len - (Req.off + Req.dlength)
  BY <1>1, KnownFacts
<1>3. Req.off \in Nat /\ Req.dlength \in Nat /\ Its.len \in Nat
  BY DueFacts
<1>4. Req.off + Req.dlength = Its.len
  BY <1>1, <1>2, <1>3
<1>5. Req.itt \notin DOMAIN recvinfo' /\ SameBut(recvinfo, recvinfo', Req.itt)
  BY <1>1 DEF SameBut
<1> QED BY <1>1, <1>4, <1>5, ResponseBooks

LEMMA AfterIs ==
  ASSUME Due, KnownData
  PROVE  /\ After \in Pending /\ After.lba = Its.lba /\ After.total = Its.len /\ After.remain = Rest
<1>1. Dinfo \in Pending /\ Dinfo.lba = Its.lba /\ Dinfo.total = Its.len /\ Rest \in Nat
  BY KnownFacts
<1> QED BY <1>1 DEF After, Pending

LEMMA MoreBooks ==
  ASSUME Due, More
  PROVE  Books'
<1>1. /\ KnownData /\ ~Req.final /\ sendtask' = sendtask /\ recvinfo' = [recvinfo EXCEPT ![Req.itt] = After]
      /\ Req.itt \in DOMAIN recvinfo
  BY DEF More, KnownData
<1>2. /\ After.lba = Its.lba /\ After.total = Its.len /\ After.remain = Its.len - (Req.off + Req.dlength)
      /\ After.remain > 0
  BY <1>1, AfterIs, KnownFacts
<1>3. recvinfo = [t \in DOMAIN recvinfo |-> recvinfo[t]]
  BY DEF Due, Typed, Pendings
<1>4. recvinfo'[Req.itt] = After /\ Req.itt \in DOMAIN recvinfo'
  BY <1>1, <1>3
<1>5. SameBut(recvinfo, recvinfo', Req.itt)
  BY <1>1, <1>3 DEF SameBut
<1>6. PendingEntry(recvinfo')
  BY <1>2, <1>4 DEF PendingEntry
<1> QED BY <1>1, <1>5, <1>6, UnaskedBooks

(* An R2T for what remains.                                                *)
LEMMA AsksIs ==
  ASSUME Due, NEW dinfo, NEW n \in Nat \ {0}, n = Its.len - (Req.off + Req.dlength), dinfo.total = Its.len,
         dinfo.r2tsn \in Nat
  PROVE  AsksRest(R2T(Req.itt, dinfo, n))
<1> DEFINE r == R2T(Req.itt, dinfo, n)
           l == Min2(n, InitiatorMRDS)
           x == dinfo.total - n
           o == x % Word
<1>1. /\ Req.off \in Nat /\ Req.dlength \in Nat /\ Its.len \in Nat /\ Req.itt \in ITTS
      /\ Its.len \in 0 .. (Word - 1)
  BY DueFacts
<1>2. InitiatorMRDS \in Nat \ {0}
  BY Parameters
<1>3. l \in Nat \ {0} /\ l <= n
  BY <1>2 DEF Min2
<1>4. o = Req.off + Req.dlength /\ o \in Nat /\ n = Its.len - o
  <2>1. x = Req.off + Req.dlength /\ x \in Nat /\ x \in 0 .. (Word - 1) /\ n = Its.len - x /\ x \in Int
    <3> DEFINE l1 == Its.len
               a == Req.off
               d == Req.dlength
    <3>1. l1 \in Nat /\ l1 <= Word - 1 /\ a \in Nat /\ d \in Nat /\ Word \in Nat /\ n = l1 - (a + d)
          /\ x = l1 - n
      BY <1>1, Parameters
    <3> HIDE DEF l1, a, d, x
    <3>2. x = a + d /\ x \in Nat /\ x \in 0 .. (Word - 1) /\ n = l1 - x
      BY <3>1
    <3> QED BY <3>2 DEF l1, a, d
  <2> HIDE DEF x
  <2>2. o = x
    BY <2>1, Words
  <2> HIDE DEF o
  <2> QED BY <2>1, <2>2
<1> HIDE DEF l, o
<1>5. r = [op |-> "R2T", itt |-> Req.itt, offset |-> o, length |-> l, r2tsn |-> dinfo.r2tsn]
  BY DEF R2T, l, o, x
<1> HIDE DEF r
<1>6. /\ r \in ReplySet /\ r.op = "R2T" /\ r.itt = Req.itt /\ r.offset = o /\ r.length = l
  BY <1>1, <1>3, <1>4, <1>5 DEF ReplySet
<1>7. l > 0 /\ l <= Its.len - o
  BY <1>3, <1>4
<1>8. AsksRest(r)
  BY <1>4, <1>6, <1>7 DEF AsksRest
<1> QED BY <1>8 DEF r

LEMMA AskedAgainBooks ==
  ASSUME Due, AskedAgain
  PROVE  Books'
<1> DEFINE new == [After EXCEPT !.r2tsn = @ + 1]
<1>1. /\ KnownData /\ Req.final /\ Rest > 0 /\ Req.itt \in DOMAIN recvinfo
      /\ sendtask' = Append(sendtask, R2T(Req.itt, After, Rest))
      /\ recvinfo' = [recvinfo EXCEPT ![Req.itt] = new]
  BY DEF AskedAgain, KnownData
<1>2. /\ After \in Pending /\ After.lba = Its.lba /\ After.total = Its.len /\ After.remain = Rest
      /\ Rest = Its.len - (Req.off + Req.dlength) /\ Rest \in Nat
  BY <1>1, AfterIs, KnownFacts
<1>3. After.r2tsn \in Nat
  BY <1>2 DEF Pending
<1>4. /\ new.lba = Its.lba /\ new.total = Its.len /\ new.remain = Its.len - (Req.off + Req.dlength)
      /\ new.remain > 0
  BY <1>1, <1>2, <1>3 DEF Pending
<1> HIDE DEF new
<1>5. Rest \in Nat \ {0}
  BY <1>1, <1>2
<1>6. AsksRest(R2T(Req.itt, After, Rest))
  BY <1>2, <1>3, <1>5, AsksIs
<1>7. recvinfo = [t \in DOMAIN recvinfo |-> recvinfo[t]]
  BY DEF Due, Typed, Pendings
<1>8. recvinfo'[Req.itt] = new /\ Req.itt \in DOMAIN recvinfo'
  BY <1>1, <1>7
<1>9. SameBut(recvinfo, recvinfo', Req.itt)
  BY <1>1, <1>7 DEF SameBut
<1>10. PendingEntry(recvinfo')
  BY <1>4, <1>8 DEF PendingEntry
<1> QED BY <1>1, <1>6, <1>9, <1>10, AskedBooks

LEMMA BegunBooks ==
  ASSUME Due, Begun
  PROVE  Books'
<1> DEFINE dinfo == DataOutInfo(Req.lba, LBA2OFFSET(Req.len), RestOf)
           entry == [dinfo EXCEPT !.r2tsn = IF Asks(Req) THEN @ + 1 ELSE @]
<1>1. /\ Req.op = "WRITE" /\ ~(immediateEnabled /\ Left = 0)
      /\ sendtask' = IF Asks(Req) THEN Append(sendtask, R2T(Req.itt, dinfo, RestOf)) ELSE sendtask
      /\ recvinfo' = Put(recvinfo, Req.itt, entry)
  BY Zenon DEF Begun, AcceptedWrite, AskForRest
<1>2. /\ Turn(stream, Handled, Req, Req.w, Its, wire \o sendtask, recvinfo, initialR2T, immediateEnabled)
      /\ Req.itt = Its.itt /\ Req.len \in Nat /\ Req.dlength \in Nat /\ Its.len \in Nat /\ Req.lba \in Nat
      /\ Req.off = 0 /\ LBA2OFFSET(Req.len) = Its.len /\ Req.off + Req.dlength <= Its.len
      /\ Req.final \in BOOLEAN /\ Its.waits \in BOOLEAN
  BY <1>1, DueFacts
<1>3. /\ Req.lba = Its.lba /\ Its.itt \notin DOMAIN recvinfo
      /\ immediateEnabled \/ Req.dlength = 0
      /\ Req.final \/ (~initialR2T /\ Req.dlength < FirstBurstLength)
      /\ Its.waits = (~initialR2T /\ Req.final /\ Req.dlength < Min2(Its.len, FirstBurstLength))
  BY <1>1, <1>2 DEF Turn, GoodPdu
<1>4. RestOf = Its.len - (Req.off + Req.dlength) /\ RestOf \in Nat \ {0}
  <2>1. CASE immediateEnabled
    <3>1. Left = Its.len - Req.dlength /\ Left \in Nat /\ Left # 0
      BY <1>1, <2>1, LeftIs
    <3>2. RestOf = Left
      BY <2>1 DEF RestOf
    <3> QED BY <1>2, <3>1, <3>2
  <2>2. CASE ~immediateEnabled
    <3>1. RestOf = Its.len /\ Req.dlength = 0
      BY <1>2, <1>3, <2>2 DEF RestOf
    <3>2. Its.len # 0
      <4>1. Req.len \in Nat \ {0} /\ Unit \in Nat \ {0}
        BY <1>1, <1>2, Parameters DEF Turn, GoodPdu
      <4>2. Req.len * Unit # 0
        BY <4>1
      <4> QED BY <1>2, <4>2 DEF LBA2OFFSET
    <3> QED BY <1>2, <3>1, <3>2
  <2> QED BY <2>1, <2>2
<1>5. /\ dinfo.lba = Its.lba /\ dinfo.total = Its.len /\ dinfo.remain = RestOf /\ dinfo.r2tsn \in Nat
  BY <1>2, <1>3 DEF DataOutInfo
<1>6. entry.lba = Its.lba /\ entry.total = Its.len /\ entry.remain = RestOf
  BY <1>2, <1>3 DEF DataOutInfo
<1> HIDE DEF dinfo, entry
<1>7. recvinfo' = [t \in DOMAIN recvinfo \cup {Req.itt} |-> IF t = Req.itt THEN entry ELSE recvinfo[t]]
  BY <1>1, <1>2, <1>3 DEF Put
<1>8. SameBut(recvinfo, recvinfo', Req.itt)
  <2> SUFFICES ASSUME NEW u, u # Req.itt
               PROVE  (u \in DOMAIN recvinfo' <=> u \in DOMAIN recvinfo) /\ (u \in DOMAIN recvinfo => recvinfo'[u] = recvinfo[u])
    BY DEF SameBut
  <2>1. CASE u \in DOMAIN recvinfo
    BY <1>7, <2>1
  <2>2. CASE u \notin DOMAIN recvinfo
    BY <1>7, <2>2
  <2> QED BY <2>1, <2>2
<1>9. Req.itt \in DOMAIN recvinfo' /\ recvinfo'[Req.itt] = entry
  BY <1>7
<1>10. PendingEntry(recvinfo')
  BY <1>4, <1>6, <1>9 DEF PendingEntry
<1>11. FirstBurstLength \in Nat
  BY Parameters
<1>12. CASE Asks(Req)
  <2>1. sendtask' = Append(sendtask, R2T(Req.itt, dinfo, RestOf))
    BY <1>1, <1>12
  <2>2. Req.final
    BY <1>2, <1>3, <1>11, <1>12 DEF Asks
  <2>3. AsksRest(R2T(Req.itt, dinfo, RestOf))
    BY <1>4, <1>5, AsksIs
  <2> QED BY <1>8, <1>10, <2>1, <2>2, <2>3, AskedBooks
<1>13. CASE ~Asks(Req)
  <2>1. sendtask' = sendtask
    BY <1>1, <1>13
  <2>2. ~initialR2T /\ Req.dlength < FirstBurstLength
    BY <1>2, <1>11, <1>13 DEF Asks
  <2>3. Req.dlength < Its.len
    BY <1>2, <1>3, <1>4
  <2>4. Req.dlength < Min2(Its.len, FirstBurstLength)
    BY <1>2, <1>11, <2>2, <2>3 DEF Min2
  <2>5. Req.final => Its.waits
    BY <1>3, <2>2, <2>4
  <2> QED BY <1>8, <1>10, <2>1, <2>5, UnaskedBooks
<1> QED BY <1>12, <1>13

(* What ends the session: no PDU of a WRITE does, except a command of more *)
(* than MaxBurstLength or without immediate data that the handler can cut, *)
(* which it insists on.                                                    *)
Uncut == \/ LBA2OFFSET(Req.len) > MaxBurstLength
         \/ immediateEnabled /\ (Req.dlength = 0 \/ Req.dlength % Unit # 0)

LEMMA EndFacts ==
  ASSUME Due, session = "up"
  PROVE  /\ Refused => Req.op = "WRITE" /\ Uncut
         /\ ~EndedEarly /\ ~Overrun
<1>1. /\ Turn(stream, Handled, Req, Req.w, Its, wire \o sendtask, recvinfo, initialR2T, immediateEnabled)
      /\ Req.itt = Its.itt /\ Req.len \in Nat /\ Req.dlength \in Nat /\ Its.len \in Nat /\ Req.lba \in Nat
      /\ Req.op = "WRITE" => Req.off = 0
      /\ Req.off + Req.dlength <= Its.len /\ (~Req.final => Req.off + Req.dlength < Its.len)
      /\ Req.off \in Nat /\ Req \in Pdus
  BY DueFacts
<1>2. Req.op = "WRITE" => Req.len > 0 /\ Req.lba + Req.len <= TotalSize
  BY <1>1 DEF Turn, GoodPdu
<1>3. TotalSize \in Nat
  BY Parameters
<1>4. ASSUME Refused PROVE Req.op = "WRITE" /\ Uncut
  <2>1. CASE Req.op = "WRITE" /\ Invalid(Req)
    <3>1. ~(Req.lba >= TotalSize) /\ Req.len # 0 /\ ~(Req.lba + Req.len > TotalSize)
      BY <1>1, <1>2, <1>3, <2>1
    <3>2. ~IsCut(Req) => Req.dlength = 0 \/ Req.dlength % Unit # 0
      BY <1>1, CutIs
    <3> QED BY <2>1, <3>1, <3>2, Zenon DEF Invalid, Uncut
  <2>2. CASE Req.op = "DATA" /\ Req.itt \notin DOMAIN recvinfo
    BY <1>1, <2>2 DEF Turn
  <2> QED BY <1>4, <2>1, <2>2 DEF Refused
<1>5. ~EndedEarly
  <2> SUFFICES ASSUME EndedEarly PROVE FALSE
    OBVIOUS
  <2>1. Req.op = "WRITE" /\ Left = 0 /\ ~Req.final
    BY DEF EndedEarly, AcceptedWrite
  <2>2. Left = Its.len - Req.dlength
    BY <2>1, LeftIs
  <2> QED BY <1>1, <2>1, <2>2
<1>6. ~Overrun
  <2> SUFFICES ASSUME Overrun PROVE FALSE
    OBVIOUS
  <2>1. KnownData /\ Dinfo.remain < Req.dlength
    BY DEF Overrun
  <2>2. Dinfo.remain >= Req.dlength /\ Dinfo.remain \in Nat
    BY <2>1, KnownFacts DEF Pending
  <2> QED BY <1>1, <2>1, <2>2
<1> QED BY <1>4, <1>5, <1>6

(* A PDU that broke the rules ends it, unless its tag is spoiled.          *)
LEMMA StrayEnds ==
  ASSUME Typed, Books, bhss # << >>, Handled \in Nat, Head(bhss).pdu = Handled + 1, Handled + 1 \in DOMAIN stream,
         Req.w = 0, Req.itt \notin SpoiledIn(stream), Outcome
  PROVE  session' = "down" /\ bad > 0
<1>1. /\ stream \in Seq(Pdus) /\ writes \in Seq(WriteSet)
      /\ Tracks(stream, writes, bad, Handled, initialR2T, immediateEnabled)
      /\ Tasks(stream, writes, wire \o sendtask, recvinfo, Handled)
      /\ Handled \in Nat /\ Handled + 1 \in 1 .. Len(stream) /\ Req = stream[Handled + 1]
      /\ stream[Handled + 1].w = 0
  BY DEF Typed, Streams, Asking, Books, Req
<1>2. /\ EvilPdu(Req, bad, immediateEnabled)
      /\ Req.op = "DATA" /\ Req.itt \in DOMAIN recvinfo => Req.dlength > recvinfo[Req.itt].remain
  <2> DEFINE rs == wire \o sendtask
  <2> HIDE DEF rs
  <2>1. /\ EvilPdu(stream[Handled + 1], bad, immediateEnabled)
        /\ stream[Handled + 1].op = "DATA" /\ stream[Handled + 1].itt \in DOMAIN recvinfo
                  \ SpoiledIn(stream) => stream[Handled + 1].dlength > recvinfo[stream[Handled + 1].itt].remain
    BY <1>1, StrayFacts DEF rs
  <2> QED BY <1>1, <2>1
<1>3. Req \in Pdus /\ Req.len \in Nat /\ Req.dlength \in Nat
  <2>1. Req \in Pdus
    BY <1>1
  <2> QED BY <2>1, Parameters DEF Pdus
<1>4. ~KnownData \/ Dinfo.remain < Req.dlength
  BY <1>2 DEF KnownData, Dinfo
<1>5. KnownData => Dinfo.remain \in Nat
  <2> SUFFICES ASSUME KnownData PROVE Dinfo.remain \in Nat
    OBVIOUS
  <2>1. Dinfo \in Pending
    BY DEF KnownData, Typed, Pendings, Dinfo
  <2> QED BY <2>1 DEF Pending
<1>6. ~More /\ ~Finished /\ ~AskedAgain
  <2>1. ~(KnownData /\ Dinfo.remain >= Req.dlength)
    BY <1>3, <1>4, <1>5
  <2> QED BY <2>1 DEF More, Finished, AskedAgain
<1>7. AcceptedWrite => immediateEnabled /\ Left = 0 /\ ~Req.final
  <2> SUFFICES ASSUME AcceptedWrite PROVE immediateEnabled /\ Left = 0 /\ ~Req.final
    OBVIOUS
  <2>1. Req.op = "WRITE" /\ ~Invalid(Req)
    BY DEF AcceptedWrite
  <2>2. ~Overlong(Req)
    <3>1. Handled + 1 \in DOMAIN stream /\ stream[Handled + 1] = Req /\ Req.w = 0
      BY <1>1
    <3> QED BY <3>1, Zenon DEF Overlong, SpoiledIn
  <2>3. immediateEnabled /\ LBA2OFFSET(Req.len) = Req.dlength /\ ~Req.final
    BY <1>2, <2>1, <2>2 DEF EvilPdu, Invalid
  <2>4. 0 % Word = 0
    <3>1. 0 \in 0 .. (Word - 1) /\ 0 \in Int
      BY Parameters
    <3> QED BY <3>1, Words
  <2>5. Left = 0 % Word
    BY <1>3, <2>3 DEF Left
  <2> QED BY <2>3, <2>4, <2>5
<1>8. ~AllAtOnce /\ ~Begun
  BY <1>7 DEF AllAtOnce, Begun
<1>9. Refused \/ EndedEarly \/ Overrun
  BY <1>6, <1>8 DEF Outcome
<1> QED BY <1>2, <1>9 DEF Refused, EndedEarly, Overrun, EvilPdu

(* What is done for a spoiled tag keeps the books too.                     *)
LEMMA StrayBooks ==
  ASSUME Typed, Typed', Books, bhss # << >>, Handled \in Nat, Handled' = Handled + 1,
         Head(bhss).pdu = Handled + 1, Handled + 1 \in DOMAIN stream, UNCHANGED <<stream, ivars, modes>>,
         Req.w = 0, Req.itt \in SpoiledIn(stream), Outcome
  PROVE  bad > 0 /\ (session' = "up" => Books')
<1>1. /\ stream \in Seq(Pdus) /\ writes \in Seq(WriteSet) /\ sendtask \in Seq(ReplySet)
      /\ sendtask' \in Seq(ReplySet)
      /\ Tracks(stream, writes, bad, Handled, initialR2T, immediateEnabled)
      /\ Handled + 1 \in 1 .. Len(stream) /\ Req = stream[Handled + 1] /\ stream[Handled + 1].w = 0
      /\ recvinfo = [t \in DOMAIN recvinfo |-> recvinfo[t]]
  BY DEF Typed, Streams, Asking, Pendings, Books, Req
<1>2. bad > 0
  BY <1>1 DEF Tracks, SoundPdus, EvilPdu
<1>3. ASSUME session' = "up" PROVE Books'
  <2>1. AllAtOnce \/ Begun \/ More \/ Finished \/ AskedAgain
    BY <1>3 DEF Outcome, Refused, EndedEarly, Overrun
  <2>2. SameBut(recvinfo, recvinfo', Req.itt)
    <3>1. CASE AllAtOnce
      BY <3>1 DEF AllAtOnce, SameBut
    <3>2. CASE Begun
      <4>1. PICK entry : recvinfo' = Put(recvinfo, Req.itt, entry)
        BY <3>2, Zenon DEF Begun, AskForRest
      <4>2. CASE Req.itt \in DOMAIN recvinfo
        BY <4>1, <4>2 DEF Put, SameBut
      <4>3. CASE Req.itt \notin DOMAIN recvinfo
        <5>1. recvinfo' = [t \in DOMAIN recvinfo \cup {Req.itt} |-> IF t = Req.itt THEN entry ELSE recvinfo[t]]
          BY <4>1, <4>3 DEF Put
        <5> QED BY <5>1 DEF SameBut
      <4> QED BY <4>2, <4>3
    <3>3. ASSUME NEW x, recvinfo' = [recvinfo EXCEPT ![Req.itt] = x]
          PROVE  SameBut(recvinfo, recvinfo', Req.itt)
      BY <1>1, <3>3 DEF SameBut
    <3>4. CASE More
      BY <3>3, <3>4 DEF More
    <3>5. CASE AskedAgain
      BY <3>3, <3>5, Zenon DEF AskedAgain
    <3>6. CASE Finished
      BY <3>6 DEF Finished, SameBut
    <3> QED BY <2>1, <3>1, <3>2, <3>4, <3>5, <3>6
  <2>3. sendtask' = sendtask \/ \E r : r.itt = Req.itt /\ sendtask' = Append(sendtask, r)
    <3>1. Rsp(Req.itt).itt = Req.itt /\ \A d, n : R2T(Req.itt, d, n).itt = Req.itt
      BY DEF Rsp, R2T
    <3>2. CASE AllAtOnce
      BY <3>1, <3>2, Zenon DEF AllAtOnce
    <3>3. CASE Begun
      BY <3>1, <3>3, Zenon DEF Begun, AskForRest
    <3>4. CASE More
      BY <3>4 DEF More
    <3>5. CASE Finished
      BY <3>1, <3>5, Zenon DEF Finished
    <3>6. CASE AskedAgain
      BY <3>1, <3>6, Zenon DEF AskedAgain
    <3> QED BY <2>1, <3>2, <3>3, <3>4, <3>5, <3>6
  <2>4. ASSUME NEW r, sendtask' = Append(sendtask, r) PROVE r \in ReplySet
    <3> DEFINE n == Len(sendtask) + 1
    <3>1. n \in DOMAIN sendtask' /\ sendtask'[n] = r
      BY <1>1, <2>4
    <3> QED BY <1>1, <3>1
  <2>5. sendtask' = sendtask \/ \E r \in ReplySet : r.itt = Req.itt /\ sendtask' = Append(sendtask, r)
    BY <2>3, <2>4
  <2> DEFINE q == Req
  <2>6. q = stream[Handled + 1] /\ q.w = 0 /\ q.itt \in SpoiledIn(stream) /\ SameBut(recvinfo, recvinfo', q.itt)
        /\ (sendtask' = sendtask \/ \E r \in ReplySet : r.itt = q.itt /\ sendtask' = Append(sendtask, r))
    BY <1>1, <2>2, <2>5
  <2> HIDE DEF q
  <2> QED BY <2>6, SpoiledBooks
<1> QED BY <1>2, <1>3

(* What a handler gives the cache of a PDU that is of a WRITE: its data,   *)
(* for the blocks that the initiator means, if it is whole blocks.         *)
PartOfIt == [w |-> Req.w, itt |-> Req.itt, seg |-> Cut(Req, Its.lba + OFFSET2LBA(Req.off))]

LEMMA DuePushed ==
  ASSUME Due, Outcome, session = "up"
  PROVE  \/ pushed' = pushed /\ (session' = "down" \/ Req.dlength = 0 \/ Req.dlength % Unit # 0)
         \/ pushed' = Append(pushed, PartOfIt) /\ IsCut(Req)
<1>1. /\ Turn(stream, Handled, Req, Req.w, Its, wire \o sendtask, recvinfo, initialR2T, immediateEnabled)
      /\ Req.off \in Nat /\ Req.dlength \in Nat /\ Its.len \in Nat /\ Its.lba \in Nat /\ Req.lba \in Nat
      /\ Req.op = "WRITE" => Req.off = 0
      /\ Its.len \in 0 .. (Word - 1) /\ Req.off + Req.dlength <= Its.len
  BY DueFacts
<1>2. Req.op = "WRITE" => Req.lba = Its.lba /\ (immediateEnabled \/ Req.dlength = 0)
  BY <1>1 DEF Turn, GoodPdu
<1>3. ASSUME AcceptedWrite, immediateEnabled
      PROVE  WithPushed = Append(pushed, PartOfIt) /\ IsCut(Req)
  <2>1. Req.op = "WRITE" /\ IsCut(Req)
    BY <1>3 DEF AcceptedWrite, Invalid
  <2>2. OFFSET2LBA(Req.off) = 0
    <3>1. Unit \in Nat \ {0}
      BY Parameters
    <3>2. 0 \div Unit = 0
      BY <3>1
    <3> QED BY <1>1, <2>1, <3>2 DEF OFFSET2LBA
  <2>3. Its.lba + OFFSET2LBA(Req.off) = Req.lba
    BY <1>1, <1>2, <2>1, <2>2
  <2> QED BY <2>1, <2>3 DEF WithPushed, Pushed, PartOfIt
<1>4. ASSUME KnownData
      PROVE  \/ pushed' = pushed /\ ~IsCut(Req)
             \/ pushed' = Append(pushed, PartOfIt) /\ IsCut(Req)
  <2>1. Dinfo \in Pending /\ Dinfo.lba = Its.lba /\ Dinfo.total = Its.len /\ Dinfo.remain = Its.len - Req.off
    BY <1>4, KnownFacts
  <2>2. (Dinfo.total - Dinfo.remain) % Word = Req.off
    <3> DEFINE x == Req.off
               l == Its.len
    <3>1. Dinfo.total - Dinfo.remain = x /\ x \in 0 .. (Word - 1) /\ x \in Int
      <4>1. x \in Nat /\ l \in Nat /\ l <= Word - 1 /\ x + Req.dlength <= l /\ Req.dlength \in Nat /\ Word \in Nat
        BY <1>1, Parameters
      <4>2. Dinfo.total = l /\ Dinfo.remain = l - x
        BY <2>1
      <4> HIDE DEF x, l
      <4> QED BY <4>1, <4>2
    <3> HIDE DEF x
    <3>2. x % Word = x
      BY <3>1, Words
    <3> QED BY <3>1, <3>2 DEF x
  <2>3. DataLba = Its.lba + OFFSET2LBA(Req.off)
    BY <2>1, <2>2 DEF DataLba
  <2>4. pushed' = DataPushed
    BY <1>4 DEF KnownData
  <2> QED BY <2>3, <2>4 DEF DataPushed, Pushed, PartOfIt
<1>5. ~EndedEarly /\ ~Overrun
  BY EndFacts
<1>10. ~IsCut(Req) => Req.dlength = 0 \/ Req.dlength % Unit # 0
  BY <1>1, CutIs
<1>6. CASE Refused
  BY <1>6 DEF Refused
<1>7. CASE AllAtOnce
  BY <1>3, <1>7 DEF AllAtOnce
<1>8. CASE Begun
  BY <1>2, <1>3, <1>8 DEF Begun, AcceptedWrite
<1>9. CASE More \/ Finished \/ AskedAgain
  BY <1>4, <1>9, <1>10 DEF More, Finished, AskedAgain
<1> QED BY <1>5, <1>6, <1>7, <1>8, <1>9 DEF Outcome

(* It is within its WRITE.                                                 *)
LEMMA CutsWithin ==
  ASSUME NEW a \in Nat, NEW b \in Nat, NEW c \in Nat, a + b <= c
  PROVE  OFFSET2LBA(a) + OFFSET2LBA(b) <= OFFSET2LBA(c)
<1> DEFINE x == a \div Unit
           y == b \div Unit
           z == c \div Unit
<1>1. Unit \in Nat \ {0}
  BY Parameters
<1>2. x \in Nat /\ x * Unit <= a
  BY <1>1
<1>3. y \in Nat /\ y * Unit <= b
  BY <1>1
<1>4. z \in Nat /\ c < (z + 1) * Unit
  BY <1>1
<1> HIDE DEF x, y, z
<1>5. (x + y) * Unit = x * Unit + y * Unit /\ x * Unit \in Nat /\ y * Unit \in Nat
  BY <1>1, <1>2, <1>3
<1> DEFINE m == x + y
           n == z + 1
<1>6. m \in Nat /\ n \in Nat /\ m * Unit < n * Unit
  <2>1. m \in Nat /\ n \in Nat /\ n * Unit \in Nat
    BY <1>1, <1>2, <1>3, <1>4
  <2> DEFINE p == x * Unit
             q == y * Unit
             r == n * Unit
  <2>2. p \in Nat /\ q \in Nat /\ r \in Nat /\ p <= a /\ q <= b /\ c < r /\ m * Unit = p + q
    BY <1>2, <1>3, <1>4, <1>5, <2>1
  <2> HIDE DEF p, q, r, m, n
  <2>3. m * Unit < r
    BY <2>2
  <2> QED BY <2>1, <2>3 DEF r
<1> HIDE DEF m, n
<1>7. ~(n <= m)
  <2> SUFFICES ASSUME n <= m PROVE FALSE
    OBVIOUS
  <2>1. n * Unit <= m * Unit
    BY <1>1, <1>6
  <2> QED BY <1>1, <1>6, <2>1
<1>8. x + y <= z
  BY <1>2, <1>3, <1>4, <1>6, <1>7 DEF m, n
<1> QED BY <1>8 DEF OFFSET2LBA, x, y, z

LEMMA PartContained ==
  ASSUME Due
  PROVE  Contained(PartOfIt)
<1>1. /\ Req.off \in Nat /\ Req.dlength \in Nat /\ Its.len \in Nat /\ Its.lba \in Nat
      /\ Req.off + Req.dlength <= Its.len
  BY DueFacts
<1> DEFINE a == OFFSET2LBA(Req.off)
           b == OFFSET2LBA(Req.dlength)
           c == OFFSET2LBA(Its.len)
<1>2. a \in Nat /\ b \in Nat /\ c \in Nat /\ a + b <= c
  <2>1. a \in Nat /\ b \in Nat /\ c \in Nat
    BY <1>1, Cells1
  <2> QED BY <1>1, <2>1, CutsWithin
<1>3. PartOfIt.seg.lba = Its.lba + a /\ PartOfIt.seg.len = b /\ PartOfIt.w = Req.w /\ Req.w # 0
  BY DEF PartOfIt, Cut, FrontDataSegment, Due
<1> HIDE DEF a, b
<1>4. Its.lba <= Its.lba + a /\ (Its.lba + a) + b <= Its.lba + c
  <2> HIDE DEF c
  <2> QED BY <1>1, <1>2
<1> QED BY <1>3, <1>4 DEF Contained, Its, c

(* The segments, as they are given to the cache.                           *)
Lists ==
  /\ \E S : pushed \in Seq(S)
  /\ \A i \in DOMAIN pushed : /\ pushed[i].seg.len \in Nat
                              /\ pushed[i].w # 0 => pushed[i].w \in 1 .. Len(writes)

LEMMA PushedIs ==
  ASSUME Outcome, Req \in Pdus
  PROVE  \/ pushed' = pushed
         \/ \E e : /\ e.w = Req.w /\ e.itt = Req.itt /\ e.seg.len \in Nat
                  /\ pushed' = Append(pushed, e)
<1> DEFINE entry(x) == [w |-> Req.w, itt |-> Req.itt, seg |-> Cut(Req, x)]
<1>1. \A x : entry(x).w = Req.w /\ entry(x).itt = Req.itt /\ entry(x).seg.len \in Nat
  <2>1. Req.dlength \in Nat
    BY Parameters DEF Pdus
  <2>2. OFFSET2LBA(Req.dlength) \in Nat
    BY <2>1, Cells1
  <2> QED BY <2>2 DEF Cut, FrontDataSegment
<1>2. pushed' = pushed \/ pushed' = WithPushed \/ pushed' = DataPushed
  BY DEF Outcome, Refused, EndedEarly, AllAtOnce, Begun, Overrun, More, Finished, AskedAgain, KnownData
<1>3. WithPushed = Append(pushed, entry(Req.lba))
  BY DEF WithPushed, Pushed
<1>4. DataPushed = pushed \/ DataPushed = Append(pushed, entry(DataLba))
  BY DEF DataPushed, Pushed
<1> HIDE DEF entry
<1> QED BY <1>1, <1>2, <1>3, <1>4

LEMMA AppendPushed ==
  ASSUME Lists, NEW e, pushed' = Append(pushed, e), e.seg.len \in Nat,
         e.w # 0 => e.w \in 1 .. Len(writes), UNCHANGED <<stream, writes>>
  PROVE  Lists' /\ (WithinTask /\ session = "up" /\ Contained(e) => WithinTask')
<1>1. PICK S : pushed \in Seq(S)
  BY DEF Lists
<1> DEFINE T == S \cup {e}
<1>2. pushed \in Seq(T) /\ e \in T
  BY <1>1
<1> HIDE DEF T
<1>3. /\ pushed' \in Seq(T) /\ Len(pushed') = Len(pushed) + 1 /\ pushed'[Len(pushed) + 1] = e
      /\ \A i \in DOMAIN pushed : pushed'[i] = pushed[i]
      /\ \A p \in DOMAIN pushed' : p \in DOMAIN pushed \/ p = Len(pushed) + 1
  BY <1>2
<1>4. Lists'
  BY <1>3 DEF Lists
<1>5. ASSUME WithinTask, session = "up", Contained(e) PROVE WithinTask'
  <2>1. \A p \in DOMAIN pushed' : Contained(pushed'[p])
    BY <1>3, <1>5 DEF WithinTask
  <2>2. \A p \in DOMAIN pushed' : Contained(pushed[p])'
    BY <2>1 DEF Contained, Spoiled
  <2> QED BY <2>2 DEF WithinTask
<1> QED BY <1>4, <1>5

LEMMA SamePushed ==
  ASSUME Lists, WithinTask, session = "up", UNCHANGED <<pushed, stream, writes>>
  PROVE  Lists' /\ WithinTask'
<1>1. Lists'
  BY DEF Lists
<1>2. \A p \in DOMAIN pushed' : Contained(pushed[p])'
  BY DEF WithinTask, Contained, Spoiled
<1> QED BY <1>1, <1>2 DEF WithinTask

(* Working on a token keeps the books or ends the session for a cause.     *)
LEMMA WorkBooks ==
  ASSUME Typed, Typed', Books, Lists, WithinTask, session = "up", Handled \in Nat, Handled' = Handled + 1,
         bhss # << >>, Head(bhss).pdu = Handled + 1, Handled + 1 \in DOMAIN stream, Work
  PROVE  /\ session' = "up" => Books'
         /\ DownForCause' /\ WithinTask' /\ Lists'
<1>1. /\ UNCHANGED <<stream, ivars, modes>> /\ Outcome /\ session = "up"
  BY WorkCases
<1>2. /\ UNCHANGED <<stream, writes, bad, immediateEnabled>> /\ session' \in {"up", "down"}
      /\ Req \in Pdus /\ Req = stream[Handled + 1]
  BY <1>1, ReqType DEF ivars, modes, Typed, Modes, Req
<1>5. Req.w # 0 => Req.w \in 1 .. Len(writes)
  BY <1>2 DEF Books, Tracks, SoundPdus, Typed, Streams
<1>6. Lists'
  <2>1. CASE pushed' = pushed
    BY <1>2, <2>1, SamePushed
  <2>2. CASE pushed' # pushed
    <3>1. PICK x : x.w = Req.w /\ x.itt = Req.itt /\ x.seg.len \in Nat /\ pushed' = Append(pushed, x)
      BY <1>1, <1>2, <2>2, PushedIs
    <3> QED BY <1>2, <1>5, <3>1, AppendPushed
  <2> QED BY <2>1, <2>2
<1>3. CASE Req.w = 0
  <2>1. CASE Req.itt \notin SpoiledIn(stream)
    <3>1. session' = "down" /\ bad > 0
      BY <1>1, <1>3, <2>1, StrayEnds
    <3> QED BY <1>2, <1>6, <3>1 DEF DownForCause, WithinTask
  <2>2. CASE Req.itt \in SpoiledIn(stream)
    <3>1. bad > 0 /\ (session' = "up" => Books')
      BY <1>1, <1>3, <2>2, StrayBooks
    <3>2. DownForCause'
      BY <1>2, <3>1 DEF DownForCause
    <3>3. WithinTask'
      <4>1. CASE pushed' = pushed
        BY <1>2, <4>1, SamePushed
      <4>2. CASE pushed' # pushed
        <5>1. PICK x : x.w = Req.w /\ x.itt = Req.itt /\ x.seg.len \in Nat /\ pushed' = Append(pushed, x)
          BY <1>1, <1>2, <4>2, PushedIs
        <5>2. Contained(x)
          BY <1>3, <2>2, <5>1 DEF Contained, Spoiled, SpoiledIn
        <5> QED BY <1>2, <1>5, <5>1, <5>2, AppendPushed
      <4> QED BY <4>1, <4>2
    <3> QED BY <1>6, <3>1, <3>2, <3>3
  <2> QED BY <2>1, <2>2
<1>4. CASE Req.w # 0
  <2>1. Due
    BY <1>1, <1>4 DEF Due
  <2>2. Refused => Req.op = "WRITE" /\ Uncut
    BY <2>1, EndFacts
  <2>3. Refused \/ AllAtOnce \/ Begun \/ More \/ Finished \/ AskedAgain
    BY <1>1, <2>1, EndFacts DEF Outcome
  <2>4. Refused => session' = "down"
    BY DEF Refused
  <2>5. session' = "up" => Books'
    BY <2>1, <2>3, <2>4, AllAtOnceBooks, BegunBooks, MoreBooks, FinishedBooks, AskedAgainBooks
  <2>6. DownForCause'
    <3> SUFFICES ASSUME session' = "down"
                 PROVE  \/ bad' > 0
                        \/ \E k \in DOMAIN stream' :
                             /\ stream'[k].op = "WRITE"
                             /\ \/ LBA2OFFSET(stream'[k].len) > MaxBurstLength
                                \/ immediateEnabled' /\ (stream'[k].dlength = 0 \/ stream'[k].dlength % Unit # 0)
      BY Zenon DEF DownForCause
    <3>1. Refused
      BY <1>1, <2>3 DEF AllAtOnce, Begun, More, Finished, AskedAgain
    <3> DEFINE k == Handled + 1
    <3>2. k \in DOMAIN stream /\ Req = stream[k] /\ Req.op = "WRITE" /\ Uncut
      BY <1>2, <2>2, <3>1
    <3> HIDE DEF k
    <3>3. /\ stream[k].op = "WRITE"
          /\ \/ LBA2OFFSET(stream[k].len) > MaxBurstLength
             \/ immediateEnabled /\ (stream[k].dlength = 0 \/ stream[k].dlength % Unit # 0)
      BY <3>2 DEF Uncut
    <3> QED BY <1>2, <3>2, <3>3, Zenon
  <2>7. WithinTask'
    <3>1. CASE pushed' = pushed
      BY <1>2, <3>1, SamePushed
    <3>2. CASE pushed' = Append(pushed, PartOfIt)
      <4>1. Contained(PartOfIt)
        BY <2>1, PartContained
      <4>2. PartOfIt.w = Req.w /\ PartOfIt.seg.len \in Nat
        <5>1. Req.dlength \in Nat
          BY <2>1, DueFacts
        <5>2. OFFSET2LBA(Req.dlength) \in Nat
          BY <5>1, Cells1
        <5> QED BY <5>2 DEF PartOfIt, Cut, FrontDataSegment
      <4> DEFINE x == PartOfIt
      <4>3. Contained(x) /\ x.w = Req.w /\ x.seg.len \in Nat /\ pushed' = Append(pushed, x)
        BY <3>2, <4>1, <4>2
      <4> HIDE DEF x
      <4> QED BY <1>2, <1>5, <4>3, AppendPushed
    <3> QED BY <1>1, <2>1, <3>1, <3>2, DuePushed
  <2> QED BY <1>6, <2>5, <2>6, <2>7
<1> QED BY <1>3, <1>4

-----------------------------------------------------------------------------
(* The books give what the run checks.                                     *)
LEMMA BooksR2Ts ==
  ASSUME Typed, Books
  PROVE  R2TsExact
<1> DEFINE rs == wire \o sendtask
<1>1. /\ wire \in Seq(ReplySet) /\ sendtask \in Seq(ReplySet) /\ writes \in Seq(WriteSet)
      /\ DOMAIN writes = 1 .. Len(writes)
  BY DEF Typed, Asking, Pendings
<1>2. rs \in Seq(ReplySet) /\ Replying(stream, writes, rs, recvinfo, Handled)
  BY <1>1 DEF Books, Tasks
<1> SUFFICES ASSUME NEW i \in DOMAIN rs, rs[i].op = "R2T", rs[i].itt \notin SpoiledIn(stream)
             PROVE  \E w \in DOMAIN writes :
                      /\ writes[w].itt = rs[i].itt /\ ~writes[w].done /\ writes[w].grant = 0
                      /\ rs[i].offset = writes[w].sent /\ rs[i].offset + rs[i].length <= writes[w].len
                      /\ ~\E j \in DOMAIN rs : j # i /\ rs[j].itt = rs[i].itt
  BY DEF R2TsExact, Spoiled, SpoiledIn
<1> HIDE DEF rs
<1>3. PICK w \in 1 .. Len(writes) : ReplyTo(stream, writes, Handled, rs[i], w)
  BY <1>2 DEF Replying
<1>4. ~\E j \in DOMAIN rs : j # i /\ rs[j].itt = rs[i].itt
  BY <1>2 DEF Replying
<1>5. rs[i] \in ReplySet /\ writes[w] \in WriteSet
  BY <1>1, <1>2
<1>6. rs[i].offset \in Nat /\ rs[i].length \in Nat /\ writes[w].len \in Nat
  BY <1>5 DEF ReplySet, WriteSet
<1>7. rs[i].length <= writes[w].len - rs[i].offset
  BY <1>3 DEF ReplyTo
<1>8. rs[i].offset + rs[i].length <= writes[w].len
  BY <1>6, <1>7
<1> QED BY <1>1, <1>3, <1>4, <1>8 DEF ReplyTo

LEMMA BooksNoneForgotten ==
  ASSUME Typed, Receiving, Following, Paused, Books
  PROVE  NoneForgotten
<1> SUFFICES ASSUME Quiet, NEW w \in DOMAIN writes, ~writes[w].done PROVE writes[w].waits
  BY DEF NoneForgotten
<1>1. Idle /\ taken = Sent /\ sendtask = << >> /\ wire = << >> /\ writes[w].grant = 0
  BY DEF Quiet
<1>2. Handled = Len(stream) /\ stream \in Seq(Pdus) /\ writes \in Seq(WriteSet)
  BY <1>1, NothingLeft DEF Typed, Streams, Asking
<1>3. w \in 1 .. Len(writes)
  BY <1>2
<1>4. Settled(stream, w, Handled)
  <2>1. (Len(stream) + 1) .. Len(stream) = {}
    BY <1>2
  <2> QED BY <1>2, <2>1 DEF Settled
<1>5. wire \o sendtask = << >>
  BY <1>1
<1>6. ~RepliedTo(wire \o sendtask, writes[w].itt)
  BY <1>5 DEF RepliedTo
<1>7. Waiting(stream, writes, wire \o sendtask, Handled)
  BY DEF Books, Tasks
<1> QED BY <1>1, <1>3, <1>4, <1>6, <1>7 DEF Waiting

(* The initiator only adds PDUs and WRITEs, and a WRITE stays as it is.    *)
Longer(ws, vs) ==
  Len(ws) <= Len(vs) /\ \A w \in 1 .. Len(ws) : vs[w].lba = ws[w].lba /\ vs[w].len = ws[w].len

LEMMA InitiatorGrows ==
  ASSUME Typed, Initiator \/ Serve
  PROVE  /\ stream' = stream \/ \E q \in Pdus : stream' = Append(stream, q)
         /\ Longer(writes, writes')
<1>1. stream \in Seq(Pdus) /\ writes \in Seq(WriteSet) /\ Len(writes) \in Nat
  BY DEF Typed, Streams, Asking
<1>2. stream' \in Seq(Pdus)
  BY InitiatorKeeps DEF Typed, Streams
<1>3. ASSUME NEW pdu, Send(pdu) PROVE \E q \in Pdus : stream' = Append(stream, q)
  <2> DEFINE q == [pdu EXCEPT !.at = Sent]
  <2>1. stream' = Append(stream, q)
    BY <1>3 DEF Send
  <2> HIDE DEF q
  <2>2. q \in Pdus
    <3>1. Len(stream) + 1 \in 1 .. Len(stream') /\ stream'[Len(stream) + 1] = q
      BY <1>1, <2>1
    <3> QED BY <1>2, <3>1
  <2> QED BY <2>1, <2>2
<1>4. ASSUME writes' = writes PROVE Longer(writes, writes')
  BY <1>1, <1>4 DEF Longer
<1>5. ASSUME NEW pdu, Bad(pdu)
      PROVE  (\E q \in Pdus : stream' = Append(stream, q)) /\ Longer(writes, writes')
  BY <1>3, <1>4, <1>5 DEF Bad
<1>6. ASSUME NEW itt, NEW lba, NEW len, NEW im, NEW final, SendWrite(itt, lba, len, im, final)
      PROVE  (\E q \in Pdus : stream' = Append(stream, q)) /\ Longer(writes, writes')
  <2>1. \E q \in Pdus : stream' = Append(stream, q)
    BY <1>3, <1>6 DEF SendWrite
  <2>2. \E v : writes' = Append(writes, v)
    BY <1>6 DEF SendWrite
  <2>3. PICK v : writes' = Append(writes, v)
    BY <2>2
  <2>4. Len(writes') = Len(writes) + 1 /\ \A w \in 1 .. Len(writes) : writes'[w] = writes[w]
    BY <1>1, <2>3, AppendFacts
  <2> QED BY <1>1, <2>1, <2>4 DEF Longer
<1>7. ASSUME NEW w, NEW d, SendData(w, d)
      PROVE  (\E q \in Pdus : stream' = Append(stream, q)) /\ Longer(writes, writes')
  <2>1. \E q \in Pdus : stream' = Append(stream, q)
    BY <1>3, <1>7 DEF SendData
  <2>2. writes' = [writes EXCEPT ![w].sent = @ + d, ![w].grant = @ - d]
    BY <1>7 DEF SendData
  <2>3. Len(writes') = Len(writes) /\ \A v \in 1 .. Len(writes) : writes'[v].lba = writes[v].lba /\ writes'[v].len = writes[v].len
    BY <1>1, <2>2 DEF WriteSet
  <2> QED BY <1>1, <2>1, <2>3 DEF Longer
<1>8. ASSUME TakeReply PROVE stream' = stream /\ Longer(writes, writes')
  <2>1. stream' = stream
    BY <1>8 DEF TakeReply, tvars
  <2>2. \/ writes' = writes
        \/ \E w : \/ writes' = [writes EXCEPT ![w].sent = Head(wire).offset, ![w].grant = Head(wire).length]
                 \/ writes' = [writes EXCEPT ![w].done = TRUE]
    BY <1>8, Zenon DEF TakeReply
  <2>3. ASSUME NEW w, writes' = [writes EXCEPT ![w].done = TRUE] PROVE Longer(writes, writes')
    <3>1. /\ Len(writes') = Len(writes)
          /\ \A v \in 1 .. Len(writes) : writes'[v].lba = writes[v].lba /\ writes'[v].len = writes[v].len
      BY <1>1, <2>3 DEF WriteSet
    <3> QED BY <1>1, <3>1 DEF Longer
  <2>4. ASSUME NEW w, writes' = [writes EXCEPT ![w].sent = Head(wire).offset, ![w].grant = Head(wire).length]
        PROVE  Longer(writes, writes')
    <3> DEFINE a == Head(wire).offset
               b == Head(wire).length
    <3>1. writes' = [writes EXCEPT ![w].sent = a, ![w].grant = b]
      BY <2>4
    <3> HIDE DEF a, b
    <3>2. /\ Len(writes') = Len(writes)
          /\ \A v \in 1 .. Len(writes) : writes'[v].lba = writes[v].lba /\ writes'[v].len = writes[v].len
      BY <1>1, <3>1 DEF WriteSet
    <3> QED BY <1>1, <3>2 DEF Longer
  <2> QED BY <1>4, <2>1, <2>2, <2>3, <2>4
<1>9. CASE Initiator
  BY <1>5, <1>6, <1>9 DEF Initiator, SendBadWrite, SendEndless, SendOverlong, SendBadData
<1>10. CASE Serve
  BY <1>7, <1>8, <1>10 DEF Serve
<1> QED BY <1>9, <1>10
(* The inductive invariant.  When the session is down nothing moves, and   *)
(* the books are closed.                                                   *)
WInv ==
  /\ RInv /\ Following /\ Paused
  /\ session = "up" => Books
  /\ R2TsExact /\ DownForCause /\ WithinTask /\ Lists

LEMMA WInvInit == Init /\ TwoIovecs => WInv
<1> SUFFICES ASSUME Init, TwoIovecs PROVE WInv
  OBVIOUS
<1>1. /\ stream = << >> /\ bhss = << >> /\ status = "TOKEN_HEAD" /\ taken = 0 /\ offset = 0
      /\ pc = "recv" /\ session = "up"
      /\ recvinfo = << >> /\ sendtask = << >> /\ wire = << >> /\ writes = << >> /\ pushed = << >>
  BY DEF Init, TokenizerInit
<1>2. RInv
  BY TypedInit, ReceivingInit DEF RInv
<1>3. stream \in Seq(Pdus) /\ Len(stream) = 0 /\ Sent = 0 /\ Pos = 0
  BY <1>1 DEF Sent, Pos
<1>4. Laid(stream) /\ Ends(stream, 0) = Pos
  BY <1>3 DEF Laid, Ends
<1>5. Parsed = 0
  BY <1>3, <1>4, ParsedIs
<1>6. Handled = 0
  <2>1. Len(bhss) = 0
    BY <1>1
  <2> QED BY <1>5, <2>1 DEF Handled
<1>7. Following
  BY <1>1, <1>3, <1>4, <1>6 DEF Following
<1>8. Paused
  <2>1. HEADER \in Nat \ {0}
    BY Sizes
  <2> QED BY <1>1, <2>1 DEF Paused
<1>9. Books
  <2>1. /\ Len(writes) = 0 /\ DOMAIN recvinfo = {} /\ wire \o sendtask = << >> /\ DOMAIN (wire \o sendtask) = {}
        /\ 1 .. Len(writes) = {} /\ 1 .. Len(stream) = {} /\ (Handled + 1) .. Len(stream) = {}
    BY <1>1, <1>3, <1>6
  <2>2. Tracks(stream, writes, bad, Handled, initialR2T, immediateEnabled)
    BY <2>1 DEF Tracks, SoundPdus, Totals, Finals, Strays, Distinct, Clean, Granted, Closed
  <2>3. Tasks(stream, writes, wire \o sendtask, recvinfo, Handled)
    BY <2>1 DEF Tasks, Entries, Attended, Replying, Waiting
  <2> QED BY <2>2, <2>3 DEF Books
<1>10. R2TsExact
  BY <1>2, <1>9, BooksR2Ts DEF RInv
<1>11. DownForCause /\ WithinTask
  BY <1>1 DEF DownForCause, WithinTask
<1>12. Lists
  <2>1. pushed \in Seq({}) /\ DOMAIN pushed = {}
    BY <1>1
  <2> QED BY <2>1 DEF Lists
<1> QED BY <1>2, <1>7, <1>8, <1>9, <1>10, <1>11, <1>12 DEF WInv

LEMMA WInvKeeps ==
  ASSUME TwoIovecs, WInv, [Next]_vars
  PROVE  WInv'
<1>1. /\ RInv /\ RInv' /\ Typed /\ Typed' /\ Receiving /\ Following /\ Paused /\ taken \in Nat
      /\ session = "up" => Books
      /\ R2TsExact /\ DownForCause /\ WithinTask /\ Lists
  <2>1. RInv /\ RInv'
    BY RInvKeeps DEF WInv
  <2>2. taken \in Nat
    BY <2>1, GeometryFacts DEF RInv, Receiving
  <2> QED BY <2>1, <2>2 DEF WInv, RInv
<1>2. SUFFICES /\ Following' /\ Paused' /\ (session' = "up" => Books')
               /\ R2TsExact' /\ DownForCause' /\ WithinTask' /\ Lists'
  BY <1>1 DEF WInv
<1>3. CASE Initiator \/ Serve
  <2>1. session = "up"
    BY <1>3 DEF Initiator, Serve, SendWrite, SendBadWrite, SendEndless, SendOverlong, SendBadData, Bad, SendData, TakeReply, Idle
  <2>2. Books' /\ Following' /\ Paused'
    BY <1>1, <1>3, <2>1, InitiatorBooks
  <2>3. UNCHANGED <<pushed, session>>
    BY <1>1, <1>3, InitiatorKeeps DEF rvars
  <2>4. R2TsExact'
    BY <1>1, <2>2, BooksR2Ts, PTL
  <2>5. /\ stream' = stream \/ \E q \in Pdus : stream' = Append(stream, q)
        /\ Longer(writes, writes') /\ stream \in Seq(Pdus) /\ Len(writes) \in Nat /\ Len(writes') \in Nat
    BY <1>1, <1>3, InitiatorGrows DEF Typed, Streams, Asking
  <2>6. Spoiled \subseteq Spoiled'
    <3>1. CASE stream' = stream
      BY <3>1 DEF Spoiled
    <3>2. CASE stream' # stream
      <4>1. PICK q \in Pdus : stream' = Append(stream, q)
        BY <2>5, <3>2
      <4>2. SpoiledIn(stream) \subseteq SpoiledIn(stream')
        BY <2>5, <4>1, SpoiledAppend
      <4> QED BY <4>2 DEF Spoiled, SpoiledIn
    <3> QED BY <3>1, <3>2
  <2>7. WithinTask'
    <3>1. ASSUME NEW p \in DOMAIN pushed PROVE Contained(pushed[p])'
      <4>1. Contained(pushed[p])
        BY <1>1, <2>1 DEF WithinTask
      <4>2. CASE pushed[p].w = 0
        BY <2>3, <2>6, <4>1, <4>2 DEF Contained
      <4>3. CASE pushed[p].w # 0
        <5>1. pushed[p].w \in 1 .. Len(writes)
          BY <1>1, <4>3 DEF Lists
        <5>2. writes'[pushed[p].w].lba = writes[pushed[p].w].lba /\ writes'[pushed[p].w].len = writes[pushed[p].w].len
          BY <2>5, <5>1 DEF Longer
        <5> QED BY <2>3, <4>1, <4>3, <5>2 DEF Contained
      <4> QED BY <4>2, <4>3
    <3> QED BY <2>3, <3>1 DEF WithinTask
  <2>8. Lists'
    <3>1. \A w \in 1 .. Len(writes) : w \in 1 .. Len(writes')
      BY <2>5 DEF Longer
    <3> QED BY <1>1, <2>3, <3>1 DEF Lists
  <2> QED BY <1>1, <2>1, <2>2, <2>3, <2>4, <2>7, <2>8 DEF DownForCause
<1>4. CASE Target
  <2>1. /\ Following' /\ Paused'
        /\ ~(Work /\ bhss # << >>) => Handled' = Handled
        /\ (Work /\ bhss # << >>) => /\ Handled' = Handled + 1 /\ Head(bhss).pdu = Handled + 1
                                     /\ Handled + 1 \in DOMAIN stream
    BY <1>1, <1>4, TargetFollows
  <2>2. Handled \in Nat
    BY <1>1 DEF Following
  <2>3. session = "up"
    BY <1>4 DEF Target, Receive, Parse, Work, Invoke, Idle
  <2>4. Books' => R2TsExact'
    BY <1>1, BooksR2Ts, PTL
  <2>5. CASE Work /\ bhss # << >>
    <3>1. /\ session' = "up" => Books'
          /\ DownForCause' /\ WithinTask' /\ Lists'
      BY <1>1, <2>1, <2>2, <2>3, <2>5, WorkBooks
    <3>2. CASE session' = "up"
      BY <2>1, <2>4, <3>1, <3>2
    <3>3. CASE session' # "up"
      <4>1. Outcome /\ UNCHANGED <<writes, wire>>
        BY <1>1, <2>5, WorkCases DEF ivars
      <4>2. UNCHANGED sendtask
        <5>1. session' # session
          BY <2>3, <3>3
        <5> QED BY <4>1, <5>1 DEF Outcome, Refused, EndedEarly, AllAtOnce, Begun, Overrun, More, Finished, AskedAgain
      <4>3. R2TsExact'
        <5>1. UNCHANGED stream
          BY <1>1, <2>5, WorkCases
        <5>2. Spoiled' = Spoiled
          BY <5>1 DEF Spoiled
        <5> QED BY <1>1, <4>1, <4>2, <5>2 DEF R2TsExact
      <4> QED BY <2>1, <3>1, <3>3, <4>3
    <3> QED BY <3>2, <3>3
  <2>6. CASE ~(Work /\ bhss # << >>)
    <3>1. /\ UNCHANGED <<stream, session, recvinfo, pushed, writes, bad, initialR2T, immediateEnabled>>
          /\ wire' \o sendtask' = wire \o sendtask
      <4>1. CASE Receive
        BY <4>1 DEF Receive, Readv, ivars, modes
      <4>2. CASE Parse
        BY <4>2 DEF Parse, PartialHead, ParsedHeader, ivars, modes
      <4>3. CASE Work
        BY <1>1, <2>6, <4>3, WorkCases DEF ivars, modes
      <4>4. CASE Invoke
        <5>1. /\ wire' = wire \o sendtask /\ sendtask' = << >>
              /\ UNCHANGED <<tvars, pc, session, recvinfo, pushed, writes, bad, modes>>
          BY <4>4 DEF Invoke
        <5>2. wire \in Seq(ReplySet) /\ sendtask \in Seq(ReplySet)
          BY <1>1 DEF Typed, Asking, Pendings
        <5>3. (wire \o sendtask) \o << >> = wire \o sendtask
          <6> DEFINE rs == wire \o sendtask
          <6>1. rs \in Seq(ReplySet)
            BY <5>2
          <6> HIDE DEF rs
          <6>2. rs \o << >> = rs
            BY <6>1
          <6> QED BY <6>2 DEF rs
        <5> QED BY <5>1, <5>3 DEF tvars, modes
      <4> QED BY <1>4, <4>1, <4>2, <4>3, <4>4 DEF Target
    <3>2. Handled' = Handled /\ Books
      BY <1>1, <2>1, <2>3, <2>6
    <3>3. Books'
      BY <3>1, <3>2 DEF Books
    <3>4. WithinTask' /\ Lists'
      BY <1>1, <2>3, <3>1, SamePushed
    <3> QED BY <1>1, <2>1, <2>4, <3>1, <3>3, <3>4 DEF DownForCause
  <2> QED BY <2>5, <2>6
<1>5. CASE UNCHANGED vars
  <2>1. UNCHANGED <<stream, taken, offset, bhss, status, pc, session, recvinfo, sendtask, pushed, wire, writes, bad,
                    initialR2T, immediateEnabled>>
    BY <1>5 DEF vars, tvars, rvars, ivars, modes
  <2>2. Following' /\ Paused' /\ Handled' = Handled
    BY <1>1, <2>1 DEF Following, Paused, Handled, Parsed, Pos, Sent
  <2>3. session' = "up" => Books'
    BY <1>1, <2>1, <2>2 DEF Books
  <2>4. R2TsExact'
    <3>1. Spoiled' = Spoiled
      BY <2>1 DEF Spoiled
    <3> QED BY <1>1, <2>1, <3>1 DEF R2TsExact
  <2>5. WithinTask'
    <3>1. CASE session = "up"
      BY <1>1, <2>1, <3>1, SamePushed
    <3>2. CASE session # "up"
      BY <2>1, <3>2 DEF WithinTask
    <3> QED BY <3>1, <3>2
  <2>6. Lists'
    BY <1>1, <2>1 DEF Lists
  <2> QED BY <1>1, <2>1, <2>2, <2>3, <2>4, <2>5, <2>6 DEF DownForCause
<1> QED BY <1>3, <1>4, <1>5 DEF Next

LEMMA WInvAlways ==
  ASSUME TwoIovecs
  PROVE  Spec => []WInv
<1>1. Init => WInv
  BY WInvInit
<1>2. WInv /\ [Next]_vars => WInv'
  BY WInvKeeps
<1> QED BY <1>1, <1>2, PTL DEF Spec

(* An R2T of WriteHandler or DataOutHandler, queued or on its way, asks an *)
(* initiator with no burst outstanding for the data behind what it has     *)
(* sent, within its WRITE, and is the only reply under way for the task:   *)
(* nothing is asked for twice, nothing is passed over.  A tag whose WRITE  *)
(* came with more immediate data than it writes is excepted.               *)
THEOREM R2TsExactHolds ==
  ASSUME TwoIovecs
  PROVE  Spec => []R2TsExact
<1>1. WInv => R2TsExact
  BY DEF WInv
<1> QED BY <1>1, WInvAlways, PTL

(* While the session is up, a segment that write.cpp and dataout.cpp gave  *)
(* the write cache lies within the WRITE it was sent for, or it was sent   *)
(* with a tag whose WRITE came with more immediate data than it writes:    *)
(* what else a stray DataOut or a bad WRITE(10) made the handlers push has *)
(* ended the session.                                                      *)
THEOREM WithinTaskHolds ==
  ASSUME TwoIovecs
  PROVE  Spec => []WithinTask
<1>1. WInv => WithinTask
  BY DEF WInv
<1> QED BY <1>1, WInvAlways, PTL

(* doWork() ends the session only when the initiator broke a rule, or sent *)
(* a WRITE(10) of more than MaxBurstLength, or one whose immediate data is *)
(* none or no whole number of blocks while ImmediateData is on.  The last  *)
(* two are legal; of the rest, whatever its bursts and however its PDUs    *)
(* arrive, none is refused.                                                *)
THEOREM DownForCauseHolds ==
  ASSUME TwoIovecs
  PROVE  Spec => []DownForCause
<1>1. WInv => DownForCause
  BY DEF WInv
<1> QED BY <1>1, WInvAlways, PTL

(* When all that was sent is received and worked on and all replies have   *)
(* been taken, every WRITE is done, except one whose command ended its     *)
(* first burst early with F: the handlers drop no task.                    *)
THEOREM NoneForgottenHolds ==
  ASSUME TwoIovecs
  PROVE  Spec => []NoneForgotten
<1>1. WInv => NoneForgotten
  <2> SUFFICES ASSUME WInv PROVE NoneForgotten
    OBVIOUS
  <2>1. CASE session = "up"
    BY <2>1, BooksNoneForgotten DEF WInv, RInv
  <2>2. CASE session # "up"
    BY <2>2 DEF NoneForgotten, Quiet, Idle
  <2> QED BY <2>1, <2>2
<1> QED BY <1>1, WInvAlways, PTL
-----------------------------------------------------------------------------
(* Where the data of a PDU is: on the tape, behind its header.  A token    *)
(* names every buffer that the PDU reaches.                                *)
TokenAt(t, q, n) ==
  /\ t.id \in Nat \ {0} /\ t.off \in 0 .. (B - 1) /\ Edge(t.id - 1) + t.off = q.at
  /\ \E m \in Nat : t.bufs \in [1 .. m -> Nat]
  /\ \A u \in Nat : Edge((t.id + u) - 1) < q.at + GetPDULength(q) =>
       u + 1 \in DOMAIN t.bufs /\ t.bufs[u + 1] = t.id + u /\ t.id + u <= n

LEMMA EdgeOrder ==
  ASSUME NEW m \in Nat, NEW n \in Nat
  PROVE  m <= n <=> Edge(m) <= Edge(n)
<1>1. Edge(m) \in Nat /\ Edge(n) \in Nat /\ B \in Nat /\ B >= 1
  BY EdgeSteps, Sizes
<1>2. CASE m < n
  BY <1>1, <1>2, EdgeGrows
<1>3. CASE m = n
  BY <1>1, <1>3
<1>4. CASE n < m
  <2>1. Edge(n) + B <= Edge(m)
    BY <1>4, EdgeGrows
  <2> QED BY <1>1, <1>4, <2>1
<1> QED BY <1>2, <1>3, <1>4

(* Which buffers a PDU at the read position reaches.                       *)
LEMMA UsedAre ==
  ASSUME Typed, Geometry, NEW k \in DOMAIN stream, GetPDULength(stream[k]) \in Nat \ {0},
         GetPDULength(stream[k]) <= offset, NEW j \in 1 .. (overflow + 2)
  PROVE  j \in Used(k) <=> Edge(First - 1 + (j - 1)) < Pos + GetPDULength(stream[k])
<1> DEFINE f == First
           m == overflow + 2
           n == GetPDULength(stream[k])
           e == Edge(f - 1 + (j - 1))
<1>1. /\ taken \in Nat /\ offset \in 0 .. taken /\ Pos \in Nat /\ Pos = taken - offset
      /\ f \in Nat \ {0} /\ m \in Nat /\ cbufs = Row(f, m, Pos, taken) /\ Edge(f - 1) <= Pos
      /\ j \in 1 .. m /\ n \in Nat \ {0} /\ n <= offset
  <2>1. /\ taken \in Nat /\ offset \in 0 .. taken /\ Pos \in Nat /\ overflow \in Nat
        /\ First \in Nat \ {0} /\ cbufs = Row(First, overflow + 2, Pos, taken) /\ Edge(First - 1) <= Pos
    BY GeometryFacts
  <2>2. Pos = taken - offset
    BY DEF Pos
  <2>3. m \in Nat
    BY <2>1
  <2> QED BY <2>1, <2>2, <2>3
<1>2. e \in Nat
  <2>1. f \in Nat \ {0} /\ j \in Nat \ {0}
    BY <1>1
  <2> HIDE DEF f
  <2> QED BY <2>1, EdgeAt
<1>3. Used(k) = {i \in DOMAIN cbufs : Sums(Unread(cbufs))[i - 1] < n}
  BY DEF Used, Before
<1> HIDE DEF f, m, n, e
<1>4. DOMAIN cbufs = 1 .. m
  BY <1>1 DEF Row
<1>5. Sums(Unread(cbufs))[j - 1] = Max2(0, Min2(taken, e) - Pos)
  <2>1. /\ j - 1 \in 0 .. m /\ Pos \in Int /\ taken \in Int /\ Pos <= taken
        /\ f \in Nat \ {0} /\ m \in Nat /\ Edge(f - 1) <= Pos
    BY <1>1
  <2>2. \A i \in 0 .. m : Sums(Unread(Row(f, m, Pos, taken)))[i] = Max2(0, Min2(taken, Edge(f - 1 + i)) - Pos)
    BY <2>1, UnreadSums
  <2>3. Sums(Unread(Row(f, m, Pos, taken)))[j - 1] = Max2(0, Min2(taken, Edge(f - 1 + (j - 1))) - Pos)
    BY <2>1, <2>2
  <2> QED BY <1>1, <2>3 DEF e
<1>6. Max2(0, Min2(taken, e) - Pos) < n <=> e < Pos + n
  BY <1>1, <1>2 DEF Max2, Min2
<1>7. j \in Used(k) <=> e < Pos + n
  BY <1>1, <1>3, <1>4, <1>5, <1>6
<1> QED BY <1>7 DEF e, f, n

LEMMA TokenPlaced ==
  ASSUME Typed, Geometry, NEW k \in DOMAIN stream, GetPDULength(stream[k]) \in Nat \ {0},
         GetPDULength(stream[k]) <= offset, stream[k].at = Pos
  PROVE  TokenAt(TokenOf(k), stream[k], Len(mem))
<1> DEFINE f == First
           m == overflow + 2
           q == stream[k]
           n == GetPDULength(q)
           t == TokenOf(k)
           used == Used(k)
           c == LastOf(used)
<1>1. /\ taken \in Nat /\ offset \in 0 .. taken /\ Pos \in Nat /\ Pos = taken - offset
      /\ f \in Nat \ {0} /\ m \in Nat /\ m >= 2 /\ cbufs = Row(f, m, Pos, taken)
      /\ Edge(f - 1) <= Pos /\ Pos < Edge(f) /\ Len(mem) = (f + m) - 1
      /\ taken <= Edge((f + m) - 1) /\ n \in Nat \ {0} /\ n <= offset /\ q.at = Pos
      /\ Pos + n <= taken
  <2>1. /\ taken \in Nat /\ offset \in 0 .. taken /\ Pos \in Nat /\ Pos = taken - offset
        /\ overflow \in Nat /\ First \in Nat \ {0} /\ Len(mem) = First + overflow + 1
        /\ cbufs = Row(First, overflow + 2, Pos, taken)
        /\ taken <= Edge(First + overflow + 1)
        /\ Edge(First - 1) <= Pos /\ Pos < Edge(First)
    BY GeometryFacts DEF Pos
  <2>2. (First + (overflow + 2)) - 1 = First + overflow + 1
    BY <2>1
  <2> QED BY <2>1, <2>2
<1>2. \A j \in 1 .. m : j \in used <=> Edge(f - 1 + (j - 1)) < Pos + n
  BY UsedAre
<1>3. used \subseteq 1 .. m
  BY <1>1 DEF Used, Row
<1>4. t.id = cbufs[1].id /\ t.off = cbufs[1].offset /\ t.bufs = [j \in used |-> cbufs[j].id]
  BY DEF TokenOf
<1> HIDE DEF f, m, q, n, t, used
<1>5. \A j \in 1 .. m : cbufs[j].id = (f + j) - 1
  BY <1>1 DEF Row, Buf
<1>6. /\ Edge(f - 1) \in Nat /\ Edge(f) = Edge(f - 1) + B /\ B \in Nat
      /\ cbufs[1].offset = Clamp(Pos - Edge(f - 1))
  <2> DEFINE g == f - 1
  <2>1. g \in Nat /\ g + 1 = f
    BY <1>1
  <2> HIDE DEF g
  <2>2. Edge(g) \in Nat /\ Edge(g + 1) = Edge(g) + B
    BY <2>1, EdgeSteps
  <2>3. 1 \in 1 .. m /\ f + 1 - 1 = f
    BY <1>1
  <2>4. cbufs[1] = Buf(f, Pos, taken)
    BY <1>1, <2>3 DEF Row
  <2>5. cbufs[1].offset = Clamp(Pos - Edge(f - 1))
    BY <2>4 DEF Buf
  <2> QED BY <2>1, <2>2, <2>5, Sizes DEF g
<1>7. t.id = f /\ t.off = Pos - Edge(f - 1) /\ t.off \in 0 .. (B - 1) /\ Edge(t.id - 1) + t.off = q.at
  <2> DEFINE e == Edge(f - 1)
             x == Pos - e
  <2>1. x \in 0 .. (B - 1) /\ e + x = Pos /\ e \in Nat
    <3>1. e \in Nat /\ B \in Nat /\ e <= Pos /\ Pos < e + B /\ Pos \in Nat
      BY <1>1, <1>6
    <3> HIDE DEF e
    <3> QED BY <3>1
  <2>2. cbufs[1].offset = Clamp(x)
    BY <1>6
  <2> HIDE DEF x
  <2>3. Clamp(x) = x
    BY <1>6, <2>1 DEF Clamp, Max2, Min2
  <2>4. cbufs[1].id = f
    <3>1. 1 \in 1 .. m /\ (f + 1) - 1 = f
      BY <1>1
    <3> QED BY <1>5, <3>1
  <2> QED BY <1>1, <1>4, <2>1, <2>2, <2>3, <2>4 DEF x
<1>8. used = 1 .. c /\ c \in 1 .. m
  <2>1. 1 \in used
    <3>1. 1 \in 1 .. m /\ f - 1 + (1 - 1) = f - 1
      BY <1>1
    <3>2. Edge(f - 1) < Pos + n
      <4> DEFINE e == Edge(f - 1)
      <4>1. e \in Nat /\ e <= Pos /\ Pos \in Nat /\ n \in Nat \ {0}
        BY <1>1, <1>6
      <4> HIDE DEF e
      <4>2. e < Pos + n
        BY <4>1
      <4> QED BY <4>2 DEF e
    <3> QED BY <1>2, <3>1, <3>2
  <2>2. c \in used /\ \A j \in used : j <= c
    BY <1>1, <1>3, <2>1, LastExists
  <2> HIDE DEF c
  <2>3. ASSUME NEW j \in 1 .. c PROVE j \in used
    <3>1. j \in 1 .. m /\ c \in 1 .. m /\ j <= c
      BY <1>1, <1>3, <2>2
    <3> DEFINE a == f - 1 + (j - 1)
               b == f - 1 + (c - 1)
    <3>2. a \in Nat /\ b \in Nat /\ a <= b
      BY <1>1, <3>1
    <3>3. Edge(b) < Pos + n
      BY <1>2, <2>2, <3>1
    <3> HIDE DEF a, b
    <3>4. Edge(a) <= Edge(b) /\ Edge(a) \in Nat /\ Edge(b) \in Nat
      BY <3>2, EdgeOrder, EdgeSteps
    <3>5. Edge(a) < Pos + n
      BY <1>1, <3>3, <3>4
    <3> QED BY <1>2, <3>1, <3>5 DEF a
  <2>4. \A j \in used : j \in 1 .. c
    BY <1>1, <1>3, <2>2
  <2> QED BY <1>3, <2>2, <2>3, <2>4
<1> HIDE DEF c
<1>9. t.bufs \in [1 .. c -> Nat] /\ c \in Nat /\ DOMAIN t.bufs = 1 .. c
  <2>1. \A j \in 1 .. c : cbufs[j].id \in Nat
    BY <1>1, <1>5, <1>8
  <2> QED BY <1>1, <1>4, <1>8, <2>1
<1>10. ASSUME NEW u \in Nat, Edge((f + u) - 1) < Pos + n
       PROVE  u + 1 \in DOMAIN t.bufs /\ t.bufs[u + 1] = f + u /\ f + u <= Len(mem)
  <2> DEFINE a == (f + u) - 1
             z == (f + m) - 1
  <2>1. a \in Nat /\ z \in Nat
    BY <1>1
  <2>2. Edge(a) < Edge(z) /\ Edge(a) \in Nat /\ Edge(z) \in Nat
    <3>1. Edge(a) < Pos + n /\ taken <= Edge(z)
      BY <1>1, <1>10
    <3> HIDE DEF a, z
    <3>2. Edge(a) \in Nat /\ Edge(z) \in Nat
      BY <2>1, EdgeSteps
    <3> QED BY <1>1, <3>1, <3>2
  <2>3. ~(z <= a)
    <3> HIDE DEF a, z
    <3>1. z <= a => Edge(z) <= Edge(a)
      BY <2>1, EdgeOrder
    <3> QED BY <2>2, <3>1
  <2>4. u + 1 \in 1 .. m /\ f + u <= Len(mem) /\ f - 1 + ((u + 1) - 1) = (f + u) - 1 /\ (f + (u + 1)) - 1 = f + u
    BY <1>1, <2>1, <2>3
  <2> DEFINE j == u + 1
  <2>5. j \in 1 .. m /\ f - 1 + (j - 1) = (f + u) - 1 /\ (f + j) - 1 = f + u
    BY <2>4
  <2> HIDE DEF j
  <2>6. j \in used
    BY <1>2, <1>10, <2>5
  <2>7. t.bufs[j] = cbufs[j].id /\ j \in DOMAIN t.bufs
    BY <1>4, <1>8, <1>9, <2>6
  <2>8. cbufs[j].id = f + u
    BY <1>5, <2>5
  <2> QED BY <2>4, <2>7, <2>8 DEF j
<1>11. q.at + n = Pos + n
  BY <1>1
<1>12. TokenAt(t, q, Len(mem))
  <2>1. t.id \in Nat \ {0} /\ t.id = f
    BY <1>1, <1>7
  <2>2. \E y \in Nat : t.bufs \in [1 .. y -> Nat]
    BY <1>9
  <2>3. \A u \in Nat : Edge((t.id + u) - 1) < q.at + GetPDULength(q) =>
          u + 1 \in DOMAIN t.bufs /\ t.bufs[u + 1] = t.id + u /\ t.id + u <= Len(mem)
    BY <1>10, <1>11, <2>1 DEF n
  <2> QED BY <1>7, <2>1, <2>2, <2>3 DEF TokenAt
<1> QED BY <1>12 DEF t, q
(* Where cell i of a segment lies, and that it is the i-th behind from.    *)
CellBuf(seg, i) == seg.bufs[1 + (seg.ds_offset + i - 1) \div B]
CellOff(seg, i) == (seg.ds_offset + i - 1) % B
Size(seg) == LBA2OFFSET(seg.len)
Located(seg, n, from, tk) ==
  \A i \in 1 .. Size(seg) :
    /\ CellBuf(seg, i) \in 1 .. n /\ CellOff(seg, i) \in 0 .. (B - 1)
    /\ Edge(CellBuf(seg, i) - 1) + CellOff(seg, i) = (from + i) - 1
    /\ (from + i) - 1 < tk

LEMMA Division ==
  ASSUME NEW x \in Nat
  PROVE  x \div B \in Nat /\ x % B \in 0 .. (B - 1) /\ x = Edge(x \div B) + (x % B)
<1>1. B \in Int /\ B > 0
  BY Sizes
<1>2. \E q \in Int, r \in Int : x = B * q + r /\ r = x % B /\ q = x \div B
  BY <1>1
<1>3. PICK q \in Int, r \in Int : x = B * q + r /\ r = x % B /\ q = x \div B
  BY <1>2
<1>4. x \div B \in Nat /\ x % B \in 0 .. (B - 1)
  BY <1>1
<1>5. Edge(q) = B * q
  BY <1>1 DEF Edge
<1> QED BY <1>3, <1>4, <1>5

LEMMA LocatedCell ==
  ASSUME Linear, NEW seg, NEW from \in Nat, Located(seg, Len(mem), from, taken), NEW i \in 1 .. Size(seg), i \in Nat
  PROVE  SegmentCell(seg, i) = from + i
<1> DEFINE b == CellBuf(seg, i)
           p == CellOff(seg, i)
<1>1. b \in 1 .. Len(mem) /\ p \in 0 .. (B - 1) /\ Edge(b - 1) + p = (from + i) - 1 /\ (from + i) - 1 < taken
  BY DEF Located
<1>2. SegmentCell(seg, i) = mem[b][p]
  BY DEF SegmentCell, CellBuf, CellOff
<1> HIDE DEF b, p
<1>3. Edge(b - 1) + p < taken
  BY <1>1
<1>4. mem[b][p] = Edge(b - 1) + p + 1
  BY <1>1, <1>3 DEF Linear, Tape
<1>5. mem[b][p] = ((from + i) - 1) + 1
  BY <1>1, <1>4
<1> QED BY <1>2, <1>5

LEMMA LocatedKeeps ==
  ASSUME NEW seg, NEW n \in Nat, NEW m \in Nat, n <= m, NEW from \in Nat, NEW tk \in Nat, NEW uk \in Nat, tk <= uk,
         Size(seg) \in Nat, Located(seg, n, from, tk)
  PROVE  Located(seg, m, from, uk)
<1> SUFFICES ASSUME NEW i \in 1 .. Size(seg)
             PROVE  /\ CellBuf(seg, i) \in 1 .. m /\ CellOff(seg, i) \in 0 .. (B - 1)
                    /\ Edge(CellBuf(seg, i) - 1) + CellOff(seg, i) = (from + i) - 1
                    /\ (from + i) - 1 < uk
  BY DEF Located
<1>1. /\ CellBuf(seg, i) \in 1 .. n /\ CellOff(seg, i) \in 0 .. (B - 1)
      /\ Edge(CellBuf(seg, i) - 1) + CellOff(seg, i) = (from + i) - 1
      /\ (from + i) - 1 < tk
  BY DEF Located
<1>2. i \in Nat /\ (from + i) - 1 < uk
  BY <1>1
<1>3. CellBuf(seg, i) \in 1 .. m
  BY <1>1
<1> QED BY <1>1, <1>2, <1>3

(* A token that is shifted by one buffer when the header crosses an edge.  *)
LEMMA CellPlaced ==
  ASSUME NEW t, NEW q, NEW n \in Nat, TokenAt(t, q, n), q.at \in Nat, GetPDULength(q) \in Nat,
         NEW g \in Nat, NEW x \in Nat, Edge((t.id + g) - 1) + x < q.at + GetPDULength(q)
  PROVE  /\ (g + x \div B) + 1 \in DOMAIN t.bufs
         /\ t.bufs[(g + x \div B) + 1] \in 1 .. n
         /\ Edge(t.bufs[(g + x \div B) + 1] - 1) + (x % B) = Edge((t.id + g) - 1) + x
<1> DEFINE v == x \div B
           r == x % B
           a == (t.id + g) - 1
           u == g + v
<1>1. v \in Nat /\ r \in 0 .. (B - 1) /\ x = Edge(v) + r
  BY Division, Zenon
<1>2. t.id \in Nat \ {0} /\ B \in Nat
  BY Sizes DEF TokenAt
<1> HIDE DEF v, r
<1>3. a \in Nat /\ u \in Nat /\ (t.id + u) - 1 = a + v /\ u + 1 \in Nat /\ t.id + u >= 1
  BY <1>1, <1>2
<1>4. Edge(a + v) = Edge(a) + Edge(v) /\ Edge(a) \in Nat /\ Edge(v) \in Nat
  <2> HIDE DEF a
  <2>1. Edge(a + v) = Edge(a) + v * B /\ Edge(a) \in Nat /\ Edge(v) \in Nat
    BY <1>1, <1>3, EdgeAdds, EdgeSteps
  <2> QED BY <2>1 DEF Edge
<1>5. Edge((t.id + u) - 1) < q.at + GetPDULength(q)
  <2>1. Edge(a) + x < q.at + GetPDULength(q)
    OBVIOUS
  <2>2. Edge((t.id + u) - 1) = Edge(a) + Edge(v)
    BY <1>3, <1>4
  <2> HIDE DEF a, u
  <2> QED BY <1>1, <1>2, <1>4, <2>1, <2>2
<1>6. u + 1 \in DOMAIN t.bufs /\ t.bufs[u + 1] = t.id + u /\ t.id + u <= n
  <2> HIDE DEF a, u
  <2> QED BY <1>3, <1>5 DEF TokenAt
<1>7. Edge((t.id + u) - 1) + r = Edge(a) + x
  <2>1. Edge((t.id + u) - 1) = Edge(a) + Edge(v)
    BY <1>3, <1>4
  <2> HIDE DEF a, u
  <2> QED BY <1>1, <1>2, <1>4, <2>1
<1>8. t.bufs[u + 1] \in 1 .. n
  <2> HIDE DEF u
  <2> QED BY <1>2, <1>3, <1>6
<1> QED BY <1>6, <1>7, <1>8 DEF v, r

LEMMA SegmentPlaced ==
  ASSUME NEW lba, NEW n \in Nat, NEW tk \in Nat,
         Req \in Pdus, IsCut(Req), TokenAt(Head(bhss), Req, n), Req.at + GetPDULength(Req) <= tk
  PROVE  /\ Cut(Req, lba).len \in Nat /\ Size(Cut(Req, lba)) = Req.dlength /\ Cut(Req, lba).lba = lba
         /\ Located(Cut(Req, lba), n, Req.at + HEADER, tk)
<1> DEFINE t == Head(bhss)
           q == Req
           seg == Cut(Req, lba)
<1>0. Req.dlength \in Nat
  BY Parameters DEF Pdus
<1>1. /\ seg.len \in Nat /\ Size(seg) = q.dlength /\ seg.lba = lba
      /\ seg.bufs = (IF IsEdge(t.off) THEN Tail(t.bufs) ELSE t.bufs)
      /\ seg.ds_offset = (IF IsEdge(t.off) THEN HEADER - (B - t.off) ELSE HEADER + t.off)
  BY <1>0, CutIs DEF Cut, FrontDataSegment, Size
<1>2. /\ TokenAt(t, q, n) /\ q.at \in Nat /\ q.dlength \in Nat /\ HEADER \in Nat /\ B \in Nat
      /\ GetPDULength(q) = HEADER + q.dlength /\ q.at + GetPDULength(q) <= tk
  BY Sizes DEF Pdus, GetPDULength
<1>3. t.id \in Nat \ {0} /\ t.off \in 0 .. (B - 1) /\ Edge(t.id - 1) + t.off = q.at
  BY <1>2 DEF TokenAt
<1>4. PICK m \in Nat : t.bufs \in [1 .. m -> Nat]
  BY <1>2 DEF TokenAt
<1> HIDE DEF t, q, seg
<1>5. ASSUME NEW i \in 1 .. Size(seg)
      PROVE  /\ CellBuf(seg, i) \in 1 .. n /\ CellOff(seg, i) \in 0 .. (B - 1)
             /\ Edge(CellBuf(seg, i) - 1) + CellOff(seg, i) = ((q.at + HEADER) + i) - 1
             /\ ((q.at + HEADER) + i) - 1 < tk
  <2>1. i \in Nat /\ i >= 1 /\ i <= q.dlength
    BY <1>1, <1>2
  <2>2. ((q.at + HEADER) + i) - 1 < q.at + GetPDULength(q) /\ ((q.at + HEADER) + i) - 1 < tk
    BY <1>2, <2>1
  <2> DEFINE x == seg.ds_offset + i - 1
             e == Edge(t.id - 1)
  <2>3. e \in Nat
    <3> DEFINE y == t.id - 1
    <3>1. y \in Nat
      BY <1>3
    <3> HIDE DEF y
    <3> QED BY <3>1, EdgeSteps DEF y
  <2>4. CellBuf(seg, i) = seg.bufs[1 + x \div B] /\ CellOff(seg, i) = x % B
    BY DEF CellBuf, CellOff
  <2>5. CASE ~IsEdge(t.off)
    <3>1. seg.ds_offset = HEADER + t.off /\ seg.bufs = t.bufs
      BY <1>1, <2>5
    <3>2. x \in Nat /\ e + x = ((q.at + HEADER) + i) - 1
      <4> HIDE DEF e
      <4>1. e + t.off = q.at
        BY <1>3 DEF e
      <4> QED BY <1>2, <1>3, <2>1, <2>3, <3>1, <4>1
    <3> HIDE DEF x
    <3>3. (t.id + 0) - 1 = t.id - 1
      BY <1>3
    <3>4. Edge((t.id + 0) - 1) + x < q.at + GetPDULength(q)
      BY <2>2, <3>2, <3>3 DEF e
    <3>5. x \div B \in Nat /\ x % B \in 0 .. (B - 1)
      BY <3>2, Division
    <3>6. /\ t.bufs[(0 + x \div B) + 1] \in 1 .. n
          /\ Edge(t.bufs[(0 + x \div B) + 1] - 1) + (x % B) = Edge((t.id + 0) - 1) + x
      <4>1. 0 \in Nat /\ GetPDULength(q) \in Nat
        BY <1>2
      <4> QED BY <1>2, <3>2, <3>4, <4>1, CellPlaced
    <3>7. (0 + x \div B) + 1 = 1 + x \div B
      BY <3>5
    <3>8. /\ CellBuf(seg, i) \in 1 .. n
          /\ Edge(CellBuf(seg, i) - 1) + CellOff(seg, i) = e + x
      BY <2>4, <3>1, <3>3, <3>6, <3>7 DEF e
    <3> QED BY <2>2, <2>4, <3>2, <3>5, <3>8
  <2>6. CASE IsEdge(t.off)
    <3>1. seg.ds_offset = HEADER - (B - t.off) /\ seg.bufs = Tail(t.bufs) /\ B - t.off < HEADER
      BY <1>1, <2>6 DEF IsEdge
    <3>2. x \in Nat /\ (e + B) + x = ((q.at + HEADER) + i) - 1
      <4> HIDE DEF e
      <4>1. e + t.off = q.at
        BY <1>3 DEF e
      <4> QED BY <1>2, <1>3, <2>1, <2>3, <3>1, <4>1
    <3> HIDE DEF x
    <3>3. Edge((t.id + 1) - 1) = e + B
      <4> DEFINE y == t.id - 1
      <4>1. y \in Nat /\ (t.id + 1) - 1 = y + 1
        BY <1>3
      <4> HIDE DEF y
      <4>2. Edge(y + 1) = Edge(y) + B
        BY <4>1, EdgeSteps
      <4> QED BY <4>1, <4>2 DEF y
    <3>4. Edge((t.id + 1) - 1) + x < q.at + GetPDULength(q)
      BY <2>2, <3>2, <3>3
    <3>5. x \div B \in Nat /\ x % B \in 0 .. (B - 1)
      BY <3>2, Division
    <3>6. /\ (1 + x \div B) + 1 \in DOMAIN t.bufs
          /\ t.bufs[(1 + x \div B) + 1] \in 1 .. n
          /\ Edge(t.bufs[(1 + x \div B) + 1] - 1) + (x % B) = Edge((t.id + 1) - 1) + x
      <4>1. 1 \in Nat /\ GetPDULength(q) \in Nat
        BY <1>2
      <4> QED BY <1>2, <3>2, <3>4, <4>1, CellPlaced
    <3>7. Tail(t.bufs)[1 + x \div B] = t.bufs[(1 + x \div B) + 1]
      <4> DEFINE bs == t.bufs
                 j == 1 + x \div B
      <4>1. bs \in Seq(Nat) /\ Len(bs) = m
        BY <1>4
      <4>2. j \in Nat /\ j >= 1 /\ j + 1 \in 1 .. m
        BY <1>4, <3>5, <3>6
      <4> HIDE DEF bs, j
      <4>3. Tail(bs)[j] = bs[j + 1]
        BY <1>4, <4>1, <4>2
      <4> QED BY <4>3 DEF bs, j
    <3>8. /\ CellBuf(seg, i) \in 1 .. n
          /\ Edge(CellBuf(seg, i) - 1) + CellOff(seg, i) = (e + B) + x
      BY <2>4, <3>1, <3>3, <3>6, <3>7
    <3> QED BY <2>2, <2>4, <3>2, <3>5, <3>8
  <2> QED BY <2>5, <2>6
<1>6. Located(seg, n, q.at + HEADER, tk)
  BY <1>5 DEF Located
<1> QED BY <1>1, <1>6 DEF seg, q
TokensAt == \A i \in DOMAIN bhss : TokenAt(bhss[i], stream[bhss[i].pdu], Len(mem))

LEMMA TokenAtKeeps ==
  ASSUME NEW t, NEW q, NEW n \in Nat, NEW m \in Nat, n <= m, TokenAt(t, q, n)
  PROVE  TokenAt(t, q, m)
<1>1. t.id \in Nat
  BY DEF TokenAt
<1>2. \A u \in Nat : t.id + u <= n => t.id + u <= m
  BY <1>1
<1> QED BY <1>2 DEF TokenAt

(* The session only receives, and its buffers only become more.            *)
LEMMA TargetGrows ==
  ASSUME TwoIovecs, Typed, Receiving, Target
  PROVE  /\ Len(mem) \in Nat /\ Len(mem') \in Nat /\ Len(mem) <= Len(mem')
         /\ taken \in Nat /\ taken' \in Nat /\ taken <= taken'
<1>1. Receiving' /\ Len(mem) <= Len(mem')
  BY ReceivingKeeps
<1>2. taken \in Nat /\ Len(mem) \in Nat
  BY GeometryFacts DEF Receiving
<1>3. taken' \in Nat /\ Len(mem') \in Nat
  <2>1. taken' \in Nat /\ Now' \in Containers
    BY <1>1 DEF Receiving, Geometry, Shape
  <2>2. Now'.mem = mem'
    BY DEF Now
  <2>3. mem' \in Seq(Cells)
    BY <2>1, <2>2 DEF Containers
  <2> QED BY <2>1, <2>3
<1>4. taken <= taken'
  <2>1. CASE Receive
    <3>1. PICK n : Readv(n)
      BY <2>1 DEF Receive
    <3>2. taken' = taken + n /\ n \in 1 .. Min2(Sent - taken, Sum(Lens(vec)))
      BY <3>1 DEF Readv
    <3>3. n \in Int /\ n >= 1
      BY <3>2
    <3> QED BY <1>2, <3>2, <3>3
  <2>2. CASE Parse
    <3>1. taken' = taken
      BY <2>2 DEF Parse, PartialHead, ParsedHeader
    <3> QED BY <1>2, <3>1
  <2>3. CASE Work
    BY <1>2, <2>3, WorkCases
  <2>4. CASE Invoke
    BY <1>2, <2>4 DEF Invoke, tvars
  <2> QED BY <2>1, <2>2, <2>3, <2>4 DEF Target
<1> QED BY <1>1, <1>2, <1>3, <1>4

LEMMA TokensKeep ==
  ASSUME TwoIovecs, Typed, Receiving, Following, Paused, TokensAt, Target
  PROVE  TokensAt'
<1>1. /\ Len(mem) \in Nat /\ Len(mem') \in Nat /\ Len(mem) <= Len(mem')
  BY TargetGrows
<1>2. Geometry /\ Linear /\ bhss \in Seq(TokenSet) /\ Len(bhss) \in Nat /\ HEADER \in Nat \ {0}
  BY Sizes DEF Receiving, Typed, Tokened
<1>3. ASSUME NEW i \in DOMAIN bhss, UNCHANGED stream
      PROVE  TokenAt(bhss[i], stream'[bhss[i].pdu], Len(mem'))
  <2>1. TokenAt(bhss[i], stream[bhss[i].pdu], Len(mem))
    BY DEF TokensAt
  <2> QED BY <1>1, <1>3, <2>1, TokenAtKeeps
<1>4. ASSUME UNCHANGED <<stream, bhss>> PROVE TokensAt'
  BY <1>3, <1>4 DEF TokensAt
<1>5. CASE Receive
  BY <1>4, <1>5 DEF Receive, Readv
<1>6. CASE Parse
  <2>1. UNCHANGED stream
    BY <1>6 DEF Parse, PartialHead, ParsedHeader
  <2>2. ASSUME NEW k \in DOMAIN stream, ParsedPdu(k), GetPDULength(stream[k]) <= offset,
               status = "TOKEN_PARTIAL" \/ offset >= HEADER, Token(k, cbufs[1])
        PROVE  TokensAt'
    <3>1. offset \in Nat /\ offset >= 1
      BY <1>2, <2>2, GeometryFacts DEF Paused
    <3>2. stream[k].at = Pos /\ GetPDULength(stream[k]) \in Nat
      BY <1>2, <2>2, <3>1, ParsedNext
    <3>3. GetPDULength(stream[k]) # 0
      <4> DEFINE q == stream[k]
      <4>1. q \in Pdus
        BY DEF Typed, Streams
      <4> HIDE DEF q
      <4>2. q.dlength \in Nat /\ HEADER + q.dlength # 0
        BY <1>2, <4>1, Parameters DEF Pdus
      <4> QED BY <4>2 DEF GetPDULength, q
    <3>4. TokenAt(TokenOf(k), stream[k], Len(mem))
      BY <1>2, <2>2, <3>2, <3>3, TokenPlaced
    <3>5. TokenAt(TokenOf(k), stream[k], Len(mem'))
      BY <1>1, <3>4, TokenAtKeeps
    <3>6. /\ bhss' \in Seq(TokenSet) /\ Len(bhss') = Len(bhss) + 1
          /\ \A i \in 1 .. Len(bhss) : bhss'[i] = bhss[i]
          /\ bhss'[Len(bhss) + 1] = TokenOf(k) /\ TokenOf(k).pdu = k
      BY <1>2, <2>2, TokenMade
    <3>7. ASSUME NEW i \in DOMAIN bhss' PROVE TokenAt(bhss'[i], stream'[bhss'[i].pdu], Len(mem'))
      <4>1. i \in 1 .. Len(bhss) \/ i = Len(bhss) + 1
        BY <1>2, <3>6, <3>7
      <4>2. CASE i \in 1 .. Len(bhss)
        BY <1>2, <1>3, <2>1, <3>6, <4>2
      <4>3. CASE i = Len(bhss) + 1
        BY <2>1, <3>5, <3>6, <4>3
      <4> QED BY <4>1, <4>2, <4>3
    <3> QED BY <3>7 DEF TokensAt
  <2>3. PartialHead \/ ParsedHeader
    BY <1>6 DEF Parse
  <2>4. \/ UNCHANGED bhss
        \/ \E k \in DOMAIN stream : ParsedPdu(k) /\ GetPDULength(stream[k]) <= offset
             /\ (status = "TOKEN_PARTIAL" \/ offset >= HEADER) /\ Token(k, cbufs[1])
    BY <2>3, ParseCases
  <2> QED BY <1>4, <2>1, <2>2, <2>4
<1>7. CASE Work
  <2>1. UNCHANGED stream /\ (bhss' = bhss \/ (bhss # << >> /\ bhss' = Tail(bhss)))
    BY <1>7, WorkCases
  <2>2. CASE bhss' = bhss
    BY <1>4, <2>1, <2>2
  <2>3. CASE bhss # << >> /\ bhss' = Tail(bhss)
    <3>1. \A i \in DOMAIN bhss' : i + 1 \in DOMAIN bhss /\ bhss'[i] = bhss[i + 1]
      BY <1>2, <2>3
    <3> QED BY <1>3, <2>1, <3>1 DEF TokensAt
  <2> QED BY <2>1, <2>2, <2>3
<1>8. CASE Invoke
  BY <1>4, <1>8 DEF Invoke, tvars
<1> QED BY <1>5, <1>6, <1>7, <1>8 DEF Target

-----------------------------------------------------------------------------
(* What the cache was given of each WRITE.  ps are the segments; each that *)
(* is of a WRITE whose PDUs are all whole blocks is the data of one of     *)
(* them, and lies behind those before it.                                  *)
Even(s, w) == \A k \in 1 .. Len(s) : s[k].w = w => s[k].dlength % Unit = 0
LensOf(ps, w) == [i \in DOMAIN ps |-> IF ps[i].w = w THEN Size(ps[i].seg) ELSE 0]
PartOf(s, p, off, n, tk, k) ==
  /\ s[k].w = p.w /\ s[k].off = off /\ s[k].dlength = Size(p.seg)
  /\ Located(p.seg, n, s[k].at + HEADER, tk)
PartAt(s, ws, p, off, n, tk) ==
  /\ p.w \in 1 .. Len(ws) /\ Size(p.seg) \in Nat \ {0} /\ p.seg.lba = ws[p.w].lba + OFFSET2LBA(off)
  /\ \E k \in 1 .. Len(s) : PartOf(s, p, off, n, tk, k)
Parts(s, ws, ps, n, tk) ==
  \A i \in 1 .. Len(ps) : ps[i].w # 0 /\ Even(s, ps[i].w) =>
    PartAt(s, ws, ps[i], Before(LensOf(ps, ps[i].w), i), n, tk)
Added(s, ps, h) == \A w \in Nat \ {0} : Even(s, w) => Sum(LensOf(ps, w)) = Upto(s, w, h + 1)
Sized(ps) == \A i \in 1 .. Len(ps) : ps[i].seg.len \in Nat

LEMMA SizeType ==
  ASSUME NEW seg, seg.len \in Nat
  PROVE  Size(seg) \in Nat
BY Cells1 DEF Size

LEMMA LensType ==
  ASSUME NEW S, NEW ps \in Seq(S), Sized(ps), NEW w, w # 0
  PROVE  /\ LensOf(ps, w) \in Seq(Int) /\ Len(LensOf(ps, w)) = Len(ps)
         /\ Sum(LensOf(ps, w)) = Sums(LensOf(ps, w))[Len(ps)] /\ Sum(LensOf(ps, w)) \in Int
<1> DEFINE ns == LensOf(ps, w)
<1>1. DOMAIN ps = 1 .. Len(ps) /\ Len(ps) \in Nat
  OBVIOUS
<1>2. \A i \in 1 .. Len(ps) : (IF ps[i].w = w THEN Size(ps[i].seg) ELSE 0) \in Int
  <2>1. \A i \in 1 .. Len(ps) : Size(ps[i].seg) \in Nat
    BY SizeType DEF Sized
  <2> QED BY <2>1
<1>3. ns \in [1 .. Len(ps) -> Int]
  BY <1>1, <1>2 DEF LensOf
<1> HIDE DEF ns
<1>4. ns \in Seq(Int) /\ Len(ns) = Len(ps)
  BY <1>1, <1>3
<1>5. Len(ns) \in 0 .. Len(ns)
  BY <1>1, <1>4
<1>6. Sums(ns)[Len(ns)] \in Int
  BY <1>4, <1>5, SumsType
<1>7. Sum(ns) = Sums(ns)[Len(ns)]
  BY DEF Sum
<1> QED BY <1>4, <1>6, <1>7 DEF ns

LEMMA LensAppend ==
  ASSUME NEW S, NEW ps \in Seq(S), NEW e \in S, Sized(ps), NEW w, w # 0, e.seg.len \in Nat
  PROVE  LensOf(Append(ps, e), w) = Append(LensOf(ps, w), IF e.w = w THEN Size(e.seg) ELSE 0)
<1> DEFINE us == Append(ps, e)
           ns == LensOf(ps, w)
           x == IF e.w = w THEN Size(e.seg) ELSE 0
           ms == LensOf(us, w)
<1>1. /\ us \in Seq(S) /\ Len(us) = Len(ps) + 1 /\ us[Len(ps) + 1] = e /\ Len(ps) \in Nat
      /\ \A i \in 1 .. Len(ps) : us[i] = ps[i]
      /\ DOMAIN us = 1 .. (Len(ps) + 1) /\ DOMAIN ps = 1 .. Len(ps)
  OBVIOUS
<1>2. ns \in Seq(Int) /\ Len(ns) = Len(ps) /\ x \in Int
  <2>1. Size(e.seg) \in Nat
    BY SizeType
  <2> QED BY <2>1, LensType
<1>3. ms = [i \in DOMAIN us |-> IF us[i].w = w THEN Size(us[i].seg) ELSE 0]
  BY DEF LensOf
<1>4. \A i \in 1 .. Len(ps) : ns[i] = IF ps[i].w = w THEN Size(ps[i].seg) ELSE 0
  BY <1>1 DEF LensOf
<1> HIDE DEF us, ns, ms
<1>5. \A i \in 1 .. Len(ps) : ms[i] = ns[i]
  <2> SUFFICES ASSUME NEW i \in 1 .. Len(ps) PROVE ms[i] = ns[i]
    OBVIOUS
  <2>1. i \in DOMAIN us /\ us[i] = ps[i]
    BY <1>1
  <2>2. ms[i] = IF us[i].w = w THEN Size(us[i].seg) ELSE 0
    BY <1>3, <2>1
  <2>3. ns[i] = IF ps[i].w = w THEN Size(ps[i].seg) ELSE 0
    BY <1>4
  <2> QED BY <2>1, <2>2, <2>3
<1>6. ms[Len(ps) + 1] = x
  BY <1>1, <1>3
<1> HIDE DEF x
<1>7. ms = [i \in 1 .. (Len(ps) + 1) |-> IF i = Len(ps) + 1 THEN x ELSE ns[i]]
  <2>1. ms = [i \in 1 .. (Len(ps) + 1) |-> ms[i]]
    BY <1>1, <1>3
  <2>2. \A i \in 1 .. (Len(ps) + 1) : i = Len(ps) + 1 \/ i \in 1 .. Len(ps)
    BY <1>1
  <2> QED BY <1>1, <1>5, <1>6, <2>1, <2>2
<1>8. Append(ns, x) = [i \in 1 .. (Len(ps) + 1) |-> IF i = Len(ps) + 1 THEN x ELSE ns[i]]
  <2> DEFINE zs == Append(ns, x)
  <2>1. /\ zs \in Seq(Int) /\ Len(zs) = Len(ps) + 1 /\ zs[Len(ps) + 1] = x
        /\ \A i \in 1 .. Len(ps) : zs[i] = ns[i]
    BY <1>2, AppendFacts
  <2> HIDE DEF zs
  <2>2. zs = [i \in 1 .. (Len(ps) + 1) |-> zs[i]]
    BY <2>1
  <2>3. \A i \in 1 .. (Len(ps) + 1) : i = Len(ps) + 1 \/ i \in 1 .. Len(ps)
    BY <1>1
  <2>4. \A i \in 1 .. (Len(ps) + 1) : zs[i] = IF i = Len(ps) + 1 THEN x ELSE ns[i]
    BY <1>1, <2>1, <2>3
  <2>5. zs = [i \in 1 .. (Len(ps) + 1) |-> IF i = Len(ps) + 1 THEN x ELSE ns[i]]
    BY <2>2, <2>4
  <2> QED BY <2>5 DEF zs
<1> QED BY <1>7, <1>8 DEF ms, us, ns, x

LEMMA PartsAppend ==
  ASSUME NEW S, NEW ps \in Seq(S), NEW e \in S, NEW s, NEW ws, NEW n, NEW tk, Parts(s, ws, ps, n, tk),
         Sized(ps), e.seg.len \in Nat,
         e.w # 0 /\ Even(s, e.w) => PartAt(s, ws, e, Sum(LensOf(ps, e.w)), n, tk)
  PROVE  Parts(s, ws, Append(ps, e), n, tk)
<1> DEFINE us == Append(ps, e)
<1>1. /\ Len(us) = Len(ps) + 1 /\ us[Len(ps) + 1] = e /\ Len(ps) \in Nat
      /\ \A i \in 1 .. Len(ps) : us[i] = ps[i]
  OBVIOUS
<1>2. Sized(ps) /\ Size(e.seg) \in Nat
  BY SizeType
<1>3. ASSUME NEW w, w # 0, NEW i \in 1 .. (Len(ps) + 1)
      PROVE  Before(LensOf(us, w), i) = Sums(LensOf(ps, w))[i - 1]
  <2> DEFINE ns == LensOf(ps, w)
             x == IF e.w = w THEN Size(e.seg) ELSE 0
  <2>1. LensOf(us, w) = Append(ns, x)
    BY <1>2, <1>3, LensAppend
  <2>2. ns \in Seq(Int) /\ Len(ns) = Len(ps) /\ x \in Int
    BY <1>2, <1>3, LensType
  <2>3. i - 1 \in 0 .. Len(ns)
    BY <1>1, <2>2
  <2> HIDE DEF ns, x
  <2>4. Sums(Append(ns, x))[i - 1] = Sums(ns)[i - 1]
    BY <2>2, <2>3, SumAppend
  <2> QED BY <2>1, <2>4 DEF Before, ns
<1>4. ASSUME NEW i \in 1 .. Len(us), us[i].w # 0, Even(s, us[i].w)
      PROVE  PartAt(s, ws, us[i], Before(LensOf(us, us[i].w), i), n, tk)
  <2>1. i \in 1 .. Len(ps) \/ i = Len(ps) + 1
    BY <1>1, <1>4
  <2>2. CASE i \in 1 .. Len(ps)
    <3>1. us[i] = ps[i] /\ i \in 1 .. (Len(ps) + 1)
      BY <1>1, <2>2
    <3>2. PartAt(s, ws, ps[i], Before(LensOf(ps, ps[i].w), i), n, tk)
      BY <1>4, <2>2, <3>1 DEF Parts
    <3>3. Before(LensOf(us, us[i].w), i) = Before(LensOf(ps, ps[i].w), i)
      BY <1>3, <1>4, <3>1 DEF Before
    <3> QED BY <3>1, <3>2, <3>3
  <2>3. CASE i = Len(ps) + 1
    <3>1. us[i] = e /\ e.w # 0 /\ Even(s, e.w) /\ i \in 1 .. (Len(ps) + 1) /\ i - 1 = Len(ps)
      BY <1>1, <1>4, <2>3
    <3>2. Before(LensOf(us, e.w), i) = Sums(LensOf(ps, e.w))[Len(ps)]
      BY <1>3, <3>1
    <3>3. Sum(LensOf(ps, e.w)) = Sums(LensOf(ps, e.w))[Len(ps)]
      BY <1>2, <3>1, LensType
    <3> QED BY <3>1, <3>2, <3>3
  <2> QED BY <2>1, <2>2, <2>3
<1> HIDE DEF us
<1>5. Parts(s, ws, us, n, tk)
  BY <1>4 DEF Parts
<1> QED BY <1>5 DEF us

LEMMA AddedAppend ==
  ASSUME NEW S, NEW ps \in Seq(S), NEW e \in S, Sized(ps), NEW s, NEW h \in Nat, Added(s, ps, h),
         e.seg.len \in Nat, e.w = s[h + 1].w,
         e.w # 0 /\ Even(s, e.w) => Size(e.seg) = s[h + 1].dlength /\ s[h + 1].off = Upto(s, e.w, h + 1)
  PROVE  Added(s, Append(ps, e), h + 1)
<1> SUFFICES ASSUME NEW w \in Nat \ {0}, Even(s, w)
             PROVE  Sum(LensOf(Append(ps, e), w)) = Upto(s, w, (h + 1) + 1)
  BY DEF Added
<1> DEFINE ns == LensOf(ps, w)
           x == IF e.w = w THEN Size(e.seg) ELSE 0
           k == h + 1
<1>1. LensOf(Append(ps, e), w) = Append(ns, x)
  BY LensAppend
<1>2. ns \in Seq(Int) /\ Sum(ns) \in Int /\ x \in Int
  <2>1. Size(e.seg) \in Nat
    BY SizeType
  <2> QED BY <2>1, LensType
<1>3. Sum(ns) = Upto(s, w, k) /\ k \in Nat \ {0} /\ e.w = s[k].w
  BY DEF Added
<1>4. e.w = w => x = s[k].dlength /\ s[k].off = Upto(s, w, k)
  OBVIOUS
<1>5. e.w # w => x = 0
  OBVIOUS
<1> HIDE DEF ns, x, k
<1>6. Sum(Append(ns, x)) = Sum(ns) + x
  BY <1>2, SumAppend
<1>7. Upto(s, w, k + 1) = Sum(ns) + x
  <2>1. CASE e.w = w
    <3>1. Upto(s, w, k + 1) = EndsAt(s[k])
      BY <1>3, <2>1, UptoNext
    <3> QED BY <1>3, <1>4, <2>1, <3>1 DEF EndsAt
  <2>2. CASE e.w # w
    <3>1. Upto(s, w, k + 1) = Upto(s, w, k)
      BY <1>3, <2>2, UptoNext
    <3> QED BY <1>2, <1>3, <1>5, <2>2, <3>1
  <2> QED BY <2>1, <2>2
<1> QED BY <1>1, <1>6, <1>7 DEF k

LEMMA AddedNothing ==
  ASSUME NEW s, NEW ps, NEW h \in Nat, Added(s, ps, h),
         s[h + 1].w # 0 /\ Even(s, s[h + 1].w) => EndsAt(s[h + 1]) = Upto(s, s[h + 1].w, h + 1)
  PROVE  Added(s, ps, h + 1)
<1> SUFFICES ASSUME NEW w \in Nat \ {0}, Even(s, w)
             PROVE  Sum(LensOf(ps, w)) = Upto(s, w, (h + 1) + 1)
  BY DEF Added
<1> DEFINE k == h + 1
<1>1. /\ Sum(LensOf(ps, w)) = Upto(s, w, k) /\ k \in Nat \ {0}
      /\ s[k].w # 0 /\ Even(s, s[k].w) => EndsAt(s[k]) = Upto(s, s[k].w, k)
  BY DEF Added
<1> HIDE DEF k
<1>2. Upto(s, w, k + 1) = Upto(s, w, k)
  <2>1. CASE s[k].w = w
    BY <1>1, <2>1, UptoNext
  <2>2. CASE s[k].w # w
    BY <1>1, <2>2, UptoNext
  <2> QED BY <2>1, <2>2
<1> QED BY <1>1, <1>2 DEF k
(* More PDUs, WRITEs, buffers and received cells change nothing of it.     *)
LEMMA EvenBefore ==
  ASSUME NEW s \in Seq(Pdus), NEW u, u = s \/ \E q \in Pdus : u = Append(s, q), NEW w, Even(u, w)
  PROVE  Even(s, w)
<1>1. Len(s) \in Nat /\ Len(u) \in Nat /\ Len(s) <= Len(u) /\ \A k \in 1 .. Len(s) : u[k] = s[k]
  OBVIOUS
<1> SUFFICES ASSUME NEW k \in 1 .. Len(s), s[k].w = w PROVE s[k].dlength % Unit = 0
  BY DEF Even
<1>2. k \in 1 .. Len(u) /\ u[k] = s[k]
  BY <1>1
<1> QED BY <1>2 DEF Even

LEMMA PartsGrow ==
  ASSUME NEW s \in Seq(Pdus), NEW u, u = s \/ \E q \in Pdus : u = Append(s, q), NEW ws, NEW vs, Longer(ws, vs),
         Len(ws) \in Nat, Len(vs) \in Nat, NEW n \in Nat, NEW m \in Nat, n <= m,
         NEW tk \in Nat, NEW uk \in Nat, tk <= uk, NEW ps, Parts(s, ws, ps, n, tk)
  PROVE  Parts(u, vs, ps, m, uk)
<1>1. Len(s) \in Nat /\ Len(u) \in Nat /\ Len(s) <= Len(u) /\ \A k \in 1 .. Len(s) : u[k] = s[k]
  OBVIOUS
<1> SUFFICES ASSUME NEW i \in 1 .. Len(ps), ps[i].w # 0, Even(u, ps[i].w)
             PROVE  PartAt(u, vs, ps[i], Before(LensOf(ps, ps[i].w), i), m, uk)
  BY DEF Parts
<1> DEFINE p == ps[i]
           off == Before(LensOf(ps, ps[i].w), i)
<1>2. PartAt(s, ws, p, off, n, tk)
  <2>1. Even(s, ps[i].w)
    BY EvenBefore
  <2> QED BY <2>1 DEF Parts
<1> HIDE DEF p, off
<1>3. p.w \in 1 .. Len(ws) /\ Size(p.seg) \in Nat \ {0} /\ p.seg.lba = ws[p.w].lba + OFFSET2LBA(off)
  BY <1>2 DEF PartAt
<1>4. PICK k \in 1 .. Len(s) : PartOf(s, p, off, n, tk, k)
  BY <1>2 DEF PartAt
<1>5. u[k] = s[k] /\ k \in 1 .. Len(u)
  <2>1. k \in 1 .. Len(u)
    BY <1>1
  <2>2. u[k] = s[k]
    BY <1>1, Zenon
  <2> QED BY <2>1, <2>2
<1>6. s[k].w = p.w /\ s[k].off = off /\ s[k].dlength = Size(p.seg) /\ Located(p.seg, n, s[k].at + HEADER, tk)
  BY <1>4 DEF PartOf
<1>7. s[k].at + HEADER \in Nat
  <2>1. s[k] \in Pdus /\ HEADER \in Nat
    BY Sizes
  <2>2. s[k].at \in Nat
    BY <2>1 DEF Pdus
  <2> QED BY <2>1, <2>2
<1>8. Located(p.seg, m, s[k].at + HEADER, uk)
  <2> DEFINE from == s[k].at + HEADER
  <2>1. from \in Nat /\ Size(p.seg) \in Nat /\ Located(p.seg, n, from, tk)
    BY <1>3, <1>6, <1>7
  <2> HIDE DEF from
  <2>2. Located(p.seg, m, from, uk)
    BY <2>1, LocatedKeeps
  <2> QED BY <2>2 DEF from
<1>9. PartOf(u, p, off, m, uk, k)
  BY <1>5, <1>6, <1>8 DEF PartOf
<1>10. p.w \in 1 .. Len(vs) /\ vs[p.w].lba = ws[p.w].lba
  BY <1>3 DEF Longer
<1>11. PartAt(u, vs, p, off, m, uk)
  BY <1>3, <1>5, <1>9, <1>10 DEF PartAt
<1> QED BY <1>11 DEF p, off

LEMMA AddedGrow ==
  ASSUME NEW s \in Seq(Pdus), NEW u, u = s \/ \E q \in Pdus : u = Append(s, q), NEW ps,
         NEW h \in 0 .. Len(s), Added(s, ps, h)
  PROVE  Added(u, ps, h)
<1> SUFFICES ASSUME NEW w \in Nat \ {0}, Even(u, w) PROVE Upto(u, w, h + 1) = Upto(s, w, h + 1)
  BY EvenBefore DEF Added
<1>1. CASE u = s
  BY <1>1
<1>2. CASE u # s
  <2>1. PICK q \in Pdus : u = Append(s, q)
    BY <1>2
  <2> DEFINE k == h + 1
  <2>2. k \in 1 .. (Len(s) + 1)
    OBVIOUS
  <2> HIDE DEF k
  <2>3. Upto(Append(s, q), w, k) = Upto(s, w, k)
    BY <2>2, MineAppend
  <2> QED BY <2>1, <2>3 DEF k
<1> QED BY <1>1, <1>2

Data ==
  /\ Parts(stream, writes, pushed, Len(mem), taken)
  /\ session = "up" => Added(stream, pushed, Handled)

(* A token that is worked on is on the tape.                               *)
LEMMA HeadPlaced ==
  ASSUME Typed, Receiving, Following, TokensAt, bhss # << >>, Head(bhss).pdu = Handled + 1
  PROVE  /\ Req \in Pdus /\ TokenAt(Head(bhss), Req, Len(mem)) /\ Len(mem) \in Nat /\ taken \in Nat
         /\ Req.at + GetPDULength(Req) <= taken
<1>1. /\ stream \in Seq(Pdus) /\ Laid(stream)
      /\ Parsed \in 0 .. Len(stream) /\ Ends(stream, Parsed) = Pos
      /\ Handled \in Nat /\ Parsed = Handled + Len(bhss) /\ Len(bhss) \in Nat
  BY ParsedFacts
<1>2. bhss \in Seq(TokenSet) /\ 1 \in DOMAIN bhss /\ Head(bhss) = bhss[1] /\ Len(bhss) >= 1
  BY DEF Typed, Tokened
<1>3. TokenAt(Head(bhss), Req, Len(mem))
  BY <1>2 DEF TokensAt, Req
<1>4. Req \in Pdus
  BY ReqType
<1>5. Pos \in Nat /\ Pos <= taken /\ taken \in Nat /\ Len(mem) \in Nat
  BY GeometryFacts DEF Receiving
<1>6. Req.at + GetPDULength(Req) <= Pos
  <2> DEFINE k == Handled + 1
             e == Parsed
  <2>1. k \in 0 .. Len(stream) /\ k # 0 /\ e \in 0 .. Len(stream) /\ k <= e
    BY <1>1, <1>2
  <2>2. Req = stream[k]
    BY DEF Req
  <2> HIDE DEF k, e
  <2>3. Ends(stream, k) <= Ends(stream, e)
    BY <1>1, <2>1, EndsMonotone
  <2>4. Ends(stream, k) = Req.at + GetPDULength(Req)
    BY <2>1, <2>2 DEF Ends
  <2> QED BY <1>1, <2>3, <2>4 DEF e
<1>7. Req.at + GetPDULength(Req) \in Int
  <2>1. Req.at \in Nat /\ Req.dlength \in Nat /\ HEADER \in Nat
    BY <1>4, Parameters, Sizes DEF Pdus
  <2> QED BY <2>1 DEF GetPDULength
<1> QED BY <1>3, <1>4, <1>5, <1>6, <1>7

LEMMA WorkData ==
  ASSUME Typed, Typed', Receiving, Following, TokensAt, Books, Lists, Data, session = "up", Handled' = Handled + 1,
         bhss # << >>, Head(bhss).pdu = Handled + 1, Handled + 1 \in DOMAIN stream, Work
  PROVE  Data'
<1>1. /\ UNCHANGED <<stream, taken, mem, ivars, modes>> /\ Outcome
  BY WorkCases
<1>2. UNCHANGED <<stream, taken, mem, writes>>
  BY <1>1 DEF ivars
<1> DEFINE n == Len(mem)
           h == Handled
<1>3. /\ Parts(stream, writes, pushed, n, taken) /\ Added(stream, pushed, h) /\ h \in Nat
      /\ Req = stream[h + 1] /\ h + 1 \in 1 .. Len(stream) /\ Req \in Pdus
  <2>1. DOMAIN stream = 1 .. Len(stream)
    BY DEF Typed, Streams
  <2>2. Req \in Pdus
    BY <2>1 DEF Req, Typed, Streams
  <2> QED BY <2>1, <2>2 DEF Data, Following, Req
<1>4. SUFFICES /\ Parts(stream, writes, pushed', n, taken)
               /\ session' = "up" => Added(stream, pushed', h + 1)
  BY <1>2 DEF Data
<1> HIDE DEF n, h
<1>5. PICK S : pushed \in Seq(S)
  BY DEF Lists
<1>6. Sized(pushed)
  BY <1>5 DEF Lists, Sized
<1>7. Even(stream, Req.w) => Req.dlength % Unit = 0
  BY <1>3 DEF Even
<1>8. CASE Req.w = 0
  <2>1. CASE pushed' = pushed
    <3>1. Added(stream, pushed, h + 1)
      BY <1>3, <1>8, AddedNothing
    <3> QED BY <1>3, <2>1, <3>1
  <2>2. CASE pushed' # pushed
    <3>1. PICK e : e.w = Req.w /\ e.seg.len \in Nat /\ pushed' = Append(pushed, e)
      BY <1>1, <1>3, <2>2, PushedIs
    <3> DEFINE T == S \cup {e}
    <3>2. pushed \in Seq(T) /\ e \in T /\ e.w = 0 /\ e.w = stream[h + 1].w
      BY <1>3, <1>5, <1>8, <3>1
    <3> HIDE DEF T
    <3>3. Parts(stream, writes, Append(pushed, e), n, taken)
      BY <1>3, <1>6, <3>1, <3>2, PartsAppend
    <3>4. Added(stream, Append(pushed, e), h + 1)
      BY <1>3, <1>6, <3>1, <3>2, AddedAppend
    <3> QED BY <3>1, <3>3, <3>4
  <2> QED BY <2>1, <2>2
<1>9. CASE Req.w # 0
  <2>1. Due
    BY <1>1, <1>3, <1>9 DEF Due, h
  <2>2. /\ Turn(stream, h, Req, Req.w, Its, wire \o sendtask, recvinfo, initialR2T, immediateEnabled)
        /\ Req.off \in Nat /\ Req.dlength \in Nat /\ Its.lba \in Nat
        /\ EndsAt(Req) = Req.off + Req.dlength
    BY <2>1, DueFacts DEF h
  <2>3. Req.off = Upto(stream, Req.w, h + 1)
    BY <2>2 DEF Turn, GoodPdu
  <2>4. CASE pushed' = pushed /\ (session' = "down" \/ Req.dlength = 0 \/ Req.dlength % Unit # 0)
    <3>1. Req.dlength = 0 => EndsAt(Req) = Req.off
      BY <2>2
    <3>2. session' = "up" => Added(stream, pushed, h + 1)
      BY <1>3, <1>7, <2>3, <2>4, <3>1, AddedNothing
    <3> QED BY <1>3, <2>4, <3>2
  <2>5. CASE pushed' = Append(pushed, PartOfIt) /\ IsCut(Req)
    <3> DEFINE e == PartOfIt
               T == S \cup {e}
               lba == Its.lba + OFFSET2LBA(Req.off)
    <3>1. e.w = Req.w /\ e.seg = Cut(Req, lba)
      BY DEF PartOfIt
    <3>2. /\ TokenAt(Head(bhss), Req, n) /\ n \in Nat /\ taken \in Nat
          /\ Req.at + GetPDULength(Req) <= taken
      BY HeadPlaced DEF n
    <3> HIDE DEF lba
    <3>3. /\ e.seg.len \in Nat /\ Size(e.seg) = Req.dlength /\ e.seg.lba = lba
          /\ Located(e.seg, n, Req.at + HEADER, taken)
      <4>1. /\ Cut(Req, lba).len \in Nat /\ Size(Cut(Req, lba)) = Req.dlength /\ Cut(Req, lba).lba = lba
            /\ Located(Cut(Req, lba), n, Req.at + HEADER, taken)
        BY <1>3, <2>5, <3>2, SegmentPlaced
      <4> QED BY <3>1, <4>1
    <3>4. pushed \in Seq(T) /\ e \in T
      BY <1>5
    <3> HIDE DEF e, T
    <3>5. PartOf(stream, e, Req.off, n, taken, h + 1)
      BY <1>3, <3>1, <3>3 DEF PartOf
    <3>6. e.w \in 1 .. Len(writes) /\ Size(e.seg) \in Nat \ {0} /\ writes[e.w].lba = Its.lba
      <4>1. Req.w \in 1 .. Len(writes)
        <5>1. SoundPdus(stream, writes, bad, initialR2T, immediateEnabled)
          BY DEF Books, Tracks
        <5> QED BY <1>3, <1>9, <5>1 DEF SoundPdus
      <4>2. Req.dlength > 0
        BY <2>2, <2>5, CutIs
      <4> QED BY <2>2, <3>1, <3>3, <4>1, <4>2 DEF Its
    <3>7. PartAt(stream, writes, e, Req.off, n, taken)
      <4>1. e.seg.lba = writes[e.w].lba + OFFSET2LBA(Req.off)
        BY <3>3, <3>6 DEF lba
      <4> QED BY <1>3, <3>5, <3>6, <4>1 DEF PartAt
    <3>8. Even(stream, e.w) => Sum(LensOf(pushed, e.w)) = Req.off
      <4>1. e.w \in Nat \ {0}
        <5>1. Req.w \in Nat
          BY <1>3 DEF Pdus
        <5> QED BY <1>9, <3>1, <5>1
      <4> QED BY <1>3, <2>3, <3>1, <4>1 DEF Added
    <3>9. e.w # 0 /\ Even(stream, e.w) => PartAt(stream, writes, e, Sum(LensOf(pushed, e.w)), n, taken)
      BY <3>7, <3>8
    <3>10. Parts(stream, writes, Append(pushed, e), n, taken)
      BY <1>3, <1>6, <3>3, <3>4, <3>9, PartsAppend
    <3>11. e.w = stream[h + 1].w /\ Size(e.seg) = stream[h + 1].dlength /\ stream[h + 1].off = Upto(stream, e.w, h + 1)
      BY <1>3, <2>3, <3>1, <3>3
    <3>12. Added(stream, Append(pushed, e), h + 1)
      BY <1>3, <1>6, <3>3, <3>4, <3>11, AddedAppend
    <3> QED BY <2>5, <3>10, <3>12 DEF e
  <2> QED BY <1>1, <2>1, <2>4, <2>5, DuePushed
<1> QED BY <1>8, <1>9

(* No two PDUs of a WRITE hold the same block.                             *)
Ordered(s) ==
  \A k, l \in 1 .. Len(s) : k < l /\ s[k].w = s[l].w /\ s[k].w # 0 => EndsAt(s[k]) <= s[l].off

LEMMA SoundOrdered ==
  ASSUME NEW s \in Seq(Pdus), NEW ws, NEW b, NEW r2t, NEW imm, SoundPdus(s, ws, b, r2t, imm)
  PROVE  Ordered(s)
<1>1. \A k \in 1 .. Len(s) : /\ s[k].off \in Nat /\ s[k].dlength \in Nat /\ EndsAt(s[k]) \in Nat
                             /\ s[k].off <= EndsAt(s[k])
  <2> TAKE k \in 1 .. Len(s)
  <2> DEFINE q == s[k]
  <2>1. q \in Pdus
    OBVIOUS
  <2> HIDE DEF q
  <2>2. q.off \in Nat /\ q.dlength \in Nat
    BY <2>1, Parameters DEF Pdus
  <2>3. EndsAt(q) \in Nat /\ q.off <= EndsAt(q)
    BY <2>2 DEF EndsAt
  <2> QED BY <2>2, <2>3 DEF q
<1>2. \A k \in 1 .. Len(s) : s[k].w # 0 => s[k].off = Upto(s, s[k].w, k)
  BY DEF SoundPdus, GoodPdu
<1>3. ASSUME NEW w, w # 0
      PROVE  \A l \in 1 .. (Len(s) + 1) : \A k \in 1 .. (l - 1) : s[k].w = w => EndsAt(s[k]) <= Upto(s, w, l)
  <2> DEFINE G == {m \in 0 .. Len(s) : \A k \in 1 .. m : s[k].w = w => EndsAt(s[k]) <= Upto(s, w, m + 1)}
  <2>1. Len(s) \in Nat
    OBVIOUS
  <2>2. 0 \in G
    BY <2>1
  <2>3. ASSUME NEW m \in 1 .. Len(s), m - 1 \in G PROVE m \in G
    <3>1. m \in Nat \ {0} /\ (m - 1) + 1 = m /\ m \in 0 .. Len(s) /\ Upto(s, w, m) \in Nat
      BY <2>1, UptoType
    <3>2. \A k \in 1 .. (m - 1) : s[k].w = w => EndsAt(s[k]) <= Upto(s, w, m)
      BY <2>3, <3>1
    <3>3. Upto(s, w, m + 1) \in Nat /\ Upto(s, w, m) <= Upto(s, w, m + 1)
      <4>1. CASE s[m].w = w
        <5>1. Upto(s, w, m + 1) = EndsAt(s[m])
          BY <3>1, <4>1, UptoNext
        <5> QED BY <1>1, <1>2, <1>3, <4>1, <5>1
      <4>2. CASE s[m].w # w
        <5>1. Upto(s, w, m + 1) = Upto(s, w, m)
          BY <3>1, <4>2, UptoNext
        <5> QED BY <3>1, <5>1
      <4> QED BY <4>1, <4>2
    <3>4. ASSUME NEW k \in 1 .. m, s[k].w = w PROVE EndsAt(s[k]) <= Upto(s, w, m + 1)
      <4>1. CASE k = m
        <5>1. Upto(s, w, m + 1) = EndsAt(s[m])
          BY <3>1, <3>4, <4>1, UptoNext
        <5> QED BY <1>1, <4>1, <5>1
      <4>2. CASE k # m
        <5>1. k \in 1 .. (m - 1) /\ k \in 1 .. Len(s)
          BY <4>2
        <5>2. EndsAt(s[k]) <= Upto(s, w, m) /\ EndsAt(s[k]) \in Nat
          BY <1>1, <3>2, <3>4, <5>1
        <5> QED BY <3>1, <3>3, <5>2
      <4> QED BY <4>1, <4>2
    <3> QED BY <3>1, <3>4
  <2>4. \A m \in 0 .. Len(s) : m \in G
    <3> HIDE DEF G
    <3> QED BY <2>1, <2>2, <2>3, Induct
  <2>5. ASSUME NEW l \in 1 .. (Len(s) + 1), NEW k \in 1 .. (l - 1), s[k].w = w PROVE EndsAt(s[k]) <= Upto(s, w, l)
    <3> DEFINE m == l - 1
    <3>1. m \in 0 .. Len(s) /\ m + 1 = l /\ k \in 1 .. m
      BY <2>1
    <3> HIDE DEF m
    <3>2. EndsAt(s[k]) <= Upto(s, w, m + 1)
      BY <2>4, <2>5, <3>1
    <3> QED BY <3>1, <3>2
  <2> QED BY <2>5
<1>4. ASSUME NEW k \in 1 .. Len(s), NEW l \in 1 .. Len(s), k < l, s[k].w = s[l].w, s[k].w # 0
      PROVE  EndsAt(s[k]) <= s[l].off
  <2>1. l \in 1 .. (Len(s) + 1) /\ k \in 1 .. (l - 1)
    BY <1>4
  <2>2. EndsAt(s[k]) <= Upto(s, s[l].w, l)
    BY <1>3, <1>4, <2>1
  <2> QED BY <1>2, <1>4, <2>2
<1> QED BY <1>4 DEF Ordered

(* A WRITE that is answered has nothing on the way, and the cache was      *)
(* given all of it, if it came in whole blocks.                            *)
Complete ==
  \A w \in 1 .. Len(writes) : Answered(w) /\ Even(stream, w) => Sum(LensOf(pushed, w)) = writes[w].len
Apart == Ordered(stream)

LEMMA AnsweredSettled ==
  ASSUME Typed, Books, NEW w \in 1 .. Len(writes), Answered(w)
  PROVE  Settled(stream, w, Handled) /\ writes[w].sent = writes[w].len
<1> DEFINE rs == wire \o sendtask
<1>1. wire \in Seq(ReplySet) /\ sendtask \in Seq(ReplySet)
  BY DEF Typed, Asking, Pendings
<1>2. /\ Closed(stream, writes, Handled) /\ Distinct(writes) /\ Clean(stream, writes)
      /\ Replying(stream, writes, rs, recvinfo, Handled)
  BY DEF Books, Tracks, Tasks
<1>3. CASE writes[w].done
  BY <1>2, <1>3 DEF Closed
<1>4. CASE ~writes[w].done
  <2>1. \E i \in DOMAIN rs : rs[i].op = "RSP" /\ rs[i].itt = writes[w].itt
    <3>1. CASE \E i \in DOMAIN wire : wire[i].op = "RSP" /\ wire[i].itt = writes[w].itt
      <4>1. PICK i \in DOMAIN wire : wire[i].op = "RSP" /\ wire[i].itt = writes[w].itt
        BY <3>1
      <4>2. i \in DOMAIN rs /\ rs[i] = wire[i]
        BY <1>1
      <4> QED BY <4>1, <4>2
    <3>2. CASE \E i \in DOMAIN sendtask : sendtask[i].op = "RSP" /\ sendtask[i].itt = writes[w].itt
      <4>1. PICK i \in DOMAIN sendtask : sendtask[i].op = "RSP" /\ sendtask[i].itt = writes[w].itt
        BY <3>2
      <4> DEFINE j == Len(wire) + i
      <4>2. j \in DOMAIN rs /\ rs[j] = sendtask[i]
        BY <1>1
      <4> QED BY <4>1, <4>2
    <3> QED BY <1>4, <3>1, <3>2 DEF Answered
  <2> HIDE DEF rs
  <2>2. PICK i \in DOMAIN rs : rs[i].op = "RSP" /\ rs[i].itt = writes[w].itt
    BY <2>1
  <2>3. rs[i].itt \notin SpoiledIn(stream)
    BY <1>2, <1>4, <2>2 DEF Clean
  <2>4. PICK v \in 1 .. Len(writes) : ReplyTo(stream, writes, Handled, rs[i], v)
    BY <1>2, <2>3 DEF Replying
  <2>5. v = w
    BY <1>2, <1>4, <2>2, <2>4 DEF ReplyTo, Distinct
  <2> QED BY <2>2, <2>4, <2>5 DEF ReplyTo
<1> QED BY <1>3, <1>4

Up == session = "up"

LEMMA BooksComplete ==
  ASSUME Typed, Following, Books, Data, Up
  PROVE  Complete
<1> SUFFICES ASSUME NEW w \in 1 .. Len(writes), Answered(w), Even(stream, w)
             PROVE  Sum(LensOf(pushed, w)) = writes[w].len
  BY DEF Complete
<1> DEFINE h == Handled
<1>1. stream \in Seq(Pdus) /\ h \in 0 .. Len(stream) /\ w \in Nat \ {0}
  <2>1. stream \in Seq(Pdus) /\ Handled \in Nat /\ Handled <= Len(stream)
    BY ParsedFacts
  <2> QED BY <2>1
<1>2. Settled(stream, w, h) /\ writes[w].sent = writes[w].len
  BY AnsweredSettled
<1>3. writes[w].sent = Upto(stream, w, Len(stream) + 1)
  BY DEF Books, Tracks, Totals
<1>4. Sum(LensOf(pushed, w)) = Upto(stream, w, h + 1)
  BY <1>1 DEF Data, Added, Up
<1> HIDE DEF h
<1>5. Upto(stream, w, Len(stream) + 1) = Upto(stream, w, h + 1)
  BY <1>1, <1>2, UptoSettled
<1> QED BY <1>2, <1>3, <1>4, <1>5

LEMMA BooksApart ==
  ASSUME Typed, Books
  PROVE  Apart
<1>1. stream \in Seq(Pdus) /\ SoundPdus(stream, writes, bad, initialR2T, immediateEnabled)
  BY DEF Typed, Streams, Books, Tracks
<1> QED BY <1>1, SoundOrdered DEF Apart

(* The PDU that holds a block of a WRITE is the only one that does.        *)
LEMMA MeantIs ==
  ASSUME stream \in Seq(Pdus), Apart, NEW k \in 1 .. Len(stream), NEW w \in Nat \ {0}, stream[k].w = w,
         NEW j \in Nat, stream[k].off <= j, j < EndsAt(stream[k])
  PROVE  Meant(w, j) = stream[k].at + HEADER + 1 + j - stream[k].off
<1> DEFINE R == Range(stream)
           Of(q) == q.w = w /\ j \in q.off .. (q.off + q.dlength - 1)
<1>1. R = {stream[l] : l \in 1 .. Len(stream)}
  BY DEF Range
<1>2. ASSUME NEW q \in Pdus
      PROVE  /\ q.off \in Nat /\ q.dlength \in Nat /\ EndsAt(q) \in Nat
             /\ j \in q.off .. (q.off + q.dlength - 1) <=> q.off <= j /\ j < EndsAt(q)
  <2>1. q.off \in Nat /\ q.dlength \in Nat
    BY Parameters DEF Pdus
  <2> QED BY <2>1 DEF EndsAt
<1>3. \A l \in 1 .. Len(stream) : stream[l] \in Pdus
  OBVIOUS
<1>4. stream[k] \in R /\ Of(stream[k])
  BY <1>1, <1>2, <1>3
<1>5. ASSUME NEW q \in R, Of(q) PROVE q = stream[k]
  <2>1. PICK l \in 1 .. Len(stream) : q = stream[l]
    BY <1>1
  <2>2. q.off <= j /\ j < EndsAt(q) /\ q.w = w
    BY <1>2, <1>3, <1>5, <2>1
  <2>3. /\ q.off \in Nat /\ EndsAt(q) \in Nat
        /\ stream[k].off \in Nat /\ EndsAt(stream[k]) \in Nat
    BY <1>2, <1>3, <2>1
  <2>4. ~(k < l)
    <3> SUFFICES ASSUME k < l PROVE FALSE
      OBVIOUS
    <3>1. EndsAt(stream[k]) <= q.off
      BY <2>1, <2>2 DEF Apart, Ordered
    <3> QED BY <2>2, <2>3, <3>1
  <2>5. ~(l < k)
    <3> SUFFICES ASSUME l < k PROVE FALSE
      OBVIOUS
    <3>1. EndsAt(q) <= stream[k].off
      BY <2>1, <2>2 DEF Apart, Ordered
    <3> QED BY <2>2, <2>3, <3>1
  <2>6. k = l
    BY <2>4, <2>5
  <2> QED BY <2>1, <2>6
<1> DEFINE p == CHOOSE q \in R : Of(q)
<1>6. p \in R /\ Of(p)
  <2> HIDE DEF R, Of
  <2> QED BY <1>4, Zenon
<1>7. p = stream[k]
  <2> HIDE DEF p
  <2> QED BY <1>5, <1>6
<1>8. Meant(w, j) = p.at + HEADER + 1 + j - p.off
  BY DEF Meant
<1> HIDE DEF p
<1> QED BY <1>7, <1>8
(* What was given of an answered WRITE is what the property asks for.      *)
LEMMA PartsWhole ==
  ASSUME Typed, Receiving, Lists, Apart, Complete, Data
  PROVE  Whole
<1>1. /\ stream \in Seq(Pdus) /\ Linear /\ writes \in Seq(WriteSet) /\ DOMAIN writes = 1 .. Len(writes)
      /\ Parts(stream, writes, pushed, Len(mem), taken)
  BY DEF Typed, Streams, Asking, Receiving, Data
<1>2. PICK S : pushed \in Seq(S)
  BY DEF Lists
<1>3. DOMAIN pushed = 1 .. Len(pushed) /\ Len(pushed) \in Nat /\ Sized(pushed)
  BY <1>1 DEF Lists, Sized
<1> SUFFICES ASSUME NEW w \in DOMAIN writes, Answered(w), InBlocks(w)
             PROVE  /\ Sum(LensOf(pushed, w)) = writes[w].len
                    /\ \A s \in DOMAIN pushed : pushed[s].w = w =>
                         /\ pushed[s].seg.lba = writes[w].lba + OFFSET2LBA(Before(LensOf(pushed, w), s))
                         /\ \A i \in 1 .. LensOf(pushed, w)[s] :
                              SegmentCell(pushed[s].seg, i) = Meant(w, Before(LensOf(pushed, w), s) + i - 1)
  BY DEF Whole, LensOf, Size
<1>4. w \in 1 .. Len(writes) /\ w \in Nat \ {0} /\ Even(stream, w)
  <2>1. \A k \in 1 .. Len(stream) : stream[k] \in Range(stream)
    BY <1>1 DEF Range
  <2>2. Even(stream, w)
    BY <2>1 DEF Even, InBlocks
  <2> QED BY <1>1, <2>2
<1>5. Sum(LensOf(pushed, w)) = writes[w].len
  BY <1>4 DEF Complete
<1>6. ASSUME NEW s \in DOMAIN pushed, pushed[s].w = w
      PROVE  /\ pushed[s].seg.lba = writes[w].lba + OFFSET2LBA(Before(LensOf(pushed, w), s))
             /\ \A i \in 1 .. LensOf(pushed, w)[s] :
                  SegmentCell(pushed[s].seg, i) = Meant(w, Before(LensOf(pushed, w), s) + i - 1)
  <2> DEFINE p == pushed[s]
             off == Before(LensOf(pushed, w), s)
             seg == p.seg
  <2>1. PartAt(stream, writes, p, off, Len(mem), taken)
    BY <1>1, <1>3, <1>4, <1>6 DEF Parts
  <2>2. LensOf(pushed, w)[s] = Size(seg) /\ p.w = w
    BY <1>6 DEF LensOf
  <2> HIDE DEF p, off
  <2>3. seg.lba = writes[w].lba + OFFSET2LBA(off) /\ Size(seg) \in Nat \ {0}
    BY <2>1, <2>2 DEF PartAt
  <2>4. PICK k \in 1 .. Len(stream) : PartOf(stream, p, off, Len(mem), taken, k)
    BY <2>1 DEF PartAt
  <2> DEFINE q == stream[k]
             from == q.at + HEADER
  <2>5. q.w = w /\ q.off = off /\ q.dlength = Size(seg) /\ Located(seg, Len(mem), from, taken)
    BY <2>2, <2>4 DEF PartOf
  <2>6. q \in Pdus
    BY <1>1
  <2>7. q.at \in Nat /\ q.off \in Nat /\ HEADER \in Nat
    <3> HIDE DEF q
    <3> QED BY <2>6, Parameters, Sizes DEF Pdus
  <2> HIDE DEF seg
  <2>8. ASSUME NEW i \in 1 .. Size(seg)
        PROVE  SegmentCell(seg, i) = Meant(w, off + i - 1)
    <3>1. i \in Nat /\ i >= 1 /\ from \in Nat
      BY <2>3, <2>7
    <3>2. SegmentCell(seg, i) = from + i
      <4> HIDE DEF from
      <4> QED BY <1>1, <2>5, <3>1, LocatedCell
    <3> DEFINE j == off + i - 1
    <3>3. j \in Nat /\ q.off <= j /\ j < EndsAt(q)
      <4>1. EndsAt(q) = off + Size(seg) /\ off \in Nat
        BY <2>5, <2>7 DEF EndsAt
      <4> HIDE DEF q
      <4> QED BY <2>3, <2>5, <3>1, <4>1
    <3>4. j - q.off = i - 1 /\ j \in Int
      <4> HIDE DEF q
      <4> QED BY <2>5, <2>7, <3>1
    <3> HIDE DEF j
    <3>5. Meant(w, j) = q.at + HEADER + 1 + j - q.off
      BY <1>1, <1>4, <2>5, <3>3, MeantIs
    <3>6. Meant(w, j) = from + i
      <4>1. from = q.at + HEADER
        OBVIOUS
      <4> HIDE DEF q, from
      <4> QED BY <2>7, <3>1, <3>4, <3>5, <4>1
    <3> QED BY <3>2, <3>6 DEF j
  <2> QED BY <2>2, <2>3, <2>8 DEF p, off, seg
<1> QED BY <1>5, <1>6

-----------------------------------------------------------------------------
(* The inductive invariant for the data.                                   *)
DInv == WInv /\ TokensAt /\ Data /\ Apart /\ Complete

LEMMA DInvInit == Init /\ TwoIovecs => DInv
<1> SUFFICES ASSUME Init, TwoIovecs PROVE DInv
  OBVIOUS
<1>1. /\ WInv /\ stream = << >> /\ bhss = << >> /\ pushed = << >> /\ writes = << >>
  BY WInvInit DEF Init, TokenizerInit
<1>2. Typed /\ Following
  BY <1>1 DEF WInv, RInv
<1>3. TokensAt /\ Apart /\ Complete
  <2>1. DOMAIN bhss = {} /\ 1 .. Len(stream) = {} /\ 1 .. Len(writes) = {}
    BY <1>1
  <2> QED BY <2>1 DEF TokensAt, Apart, Ordered, Complete
<1>4. Handled = 0
  <2>1. Len(stream) = 0
    BY <1>1
  <2>2. Handled \in Nat /\ Handled <= Len(stream)
    BY <1>2, ParsedFacts
  <2> QED BY <2>1, <2>2
<1>5. Data
  <2>1. Parts(stream, writes, pushed, Len(mem), taken)
    <3>1. 1 .. Len(pushed) = {}
      BY <1>1
    <3> QED BY <3>1 DEF Parts
  <2>2. ASSUME NEW w \in Nat \ {0}
        PROVE  Sum(LensOf(pushed, w)) = Upto(stream, w, Handled + 1)
    <3> DEFINE ns == LensOf(pushed, w)
    <3>1. ns = << >>
      BY <1>1 DEF LensOf
    <3> HIDE DEF ns
    <3>2. ns \in Seq(Int) /\ Len(ns) = 0
      BY <3>1
    <3>3. Sum(ns) = 0
      BY <3>2, SumsSteps DEF Sum
    <3>4. Upto(stream, w, Handled + 1) = 0
      <4>1. 1 .. ((Handled + 1) - 1) = {}
        BY <1>4
      <4>2. Mine(stream, w, Handled + 1) = {}
        BY <4>1 DEF Mine
      <4> QED BY <4>2 DEF Upto
    <3> QED BY <3>3, <3>4 DEF ns
  <2> QED BY <2>1, <2>2 DEF Data, Added
<1> QED BY <1>1, <1>3, <1>5 DEF DInv

(* What the initiator sends is not worked on yet.                          *)
LEMMA HandledSame ==
  ASSUME Typed, Typed', Following, Following', UNCHANGED <<taken, offset, bhss>>,
         stream' = stream \/ \E q \in Pdus : stream' = Append(stream, q)
  PROVE  Handled' = Handled
<1> DEFINE p == Parsed
           u == stream'
<1>1. stream \in Seq(Pdus) /\ p \in 0 .. Len(stream) /\ Ends(stream, p) = Pos
  BY ParsedFacts
<1>2. u \in Seq(Pdus) /\ Laid(u) /\ \E m \in 0 .. Len(u) : Ends(u, m) = Pos'
  BY DEF Typed, Streams, Following
<1>3. Pos' = Pos /\ bhss' = bhss
  BY DEF Pos
<1>4. Parsed' = CHOOSE m \in 0 .. Len(u) : Ends(u, m) = Pos'
  BY DEF Parsed
<1> HIDE DEF p
<1>5. Len(stream) <= Len(u) /\ \A l \in 1 .. Len(stream) : u[l] = stream[l]
  BY <1>1
<1> HIDE DEF u
<1>6. p \in 0 .. Len(u) /\ Ends(u, p) = Ends(stream, p)
  <2>1. p \in 0 .. Len(u)
    BY <1>1, <1>2, <1>5
  <2>2. CASE p = 0
    BY <2>1, <2>2 DEF Ends
  <2>3. CASE p # 0
    <3>1. u[p] = stream[p]
      BY <1>1, <1>5, <2>3
    <3> QED BY <2>1, <2>3, <3>1 DEF Ends
  <2> QED BY <2>2, <2>3
<1> DEFINE r == CHOOSE m \in 0 .. Len(u) : Ends(u, m) = Pos'
<1>7. r \in 0 .. Len(u) /\ Ends(u, r) = Pos'
  BY <1>2, Zenon
<1> HIDE DEF r
<1>8. r = p
  BY <1>1, <1>2, <1>3, <1>6, <1>7, EndsUnique
<1>9. Parsed' = Parsed
  BY <1>4, <1>8 DEF r, p
<1> QED BY <1>3, <1>9 DEF Handled
LEMMA DInvServe ==
  ASSUME TwoIovecs, DInv, WInv', Initiator \/ Serve
  PROVE  DInv'
<1>1. /\ Typed /\ Typed' /\ Receiving /\ Following /\ Following' /\ Paused /\ TokensAt /\ Data
      /\ session = "up" => Books
  BY DEF DInv, WInv, RInv
<1>2. session = "up" /\ session' = "up"
  <2>1. session = "up"
    BY DEF Initiator, Serve, SendWrite, SendBadWrite, SendEndless, SendOverlong, SendBadData, Bad, SendData,
           TakeReply, Idle
  <2>2. session' = session
    BY <1>1, InitiatorKeeps DEF rvars
  <2> QED BY <2>1, <2>2
<1>3. Books'
  BY <1>2 DEF WInv
<1>4. UNCHANGED <<taken, mem, offset, bhss, pushed>>
  BY <1>1, InitiatorKeeps DEF rvars
<1>5. /\ stream' = stream \/ \E q \in Pdus : stream' = Append(stream, q)
      /\ Longer(writes, writes')
  BY <1>1, InitiatorGrows
<1>6. Handled' = Handled
  BY <1>1, <1>4, <1>5, HandledSame
<1>7. /\ stream \in Seq(Pdus) /\ Len(writes) \in Nat /\ Len(writes') \in Nat
      /\ Len(mem) \in Nat /\ taken \in Nat /\ Len(mem) <= Len(mem) /\ taken <= taken
  <2>1. Len(mem) \in Nat /\ taken \in Nat
    BY <1>1, GeometryFacts DEF Receiving
  <2>2. stream \in Seq(Pdus) /\ writes \in Seq(WriteSet) /\ writes' \in Seq(WriteSet)
    BY <1>1 DEF Typed, Streams, Asking
  <2> QED BY <2>1, <2>2
<1>8. Data'
  <2> DEFINE u == stream'
             vs == writes'
             n == Len(mem)
             h == Handled
  <2>1. /\ Parts(stream, writes, pushed, n, taken) /\ Added(stream, pushed, h)
        /\ h \in 0 .. Len(stream)
    <3>1. Handled \in Nat /\ Handled <= Len(stream)
      BY <1>1, ParsedFacts
    <3> QED BY <1>1, <1>2, <1>7, <3>1 DEF Data
  <2>2. SUFFICES Parts(u, vs, pushed, n, taken) /\ Added(u, pushed, h)
    BY <1>4, <1>6 DEF Data
  <2> HIDE DEF u, vs, n, h
  <2>3. /\ u = stream \/ \E q \in Pdus : u = Append(stream, q)
        /\ Longer(writes, vs) /\ Len(vs) \in Nat /\ n \in Nat /\ n <= n
    BY <1>5, <1>7 DEF u, vs, n
  <2>4. Parts(u, vs, pushed, n, taken)
    BY <1>7, <2>1, <2>3, PartsGrow
  <2>5. Added(u, pushed, h)
    BY <1>7, <2>1, <2>3, AddedGrow
  <2> QED BY <2>4, <2>5
<1>9. TokensAt'
  <2> SUFFICES ASSUME NEW i \in DOMAIN bhss'
               PROVE  TokenAt(bhss'[i], stream'[bhss'[i].pdu], Len(mem'))
    BY DEF TokensAt
  <2>1. i \in DOMAIN bhss /\ bhss[i].pdu \in 1 .. Len(stream) /\ bhss'[i] = bhss[i] /\ mem' = mem
    BY <1>1, <1>4, <1>7 DEF Typed, Tokened
  <2>2. \A k \in 1 .. Len(stream) : stream'[k] = stream[k]
    BY <1>5, <1>7
  <2>3. TokenAt(bhss[i], stream[bhss[i].pdu], Len(mem))
    BY <1>1, <2>1 DEF TokensAt
  <2> QED BY <2>1, <2>2, <2>3
<1>10. Complete'
  <2>1. Up'
    BY <1>2 DEF Up
  <2> QED BY <1>1, <1>3, <1>8, <2>1, BooksComplete, PTL
<1>11. Apart'
  BY <1>1, <1>3, BooksApart, PTL
<1> QED BY <1>8, <1>9, <1>10, <1>11 DEF DInv

LEMMA DInvTarget ==
  ASSUME TwoIovecs, DInv, WInv', Target
  PROVE  DInv'
<1>1. /\ Typed /\ Typed' /\ Receiving /\ Following /\ Following' /\ Paused /\ TokensAt /\ Data /\ Lists
      /\ session = "up" => Books
      /\ Apart /\ Complete
  BY DEF DInv, WInv, RInv
<1>2. Books
  BY <1>1 DEF Target, Receive, Parse, Work, Invoke, Idle
<1>3. session = "up"
  BY DEF Target, Receive, Parse, Work, Invoke, Idle
<1>4. /\ ~(Work /\ bhss # << >>) => Handled' = Handled
      /\ (Work /\ bhss # << >>) => /\ Handled' = Handled + 1 /\ Head(bhss).pdu = Handled + 1
                                   /\ Handled + 1 \in DOMAIN stream
  BY <1>1, TargetFollows
<1>5. TokensAt'
  BY <1>1, TokensKeep
<1>6. UNCHANGED <<stream, writes>>
  <2>1. CASE Receive
    BY <2>1 DEF Receive, Readv, ivars
  <2>2. CASE Parse
    BY <2>2 DEF Parse, PartialHead, ParsedHeader, ivars
  <2>3. CASE Work
    BY <1>1, <2>3, WorkCases DEF ivars
  <2>4. CASE Invoke
    BY <2>4 DEF Invoke, tvars
  <2> QED BY <2>1, <2>2, <2>3, <2>4 DEF Target
<1>7. Apart'
  BY <1>1, <1>6 DEF Apart
<1>8. Data'
  <2>1. CASE Work /\ bhss # << >>
    BY <1>1, <1>2, <1>3, <1>4, <2>1, WorkData
  <2>2. CASE ~(Work /\ bhss # << >>)
    <3>1. pushed' = pushed
      <4>1. CASE Receive
        BY <4>1 DEF Receive
      <4>2. CASE Parse
        BY <4>2 DEF Parse
      <4>3. CASE Work
        BY <1>1, <2>2, <4>3, WorkCases
      <4>4. CASE Invoke
        BY <4>4 DEF Invoke
      <4> QED BY <4>1, <4>2, <4>3, <4>4 DEF Target
    <3>2. Handled' = Handled
      BY <1>4, <2>2
    <3> DEFINE n == Len(mem)
               m == Len(mem')
               tk == taken
               uk == taken'
    <3>3. n \in Nat /\ m \in Nat /\ n <= m /\ tk \in Nat /\ uk \in Nat /\ tk <= uk
      BY <1>1, TargetGrows
    <3>4. Parts(stream, writes, pushed, n, tk) /\ Added(stream, pushed, Handled)
      BY <1>1, <1>3 DEF Data
    <3>5. SUFFICES Parts(stream, writes, pushed, m, uk)
      BY <1>6, <3>1, <3>2, <3>4 DEF Data
    <3> HIDE DEF n, m, tk, uk
    <3>6. stream \in Seq(Pdus) /\ Len(writes) \in Nat /\ Longer(writes, writes)
      BY <1>1 DEF Typed, Streams, Asking, Longer
    <3> QED BY <3>3, <3>4, <3>6, PartsGrow
  <2> QED BY <2>1, <2>2
<1>9. Complete'
  <2>1. CASE session' = "up"
    <3>1. Books'
      BY <2>1 DEF WInv
    <3>2. Up'
      BY <2>1 DEF Up
    <3> QED BY <1>1, <1>8, <3>1, <3>2, BooksComplete, PTL
  <2>2. CASE session' # "up"
    <3>1. Work /\ bhss # << >>
      <4>1. ~Receive /\ ~Parse /\ ~Invoke
        BY <1>3, <2>2 DEF Receive, Parse, Invoke
      <4>2. Work
        BY <4>1 DEF Target
      <4> QED BY <1>3, <2>2, <4>2 DEF Work
    <3>2. Outcome /\ UNCHANGED wire
      BY <1>1, <3>1, WorkCases DEF ivars
    <3>3. UNCHANGED sendtask
      <4>1. session' # session
        BY <1>3, <2>2
      <4> QED BY <3>2, <4>1 DEF Outcome, Refused, EndedEarly, AllAtOnce, Begun, Overrun, More, Finished, AskedAgain
    <3>4. SUFFICES ASSUME NEW w \in 1 .. Len(writes), Answered(w), Even(stream, w)
                   PROVE  Sum(LensOf(pushed', w)) = writes[w].len
      BY <1>6, <3>2, <3>3 DEF Complete, Answered
    <3>5. Sum(LensOf(pushed, w)) = writes[w].len
      BY <1>1, <3>4 DEF Complete
    <3> DEFINE h == Handled
               k == h + 1
    <3>6. stream \in Seq(Pdus) /\ h \in Nat /\ k \in 1 .. Len(stream) /\ Req = stream[k]
      BY <1>1, <1>4, <3>1, ParsedFacts DEF Req
    <3>7. Req.w # w
      <4>1. Settled(stream, w, h)
        BY <1>1, <1>2, <3>4, AnsweredSettled
      <4>2. k \in (h + 1) .. Len(stream)
        BY <3>6
      <4> QED BY <3>6, <4>1, <4>2 DEF Settled
    <3> HIDE DEF h, k
    <3>8. CASE pushed' = pushed
      BY <3>5, <3>8
    <3>9. CASE pushed' # pushed
      <4>1. PICK e : e.w = Req.w /\ e.seg.len \in Nat /\ pushed' = Append(pushed, e)
        BY <3>2, <3>6, <3>9, PushedIs
      <4>2. PICK S : pushed \in Seq(S)
        BY <1>1 DEF Lists
      <4> DEFINE T == S \cup {e}
                 ns == LensOf(pushed, w)
      <4>3. pushed \in Seq(T) /\ e \in T /\ Sized(pushed) /\ w # 0
        BY <1>1, <4>2 DEF Lists, Sized
      <4> HIDE DEF T
      <4>4. LensOf(pushed', w) = Append(ns, 0)
        BY <3>7, <4>1, <4>3, LensAppend
      <4>5. ns \in Seq(Int) /\ Sum(ns) \in Int
        BY <4>3, LensType
      <4> HIDE DEF ns
      <4>6. Sum(Append(ns, 0)) = Sum(ns) + 0
        BY <4>5, SumAppend
      <4>7. Sum(LensOf(pushed', w)) = Sum(ns)
        BY <4>4, <4>5, <4>6
      <4> QED BY <3>5, <4>7 DEF ns
    <3> QED BY <3>8, <3>9
  <2> QED BY <2>1, <2>2
<1> QED BY <1>5, <1>7, <1>8, <1>9 DEF DInv

LEMMA DInvKeeps ==
  ASSUME TwoIovecs, DInv, [Next]_vars
  PROVE  DInv'
<1>1. WInv /\ WInv'
  BY WInvKeeps DEF DInv
<1>2. CASE Initiator \/ Serve
  BY <1>1, <1>2, DInvServe
<1>3. CASE Target
  BY <1>1, <1>3, DInvTarget
<1>4. CASE UNCHANGED vars
  <2>1. UNCHANGED <<stream, taken, mem, offset, bhss, pushed, session, wire, sendtask, writes>>
    BY <1>4 DEF vars, tvars, rvars, ivars
  <2>2. Handled' = Handled
    BY <2>1 DEF Handled, Parsed, Pos
  <2>3. Data'
    BY <2>1, <2>2 DEF DInv, Data
  <2>4. TokensAt' /\ Apart'
    BY <2>1 DEF DInv, TokensAt, Apart
  <2>5. Complete'
    BY <2>1 DEF DInv, Complete, Answered
  <2> QED BY <1>1, <2>3, <2>4, <2>5 DEF DInv
<1> QED BY <1>2, <1>3, <1>4 DEF Next

(* Once the response to a WRITE(10) is queued whose PDUs all carry whole   *)
(* blocks, the write cache has been given each of its blocks once and in   *)
(* order by WriteHandler and DataOutHandler, and every cell of the         *)
(* segments, which share the common buffers with the receive side, holds   *)
(* what the initiator sent for it, then and ever after: readv() into the   *)
(* iovecs never reaches it.  (Data of a DataOut that is no whole number of *)
(* blocks is not given to the cache, dataout.cpp:62, and answered GOOD.)   *)
THEOREM WholeHolds ==
  ASSUME TwoIovecs
  PROVE  Spec => []Whole
<1>1. Init => DInv
  BY DInvInit
<1>2. DInv /\ [Next]_vars => DInv'
  BY DInvKeeps
<1>3. DInv => Whole
  BY PartsWhole DEF DInv, WInv, RInv
<1> QED BY <1>1, <1>2, <1>3, PTL DEF Spec
=============================================================================
