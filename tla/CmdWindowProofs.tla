--------------------------- MODULE CmdWindowProofs ---------------------------
(***************************************************************************)
(* Proofs about the command window, for any number of sessions, any        *)
(* limits and any size of the pool.  The serial numbers are counted modulo *)
(* SNMod; the lemmas of the first part turn a window and its widening into *)
(* linear arithmetic by the cases in which a sum wraps.                    *)
(***************************************************************************)
EXTENDS CmdWindow, TLAPS

LEMMA ModCases ==
  ASSUME NEW m \in Nat \ {0}, NEW a \in Int, -m <= a, a < 2 * m
  PROVE  a % m = IF a < 0 THEN a + m ELSE IF a < m THEN a ELSE a - m
<1>1. CASE a \in (-m) .. (-1)
  <2>1. a % m = a + m
    BY <1>1
  <2> QED BY <1>1, <2>1
<1>2. CASE a \in 0 .. (m - 1)
  <2>1. a % m = a
    BY <1>2
  <2> QED BY <1>2, <2>1
<1>3. CASE a \in m .. (2 * m - 1)
  <2>1. a % m = a - m
    BY <1>3
  <2> QED BY <1>3, <2>1
<1> QED BY <1>1, <1>2, <1>3

SN == 0 .. (SNMod - 1)

LEMMA WindowCases ==
  ASSUME NEW hi \in SN, NEW lo \in SN
  PROVE  getCMDQueue(hi, lo) =
           IF hi - lo + 1 < 0 THEN hi - lo + 1 + SNMod
           ELSE IF hi - lo + 1 < SNMod THEN hi - lo + 1 ELSE 0
<1> DEFINE a == hi - lo + 1
<1>1. /\ a \in Int /\ -SNMod <= a /\ a < 2 * SNMod /\ a <= SNMod
      /\ SNMod \in Nat \ {0} /\ SNMod - SNMod = 0
  BY LimitsAssumption DEF SN
<1>2. getCMDQueue(hi, lo) = a % SNMod
  BY DEF getCMDQueue
<1> HIDE DEF a
<1>3. a % SNMod = IF a < 0 THEN a + SNMod ELSE IF a < SNMod THEN a ELSE a - SNMod
  BY <1>1, ModCases
<1>4. getCMDQueue(hi, lo) = IF a < 0 THEN a + SNMod ELSE IF a < SNMod THEN a ELSE 0
  BY <1>1, <1>2, <1>3
<1> QED BY <1>4 DEF a

(* A command that takes a serial number takes one place of the window.     *)
LEMMA TakeOne ==
  ASSUME NEW hi \in SN, NEW lo \in SN, getCMDQueue(hi, lo) > 0
  PROVE  /\ (lo + 1) % SNMod \in SN
         /\ (lo + 1) % SNMod # lo
         /\ getCMDQueue(hi, (lo + 1) % SNMod) = getCMDQueue(hi, lo) - 1
<1>1. (lo + 1) % SNMod = IF lo + 1 < SNMod THEN lo + 1 ELSE 0
  <2> DEFINE a == lo + 1
  <2>1. a \in Int /\ -SNMod <= a /\ 0 <= a /\ a < 2 * SNMod /\ a <= SNMod /\ SNMod \in Nat \ {0}
    BY LimitsAssumption DEF SN
  <2> HIDE DEF a
  <2>2. a % SNMod = IF a < 0 THEN a + SNMod ELSE IF a < SNMod THEN a ELSE a - SNMod
    BY <2>1, ModCases
  <2>3. a % SNMod = IF a < SNMod THEN a ELSE 0
    BY <2>1, <2>2
  <2> QED BY <2>3 DEF a
<1>2. (lo + 1) % SNMod \in SN /\ (lo + 1) % SNMod # lo
  BY <1>1, LimitsAssumption DEF SN
<1> DEFINE l == (lo + 1) % SNMod
<1>3. getCMDQueue(hi, l) =
        IF hi - l + 1 < 0 THEN hi - l + 1 + SNMod
        ELSE IF hi - l + 1 < SNMod THEN hi - l + 1 ELSE 0
  BY <1>2, WindowCases
<1>4. getCMDQueue(hi, lo) =
        IF hi - lo + 1 < 0 THEN hi - lo + 1 + SNMod
        ELSE IF hi - lo + 1 < SNMod THEN hi - lo + 1 ELSE 0
  BY WindowCases
<1>5. l = IF lo + 1 < SNMod THEN lo + 1 ELSE 0
  BY <1>1
<1> HIDE DEF l
<1>6. getCMDQueue(hi, l) = getCMDQueue(hi, lo) - 1
  BY <1>3, <1>4, <1>5, LimitsAssumption DEF SN
<1> QED BY <1>2, <1>6 DEF l

(* Raising MaxCmdSN brings a window to y, or leaves a wider one alone.     *)
LEMMA RaisedWindow ==
  ASSUME NEW hi \in SN, NEW lo \in SN, NEW y \in 0 .. CMD_QUEUE_SIZE
  PROVE  /\ Raised(hi, lo, y) \in SN
         /\ getCMDQueue(Raised(hi, lo, y), lo) =
              IF getCMDQueue(hi, lo) < y THEN y ELSE getCMDQueue(hi, lo)
         /\ (Raised(hi, lo, y) - hi) % SNMod <= CMD_QUEUE_SIZE
<1> DEFINE w == getCMDQueue(hi, lo)
<1>1. w = IF hi - lo + 1 < 0 THEN hi - lo + 1 + SNMod
          ELSE IF hi - lo + 1 < SNMod THEN hi - lo + 1 ELSE 0
  BY WindowCases
<1>2. w \in 0 .. (SNMod - 1)
  BY <1>1, LimitsAssumption DEF SN
<1> HIDE DEF w
<1>3. CASE w < y
  <2>1. hi + y - w \in Int /\ 0 <= hi + y - w /\ hi + y - w < 2 * SNMod
    BY <1>2, <1>3, LimitsAssumption DEF SN
  <2>2. (hi + y - w) % SNMod = IF hi + y - w < SNMod THEN hi + y - w ELSE hi + y - w - SNMod
    <3>1. ASSUME NEW a \in Int, 0 <= a, a < 2 * SNMod
          PROVE  a % SNMod = IF a < SNMod THEN a ELSE a - SNMod
      <4>1. -SNMod <= a /\ SNMod \in Nat \ {0}
        BY <3>1, LimitsAssumption
      <4>2. a % SNMod = IF a < 0 THEN a + SNMod ELSE IF a < SNMod THEN a ELSE a - SNMod
        BY <3>1, <4>1, ModCases
      <4> QED BY <3>1, <4>2
    <3> QED BY <2>1, <3>1, <1>2, LimitsAssumption DEF SN
  <2>3. Raised(hi, lo, y) = (hi + y - w) % SNMod
    BY <1>3 DEF Raised, w
  <2>4. Raised(hi, lo, y) \in SN
    BY <2>1, <2>2, <2>3, LimitsAssumption DEF SN
  <2>5. getCMDQueue(Raised(hi, lo, y), lo) = y
    <3> DEFINE h == Raised(hi, lo, y)
    <3>1. getCMDQueue(h, lo) =
            IF h - lo + 1 < 0 THEN h - lo + 1 + SNMod
            ELSE IF h - lo + 1 < SNMod THEN h - lo + 1 ELSE 0
      BY <2>4, WindowCases
    <3>2. h = IF hi + y - w < SNMod THEN hi + y - w ELSE hi + y - w - SNMod
      BY <2>2, <2>3
    <3> HIDE DEF h
    <3>3. getCMDQueue(h, lo) = y
      BY <1>1, <1>2, <1>3, <3>1, <3>2, LimitsAssumption DEF SN
    <3> QED BY <3>3 DEF h
  <2>6. Raised(hi, lo, y) - hi = IF hi + y - w < SNMod THEN y - w ELSE y - w - SNMod
    BY <2>1, <2>2, <2>3, <1>2, LimitsAssumption DEF SN
  <2>7. (Raised(hi, lo, y) - hi) % SNMod = y - w
    <3> DEFINE d == Raised(hi, lo, y) - hi
    <3>1. d \in Int /\ -SNMod <= d /\ d < 2 * SNMod
      BY <2>6, <1>2, <1>3, LimitsAssumption DEF SN
    <3>2. d % SNMod = IF d < 0 THEN d + SNMod ELSE IF d < SNMod THEN d ELSE d - SNMod
      BY <3>1, ModCases, LimitsAssumption
    <3>3. d = IF hi + y - w < SNMod THEN y - w ELSE y - w - SNMod
      BY <2>6
    <3> HIDE DEF d
    <3>4. d % SNMod = y - w
      BY <3>2, <3>3, <1>2, <1>3, <2>1, LimitsAssumption DEF SN
    <3> QED BY <3>4 DEF d
  <2> QED BY <2>4, <2>5, <2>7, <1>2, <1>3, LimitsAssumption DEF w
<1>4. CASE ~ (w < y)
  <2>1. Raised(hi, lo, y) = hi
    BY <1>4 DEF Raised, w
  <2>2. (hi - hi) % SNMod = 0
    <3>1. hi - hi = 0
      BY DEF SN
    <3> QED BY <3>1, ModCases, LimitsAssumption
  <2> QED BY <1>4, <2>1, <2>2, LimitsAssumption DEF w
<1> QED BY <1>3, <1>4
-----------------------------------------------------------------------------
(* The limiter.                                                            *)
LEMMA AinvPositive == ainv \in Nat \ {0}
<1> DEFINE d == X2 - X1
           c == CMD_QUEUE_SIZE - 1
<1>1. d \in Nat /\ c \in Nat \ {0} /\ d >= c
  BY LimitsAssumption
<1> HIDE DEF d, c
<1>2. d \div c \in Nat \ {0}
  BY <1>1
<1> QED BY <1>2 DEF ainv, d, c

(* A window of 1 to CMD_QUEUE_SIZE, 0, or a number that no window reaches. *)
LEMMA getYCases ==
  ASSUME NEW x \in Nat
  PROVE  /\ getY(x) \in 0 .. CMD_QUEUE_SIZE \/ getY(x) = Wrapped
         /\ x >= X2 => getY(x) = 1
<1>1. CASE x >= X1 /\ x < X2
  <2> DEFINE q == (x - X1) \div ainv
  <2>1. q \in Nat
    <3>1. x - X1 \in Nat
      BY <1>1, LimitsAssumption
    <3> QED BY <3>1, AinvPositive
  <2>2. getY(x) = SizeT(CMD_QUEUE_SIZE - q)
    BY <1>1, LimitsAssumption DEF getY
  <2> HIDE DEF q
  <2> QED BY <1>1, <2>1, <2>2, LimitsAssumption DEF SizeT
<1>2. CASE ~ (x >= X1 /\ x < X2)
  BY <1>2, LimitsAssumption DEF getY
<1> QED BY <1>1, <1>2

LEMMA DivMonotone ==
  ASSUME NEW n \in Nat \ {0}, NEW a \in Nat, NEW b \in Nat, a <= b
  PROVE  a \div n <= b \div n /\ a \div n \in Nat /\ b \div n \in Nat
OBVIOUS

LEMMA getYFits ==
  ASSUME LineFits, NEW x \in Nat
  PROVE  getY(x) \in 1 .. CMD_QUEUE_SIZE
<1>1. CASE x >= X1 /\ x < X2
  <2> DEFINE q == (x - X1) \div ainv
             m == (X2 - X1 - 1) \div ainv
  <2>1. x - X1 \in Nat /\ X2 - X1 - 1 \in Nat /\ x - X1 <= X2 - X1 - 1
    BY <1>1, LimitsAssumption
  <2>2. q \in Nat /\ m \in Nat /\ q <= m
    BY <2>1, AinvPositive, DivMonotone
  <2>3. m < CMD_QUEUE_SIZE
    BY DEF LineFits
  <2>4. getY(x) = SizeT(CMD_QUEUE_SIZE - q)
    BY <1>1, LimitsAssumption DEF getY
  <2> HIDE DEF q, m
  <2> QED BY <2>2, <2>3, <2>4, LimitsAssumption DEF SizeT
<1>2. CASE ~ (x >= X1 /\ x < X2)
  BY <1>2, LimitsAssumption DEF getY
<1> QED BY <1>1, <1>2

(* Which limits are safe: what the rounding of ainv leaves over of         *)
(* PoolHardLimit - PoolSoftLimit may be at most ainv itself.  The default  *)
(* limits are not of this kind (run cmd_default).                          *)
THEOREM SafeLimits == LineFits <=> (X2 - X1) % (CMD_QUEUE_SIZE - 1) <= ainv
<1> DEFINE c == CMD_QUEUE_SIZE - 1
           d == X2 - X1
           k == d \div c
           r == d % c
           q == (d - 1) \div k
<1>1. d \in Nat \ {0} /\ c \in Nat \ {0} /\ d - 1 \in Nat /\ d >= c /\ CMD_QUEUE_SIZE = c + 1
  BY LimitsAssumption
<1>2. ainv = k /\ k \in Nat \ {0}
  BY AinvPositive DEF ainv
<1>3. LineFits <=> q < c + 1
  BY <1>1, <1>2 DEF LineFits
<1> HIDE DEF c, d
<1>4. d = c * k + r /\ r \in Nat /\ r < c
  BY <1>1
<1> HIDE DEF k, r
<1>5. k * q <= d - 1 /\ d - 1 < k * q + k /\ q \in Nat
  BY <1>1, <1>2
<1> HIDE DEF q
<1>6. ASSUME q < c + 1 PROVE r <= k
  <2>1. k * q <= k * c
    BY <1>6, <1>5, <1>2, <1>1
  <2>2. k * c = c * k /\ k * c \in Int /\ k * q \in Int
    BY <1>1, <1>2, <1>5
  <2> QED BY <2>1, <2>2, <1>1, <1>2, <1>4, <1>5
<1>7. ASSUME r <= k PROVE q < c + 1
  <2>1. d - 1 < k * c + k
    BY <1>7, <1>1, <1>2, <1>4
  <2>2. k * q < k * c + k
    BY <2>1, <1>1, <1>2, <1>5
  <2>3. SUFFICES ASSUME q >= c + 1 PROVE FALSE
    BY <1>1, <1>5
  <2>4. k * q >= k * (c + 1)
    BY <2>3, <1>1, <1>2, <1>5
  <2>5. k * (c + 1) = k * c + k
    BY <1>1, <1>2
  <2> QED BY <2>2, <2>4, <2>5, <1>1, <1>2, <1>5
<1> QED BY <1>2, <1>3, <1>6, <1>7 DEF c, d, k, r
-----------------------------------------------------------------------------
(* A session that has not finished its login has not moved its window.     *)
LoginWindow == \A s \in Sessions : phase[s] = "login" => exp[s] = 1 /\ max[s] = 2

WInv == TypeOK /\ LoginWindow

(* What advanceCMDSNs() does to the window of its session, for whatever    *)
(* the limiter says.                                                       *)
LEMMA Advanced ==
  ASSUME WInv, NEW s \in Sessions, NEW x \in Nat,
         phase[s] \in {"normal", "discovery"}, Window(s) > 0, advanceCMDSNs(s, x)
  PROVE  \E y \in 0 .. CMD_QUEUE_SIZE \cup {Wrapped} :
           /\ y = IF phase[s] = "discovery" THEN 1 ELSE getY(x)
           /\ exp' \in [Sessions -> SN] /\ max' \in [Sessions -> SN]
           /\ \A t \in Sessions \ {s} : exp'[t] = exp[t] /\ max'[t] = max[t] /\ phase'[t] = phase[t]
           /\ exp'[s] # exp[s]
           /\ phase' \in [Sessions -> {"login", "normal", "discovery", "waiting", "spinning"}]
           /\ phase'[s] # "login"
           /\ y # Wrapped => phase'[s] # "spinning"
           /\ poolstate' \in {"normal", "soft", "hard"}
           /\ (max'[s] - max[s]) % SNMod <= CMD_QUEUE_SIZE
           /\ Window(s)' = IF y # Wrapped /\ Window(s) - 1 < y THEN y ELSE Window(s) - 1
<1> DEFINE y == IF phase[s] = "discovery" THEN 1 ELSE getY(x)
           e == (exp[s] + 1) % SNMod
<1>1. y \in 0 .. CMD_QUEUE_SIZE \cup {Wrapped}
  BY getYCases, LimitsAssumption
<1>2. exp[s] \in SN /\ max[s] \in SN
  BY DEF WInv, TypeOK, SN
<1>3. e \in SN /\ e # exp[s] /\ getCMDQueue(max[s], e) = Window(s) - 1
  BY <1>2, TakeOne DEF Window
<1>4. /\ exp' = [exp EXCEPT ![s] = e]
      /\ max' = [max EXCEPT ![s] = IF y >= Wrapped THEN @ ELSE Raised(@, e, y)]
  BY DEF advanceCMDSNs
<1>5. y >= Wrapped <=> y = Wrapped
  BY <1>1, LimitsAssumption DEF Wrapped
<1>6. /\ phase' \in [Sessions -> {"login", "normal", "discovery", "waiting", "spinning"}]
      /\ phase'[s] # "login"
      /\ y # Wrapped => phase'[s] # "spinning"
      /\ poolstate' \in {"normal", "soft", "hard"}
      /\ \A t \in Sessions \ {s} : phase'[t] = phase[t]
  BY <1>5 DEF advanceCMDSNs, PoolState, WInv, TypeOK
<1> HIDE DEF y, e
<1>7. CASE y = Wrapped
  <2>1. max' = max
    BY <1>4, <1>5, <1>7 DEF WInv, TypeOK
  <2>2. exp'[s] = e
    BY <1>4 DEF WInv, TypeOK
  <2>3. Window(s)' = Window(s) - 1
    BY <1>3, <2>1, <2>2 DEF Window
  <2>4. (max[s] - max[s]) % SNMod <= CMD_QUEUE_SIZE
    <3>1. max[s] - max[s] = 0
      BY <1>2 DEF SN
    <3>2. 0 % SNMod = 0
      BY ModCases, LimitsAssumption
    <3> QED BY <3>1, <3>2, LimitsAssumption
  <2>5. exp' \in [Sessions -> SN] /\ max' \in [Sessions -> SN]
    BY <1>3, <1>4, <2>1 DEF WInv, TypeOK, SN
  <2> QED BY <1>1, <1>3, <1>4, <1>6, <1>7, <2>1, <2>2, <2>3, <2>4, <2>5 DEF WInv, TypeOK, y
<1>8. CASE y # Wrapped
  <2>1. y \in 0 .. CMD_QUEUE_SIZE
    BY <1>1, <1>8
  <2> DEFINE h == Raised(max[s], e, y)
  <2>2. /\ h \in SN
        /\ getCMDQueue(h, e) = IF Window(s) - 1 < y THEN y ELSE Window(s) - 1
        /\ (h - max[s]) % SNMod <= CMD_QUEUE_SIZE
    BY <1>2, <1>3, <2>1, RaisedWindow
  <2>3. max' = [max EXCEPT ![s] = h]
    BY <1>4, <1>5, <1>8
  <2> HIDE DEF h
  <2>4. max'[s] = h /\ exp'[s] = e
    BY <1>4, <2>3 DEF WInv, TypeOK
  <2>5. Window(s)' = getCMDQueue(h, e)
    BY <2>4 DEF Window
  <2>6. exp' \in [Sessions -> SN] /\ max' \in [Sessions -> SN]
    BY <1>3, <1>4, <2>2, <2>3 DEF WInv, TypeOK, SN
  <2>7. \A t \in Sessions \ {s} : exp'[t] = exp[t] /\ max'[t] = max[t]
    BY <1>4, <2>3 DEF WInv, TypeOK
  <2> QED BY <1>1, <1>3, <1>6, <1>8, <2>2, <2>4, <2>5, <2>6, <2>7 DEF y
<1> QED BY <1>7, <1>8

LEMMA ZeroAdvance ==
  ASSUME TypeOK, NEW s \in Sessions
  PROVE  (max[s] - max[s]) % SNMod <= CMD_QUEUE_SIZE
<1>1. max[s] - max[s] = 0
  BY LimitsAssumption DEF TypeOK
<1>2. 0 % SNMod = 0
  BY ModCases, LimitsAssumption
<1> QED BY <1>1, <1>2, LimitsAssumption

(* shift2Normal() widens the window of the login by CMD_QUEUE_SIZE.        *)
LEMMA Shifted ==
  ASSUME WInv, NEW s \in Sessions, shift2Normal(s)
  PROVE  /\ max' \in [Sessions -> SN]
         /\ \A t \in Sessions \ {s} : max'[t] = max[t]
         /\ (max'[s] - max[s]) % SNMod <= CMD_QUEUE_SIZE
         /\ Window(s)' = CMD_QUEUE_SIZE + 2
<1>1. exp[s] = 1 /\ max[s] = 2 /\ exp' = exp
  BY DEF shift2Normal, WInv, LoginWindow
<1>2. 2 + CMD_QUEUE_SIZE \in SN /\ 1 \in SN
  BY LimitsAssumption DEF SN
<1>3. (2 + CMD_QUEUE_SIZE) % SNMod = 2 + CMD_QUEUE_SIZE
  <2>1. ASSUME NEW a \in SN PROVE a % SNMod = a
    BY LimitsAssumption DEF SN
  <2> QED BY <1>2, <2>1
<1>4. max' = [max EXCEPT ![s] = 2 + CMD_QUEUE_SIZE]
  BY <1>1, <1>3 DEF shift2Normal
<1>5. max'[s] = 2 + CMD_QUEUE_SIZE /\ max' \in [Sessions -> SN]
  BY <1>2, <1>4 DEF WInv, TypeOK, SN
<1>6. Window(s)' = getCMDQueue(2 + CMD_QUEUE_SIZE, 1)
  BY <1>1, <1>5 DEF Window
<1>7. getCMDQueue(2 + CMD_QUEUE_SIZE, 1) = CMD_QUEUE_SIZE + 2
  <2> DEFINE h == 2 + CMD_QUEUE_SIZE
  <2>1. getCMDQueue(h, 1) = IF h - 1 + 1 < 0 THEN h - 1 + 1 + SNMod
                            ELSE IF h - 1 + 1 < SNMod THEN h - 1 + 1 ELSE 0
    BY <1>2, WindowCases
  <2>2. h - 1 + 1 = CMD_QUEUE_SIZE + 2 /\ h - 1 + 1 < SNMod /\ ~ (h - 1 + 1 < 0)
    BY LimitsAssumption
  <2> QED BY <2>1, <2>2
<1>8. (max'[s] - max[s]) % SNMod <= CMD_QUEUE_SIZE
  <2>1. max'[s] - max[s] = CMD_QUEUE_SIZE
    BY <1>1, <1>5, LimitsAssumption
  <2>2. CMD_QUEUE_SIZE % SNMod = CMD_QUEUE_SIZE
    BY ModCases, LimitsAssumption
  <2> QED BY <2>1, <2>2, LimitsAssumption
<1> QED BY <1>4, <1>5, <1>6, <1>7, <1>8 DEF WInv, TypeOK

LEMMA WInitInv == Init => WInv
  BY LimitsAssumption, BoundsAssumption DEF Init, WInv, TypeOK, LoginWindow

LEMMA WStep ==
  ASSUME WInv, [Next]_vars
  PROVE  WInv'
<1>1. ASSUME NEW s \in Sessions, NEW n \in 0 .. MaxBuffers, Command(s, n) PROVE WInv'
  <2>1. /\ pool + n \in Nat /\ pool + n <= MaxPool /\ pool' = pool + n
        /\ phase[s] \in {"normal", "discovery"} /\ Window(s) > 0 /\ advanceCMDSNs(s, pool + n)
    BY <1>1, BoundsAssumption DEF Command, WInv, TypeOK
  <2>2. /\ exp' \in [Sessions -> SN] /\ max' \in [Sessions -> SN]
        /\ \A t \in Sessions \ {s} : exp'[t] = exp[t] /\ max'[t] = max[t] /\ phase'[t] = phase[t]
        /\ phase' \in [Sessions -> {"login", "normal", "discovery", "waiting", "spinning"}]
        /\ phase'[s] # "login"
        /\ poolstate' \in {"normal", "soft", "hard"}
    BY <2>1, Advanced
  <2> QED BY <2>1, <2>2, BoundsAssumption DEF WInv, TypeOK, LoginWindow, SN
<1>2. ASSUME NEW s \in Sessions, NEW n \in 0 .. MaxBuffers, Unnumbered(s, n) PROVE WInv'
  BY <1>2, BoundsAssumption DEF Unnumbered, WInv, TypeOK, LoginWindow
<1>3. ASSUME NEW s \in Sessions, Resume(s) PROVE WInv'
  BY <1>3 DEF Resume, WInv, TypeOK, LoginWindow
<1>4. ASSUME NEW s \in Sessions, shift2Normal(s) PROVE WInv'
  <2>1. max' \in [Sessions -> SN] /\ \A t \in Sessions \ {s} : max'[t] = max[t]
    BY <1>4, Shifted
  <2> QED BY <1>4, <2>1 DEF shift2Normal, WInv, TypeOK, LoginWindow, SN
<1>5. ASSUME NEW s \in Sessions, shift2Discovery(s) PROVE WInv'
  BY <1>5 DEF shift2Discovery, WInv, TypeOK, LoginWindow
<1>6. CASE Release
  BY <1>6, BoundsAssumption DEF Release, WInv, TypeOK, LoginWindow
<1>7. CASE UNCHANGED vars
  BY <1>7 DEF vars, WInv, TypeOK, LoginWindow
<1> QED BY <1>1, <1>2, <1>3, <1>4, <1>5, <1>6, <1>7 DEF Next

(* The counters stay serial numbers, the pool within its bound, and the    *)
(* state words are the ones that the code knows (advanceCMDSNs,            *)
(* shift2Normal, CommonBuf).                                               *)
THEOREM TypeCorrect == Spec => []TypeOK
<1>1. WInv => TypeOK
  BY DEF WInv
<1> QED BY WInitInv, WStep, <1>1, PTL DEF Spec

(* MaxCmdSN never moves backward, whatever the limits: not even where the  *)
(* loop of advanceCMDSNs() does not end.                                   *)
THEOREM NeverRetreats == Spec => MaxNeverRetreats
<1> DEFINE Fwd == \A s \in Sessions : (max'[s] - max[s]) % SNMod <= CMD_QUEUE_SIZE
<1>1. ASSUME WInv, [Next]_vars PROVE Fwd
  <2>1. ASSUME NEW s \in Sessions, NEW n \in 0 .. MaxBuffers, Command(s, n) PROVE Fwd
    <3>1. /\ pool + n \in Nat
          /\ phase[s] \in {"normal", "discovery"} /\ Window(s) > 0 /\ advanceCMDSNs(s, pool + n)
      BY <1>1, <2>1 DEF Command, WInv, TypeOK
    <3>2. /\ \A t \in Sessions \ {s} : max'[t] = max[t]
          /\ (max'[s] - max[s]) % SNMod <= CMD_QUEUE_SIZE
      BY <1>1, <3>1, Advanced
    <3>3. \A t \in Sessions : (max[t] - max[t]) % SNMod <= CMD_QUEUE_SIZE
      BY <1>1, ZeroAdvance DEF WInv
    <3> QED BY <3>2, <3>3
  <2>2. ASSUME NEW s \in Sessions, shift2Normal(s) PROVE Fwd
    <3>1. /\ \A t \in Sessions \ {s} : max'[t] = max[t]
          /\ (max'[s] - max[s]) % SNMod <= CMD_QUEUE_SIZE
      BY <1>1, <2>2, Shifted
    <3>2. \A t \in Sessions : (max[t] - max[t]) % SNMod <= CMD_QUEUE_SIZE
      BY <1>1, ZeroAdvance DEF WInv
    <3> QED BY <3>1, <3>2
  <2>3. CASE max' = max
    BY <1>1, <2>3, ZeroAdvance DEF WInv
  <2> QED BY <1>1, <2>1, <2>2, <2>3
          DEF Next, vars, Unnumbered, Resume, shift2Discovery, Release
<1>2. WInv /\ [Next]_vars => [Fwd]_vars
  BY <1>1
<1> QED BY WInitInv, WStep, <1>2, PTL DEF Spec, MaxNeverRetreats

(* At or above the hard limit no command widens a window that has room.    *)
THEOREM ThrottledAlways == Spec => Throttled
<1> DEFINE Thr == \A s \in Sessions :
             pool' >= X2 /\ exp'[s] # exp[s] => Window(s)' = 1 \/ Window(s)' < Window(s)
<1>1. ASSUME WInv, [Next]_vars PROVE Thr
  <2>1. ASSUME NEW s \in Sessions, NEW n \in 0 .. MaxBuffers, Command(s, n) PROVE Thr
    <3>1. /\ pool + n \in Nat /\ pool' = pool + n
          /\ phase[s] \in {"normal", "discovery"} /\ Window(s) > 0 /\ advanceCMDSNs(s, pool + n)
      BY <1>1, <2>1 DEF Command, WInv, TypeOK
    <3>2. /\ \A t \in Sessions \ {s} : exp'[t] = exp[t]
          /\ pool + n >= X2 => Window(s)' = IF 1 # Wrapped /\ Window(s) - 1 < 1 THEN 1 ELSE Window(s) - 1
      BY <1>1, <3>1, Advanced, getYCases
    <3>3. Window(s) \in Int
      BY <1>1, WindowCases, LimitsAssumption DEF WInv, TypeOK, Window, SN
    <3>4. pool' >= X2 => Window(s)' = 1 \/ Window(s)' < Window(s)
      BY <3>1, <3>2, <3>3
    <3> QED BY <3>2, <3>4
  <2>2. CASE exp' = exp
    BY <2>2
  <2> QED BY <1>1, <2>1, <2>2
          DEF Next, vars, Unnumbered, Resume, shift2Normal, shift2Discovery, Release
<1>2. WInv /\ [Next]_vars => [Thr]_vars
  BY <1>1
<1> QED BY WInitInv, WStep, <1>2, PTL DEF Spec, Throttled
-----------------------------------------------------------------------------
(* With limits that fit, the limiter keeps its promise.                    *)
THEOREM LimiterInRange == ASSUME LineFits PROVE Spec => []YInRange
<1>1. TypeOK => YInRange
  BY getYFits, BoundsAssumption DEF TypeOK, YInRange
<1> QED BY <1>1, TypeCorrect, PTL

Open == WInv /\ WindowOpen /\ NoSpin

LEMMA OpenStep ==
  ASSUME LineFits, Open, [Next]_vars
  PROVE  WindowOpen' /\ NoSpin'
<1>1. WInv
  BY DEF Open
<1>2. ASSUME NEW t \in Sessions, exp'[t] = exp[t], max'[t] = max[t] PROVE Window(t)' = Window(t)
  BY <1>2 DEF Window
<1>3. ASSUME NEW s \in Sessions, NEW n \in 0 .. MaxBuffers, Command(s, n)
      PROVE  WindowOpen' /\ NoSpin'
  <2>1. /\ pool + n \in Nat
        /\ phase[s] \in {"normal", "discovery"} /\ Window(s) > 0 /\ advanceCMDSNs(s, pool + n)
    BY <1>1, <1>3 DEF Command, WInv, TypeOK
  <2>2. PICK y \in 0 .. CMD_QUEUE_SIZE \cup {Wrapped} :
          /\ y = IF phase[s] = "discovery" THEN 1 ELSE getY(pool + n)
          /\ \A t \in Sessions \ {s} : exp'[t] = exp[t] /\ max'[t] = max[t] /\ phase'[t] = phase[t]
          /\ y # Wrapped => phase'[s] # "spinning"
          /\ Window(s)' = IF y # Wrapped /\ Window(s) - 1 < y THEN y ELSE Window(s) - 1
    BY <1>1, <2>1, Advanced
  <2>3. y \in 1 .. CMD_QUEUE_SIZE
    BY <2>1, <2>2, getYFits, LimitsAssumption
  <2>4. y # Wrapped
    BY <2>3, LimitsAssumption DEF Wrapped
  <2>5. Window(s)' \in 1 .. (CMD_QUEUE_SIZE + 2)
    BY <2>2, <2>3, <2>4, LimitsAssumption DEF Open, WindowOpen
  <2>6. \A t \in Sessions \ {s} : Window(t)' = Window(t)
    BY <2>2, <1>2
  <2> QED BY <2>2, <2>4, <2>5, <2>6 DEF Open, WindowOpen, NoSpin
<1>4. ASSUME NEW s \in Sessions, shift2Normal(s) PROVE WindowOpen' /\ NoSpin'
  <2>1. /\ \A t \in Sessions \ {s} : max'[t] = max[t]
        /\ Window(s)' = CMD_QUEUE_SIZE + 2
    BY <1>1, <1>4, Shifted
  <2>2. exp' = exp /\ phase' = [phase EXCEPT ![s] = "normal"]
    BY <1>4 DEF shift2Normal
  <2>3. \A t \in Sessions \ {s} : Window(t)' = Window(t)
    BY <2>1, <2>2, <1>2
  <2> QED BY <1>1, <2>1, <2>2, <2>3, LimitsAssumption DEF Open, WindowOpen, NoSpin, WInv, TypeOK
<1>5. ASSUME exp' = exp, max' = max,
             phase' = phase \/ \E s \in Sessions : \E p \in {"normal", "discovery"} :
                                  phase' = [phase EXCEPT ![s] = p]
      PROVE  WindowOpen' /\ NoSpin'
  <2>1. \A t \in Sessions : Window(t)' = Window(t)
    BY <1>2, <1>5
  <2>2. WindowOpen'
    BY <2>1 DEF Open, WindowOpen
  <2> QED BY <1>1, <1>5, <2>2 DEF Open, NoSpin, WInv, TypeOK
<1> QED BY <1>3, <1>4, <1>5 DEF Next, vars, Unnumbered, Resume, shift2Discovery, Release

LEMMA OpenInvariant == ASSUME LineFits PROVE Spec => []Open
<1>1. Init => Open
  <2>1. ASSUME Init PROVE \A s \in Sessions : Window(s) = 2
    <3>1. getCMDQueue(2, 1) = 2
      BY WindowCases, LimitsAssumption DEF SN
    <3> QED BY <2>1, <3>1 DEF Init, Window
  <2> QED BY <2>1, WInitInv, LimitsAssumption DEF Init, Open, WindowOpen, NoSpin
<1>2. Open /\ [Next]_vars => Open'
  BY OpenStep, WStep DEF Open
<1> QED BY <1>1, <1>2, PTL DEF Spec

(* With limits that fit, no initiator is ever locked out, however many     *)
(* sessions fill the pool and however the serial numbers wrap.             *)
THEOREM WindowStaysOpen == ASSUME LineFits PROVE Spec => []WindowOpen
<1>1. Open => WindowOpen
  BY DEF Open
<1> QED BY <1>1, OpenInvariant, PTL

(* With limits that fit, no reactor thread gets stuck raising MaxCmdSN.    *)
THEOREM NeverSpins == ASSUME LineFits PROVE Spec => []NoSpin
<1>1. Open => NoSpin
  BY DEF Open
<1> QED BY <1>1, OpenInvariant, PTL
=============================================================================
