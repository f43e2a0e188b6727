------------------------------ MODULE CmdWindow ------------------------------
(***************************************************************************)
(* Flow control: the command window ExpCmdSN .. MaxCmdSN that a session    *)
(* advertises, made smaller while the pool of receive buffers that all     *)
(* sessions share (CommonBuf) is filling up (include/limitter.h,           *)
(* iSCSISession::advanceCMDSNs, src/ioveccontainer.cpp).                   *)
(*                                                                         *)
(* The pool's population is what the limiter looks at: buffers arrive with *)
(* every PDU and are freed when a segment is on disk or a response is out. *)
(* Initiators respect the window they were told.                           *)
(***************************************************************************)
EXTENDS Integers

CONSTANTS
  Sessions,
  CMD_QUEUE_SIZE,  \* 143 in the code
  X1, X2,          \* PoolSoftLimit and PoolHardLimit, in buffers
  SNMod,           \* serial numbers are uint32_t: 2^32 in the code
  MaxBuffers,      \* bound: buffers that one PDU brings
  MaxPool          \* bound: population of the pool

(* PoolHardLimit - PoolSoftLimit of less than CMD_QUEUE_SIZE - 1 buffers   *)
(* makes ainv 0, and getY divide by it.                                    *)
ASSUME LimitsAssumption ==
  /\ CMD_QUEUE_SIZE \in Nat /\ CMD_QUEUE_SIZE > 1
  /\ X1 \in Nat /\ X2 \in Nat /\ X2 >= X1 + CMD_QUEUE_SIZE - 1
  /\ SNMod \in Nat /\ SNMod > 3 * CMD_QUEUE_SIZE
ASSUME BoundsAssumption == MaxBuffers \in Nat /\ MaxPool \in Nat

VARIABLES
  phase,      \* per session: "login", "normal", "discovery", "waiting", "spinning"
  exp, max,   \* per session: ExpCmdSN and MaxCmdSN
  pool,       \* CommonBuf::counter
  poolstate   \* CommonBuf::poolstate

vars == <<phase, exp, max, pool, poolstate>>

Init ==
  /\ phase = [s \in Sessions |-> "login"]
  /\ exp = [s \in Sessions |-> 1]
  /\ max = [s \in Sessions |-> 2]
  /\ pool = 0
  /\ poolstate = "normal"
-----------------------------------------------------------------------------
(* LinearLimitter.  size_t arithmetic: a negative difference becomes a     *)
(* number larger than every window.                                        *)
ainvMax == (X2 - X1) \div CMD_QUEUE_SIZE  \* mutant: not CMD_QUEUE_SIZE - 1
ainv == (X2 - X1) \div (CMD_QUEUE_SIZE - 1)
Wrapped == SNMod
SizeT(n) == IF n < 0 THEN Wrapped ELSE n

(* Mutant: no cut-off at the hard limit.                                   *)
getYLinear(x) ==
  IF x < X1 THEN CMD_QUEUE_SIZE ELSE SizeT(CMD_QUEUE_SIZE - (x - X1) \div ainv)

getY(x) ==
  IF x < X1 THEN CMD_QUEUE_SIZE
  ELSE IF x >= X2 THEN 1
  ELSE SizeT(CMD_QUEUE_SIZE - (x - X1) \div ainv)

getCMDQueue(hi, lo) == (hi - lo + 1) % SNMod
Window(s) == getCMDQueue(max[s], exp[s])

(* Mutants: the sum does not wrap; the window is one short; MaxCmdSN is    *)
(* raised before the test; MaxCmdSN is set to the end of the window.       *)
RaisedNoWrap(hi, lo, y) ==
  IF getCMDQueue(hi, lo) < y THEN hi + y - getCMDQueue(hi, lo) ELSE hi
RaisedShort(hi, lo, y) ==
  IF getCMDQueue(hi, lo) < y - 1 THEN (hi + y - 1 - getCMDQueue(hi, lo)) % SNMod ELSE hi
RaisedAlways(hi, lo, y) ==
  IF getCMDQueue(hi, lo) < y THEN (hi + y - getCMDQueue(hi, lo)) % SNMod
  ELSE (hi + 1) % SNMod
RaisedReset(hi, lo, y) == (lo + y - 1) % SNMod

(* "while(getCMDQueue() < queuesize_wil) maxcmdsn_gen()".                  *)
Raised(hi, lo, y) ==
  IF getCMDQueue(hi, lo) < y THEN (hi + y - getCMDQueue(hi, lo)) % SNMod ELSE hi

PoolState(x) == IF x > X2 THEN "hard" ELSE IF x > X1 THEN "soft" ELSE "normal"

(* advanceCMDSNs() with the pool at x.  The loop never ends for a y that   *)
(* no window reaches.  Above the hard limit the reactor waits for the      *)
(* writer of its largest cache, if it has one that is not empty, and sets  *)
(* the pool's state after that.                                            *)
advanceCMDSNs(s, x) ==
  LET y == IF phase[s] = "discovery" THEN 1 ELSE getY(x)
      e == (exp[s] + 1) % SNMod
      endless == y >= Wrapped
  IN /\ exp' = [exp EXCEPT ![s] = e]
     /\ max' = [max EXCEPT ![s] = IF endless THEN @ ELSE Raised(@, e, y)]
     /\ \/ /\ phase' = [phase EXCEPT ![s] = IF endless THEN "spinning" ELSE @]
           /\ poolstate' = IF endless THEN poolstate ELSE PoolState(x)
        \/ /\ x > X2
           /\ phase[s] = "normal"
           /\ phase' = [phase EXCEPT ![s] = "waiting"]
           /\ UNCHANGED poolstate

(* A command that takes a CmdSN, within the window.                        *)
Command(s, n) ==
  /\ phase[s] \in {"normal", "discovery"}
  /\ Window(s) > 0
  /\ pool + n <= MaxPool
  /\ pool' = pool + n
  /\ advanceCMDSNs(s, pool + n)

(* Immediate commands and DataOut PDUs bring buffers and take no CmdSN.    *)
Unnumbered(s, n) ==
  /\ phase[s] \in {"normal", "discovery"}
  /\ pool + n <= MaxPool
  /\ pool' = pool + n
  /\ UNCHANGED <<phase, exp, max, poolstate>>

(* waitTillDone() ends, by notifyDone() or after a second.                 *)
Resume(s) ==
  /\ phase[s] = "waiting"
  /\ phase' = [phase EXCEPT ![s] = "normal"]
  /\ poolstate' = "hard"
  /\ UNCHANGED <<exp, max, pool>>

(* Login requests are immediate.  The last one shifts the session to its   *)
(* full feature phase; shift2Normal() widens the window.                   *)
shift2Normal(s) ==
  /\ phase[s] = "login"
  /\ phase' = [phase EXCEPT ![s] = "normal"]
  /\ max' = [max EXCEPT ![s] = (@ + CMD_QUEUE_SIZE) % SNMod]
  /\ UNCHANGED <<exp, pool, poolstate>>

shift2Discovery(s) ==
  /\ phase[s] = "login"
  /\ phase' = [phase EXCEPT ![s] = "discovery"]
  /\ UNCHANGED <<exp, max, pool, poolstate>>

(* A buffer is freed.                                                      *)
Release ==
  /\ pool > 0
  /\ pool' = pool - 1
  /\ UNCHANGED <<phase, exp, max, poolstate>>

Next ==
  \/ \E s \in Sessions : \/ \E n \in 0 .. MaxBuffers : Command(s, n) \/ Unnumbered(s, n)
                         \/ Resume(s) \/ shift2Normal(s) \/ shift2Discovery(s)
  \/ Release

Spec == Init /\ [][Next]_vars
-----------------------------------------------------------------------------
(* Type correctness: the sequence counters stay serial numbers.            *)
TypeOK ==
  /\ phase \in [Sessions -> {"login", "normal", "discovery", "waiting", "spinning"}]
  /\ exp \in [Sessions -> 0 .. SNMod - 1]
  /\ max \in [Sessions -> 0 .. SNMod - 1]
  /\ pool \in 0 .. MaxPool
  /\ poolstate \in {"normal", "soft", "hard"}

(* LinearLimitter: "f(x) = MAX where x < x1, f(x) = 1 where x >= x2" and a *)
(* straight line between: the value lies between 1 and MAX.                *)
YInRange == getY(pool) \in 1 .. CMD_QUEUE_SIZE

(* The limits for which the straight line stays above 0 up to the hard     *)
(* limit, in spite of the rounding of ainv.                                *)
LineFits == (X2 - X1 - 1) \div ainv < CMD_QUEUE_SIZE

(* The window never closes: only a command moves it, so a closed window    *)
(* would lock the initiator out for good.  Nor does it run away.           *)
WindowOpen == \A s \in Sessions : Window(s) \in 1 .. (CMD_QUEUE_SIZE + 2)

(* A reactor thread never gets stuck in the loop that raises MaxCmdSN.     *)
NoSpin == \A s \in Sessions : phase[s] # "spinning"

(* Above the hard limit no command widens a window that has room.          *)
Throttled ==
  [][\A s \in Sessions :
       pool' >= X2 /\ exp'[s] # exp[s] => Window(s)' = 1 \/ Window(s)' < Window(s)]_vars

(* MaxCmdSN never moves backward, in serial number arithmetic.             *)
MaxNeverRetreats ==
  [][\A s \in Sessions : (max'[s] - max[s]) % SNMod <= CMD_QUEUE_SIZE]_vars
=============================================================================
