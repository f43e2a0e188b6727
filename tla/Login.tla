------------------------------- MODULE Login --------------------------------
(***************************************************************************)
(* Login negotiation: the keys a login request may carry, what is asked of *)
(* their values, and what each does to the session's attributes            *)
(* (src/iscsi/login.cpp, keyvalue.cpp, include/iscsi/keyvalue.h); and what *)
(* the parsers of the other requests that are not SCSI ask of a header.    *)
(*                                                                         *)
(* A pair is [k, n, s]: the key, the number and the text of its value.     *)
(***************************************************************************)
EXTENDS Config

(* iSCSISession::iSCSISession(): the attributes a session starts with.     *)
(* "MaxOutStandingR2T" is asked for, which no configuration has: the       *)
(* variable still holds MaxConnections.                                    *)
Numbers == {"DefaultTime2Wait", "DefaultTime2Retain", "MaxBurstLength", "FirstBurstLength",
            "MaxConnections", "MaxOutstandingR2T", "ErrorRecoveryLevel", "MaxRecvDataSegmentLength"}
Flags == {"InitialR2T", "ImmediateData", "IFMarker", "OFMarker", "DataPDUInOrder", "DataSequenceInOrder"}
SessionAttrs(root) ==
  [k \in Numbers \cup Flags |->
     IF k = "MaxOutstandingR2T"
     THEN getAttr(root, "MaxOutStandingR2T", getAttr(root, "MaxConnections", UInt(0))).n
     ELSE getAttr(root, k, UInt(0)).n]
-----------------------------------------------------------------------------
(* The validators: LoginParser::LoginParser() and keyvalue.cpp.            *)
ValueMaxLen == 255
RangeCast ==
  [k \in {"MaxRecvDataSegmentLength", "MaxBurstLength", "FirstBurstLength"} |-> 512..16777215]
  @@ [k \in {"DefaultTime2Wait", "DefaultTime2Retain"} |-> 0..3600]
  @@ [k \in {"MaxConnections", "MaxOutstandingR2T"} |-> 1..65535]
  @@ [ErrorRecoveryLevel |-> 0..2]
BoolStringValidator == {"Yes", "No"}
AuthMethodValidator == {"None", "CHAP,None"}
SessionTypeValidator == {"Discovery", "Normal"}
DigestValidator == {"None", "None,CRC32C", "CRC32C,None"}
Texts ==
  [k \in Flags |-> BoolStringValidator]
  @@ [AuthMethod |-> AuthMethodValidator, SessionType |-> SessionTypeValidator,
      HeaderDigest |-> DigestValidator, DataDigest |-> DigestValidator]
AlwaysTrueValidator ==
  {"InitiatorAlias", "TargetAlias", "X-com.cisco.PingTimeout", "X-com.cisco.sendAsyncText",
   "X-com.cisco.protocol"}

(* TargetNameValidator compares no more than the value's length: the empty *)
(* text and every prefix of the name pass.                                 *)
InitiatorNameValidator(root, v) == v.s \in Initiators(root)
TargetNameValidator(root, v) == v.s \in {"", "iqn", getAttr(root, "GlobalTargetName", Text(0, "")).s}

(* LoginParser::parsePair() for each pair, in GetKeyValuePair()'s order:   *)
(* an unknown key or a bad value fails the request.                        *)
validPair(root, v) ==
  CASE v.k \in DOMAIN RangeCast      -> v.n \in RangeCast[v.k]
    [] v.k \in DOMAIN Texts          -> v.s \in Texts[v.k]
    [] v.k = "InitiatorName"         -> InitiatorNameValidator(root, v)
    [] v.k = "TargetName"            -> TargetNameValidator(root, v)
    [] v.k \in AlwaysTrueValidator   -> v.n <= ValueMaxLen
    [] OTHER                         -> FALSE

(* LoginParser::getPairValue(): the first pair with the key.               *)
getPairValue(pairs, k) ==
  LET at == {i \in DOMAIN pairs : pairs[i].k = k}
  IN IF at = {} THEN [k |-> k, n |-> 0, s |-> ""] ELSE pairs[CHOOSE i \in at : \A j \in at : i <= j]
-----------------------------------------------------------------------------
(* The handlers: LoginHandler::LoginHandler().                             *)
NegotiateMinHandler == {"DefaultTime2Retain", "ErrorRecoveryLevel"}
NegotiateMaxHandler == {"DefaultTime2Wait"}
NormalMinHandler == {"MaxConnections", "MaxBurstLength", "FirstBurstLength", "MaxOutstandingR2T"}
NormalOrHandler == {"InitialR2T", "DataPDUInOrder", "DataSequenceInOrder"}
NormalAndHandler == {"ImmediateData"}
NegotiateAndHandler == {"IFMarker", "OFMarker"}
NormalOnly == NormalMinHandler \cup NormalOrHandler \cup NormalAndHandler
Minimum == NegotiateMinHandler \cup NormalMinHandler \cup NormalAndHandler \cup NegotiateAndHandler
Maximum == NegotiateMaxHandler \cup NormalOrHandler

Offer(v) == IF v.k \in Flags THEN (IF v.s = "Yes" THEN 1 ELSE 0) ELSE v.n
smallerOf(a, b) == IF a < b THEN a ELSE b
largerOf(a, b) == IF a < b THEN b ELSE a

(* Mutant: the target's own value wins.                                    *)
NegotiateOwn(k, mine, offer) == mine

Negotiate(k, mine, offer) ==
  IF k \in Minimum THEN smallerOf(mine, offer) ELSE largerOf(mine, offer)

(* One pair: [res, ses].  A handler of an operational key stores the       *)
(* result; those of the initiator use the object that InitiatorName made.  *)
(* DigestHandler, AuthMethodHandler and the rest leave no trace but the    *)
(* reply.                                                                  *)
PairHandler(root, paths, s, v) ==
  CASE v.k \in NormalOnly /\ s.type # "Normal" -> [res |-> "failed", ses |-> s]
    [] v.k \in Minimum \cup Maximum ->
         [res |-> "ok", ses |-> [s EXCEPT !.attrs[v.k] = Negotiate(v.k, @, Offer(v)),
                                          !.offers[v.k] = @ \cup {Offer(v)}]]
    [] v.k = "InitiatorName" ->
         LET ini == iSCSIInitiator(root, v.s, paths)
         IN [res |-> ini.res,
             ses |-> IF ini.res = "ok" THEN [s EXCEPT !.ini = [luns |-> ini.luns, mrdsl |-> 8192]] ELSE s]
    [] v.k \in {"InitiatorAlias", "AuthMethod", "MaxRecvDataSegmentLength"} /\ s.ini.luns < 0 ->
         [res |-> "crashed", ses |-> s]
    [] v.k = "MaxRecvDataSegmentLength" -> [res |-> "ok", ses |-> [s EXCEPT !.ini.mrdsl = v.n]]
    [] OTHER -> [res |-> "ok", ses |-> s]

(* The loop over the pairs of LoginHandler::handle(): a repeated key is    *)
(* handled with its first value again.                                     *)
HandlePairs(root, paths, s, pairs) ==
  LET f[i \in 0..Len(pairs)] ==
        IF i = 0 THEN [res |-> "ok", ses |-> s]
        ELSE IF f[i-1].res # "ok" THEN f[i-1]
        ELSE PairHandler(root, paths, f[i-1].ses, getPairValue(pairs, pairs[i].k))
  IN f[Len(pairs)]

(* shiftLoginStage(): security 0, operational 1, full feature 3.           *)
FullFeature == 3
shiftLoginStage(csg, nsg) ==
  CASE csg = 0 /\ nsg \in {1, FullFeature} -> nsg
    [] csg = 1 /\ nsg = FullFeature        -> FullFeature
    [] OTHER                               -> -1
-----------------------------------------------------------------------------
(* The requests that are not SCSI, as their headers and parsers give them; *)
(* flaw is what a header has wrong, stat whether its ExpStatSN is right.   *)
LoginReqHeader(csg, nsg, sid, tsih, cid, pairs) ==
  [op |-> "login", flaw |-> "none", csg |-> csg, nsg |-> nsg, sid |-> sid, tsih |-> tsih, cid |-> cid,
   stat |-> TRUE, pairs |-> pairs]
LogoutReqHeader(reason, cid) == [op |-> "logout", flaw |-> "none", reason |-> reason, cid |-> cid]
TextReqHeader(pairs) == [op |-> "text", flaw |-> "none", pairs |-> pairs]
NopOutHeader == [op |-> "nopout", flaw |-> "none"]
NopInHeader == [op |-> "nopin", flaw |-> "none"]
TaskMngReqHeader == [op |-> "taskmng", flaw |-> "none"]
CommandHeader == [op |-> "scsi", flaw |-> "none"]

(* What the parsers refuse.                                                *)
LoginFlaws == {"transit", "continue"}
TextFlaws == {"continue", "final", "ttt"}
LogoutFlaws == {"final"}
NopOutFlaws == {"final", "itt", "ttt", "data"}
NopInFlaws == {"final", "ttt"}
TaskMngFlaws == {"final", "ahs", "data", "rtt"}
=============================================================================
