------------------------------ MODULE Handlers ------------------------------
(***************************************************************************)
(* What the handlers of requests that are not SCSI do to the objects of    *)
(* Manager (src/iscsi/login.cpp, logout.cpp, text.cpp, taskmng.cpp,        *)
(* nopout.cpp, nopin.cpp).  A handler returns                              *)
(*   res    "ok", "failed", or what brought the process down               *)
(*   y      the objects after it                                           *)
(*   tasks  the tasks for the session's queue                              *)
(*   merge  whether list::merge() puts them there, or push_back()          *)
(* Sequence numbers are left to CmdWindow; of a request's ExpStatSN only   *)
(* whether it is right is kept (stat).                                     *)
(***************************************************************************)
EXTENDS Manager

Task(k, s, f) == [k |-> k, s |-> s, fd |-> f]
Done(y, tasks, merge) == [res |-> "ok", y |-> y, tasks |-> tasks, merge |-> merge]
Failed(y) == [res |-> "failed", y |-> y, tasks |-> <<>>, merge |-> FALSE]
Crashed(y, cause) == [res |-> cause, y |-> y, tasks |-> <<>>, merge |-> FALSE]

(* list::merge() compares addresses of tasks: each list keeps its order,   *)
(* and nothing more can be said.                                           *)
RECURSIVE Merges(_, _)
Merges(a, b) ==
  IF a = <<>> THEN {b} ELSE IF b = <<>> THEN {a}
  ELSE {<<Head(a)>> \o m : m \in Merges(Tail(a), b)} \cup {<<Head(b)>> \o m : m \in Merges(a, Tail(b))}
-----------------------------------------------------------------------------
(* LoginHandler::handle1stDiscoveryRequest()                               *)
handle1stDiscoveryRequest(y, s, f, p) ==
  IF findSessionBySid(y, p.sid) # {} THEN Failed(y)
  ELSE Done([y EXCEPT !.ses[s].sid = p.sid, !.con[f].cid = p.cid], <<>>, TRUE)

(* LoginHandler::handle1stNormalRequest(): a new session, the              *)
(* reinstatement of one that has a reactor, or a connection for it.  The   *)
(* request's CID is looked up among the sockets of the old session.        *)
handle1stNormalRequest(y, s, f, p) ==
  LET r     == findReactor(y, p.sid)
      old   == y.rea[r].ses
      named == [y EXCEPT !.ses[s].sid = p.sid, !.con[f].cid = p.cid]
      freed == IF p.cid \in y.ses[old].conns THEN del(named, old, p.cid) ELSE named
      moved == changeListener(freed, f, r)
  IN CASE r = 0 /\ p.tsih # 0 -> Failed(y)
       [] r = 0 /\ p.tsih = 0 -> Done(named, <<Task("create", s, f)>>, TRUE)
       [] r # 0 /\ p.tsih = 0 -> Done(named, <<Task("remove", old, 0), Task("create", s, f)>>, TRUE)
       [] r # 0 /\ p.tsih # 0 /\ p.tsih # y.ses[old].tsih -> Failed(y)
       [] r # 0 /\ p.tsih # 0 /\ p.tsih = y.ses[old].tsih /\ p.cid \in y.ses[old].conns /\ ~p.stat -> Failed(y)
       [] OTHER -> Done([moved EXCEPT !.ses[old].conns = @ \cup {f}], <<Task("close", s, 0)>>, TRUE)

(* LoginHandler::handle1stRequest(), by the type that the request names.   *)
handle1stRequest(y, s, f, p) ==
  CASE y.ses[s].type = "Discovery" -> handle1stDiscoveryRequest(y, s, f, p)
    [] y.ses[s].type = "Normal"    -> handle1stNormalRequest(y, s, f, p)
    [] OTHER                       -> Failed(y)

(* shift2Discovery(), shift2Normal(): the handlers of the full feature     *)
(* phase, which stay beside the one for logins.                            *)
protos(z) ==
  {"login"} \cup (IF ~z.ffp THEN {}
                  ELSE IF z.type = "Discovery" THEN {"text", "logout"}
                  ELSE {"scsi", "nopout", "nopin", "taskmng", "logout"})
shift2FullFeature(y, s) ==
  LET next == IF y.ses[s].tsih = 0 THEN y.tsih + 1 ELSE y.tsih
  IN [y EXCEPT !.tsih = next, !.ses[s].ffp = TRUE, !.ses[s].tsih = IF @ = 0 THEN next ELSE @]

(* LoginHandler::handle(): the first request of a session, the pairs, the  *)
(* stage and the reply.                                                    *)
loginReply(y, s, f, p, res, nsg, tasks) ==
  CASE res = "failed"  -> Failed(y)
    [] res = "crashed" -> Crashed(y, "initiator")
    [] res = "ok" /\ (nsg < 0 \/ (nsg = FullFeature /\ y.ses[s].type = "Login")) -> Failed(y)
    [] OTHER -> Done(IF nsg = FullFeature THEN shift2FullFeature(y, s) ELSE y,
                     <<Task("send", s, f)>> \o tasks, TRUE)
loginPairs(y, s, f, p, tasks, pairs) ==
  loginReply([y EXCEPT !.ses[s] = pairs.ses], s, f, p, pairs.res, shiftLoginStage(p.csg, p.nsg), tasks)
loginBegun(root, paths, s, f, p, begun) ==
  IF begun.res # "ok" THEN begun
  ELSE loginPairs(begun.y, s, f, p, begun.tasks, HandlePairs(root, paths, begun.y.ses[s], p.pairs))
loginHandle(root, paths, y, s, f, p) ==
  LET named == getPairValue(p.pairs, "SessionType").s
      typed == [y EXCEPT !.ses[s].type = IF named \in SessionTypeValidator THEN named ELSE "Login"]
  IN IF p.flaw \in LoginFlaws \/ \E i \in DOMAIN p.pairs : ~validPair(root, p.pairs[i]) THEN Failed(y)
     ELSE loginBegun(root, paths, s, f, p,
                     IF y.ses[s].type = "Login" THEN handle1stRequest(typed, s, f, p) ELSE Done(y, <<>>, TRUE))
-----------------------------------------------------------------------------
(* Mutant: every session is taken to have a reactor.                       *)
logoutHandleReactor(y, s, f, p) ==
  IF p.flaw \in LogoutFlaws THEN Failed(y)
  ELSE Done(y, <<Task("send", s, f), Task("remove", s, 0)>>, TRUE)

(* LogoutHandler::handle(): the CID is looked up among the sockets, and    *)
(* the connection that is closed is the one that the request came over.    *)
logoutHandle(y, s, f, p) ==
  LET ends == IF y.ses[s].type = "Discovery" THEN Task("close", s, 0) ELSE Task("remove", s, 0)
      then ==
        CASE p.reason = "session" -> <<ends>>
          [] p.reason = "connection" /\ p.cid \notin y.ses[s].conns -> <<ends>>
          [] p.reason = "connection" /\ p.cid \in y.ses[s].conns -> <<Task("closeconn", s, f)>>
          [] OTHER -> <<>>
  IN IF p.flaw \in LogoutFlaws THEN Failed(y)
     ELSE Done(y, <<Task("send", s, f)>> \o then, TRUE)

(* TextHandler::handle(): without pairs it reads the first of an empty     *)
(* vector.                                                                 *)
textHandle(y, s, f, p) ==
  IF p.flaw \in TextFlaws \/ (\E i \in DOMAIN p.pairs : p.pairs[i].k # "SendTargets" \/ p.pairs[i].s # "All")
  THEN Failed(y)
  ELSE IF p.pairs = <<>> THEN Crashed(y, "text")
  ELSE Done(y, <<Task("send", s, f)>>, FALSE)

(* NopOutHandler, TaskMngHandler and NopInHandler::handle(), and a SCSI    *)
(* command that has data or status to send.                                *)
answer(y, s, f) == Done(y, <<Task("send", s, f)>>, FALSE)
nopoutHandle(y, s, f, p) == IF p.flaw \in NopOutFlaws THEN Failed(y) ELSE answer(y, s, f)
taskmngHandle(y, s, f, p) == IF p.flaw \in TaskMngFlaws THEN Failed(y) ELSE answer(y, s, f)
nopinHandle(y, s, f, p) == IF p.flaw \in NopInFlaws THEN Failed(y) ELSE Done(y, <<>>, FALSE)

(* iSCSISession::doWork(): the handler of the opcode, which is given the   *)
(* session that findSession() found; shared is whether it found one.       *)
doWork(root, paths, y, s, f, p, shared) ==
  IF p.op \notin protos(y.ses[s]) THEN Failed(y)
  ELSE IF ~shared THEN Crashed(y, "null")
  ELSE CASE p.op = "login"   -> loginHandle(root, paths, y, s, f, p)
         [] p.op = "logout"  -> logoutHandle(y, s, f, p)
         [] p.op = "text"    -> textHandle(y, s, f, p)
         [] p.op = "nopout"  -> nopoutHandle(y, s, f, p)
         [] p.op = "nopin"   -> nopinHandle(y, s, f, p)
         [] p.op = "taskmng" -> taskmngHandle(y, s, f, p)
         [] p.op = "scsi"    -> answer(y, s, f)
=============================================================================
