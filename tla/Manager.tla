------------------------------ MODULE Manager -------------------------------
(***************************************************************************)
(* The objects that sessions, connections, reactors and select loops are,  *)
(* who holds whom, and the operations on them (src/manager.cpp,            *)
(* session.cpp, connection.cpp, reactor.cpp, include/loop.h).              *)
(*                                                                         *)
(* All of it is one record y:                                              *)
(*   ses    sessions by the number of the accept that made them            *)
(*   con    connections by their socket                                    *)
(*   rea    reactors; reactor r has the select loop r, main the loop 0     *)
(*   ports  the vector of ports of each loop; Listen is the listening port *)
(*   mem    what the iterators of a pass over that vector see              *)
(*   wait   the sockets of each loop's writefdcache                        *)
(*   tsih   the TSIH generator, accepted the number of accepts             *)
(***************************************************************************)
EXTENDS Login

CONSTANTS MaxSessions, MaxReactors

Fds == 1..MaxSessions
Sessions == 1..MaxSessions
Reactors == 1..MaxReactors
Main == 0
Listen == 0
Nowhere == -1

NoPdu == [op |-> "none"]
NoSession ==
  [live |-> FALSE, map |-> 0, type |-> "Login", sid |-> 0, tsih |-> 0, ffp |-> FALSE, conns |-> {},
   ini |-> [luns |-> -1, mrdsl |-> 0], attrs |-> <<>>, offers |-> <<>>, tasks |-> <<>>]
NoConnection ==
  [open |-> FALSE, peer |-> 0, eof |-> FALSE, inq |-> NoPdu, cid |-> 0, lis |-> Nowhere, snd |-> 0,
   room |-> TRUE]
NoReactor == [live |-> FALSE, listed |-> FALSE, ses |-> 0, stop |-> FALSE, thread |-> FALSE, runs |-> FALSE]

Nothing ==
  [ses |-> [s \in Sessions |-> NoSession], con |-> [f \in Fds |-> NoConnection],
   rea |-> [r \in Reactors |-> NoReactor], ports |-> [l \in {Main} \cup Reactors |-> <<>>],
   mem |-> [l \in {Main} \cup Reactors |-> <<>>], wait |-> [l \in {Main} \cup Reactors |-> {}],
   tsih |-> 0, accepted |-> 0]
-----------------------------------------------------------------------------
(* SelectLoop::addPort()                                                   *)
addPort(y, l, f) == [y EXCEPT !.ports[l] = Append(@, f)]

(* SelectLoop::delPort(): remove() moves the ports behind it one place up, *)
(* and a pass that is under way still sees the last one where it was.      *)
Where(seq, f) == {i \in DOMAIN seq : seq[i] = f}
Without(seq, f) == SelectSeq(seq, LAMBDA g : g # f)
delPort(y, l, f) ==
  LET at == Where(y.ports[l], f)
      j  == CHOOSE i \in at : TRUE
  IN IF at = {} THEN [y EXCEPT !.wait[l] = @ \ {f}]
     ELSE [y EXCEPT !.ports[l] = Without(@, f), !.wait[l] = @ \ {f},
                    !.mem[l] = [i \in DOMAIN @ |-> IF i >= j /\ i < Len(y.ports[l]) /\ i < Len(@)
                                                   THEN @[i+1] ELSE @[i]]]

(* iSCSIConnection::changeListener(), clearListener()                      *)
changeListener(y, f, r) ==
  LET left == IF y.con[f].lis = Nowhere THEN y ELSE delPort(y, y.con[f].lis, f)
  IN addPort([left EXCEPT !.con[f].lis = r], r, f)
clearListener(y, f) == [delPort(y, y.con[f].lis, f) EXCEPT !.con[f].lis = Nowhere]

(* iSCSISession::Connection::clearListener(), for every connection.        *)
RECURSIVE clearListeners(_, _)
clearListeners(y, fs) ==
  IF fs = {} THEN y ELSE LET f == CHOOSE g \in fs : TRUE IN clearListeners(clearListener(y, f), fs \ {f})
-----------------------------------------------------------------------------
(* iSCSIManager                                                            *)
findSession(y, s) == s # 0 /\ y.ses[s].map # 0
findSessionBySid(y, sid) == {s \in Sessions : y.ses[s].map # 0 /\ y.ses[s].sid = sid}
delSession(y, s) == [y EXCEPT !.ses[s].map = 0]

Listed(y) == {r \in Reactors : y.rea[r].listed}
getSessionID(y, r) == y.ses[y.rea[r].ses].sid
SameSid(y, sid) == {r \in Listed(y) : getSessionID(y, r) = sid}
findReactor(y, sid) == IF SameSid(y, sid) = {} THEN 0 ELSE CHOOSE r \in SameSid(y, sid) : TRUE
mayStop(y, r) == [y EXCEPT !.rea[r].stop = TRUE]

(* Mutant: a second reactor for a session is not refused.                  *)
addReactorAgain(y, r) == [y EXCEPT !.rea[r].listed = TRUE, !.rea[r].runs = TRUE]

(* addReactor(): the thread starts before setThread() is called.           *)
addReactor(y, r) ==
  IF SameSid(y, getSessionID(y, r)) # {} THEN y
  ELSE [y EXCEPT !.rea[r].listed = TRUE, !.rea[r].runs = TRUE]
setThread(y, r) == [y EXCEPT !.rea[r].thread = TRUE]
delReactor(y, r) == [y EXCEPT !.rea[r].listed = FALSE, !.rea[r].runs = FALSE]
-----------------------------------------------------------------------------
(* Reference counts.  A session is held by the map, by reactors, by every  *)
(* task that names it, and by locals of the threads; a reactor by the      *)
(* list, by the connections that it listens to, by its thread and by       *)
(* locals.  What nothing holds goes, and a connection with its last        *)
(* session: its destructor takes the port out of the loop and closes the   *)
(* socket.  Objects that hold each other stay.                             *)
HeldSessions(y, held) ==
  held \cup {s \in Sessions : y.ses[s].map # 0}
       \cup {y.rea[r].ses : r \in {q \in Reactors : y.rea[q].live}}
       \cup UNION {{y.ses[s].tasks[i].s : i \in DOMAIN y.ses[s].tasks} : s \in Sessions}
HeldReactors(y, held) ==
  held \cup {r \in Reactors : y.rea[r].listed \/ y.rea[r].runs}
       \cup {y.con[f].lis : f \in {g \in Fds : y.con[g].open}}

(* iSCSIConnection::~iSCSIConnection() and Port::~Port()                   *)
closePort(y, f) ==
  [(IF y.con[f].lis = Nowhere THEN y ELSE delPort(y, y.con[f].lis, f)) EXCEPT !.con[f] = NoConnection]

RECURSIVE Reap(_, _, _)
Reap(y, heldS, heldR) ==
  LET ss == {s \in Sessions : y.ses[s].live} \ HeldSessions(y, heldS)
      rs == {r \in Reactors : y.rea[r].live} \ HeldReactors(y, heldR)
      fs == {f \in Fds : y.con[f].open /\ \A s \in Sessions : f \notin y.ses[s].conns}
      x  == CHOOSE e \in ss : TRUE
      r  == CHOOSE e \in rs : TRUE
      f  == CHOOSE e \in fs : TRUE
  IN CASE fs # {} -> Reap(closePort(y, f), heldS, heldR)
       [] fs = {} /\ ss # {} -> Reap([y EXCEPT !.ses[x] = NoSession], heldS, heldR)
       [] fs = {} /\ ss = {} /\ rs # {} ->
            Reap([y EXCEPT !.rea[r] = NoReactor, !.ports[r] = <<>>, !.wait[r] = {}], heldS, heldR)
       [] OTHER -> y
-----------------------------------------------------------------------------
(* iSCSISession::Connection::del() and iSCSISession::cleanUp(): the last   *)
(* connection takes the session with it, or stops a reactor with its id.   *)
del(y, s, f) == [y EXCEPT !.ses[s].conns = @ \ {f}]

(* Mutant: a session that is not in the map any more has nothing to stop.  *)
cleanUpNoReactor(y, s, f) ==
  IF Cardinality(y.ses[s].conns) <= 1 THEN delSession(y, s) ELSE del(y, s, f)

cleanUp(y, s, f) ==
  IF Cardinality(y.ses[s].conns) > 1 THEN del(y, s, f)
  ELSE IF findSession(y, s) THEN delSession(y, s)
  ELSE LET r == findReactor(y, y.ses[s].sid) IN IF r = 0 THEN y ELSE mayStop(y, r)

newSession(root, f) ==
  [NoSession EXCEPT !.live = TRUE, !.conns = {f}, !.attrs = SessionAttrs(root),
                    !.offers = [k \in Numbers \cup Flags |-> {}]]
(* addSession() refuses a socket that is still a key of the map: the       *)
(* session that nothing holds then takes the connection with it.           *)
addSession(y, s, f) ==
  IF \E x \in Sessions : y.ses[x].map = f THEN y ELSE [y EXCEPT !.ses[s].map = f]

(* iSCSIAcceptor::accept(): the lowest free socket; the session is bound   *)
(* to the port as a plain pointer.                                         *)
accept(y, root, peer) ==
  LET f == CHOOSE g \in Fds : ~y.con[g].open /\ \A h \in 1..(g-1) : y.con[h].open
      s == y.accepted + 1
      x == addPort([y EXCEPT !.accepted = s, !.ses[s] = newSession(root, f),
                             !.con[f] = [NoConnection EXCEPT !.open = TRUE, !.peer = peer,
                                                             !.lis = Main, !.snd = s]],
                   Main, f)
  IN addSession(x, s, f)
=============================================================================
