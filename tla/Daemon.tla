------------------------------- MODULE Daemon -------------------------------
(***************************************************************************)
(* The process: how main() starts and ends (src/main.cpp,                  *)
(* signallistener.cpp), the select loop of the main thread and of every    *)
(* reactor thread (loop.cpp, acceptor.cpp, reactor.cpp), what a session    *)
(* does with a readable or a writable socket (session.cpp), the tasks of   *)
(* its queue (task.cpp, send.cpp), and the initiators at the other end.    *)
(*                                                                         *)
(* Threads interleave between passes, visits to a port and tasks of a      *)
(* queue, and inside CreateReactorTask between the start of the thread and *)
(* setThread().  An initiator follows the script of its scenario; a        *)
(* request waits for as many replies as its field after says.              *)
(***************************************************************************)
EXTENDS Handlers

CONSTANT Scenarios   \* what may surround the process: a sequence of records

VARIABLES
  scen,   \* the scenario of this behaviour
  proc,   \* main(): pc, the Configurator's root, listening, pids, fin, inst, status
  y,      \* the objects of Manager
  thr,    \* the threads: Main and the reactors
  peer,   \* the initiators: stage, at (next request), got (replies), told
  crash,  \* what brought the process down, or "none"
  faults  \* what the initiators and the threads have done that is not plain
vars == <<scen, proc, y, thr, peer, crash, faults>>

Threads == {Main} \cup Reactors
Idle == [pc |-> "off", i |-> 0, ph |-> "r", fd |-> 0, R |-> {}, W |-> {}, q |-> 0, hold |-> 0,
         task |-> 0, r |-> 0, sig |-> 0]
Clients == DOMAIN scen.scripts
NoRoot == [attrs |-> <<>>, lists |-> <<>>]
Root == proc.root
Up == proc.status = "runs" /\ crash = "none"

Init ==
  /\ \E i \in DOMAIN Scenarios : scen = Scenarios[i]
  /\ proc = [pc |-> "args", root |-> NoRoot, listening |-> {}, path |-> "", pids |-> scen.pids,
             fin |-> FALSE, inst |-> 0, status |-> "runs"]
  /\ y = [Nothing EXCEPT !.ports[Main] = <<Listen>>]
  /\ thr = [t \in Threads |-> Idle]
  /\ peer = [c \in Clients |-> [stage |-> "idle", at |-> 1, got |-> 0, told |-> {}]]
  /\ crash = "none" /\ faults = {}
-----------------------------------------------------------------------------
(* main() before the loop.                                                 *)
Exit(status) == proc' = [proc EXCEPT !.status = status]
Boot(from) == Up /\ proc.pc = from /\ UNCHANGED <<scen, y, peer, crash, faults>>

Parsed(args) == IF args.exits THEN Exit("success") ELSE proc' = [proc EXCEPT !.pc = "config", !.root = args.root]
ParseArgs == Boot("args") /\ Parsed(parseArgs(scen.args)) /\ UNCHANGED thr

Bound(read) ==
  CASE read.verdict = "ok"      -> proc' = [proc EXCEPT !.pc = "log", !.root = read.root]
    [] read.verdict = "aborted" -> Exit("aborted")
    [] OTHER                    -> Exit("failure")
ReadConfig == Boot("config") /\ Bound(readConfig(Root, scen.files)) /\ UNCHANGED thr

StartLogger ==
  /\ Boot("log")
  /\ IF InitLogger(Root) THEN proc' = [proc EXCEPT !.pc = "ports"] ELSE Exit("failure")
  /\ UNCHANGED thr

(* openPorts(): the ports before the first that cannot be bound stay open  *)
(* until the process ends.                                                 *)
TargetPorts(root) == TargetPortConfigurator(list(root, "TargetPort"))
openPorts ==
  /\ Boot("ports")
  /\ LET ports == TargetPorts(Root)
     IN IF \A i \in DOMAIN ports : ports[i] \in scen.bindable
        THEN proc' = [proc EXCEPT !.pc = "pid", !.listening = {ports[i] : i \in DOMAIN ports}, !.inst = 1]
        ELSE Exit("failure")
  /\ UNCHANGED thr

(* The PID file is opened with O_EXCL.                                     *)
PidFile(root) == getAttr(root, "PIDfile", Text(0, "")).s
CreatePid ==
  /\ Boot("pid")
  /\ IF PidFile(Root) \in proc.pids THEN Exit("failure") /\ UNCHANGED thr
     ELSE /\ proc' = [proc EXCEPT !.pc = "run", !.path = PidFile(Root), !.pids = @ \cup {PidFile(Root)}]
          /\ thr' = [thr EXCEPT ![Main] = [Idle EXCEPT !.pc = "top", !.sig = 1]]

(* main() after the loop: nobody waits for the reactors.                   *)
CloseListener == Boot("close") /\ proc' = [proc EXCEPT !.pc = "signals"] /\ UNCHANGED thr

(* SignalListener::exit() and clearInstance(), Configurator::clear()       *)
clearInstance ==
  /\ Boot("signals")
  /\ proc' = [proc EXCEPT !.pc = "unlink", !.inst = 0, !.root = NoRoot]
  /\ UNCHANGED thr

(* The path was read before the loop.                                      *)
Unlink ==
  /\ Boot("unlink")
  /\ proc' = [proc EXCEPT !.pids = @ \ {proc.path}, !.status = "success"]
  /\ UNCHANGED thr
-----------------------------------------------------------------------------
(* A step of thread t that leaves it as th and the objects as z: what      *)
(* nothing holds any more goes.  hold is the session that recv() holds,    *)
(* task the one of the task that is run, r the reactor that it made.       *)
HeldS(ths) == {ths[t].hold : t \in Threads} \cup {ths[t].task : t \in Threads}
HeldR(ths) == {ths[t].r : t \in Threads}
Clash(ths) == \E t, u \in Threads : t # u /\ ths[t].q # 0 /\ ths[t].q = ths[u].q
Fault(fault, t, th, z) ==
  /\ thr' = [thr EXCEPT ![t] = th]
  /\ y' = Reap(z, HeldS(thr'), HeldR(thr'))
  /\ faults' = faults \cup fault \cup IF Clash(thr') THEN {"clash"} ELSE {}
Step(t, th, z) == Fault({}, t, th, z)
Crash(cause) == crash' = cause /\ UNCHANGED <<proc, y, thr, peer, faults>>
Runs(t, pc) == Up /\ thr[t].pc = pc /\ UNCHANGED scen
Quiet == UNCHANGED <<proc, peer, crash>>

(* while(!stop), checkFin()                                                *)
Stopping(t) == (t # Main /\ y.rea[t].stop) \/ (proc.fin /\ thr[t].sig = 1)
Readable(f) ==
  IF f = Listen THEN \E c \in Clients : peer[c].stage = "waiting"
  ELSE y.con[f].inq # NoPdu \/ y.con[f].eof
Top(th) == [th EXCEPT !.pc = "top", !.i = 0, !.ph = "r", !.fd = 0, !.R = {}, !.W = {}, !.q = 0, !.hold = 0, !.r = 0]
Unseen(t, z) == [z EXCEPT !.mem[t] = <<>>]

(* select() returns, and a pass over the ports begins.                     *)
Select(t) ==
  /\ Runs(t, "top") /\ ~Stopping(t) /\ Quiet
  /\ LET R == {f \in {y.ports[t][i] : i \in DOMAIN y.ports[t]} : Readable(f)}
         W == {f \in y.wait[t] : y.con[f].room \/ y.con[f].eof}
     IN /\ R \cup W # {}
        /\ Step(t, [thr[t] EXCEPT !.pc = "pass", !.i = 1, !.ph = "r", !.R = R, !.W = W],
                [y EXCEPT !.mem[t] = y.ports[t]])

(* The next place of the pass with something to do: a port is read at ph   *)
(* "r"; at "w" the socket that was found there may be writable, and the    *)
(* sender is the one of the port that is at the place by now.              *)
RECURSIVE Seek(_, _)
Seek(th, mem) ==
  IF th.i > Len(mem) THEN [th EXCEPT !.pc = "over"]
  ELSE IF th.ph = "r" THEN
         LET here == [th EXCEPT !.fd = mem[th.i]]
         IN IF mem[th.i] \in th.R THEN here ELSE Seek([here EXCEPT !.ph = "w"], mem)
  ELSE IF th.fd \in th.W THEN th ELSE Seek([th EXCEPT !.ph = "r", !.i = @ + 1], mem)
At(t) == Seek(thr[t], y.mem[t])
Visits(t, ph) == Runs(t, "pass") /\ At(t).pc = "pass" /\ At(t).ph = ph

PassOver(t) == Runs(t, "pass") /\ At(t).pc = "over" /\ Quiet /\ Step(t, Top(thr[t]), Unseen(t, y))

(* iSCSIAcceptor::accept() returns 0 or an error: the pass ends.           *)
Accept ==
  /\ Visits(Main, "r") /\ At(Main).fd = Listen
  /\ \E c \in Clients :
       /\ peer[c].stage = "waiting" /\ \A d \in 1..(c-1) : peer[d].stage # "waiting"
       /\ peer' = [peer EXCEPT ![c].stage = "accepted"]
       /\ LET z == accept(y, Root, c)
          IN Fault(IF z.ses[z.accepted].map = 0 THEN {"stale"} ELSE {}, Main, Top(thr[Main]), Unseen(Main, z))
  /\ UNCHANGED <<proc, crash>>

(* The receiver of a port: the session that was accepted with it while     *)
(* main listens, else the session of the reactor.                          *)
receiver(f) == IF y.con[f].lis = Main THEN y.con[f].snd ELSE y.rea[y.con[f].lis].ses
Receivable(f) == f # Listen /\ y.con[f].open /\ y.con[f].lis # Nowhere
Receives(t, f, s) ==
  /\ Visits(t, "r") /\ f = At(t).fd /\ Receivable(f) /\ s = receiver(f)
Shared(f, s) == y.con[f].lis # Main \/ findSession(y, s)
Shares(f, s) == IF Shared(f, s) THEN s ELSE 0

(* iSCSISession::recv() with nothing to read: the peer closed, or the      *)
(* socket was read since select() returned.                                *)
RecvNothing(t) ==
  \E f \in Fds, s \in Sessions :
    /\ Receives(t, f, s) /\ y.con[f].inq = NoPdu /\ f \in y.ses[s].conns /\ Quiet
    /\ Fault(IF y.con[f].eof THEN {} ELSE {"twice"}, t, Top(thr[t]), Unseen(t, cleanUp(y, s, f)))

(* ... with a request.  One that fails is cleaned up after in doWork() and *)
(* again in recv(); when the peer has closed behind it, its replies stay   *)
(* in the queue.                                                           *)
Handled(t, f, s, h, told) ==
  \/ h.res = "failed" /\ Quiet /\ Fault({"failed"}, t, Top(thr[t]), Unseen(t, cleanUp(cleanUp(h.y, s, f), s, f)))
  \/ /\ h.res = "ok"
     /\ peer' = [peer EXCEPT ![y.con[f].peer].told = @ \cup told]
     /\ UNCHANGED <<proc, crash>>
     /\ \E queue \in IF h.merge THEN Merges(h.y.ses[s].tasks, h.tasks) ELSE {h.y.ses[s].tasks \o h.tasks} :
          LET z == [h.y EXCEPT !.ses[s].tasks = queue]
          IN IF y.con[f].eof THEN Step(t, Top(thr[t]), Unseen(t, cleanUp(z, s, f)))
             ELSE Step(t, [At(t) EXCEPT !.pc = "invoke", !.q = s, !.hold = Shares(f, s)], z)
  \/ h.res \notin {"ok", "failed"} /\ Crash(h.res)
RecvRequest(t) ==
  \E f \in Fds, s \in Sessions :
    /\ Receives(t, f, s) /\ y.con[f].inq # NoPdu /\ f \in y.ses[s].conns
    /\ Handled(t, f, s, doWork(Root, scen.paths, [y EXCEPT !.con[f].inq = NoPdu], s, f, y.con[f].inq, Shared(f, s)),
               IF y.con[f].inq.op = "text" THEN SendTargets(TargetPorts(Root)) ELSE {})

(* A port without a receiver throws; a port that is gone, or a session     *)
(* without the connection, is used all the same.                           *)
RecvLost(t) ==
  \E f \in Fds :
    /\ Visits(t, "r") /\ f = At(t).fd
    /\ CASE ~y.con[f].open -> Crash("iterator")
         [] y.con[f].open /\ y.con[f].lis = Nowhere -> Crash("receiver")
         [] OTHER -> f \notin y.ses[receiver(f)].conns /\ Crash("find")

(* iSCSISession::send(), bound to the session that accepted the port.      *)
Send(t) ==
  /\ Visits(t, "w")
  /\ LET f == y.mem[t][At(t).i]
     IN IF f # Listen /\ y.con[f].open /\ y.ses[y.con[f].snd].live
        THEN Quiet /\ Step(t, [At(t) EXCEPT !.pc = "invoke", !.q = y.con[f].snd], y)
        ELSE Crash("sender")
-----------------------------------------------------------------------------
(* SessionSendTask::invoke(): the task at the front of the queue.          *)
Queue(t) == y.ses[thr[t].q].tasks
Front(t) == Head(Queue(t))
Running(t, k) == Runs(t, "invoke") /\ y.ses[thr[t].q].live /\ Queue(t) # <<>> /\ Front(t).k = k
Ran(t, z) == Step(t, [thr[t] EXCEPT !.pc = "pop", !.task = Front(t).s], z)

(* recv() returns 1 and the same port is looked at for writing; send()     *)
(* returns 0 and the next port is next.                                    *)
Returned(th) ==
  [th EXCEPT !.pc = "pass", !.q = 0, !.hold = 0, !.ph = IF @ = "r" THEN "w" ELSE "r",
             !.i = IF th.ph = "r" THEN @ ELSE @ + 1]
Return(t, z) == Step(t, Returned(thr[t]), z)

InvokeDone(t) == Runs(t, "invoke") /\ y.ses[thr[t].q].live /\ Queue(t) = <<>> /\ Quiet /\ Return(t, y)

(* The last task of a queue took the session with it.                      *)
InvokeLost(t) == Runs(t, "invoke") /\ ~y.ses[thr[t].q].live /\ Crash("self")

(* pop(): the front of the queue, whatever it is by now.  After            *)
(* CreateReactorTask the reactor learns its thread first.                  *)
Pop(t) ==
  /\ Runs(t, "pop")
  /\ CASE ~y.ses[thr[t].q].live -> Crash("self")
       [] y.ses[thr[t].q].live /\ Queue(t) = <<>> -> Crash("pop")
       [] OTHER ->
            /\ Quiet
            /\ Step(t, [thr[t] EXCEPT !.pc = "invoke", !.task = 0, !.r = 0],
                    [(IF thr[t].r = 0 THEN y ELSE setThread(y, thr[t].r)) EXCEPT !.ses[thr[t].q].tasks = Tail(@)])

(* SendTask::run(): all of it goes, or the socket is full or in error and  *)
(* the loop waits for it; a write to a peer that is gone may also raise    *)
(* SIGPIPE, which nobody catches.                                          *)
SendDone(t) ==
  /\ Running(t, "send")
  /\ LET f == Front(t).fd IN
     /\ y.con[f].room
     /\ IF f \notin y.ses[Front(t).s].conns THEN Crash("connection")
        ELSE IF y.con[f].lis = Nowhere THEN Crash("listener")
        ELSE /\ Ran(t, [y EXCEPT !.wait[y.con[f].lis] = @ \ {f}])
             /\ peer' = [peer EXCEPT ![y.con[f].peer].got = @ + 1]
             /\ UNCHANGED <<proc, crash>>
(* Mutant: the loop is not told that the rest waits for the socket.        *)
SendForgotten(t) ==
  /\ Running(t, "send") /\ scen.slow /\ Front(t).fd \in y.ses[Front(t).s].conns
  /\ Return(t, [y EXCEPT !.con[Front(t).fd].room = FALSE])
  /\ Quiet

SendBlocked(t) ==
  /\ Running(t, "send")
  /\ LET f == Front(t).fd IN
     /\ y.con[f].room => scen.slow \/ y.con[f].eof
     /\ f \in y.ses[Front(t).s].conns /\ y.con[f].lis # Nowhere
     /\ Return(t, [y EXCEPT !.wait[y.con[f].lis] = @ \cup {f}, !.con[f].room = @ /\ y.con[f].eof])
     /\ Quiet
SendPipe(t) == Running(t, "send") /\ y.con[Front(t).fd].eof /\ Crash("sigpipe")

(* CloseSessionTask, CloseConnectionTask, RemoveReactorTask::run()         *)
CloseSession(t) == Running(t, "close") /\ Quiet /\ Ran(t, delSession(y, Front(t).s))
CloseConnection(t) == Running(t, "closeconn") /\ Quiet /\ Ran(t, del(y, Front(t).s, Front(t).fd))
RemoveReactor(t) ==
  /\ Running(t, "remove")
  /\ LET r == findReactor(y, y.ses[Front(t).s].sid)
     IN IF r = 0 THEN Crash("remove") ELSE Quiet /\ Ran(t, mayStop(y, r))

(* CreateReactorTask::run(): when addReactor() refuses, the task stays at  *)
(* the front, and the connection with the reactor that nobody runs.        *)
CreateReactor(t) ==
  /\ Running(t, "create")
  /\ LET s == Front(t).s
         f == Front(t).fd
         r == CHOOSE q \in Reactors : ~y.rea[q].live /\ \A p \in 1..(q-1) : y.rea[p].live
         made == [delSession(y, s) EXCEPT !.rea[r] = [NoReactor EXCEPT !.live = TRUE, !.ses = s]]
         z == addReactor(changeListener(made, f, r), r)
     IN IF f \notin y.ses[s].conns THEN Crash("connection")
        ELSE /\ Quiet
             /\ IF z.rea[r].runs THEN Step(t, [thr[t] EXCEPT !.pc = "pop", !.task = s, !.r = r], z)
                ELSE Return(t, z)
Invoke(t) ==
  \/ InvokeDone(t) \/ InvokeLost(t) \/ SendDone(t) \/ SendBlocked(t) \/ SendPipe(t)
  \/ CloseSession(t) \/ CloseConnection(t) \/ RemoveReactor(t) \/ CreateReactor(t) \/ Pop(t)
-----------------------------------------------------------------------------
(* iSCSIReactor::operator()(): setupWriters() wants an initiator, and the  *)
(* loop takes the SignalListener that there is or makes a new one.         *)
ReactorStart(r) ==
  /\ Runs(r, "off") /\ y.rea[r].runs
  /\ UNCHANGED <<peer, crash>>
  /\ IF y.ses[y.rea[r].ses].ini.luns < 0
     THEN Step(r, [Idle EXCEPT !.pc = "end"], y) /\ UNCHANGED proc
     ELSE /\ Step(r, [Idle EXCEPT !.pc = "top", !.sig = IF proc.inst = 1 THEN 1 ELSE 2], y)
          /\ proc' = [proc EXCEPT !.inst = IF @ = 0 THEN 2 ELSE @]

(* The loop ends, and clearWriters() stops the writers and waits for them. *)
LoopExit(t) ==
  /\ Runs(t, "top") /\ Stopping(t)
  /\ UNCHANGED <<peer, crash>>
  /\ IF t = Main THEN proc' = [proc EXCEPT !.pc = "close"] /\ Step(t, Idle, y)
     ELSE UNCHANGED proc /\ Step(t, [thr[t] EXCEPT !.pc = "end"], y)

(* checkFin() of a SignalListener that main() has deleted.                 *)
SignalLost(r) == Runs(r, "top") /\ thr[r].sig = 1 /\ proc.inst # 1 /\ Crash("signal")

(* The end of operator(): delReactor() deletes a thread pointer that may   *)
(* never have been set.                                                    *)
ReactorEnd(r) ==
  /\ Runs(r, "end")
  /\ LET fs == y.ses[y.rea[r].ses].conns
     IN IF \E f \in fs : y.con[f].lis = Nowhere THEN Crash("listener")
        ELSE Quiet /\ Step(r, Idle, delReactor(clearListeners(y, fs), r))
ThreadLost(r) == Runs(r, "end") /\ ~y.rea[r].thread /\ Crash("thread")

Reactor(r) == ReactorStart(r) \/ SignalLost(r) \/ ReactorEnd(r) \/ ThreadLost(r)
Loop(t) ==
  \/ Select(t) \/ PassOver(t) \/ RecvNothing(t) \/ RecvRequest(t) \/ RecvLost(t) \/ Send(t) \/ Invoke(t)
  \/ LoopExit(t)
-----------------------------------------------------------------------------
(* The initiators, and the signal to end.                                  *)
SocketOf(c) == {f \in Fds : y.con[f].open /\ y.con[f].peer = c}
Env == Up /\ proc.pc = "run" /\ UNCHANGED <<scen, thr, crash>>
Connect(c) ==
  /\ Env /\ peer[c].stage = "idle" /\ \A d \in 1..(c-1) : peer[d].got >= scen.patience
  /\ peer' = [peer EXCEPT ![c].stage = "waiting"]
  /\ UNCHANGED <<proc, y, faults>>

(* A request that is out of the plain way: a session id that a session has *)
(* already, a connection for a session, no name or one whose volumes are   *)
(* not there, a text without pairs.                                        *)
Odd(f, p) ==
  LET s == receiver(f)
      name == getPairValue(p.pairs, "InitiatorName").s
      login == p.op = "login"
      odds == [again   |-> login /\ \E x \in Sessions \ {s} : y.ses[x].live /\ y.ses[x].sid = p.sid,
               added   |-> login /\ p.tsih # 0,
               unnamed |-> login /\ IF name = "" THEN y.ses[s].ini.luns < 0
                                   ELSE iSCSIInitiator(Root, name, scen.paths).res # "ok",
               empty   |-> p.op = "text" /\ p.pairs = <<>>]
  IN {o \in DOMAIN odds : odds[o]}
Request(c) ==
  /\ Env /\ peer[c].at <= Len(scen.scripts[c]) /\ peer[c].got >= scen.scripts[c][peer[c].at].after
  /\ \E f \in SocketOf(c) :
       /\ y.con[f].inq = NoPdu /\ ~y.con[f].eof
       /\ y' = [y EXCEPT !.con[f].inq = scen.scripts[c][peer[c].at]]
       /\ faults' = faults \cup IF y.con[f].lis = Nowhere THEN {} ELSE Odd(f, scen.scripts[c][peer[c].at])
  /\ peer' = [peer EXCEPT ![c].at = @ + 1]
  /\ UNCHANGED proc

(* An initiator closes when it has its replies, a rude one at any time.    *)
Replied(pdus) == Cardinality({i \in DOMAIN pdus : pdus[i].op # "nopin"})
Close(c) ==
  /\ Env
  /\ LET done == peer[c].at > Len(scen.scripts[c]) /\ peer[c].got = Replied(scen.scripts[c])
     IN /\ c \in scen.rude \/ done
        /\ faults' = IF done /\ scen.scripts[c][peer[c].at - 1].op = "logout" THEN faults ELSE faults \cup {"closed"}
  /\ \E f \in SocketOf(c) : ~y.con[f].eof /\ y' = [y EXCEPT !.con[f].eof = TRUE]
  /\ peer' = [peer EXCEPT ![c].stage = "closed"]
  /\ UNCHANGED proc
Drain(c) ==
  /\ Env /\ \E f \in SocketOf(c) : ~y.con[f].room /\ y' = [y EXCEPT !.con[f].room = TRUE]
  /\ UNCHANGED <<proc, peer, faults>>
Signal ==
  /\ Env /\ scen.fin /\ ~proc.fin
  /\ proc' = [proc EXCEPT !.fin = TRUE]
  /\ faults' = faults \cup {"signal"}
  /\ UNCHANGED <<y, peer>>

Next ==
  \/ ParseArgs \/ ReadConfig \/ StartLogger \/ openPorts \/ CreatePid
  \/ CloseListener \/ clearInstance \/ Unlink
  \/ Accept \/ \E t \in Threads : Loop(t)
  \/ \E r \in Reactors : Reactor(r)
  \/ \E c \in Clients : Connect(c) \/ Request(c) \/ Close(c) \/ Drain(c)
  \/ Signal
Spec == Init /\ [][Next]_vars
-----------------------------------------------------------------------------
(* No two reactors of the list have the same session id: what findReactor()*)
(* finds for a login, a logout or a lost connection is the one there is.   *)
OneReactorPerSid ==
  \A r, q \in Listed(y) : getSessionID(y, r) = getSessionID(y, q) => r = q

(* The process goes down only by what the table says: two threads in one   *)
(* queue (SessionSendTask has no lock), a session id that is in use        *)
(* (RemoveReactorTask does not look whether the reactor is there), more    *)
(* connections, a peer that closes without a logout, the signal, a login   *)
(* without its initiator, a bad header that ends a reactor before          *)
(* setThread().  Sequential initiators that log out are safe from all of   *)
(* it, and nothing makes a handler run without its session.                *)
Excuses ==
  [pop |-> {"clash"}, sigpipe |-> {"closed", "clash"}, remove |-> {"clash", "again"},
   self |-> {"clash", "closed", "added"}, listener |-> {"clash", "closed"}, sender |-> {"added", "closed"},
   find |-> {"added"}, iterator |-> {"added", "closed"}, signal |-> {"signal"},
   thread |-> {"closed", "signal", "unnamed", "failed"}, initiator |-> {"unnamed"}, text |-> {"empty"}]
Survives ==
  crash = "none" \/ (crash \in DOMAIN Excuses /\ faults \cap Excuses[crash] # {})

(* A peer that closed, and a cleanUp() that has nothing left to do: the    *)
(* loop comes to the port for ever.                                        *)
Spins(f) ==
  /\ f # Listen /\ y.con[f].eof /\ y.con[f].inq = NoPdu /\ Receivable(f)
  /\ f \in y.ses[receiver(f)].conns /\ cleanUp(y, receiver(f), f) = y

(* Every thread waits in select() with nothing to wake it, or spins.       *)
Resting(t) ==
  \/ thr[t].pc = "off" /\ t # Main /\ ~y.rea[t].runs
  \/ /\ thr[t].pc = "top" /\ ~Stopping(t)
     /\ \A i \in DOMAIN y.ports[t] : Readable(y.ports[t][i]) => Spins(y.ports[t][i])
     /\ \A f \in y.wait[t] : ~y.con[f].room /\ ~y.con[f].eof
Quiescent == Up /\ proc.pc = "run" /\ \A t \in Threads : Resting(t)
Refused(f) == y.con[f].lis \in Reactors /\ ~y.rea[y.con[f].lis].runs
Ended(r) == y.rea[r].live /\ ~y.rea[r].runs
Leaked(f) ==
  (y.con[f].lis = Nowhere \/ Spins(f)) /\
    \E s \in Sessions : f \in y.ses[s].conns /\ (y.ses[s].tasks # <<>> \/ \E r \in Reactors : Ended(r) /\ y.rea[r].ses = s)

(* When the daemon rests or only spins, every request was read and every   *)
(* peer that closed was noticed, but on two kinds of connection that come  *)
(* to nothing: one that listens to a reactor without a thread (it was      *)
(* refused by addReactor(), or ended while a session that is not its own   *)
(* still had the connection), and one of a session that never goes because *)
(* tasks in its queue, or such a reactor, hold it.  No other connection is *)
(* left without a listener, or makes a loop spin.                          *)
Served ==
  Quiescent => \A f \in Fds : y.con[f].open /\ (Readable(f) \/ y.con[f].lis = Nowhere)
                               => Refused(f) \/ Leaked(f)

(* When the daemon rests and no two threads met in a queue, every request  *)
(* of an open connection that is watched was answered exactly once, or     *)
(* its queue begins with a reply for which there is no room.  A connection *)
(* that the daemon closed first had its last word, a logout, answered, or  *)
(* something is to blame: a request that failed, a session id used again,  *)
(* a login that made no initiator, so that its reactor never ran, a port   *)
(* that a pass came to twice, a socket that the map still names.           *)
Due(c) == Replied(SubSeq(scen.scripts[c], 1, peer[c].at - 1))
Answered ==
  Quiescent /\ "clash" \notin faults =>
    \A c \in Clients :
      /\ \A f \in SocketOf(c) :
           \/ Refused(f) \/ Leaked(f)
           \/ peer[c].got = Due(c)
           \/ \E s \in Sessions : /\ f \in y.ses[s].conns /\ y.ses[s].tasks # <<>>
                                 /\ y.ses[s].tasks[1].k = "send" /\ ~y.con[y.ses[s].tasks[1].fd].room
      /\ peer[c].stage = "accepted" /\ SocketOf(c) = {} =>
           \/ faults \cap {"failed", "again", "added", "unnamed", "twice", "stale"} # {}
           \/ peer[c].got = Due(c) /\ peer[c].at > 1 /\ scen.scripts[c][peer[c].at - 1].op = "logout"

(* A session's parameters are what its configuration and all that its      *)
(* initiator offered agree on, over every stage and every later login; a   *)
(* discovery session was told addresses that the daemon listens on.        *)
Configured == proc.pc \in {"log", "ports", "pid", "run", "close", "signals"}
Base(k) == IF k = "MaxOutstandingR2T" THEN "MaxConnections" ELSE k
Agreed ==
  /\ \A s \in Sessions : y.ses[s].live /\ Configured =>
       \A k \in Minimum \cup Maximum :
         LET all == {getAttr(Root, Base(k), UInt(0)).n} \cup y.ses[s].offers[k]
         IN /\ y.ses[s].attrs[k] \in all
            /\ \A v \in all : IF k \in Minimum THEN y.ses[s].attrs[k] <= v ELSE y.ses[s].attrs[k] >= v
  /\ \A c \in Clients : peer[c].told \subseteq proc.listening \cup (Nics \ {Loopback})

(* The daemon listens only with a configuration whose numbers are in the   *)
(* ranges and whose names can be resolved; options of the command line win *)
(* over the file; a PID file that was there is never touched, and one is   *)
(* left behind only by a process that went down.                           *)
Ranges ==
  [MaxConnections |-> 1..8, ErrorRecoveryLevel |-> 0..2, NopOutTimeout |-> 0..60,
   MaxBurstLength |-> 512..33554431, DefaultTime2Wait |-> 0..3600]
StartupSound ==
  /\ proc.listening # {} /\ Configured =>
       /\ \A a \in DOMAIN Ranges \cap DOMAIN Root.attrs : Root.attrs[a].n \in Ranges[a]
       /\ {"GlobalTargetName", "LocalTargetName"} \subseteq DOMAIN Root.attrs
       /\ \A a \in DOMAIN parseArgs(scen.args).root.attrs : Root.attrs[a] = parseArgs(scen.args).root.attrs[a]
       /\ proc.listening \subseteq Addresses \cap scen.bindable
       /\ \A i \in DOMAIN list(Root, "Initiator") :
            "SessionAuth" \in DOMAIN list(Root, "Initiator")[i] =>
              "None" \notin list(Root, "Initiator")[i].SessionAuth.methods
  /\ scen.pids \subseteq proc.pids
  /\ proc.pids # scen.pids => proc.pc \in {"run", "close", "signals", "unlink"} /\ proc.status = "runs"
=============================================================================
