------------------------------ MODULE MCDaemon ------------------------------
(* Scenarios for Daemon: configurations and command lines without traffic, *)
(* and one good configuration with the scripts of one or two initiators.   *)
EXTENDS Daemon

T(s) == Text(10, s)
Part(path) == [Host |-> T("target"), Path |-> T(path), Start |-> UInt(0), Count |-> UInt(8)]
GoodTarget == [TargetName |-> T("target"), TargetAddress |-> T("[10.0.0.1]:3260")]
GoodInitiator == [InitiatorName |-> T("ini"), LUN |-> <<"vol">>]
LostInitiator == [InitiatorName |-> T("lost"), LUN |-> <<"gone">>]
BareInitiator == [InitiatorName |-> T("bare"), LUN |-> <<"none">>]
GoodVolume == [VolumeName |-> T("vol"), Main |-> <<Part("a"), Part("b")>>, Copy |-> <<<<Part("a")>>, <<Part("b")>>>>]
LostVolume == [VolumeName |-> T("gone"), Main |-> <<Part("c")>>]
GoodFile ==
  [exists |-> TRUE, parses |-> TRUE,
   attrs |-> [GlobalTargetName |-> T("iqn.t"), LocalTargetName |-> T("iqn.l"), MaxConnections |-> UInt(2),
              MaxBurstLength |-> UInt(4096), DefaultTime2Wait |-> UInt(3), InitialR2T |-> Bool(TRUE),
              ImmediateData |-> Bool(FALSE), PIDfile |-> T("file.pid"), Debug |-> Bool(FALSE)],
   lists |-> [TargetPort |-> <<"[10.0.0.1]:3260">>, Target |-> <<GoodTarget>>,
              Initiator |-> <<GoodInitiator, LostInitiator, BareInitiator>>,
              Volume |-> <<GoodVolume, LostVolume>>]]
-----------------------------------------------------------------------------
V(k, n, s) == [k |-> k, n |-> n, s |-> s]
N(k, n) == V(k, n, "")
S(k, s) == V(k, 0, s)
After(n, pdu) == [after |-> n] @@ pdu
Login(after, kind, sid, tsih, cid, pairs) ==
  After(after, LoginReqHeader(1, FullFeature, sid, tsih, cid,
                              <<S("SessionType", kind), S("InitiatorName", "ini")>> \o pairs))
Normal(sid) == Login(0, "Normal", sid, 0, 0, <<>>)
Discovery(sid) == Login(0, "Discovery", sid, 0, 0, <<N("DefaultTime2Wait", 5)>>)
More(sid, tsih, cid) == Login(0, "Normal", sid, tsih, cid, <<>>)
Logout(after, reason, cid) == After(after, LogoutReqHeader(reason, cid))
Text1(after) == After(after, TextReqHeader(<<S("SendTargets", "All")>>))

(* Traffic: scripts, clients that may close at any time, whether sockets   *)
(* fill up, whether the signal comes, and how many replies a client needs  *)
(* before the next one connects.                                           *)
Quietly == [scripts |-> <<>>, rude |-> {}, slow |-> FALSE, fin |-> TRUE, patience |-> 0]
Load(scripts) == [Quietly EXCEPT !.scripts = scripts, !.fin = FALSE]
Surround(file, load) ==
  [args |-> <<[opt |-> "c", val |-> T("conf")]>>, files |-> ("conf" :> file) @@ ("default.conf" :> file),
   pids |-> {"other.pid"}, bindable |-> Addresses, paths |-> {"a", "b"}] @@ load
Good(load) == Surround(GoodFile, load)

Named(pairs, name) == [p \in DOMAIN pairs |-> IF pairs[p].k = "InitiatorName" THEN S("InitiatorName", name) ELSE pairs[p]]
As(login, name) == [login EXCEPT !.pairs = Named(@, name)]
Staged(sid) ==
  <<[Login(0, "Normal", sid, 0, 0, <<N("MaxBurstLength", 8192), S("InitialR2T", "No")>>) EXCEPT !.csg = 0, !.nsg = 1],
    [Login(1, "Normal", sid, 0, 0, <<N("MaxBurstLength", 2048), N("MaxOutstandingR2T", 1)>>) EXCEPT !.pairs = Tail(Tail(@))]>>

(* Initiators that keep to the protocol, one connection to a session.      *)
One   == <<Normal(1), After(1, CommandHeader), Logout(2, "session", 0)>>
Two   == <<Normal(2), After(1, NopOutHeader), Logout(2, "session", 0)>>
Look  == <<Discovery(1), Text1(1), Logout(2, "session", 0)>>
Slow  == <<Normal(1), After(1, TaskMngReqHeader), After(2, NopInHeader), Logout(2, "session", 0)>>
Again == Staged(1) \o <<Login(2, "Normal", 1, 0, 0, <<N("DefaultTime2Wait", 9), S("IFMarker", "Yes")>>), Logout(3, "session", 0)>>
Polite ==
  << Load(<<Look, One>>),
     [Load(<<Slow>>) EXCEPT !.slow = TRUE],
     Load(<<Again>>),
     [Load(<<One, Two>>) EXCEPT !.patience = 1] >>

(* Three that log in at once.                                              *)
Crowd == Load(<<<<Normal(1)>>, <<Normal(2)>>, <<Discovery(3)>>>>)

(* The same session id again, more connections, ends that come early.      *)
Twice(a, b) == [Load(<<a, b>>) EXCEPT !.patience = 1]
Harsh ==
  << Twice(One, <<Normal(1), After(1, CommandHeader)>>),
     Twice(<<Normal(1), After(1, CommandHeader)>>, <<More(1, 1, 7), After(1, NopOutHeader), Logout(2, "connection", 2)>>),
     [Twice(<<Normal(1)>>, <<More(1, 1, 7), After(1, NopOutHeader)>>) EXCEPT !.slow = TRUE, !.rude = {2}],
     Twice(<<Normal(1)>>, <<More(1, 1, 1), Logout(1, "session", 0)>>),
     Twice(<<Normal(1)>>, <<[More(1, 1, 1) EXCEPT !.stat = FALSE]>>),
     Twice(<<Normal(1)>>, <<More(1, 5, 0)>>),
     [Load(<<<<Normal(1), After(0, CommandHeader)>>>>) EXCEPT !.rude = {1}, !.slow = TRUE],
     [Load(<<<<Discovery(1), Text1(0)>>, <<Discovery(1)>>>>) EXCEPT !.rude = {1}, !.slow = TRUE],
     [Load(<<One>>) EXCEPT !.fin = TRUE],
     Load(<<<<[Normal(1) EXCEPT !.pairs = <<S("SessionType", "Normal")>>]>>>>),
     Twice(<<Normal(1)>>, <<As(Normal(1), "lost")>>),
     Load(<<<<As(Normal(1), "bare")>>>>),
     [Load(<<<<Discovery(1), Logout(1, "connection", 1)>>, <<Normal(2)>>>>) EXCEPT !.patience = 2],
     Load(<<<<Discovery(1), [Text1(1) EXCEPT !.pairs = <<>>]>>>>),
     Load(<<<<Normal(1), [After(1, NopOutHeader) EXCEPT !.flaw = "ttt"]>>, <<Discovery(2), Logout(1, "recovery", 0), After(2, CommandHeader)>>>>),
     Load(<<<<[Normal(1) EXCEPT !.nsg = 1]>>, <<[Discovery(2) EXCEPT !.pairs = <<N("MaxBurstLength", 512)>>]>>>>) >>

Traffic == Polite \o <<Crowd>> \o Harsh
-----------------------------------------------------------------------------
(* Configurations and command lines, good and bad, without traffic.        *)
With(a, x) == [GoodFile EXCEPT !.attrs = (a :> x) @@ @]
Entry(tag, l) == [GoodFile EXCEPT !.lists[tag] = l]
Auth(methods, ini, target) ==
  Entry("Initiator", <<[InitiatorName |-> T("ini"),
                        SessionAuth |-> [methods |-> methods, initiator |-> ini, target |-> target]]>>)
Volume(part) == Entry("Volume", <<[VolumeName |-> T("vol"), Main |-> <<part>>]>>)
Files ==
  << GoodFile, [GoodFile EXCEPT !.exists = FALSE], [GoodFile EXCEPT !.parses = FALSE],
     With("Unknown", UInt(1)), [GoodFile EXCEPT !.attrs = [GlobalTargetName |-> T("iqn.t")]],
     With("MaxConnections", UInt(0)), With("MaxConnections", UInt(8)), With("MaxConnections", UInt(9)),
     With("MaxConnections", UInt(-1)), With("MaxConnections", T("two")),
     With("MaxBurstLength", UInt(511)), With("MaxBurstLength", UInt(512)),
     With("MaxBurstLength", UInt(33554431)), With("MaxBurstLength", UInt(33554432)),
     With("DataPDUInOrder", Bool(FALSE)), With("DataPDUInOrder", Bool(TRUE)),
     With("ConsolePort", T("nowhere")), With("ConsolePort", T("[0.0.0.0]:32680")),
     With("LogLevel", Text(7, "warning")), With("LogLevel", Text(4, "warn")), With("LogLevel", Text(5, "debug")),
     With("GlobalTargetName", Text(0, "")), With("PIDfile", T("other.pid")),
     Entry("TargetPort", <<>>), Entry("TargetPort", <<"nowhere">>),
     Entry("TargetPort", <<"[0.0.0.0]:3260", "[10.0.0.2]:3260">>),
     Entry("Target", <<>>), Entry("Target", <<[TargetName |-> T("target")]>>),
     Entry("Target", <<[GoodTarget EXCEPT !.TargetAddress = T("nowhere")]>>),
     Entry("Target", <<GoodTarget @@ [TargetAlias |-> Text(0, "")]>>),
     Volume([Part("a") EXCEPT !.Host = T("stranger")]), Volume([Part("a") EXCEPT !.Host = T("[10.0.0.1]:3260")]),
     Volume([Part("a") EXCEPT !.Count = UInt(0)]), Volume([Path |-> T("a")]),
     Entry("Volume", <<[Main |-> <<>>]>>),
     Entry("Initiator", <<[LUN |-> <<"vol">>]>>),
     Auth({}, -1, -1), Auth({"None"}, -1, -1), Auth({"CHAP"}, 8, -1), Auth({"CHAP"}, 8, 8), Auth({"CHAP"}, 129, -1) >>
Commands ==
  LET opt(o, v) == [opt |-> o, val |-> T(v)]
  IN << <<>>, <<opt("d", "")>>, <<opt("h", "")>>, <<opt("p", "own.pid"), opt("c", "conf")>>, <<opt("p", "other.pid")>>,
        <<opt("?", ""), opt("p", "own.pid")>>, <<opt("d", ""), opt("v", "")>>, <<opt("c", "gone")>> >>
Missing == "gone" :> [GoodFile EXCEPT !.exists = FALSE]

Startups ==
  LET files == Files
      commands == Commands
      plain == Good(Quietly)
  IN [i \in DOMAIN files |-> Surround(files[i], Quietly)]
     \o [i \in DOMAIN commands |-> [plain EXCEPT !.args = commands[i], !.files = Missing @@ @]]
     \o <<[plain EXCEPT !.bindable = {}]>>
MCScenarios ==
  LET traffic == Traffic
  IN Startups \o [i \in DOMAIN traffic |-> Good(traffic[i])]
     \o <<Surround(Entry("TargetPort", <<>>), Load(<<Look>>))>>
MCAddresses == {"[0.0.0.0]:3260", "[10.0.0.1]:3260", "[10.0.0.2]:3260", "[0.0.0.0]:32680"}
MCAny == {"[0.0.0.0]:3260", "[0.0.0.0]:32680"}
MCNics == {"10.0.0.1", "127.0.0.1"}
=============================================================================
