------------------------------- MODULE Config -------------------------------
(***************************************************************************)
(* The configuration: how the command line and the file make the root      *)
(* (src/configurator.cpp, configbinder.cpp), which attributes and entries  *)
(* the validators accept (rootvalidator.cpp and the validators of the four *)
(* lists), and what the daemon later looks up in it.                       *)
(*                                                                         *)
(* A scalar is [t, n, s]: its JSON type, its number (the length of a       *)
(* string, 0 or 1 for a bool) and its text.  A file is                     *)
(* [exists, parses, attrs, lists]; an entry of a list is a record with the *)
(* members that the file gives it.                                         *)
(***************************************************************************)
EXTENDS Integers, Sequences, FiniteSets, TLC

CONSTANTS
  Addresses,    \* texts that InetUtil::getSockAddr() can resolve, with a port
  AnyAddresses, \* those of them that name every interface
  Nics          \* the other addresses of the machine, loopback included

ASSUME AddressesAssumption == AnyAddresses \subseteq Addresses

UInt(n)      == [t |-> "uint", n |-> n, s |-> ""]
Bool(b)      == [t |-> "bool", n |-> IF b THEN 1 ELSE 0, s |-> ""]
Text(len, s) == [t |-> "string", n |-> len, s |-> s]
-----------------------------------------------------------------------------
(* The validators (include/validator.h).  NoLimit stands for LONG_MAX and  *)
(* the like.                                                               *)
NoLimit == 2147483647
PathMax == 4096
RangeValidator(lo, hi)  == [t |-> "uint", kind |-> "range", lo |-> lo, hi |-> hi]
LengthValidator(lo, hi) == [t |-> "string", kind |-> "length", lo |-> lo, hi |-> hi]
AddrStrValidator        == [t |-> "string", kind |-> "addr", lo |-> 0, hi |-> 0]
FixedValidator(b)       == [t |-> "bool", kind |-> "fixed", lo |-> b, hi |-> b]
NullValidator           == [t |-> "bool", kind |-> "null", lo |-> 0, hi |-> 1]

getSockAddr(str) == str \in Addresses

(* Mutant: the upper end of a range is not looked at.                      *)
validLax(v, x) ==
  IF v.kind = "addr" THEN getSockAddr(x.s) ELSE v.lo <= x.n

valid(v, x) ==
  CASE v.kind = "addr" -> getSockAddr(x.s)
    [] OTHER           -> v.lo <= x.n /\ x.n <= v.hi

(* RootValidator::RootValidator(): the validator of every scalar.          *)
Segment == RangeValidator(512, 33554431)
Name == LengthValidator(1, PathMax)
RootValidators ==
  [a \in {"ConfigFile", "PIDfile", "GlobalTargetName", "LocalTargetName", "LogFile"} |-> Name]
  @@ [a \in {"Debug", "InitialR2T", "ImmediateData", "IFMarker", "OFMarker"} |-> NullValidator]
  @@ [a \in {"MaxRecvDataSegmentLength", "MaxBurstLength", "FirstBurstLength"} |-> Segment]
  @@ [a \in {"DefaultTime2Wait", "DefaultTime2Retain", "NopOutInterval"} |-> RangeValidator(0, 3600)]
  @@ [a \in {"DataPDUInOrder", "DataSequenceInOrder"} |-> FixedValidator(1)]
  @@ [a \in {"HeaderDigest", "DataDigest"} |-> LengthValidator(4, 12)]
  @@ [ConsolePort |-> AddrStrValidator, LogLevel |-> LengthValidator(1, 6),
      PoolSoftLimit |-> RangeValidator(1048576, NoLimit),
      PoolHardLimit |-> RangeValidator(2097152, NoLimit),
      MaxConnections |-> RangeValidator(1, 8), MaxOutstandingR2T |-> RangeValidator(0, 65535),
      ErrorRecoveryLevel |-> RangeValidator(0, 2), NopOutTimeout |-> RangeValidator(0, 60)]

Lists == {"TargetPort", "Target", "Initiator", "Volume"}
required == {"GlobalTargetName", "LocalTargetName"}
optional == (DOMAIN RootValidators \ required) \cup Lists

(* ConfiguratorImpl::setDefaults() and configdefault.hpp.                  *)
DefaultTargetPort == "[0.0.0.0]:3260"
defaultValue ==
  [Debug |-> Bool(FALSE), ConfigFile |-> Text(30, "default.conf"), PIDfile |-> Text(30, "default.pid"),
   GlobalTargetName |-> Text(32, "iqn.default"), LocalTargetName |-> Text(33, "iqn.default0"),
   ConsolePort |-> Text(15, "[0.0.0.0]:32680"), LogFile |-> Text(29, "system.log"),
   LogLevel |-> Text(4, "info"), PoolSoftLimit |-> UInt(134217728), PoolHardLimit |-> UInt(268435456),
   MaxConnections |-> UInt(1), InitialR2T |-> Bool(FALSE), ImmediateData |-> Bool(TRUE),
   MaxRecvDataSegmentLength |-> UInt(65536), MaxBurstLength |-> UInt(16776192),
   FirstBurstLength |-> UInt(262144), DefaultTime2Wait |-> UInt(2), DefaultTime2Retain |-> UInt(20),
   MaxOutstandingR2T |-> UInt(1), DataPDUInOrder |-> Bool(TRUE), DataSequenceInOrder |-> Bool(TRUE),
   ErrorRecoveryLevel |-> UInt(0), HeaderDigest |-> Text(4, "None"), DataDigest |-> Text(4, "None"),
   NopOutInterval |-> UInt(30), NopOutTimeout |-> UInt(5), IFMarker |-> Bool(FALSE),
   OFMarker |-> Bool(FALSE), DiscoveryAuthMethod |-> Text(4, "None"), SessionAuthMethod |-> Text(4, "None")]

(* getAttr(): the root's value, else the default, else the variable keeps  *)
(* what it held.                                                           *)
getAttr(root, attr, before) ==
  IF attr \in DOMAIN root.attrs THEN root.attrs[attr]
  ELSE IF attr \in DOMAIN defaultValue THEN defaultValue[attr] ELSE before
-----------------------------------------------------------------------------
(* A list of entries is valid if it has one and each is: the first that is *)
(* not decides.  "aborted" is a failed assertion of the JSON library.      *)
Verdict(verdicts) ==
  LET bad == {i \in DOMAIN verdicts : verdicts[i] # "ok"}
  IN IF bad = {} THEN "ok" ELSE verdicts[CHOOSE i \in bad : \A j \in bad : i <= j]
Judge(good) == IF good THEN "ok" ELSE "rejected"
ListVerdict(verdicts) == IF verdicts = <<>> THEN "rejected" ELSE Verdict(verdicts)

(* TargetInfo: name and address must be given, the alias is the name.      *)
TargetValidator(e) ==
  /\ valid(Name, e.TargetName) /\ valid(AddrStrValidator, e.TargetAddress)
  /\ "TargetAlias" \in DOMAIN e => valid(Name, e.TargetAlias)
TargetInfo(e) ==
  Judge({"TargetName", "TargetAddress"} \subseteq DOMAIN e /\ TargetValidator(e))
TargetConfigurator(list) == ListVerdict([i \in DOMAIN list |-> TargetInfo(list[i])])

(* TargetPortConfigurator: an empty list gets the default port.            *)
TargetPortConfigurator(list) == IF list = <<>> THEN <<DefaultTargetPort>> ELSE list
TargetPortValid(list) ==
  ListVerdict([i \in DOMAIN list |-> Judge(getSockAddr(list[i]))])

(* RealVolume: Host is the name of a Target or an address.                 *)
Hosts(targets) == {targets[i].TargetName.s : i \in {j \in DOMAIN targets : TargetInfo(targets[j]) = "ok"}}
RealVolumeValidator(p) ==
  valid(Name, p.Path) /\ valid(RangeValidator(0, NoLimit), p.Start) /\ valid(RangeValidator(1, NoLimit), p.Count)
setHost(targets, host) == host \in Hosts(targets) \/ getSockAddr(host)
RealVolume(targets, p) ==
  Judge({"Host", "Path", "Start", "Count"} \subseteq DOMAIN p /\ setHost(targets, p.Host.s) /\ RealVolumeValidator(p))
RealVolumeArray(targets, array) == Verdict([i \in DOMAIN array |-> RealVolume(targets, array[i])])

(* VolumeInfo: Main must be there but may be empty; Copy is a list of      *)
(* arrays whose sizes are not looked at.                                   *)
VolumeValidator(e) == valid(Name, e.VolumeName)
VolumeInfo(targets, e) ==
  IF ~({"VolumeName", "Main"} \subseteq DOMAIN e) THEN "rejected"
  ELSE Verdict(<<Judge(VolumeValidator(e)), RealVolumeArray(targets, e.Main)>>
               \o IF "Copy" \in DOMAIN e
                  THEN [i \in DOMAIN e.Copy |-> RealVolumeArray(targets, e.Copy[i])] ELSE <<>>)
VolumeConfigurator(targets, list) ==
  ListVerdict([i \in DOMAIN list |-> VolumeInfo(targets, list[i])])

(* InitiatorInfo: what the file says of one state's authentication is      *)
(* [methods, initiator, target]; the last two are the length of the name   *)
(* and password given for each side, -1 when they are not.                 *)
peers(auth) ==
  (IF "None" \in auth.methods THEN <<0>> ELSE <<>>)
  \o (IF "CHAP" \in auth.methods /\ auth.initiator >= 0 THEN <<auth.initiator>> ELSE <<>>)
myowns(auth) ==
  (IF "None" \in auth.methods THEN <<0>> ELSE <<>>)
  \o (IF "CHAP" \in auth.methods /\ auth.target >= 0 THEN <<auth.target>> ELSE <<>>)

(* InitiatorInfo::serialize(): a second method is appended to a string,    *)
(* which the JSON library asserts against; names and passwords have        *)
(* 1..128 characters.                                                      *)
AuthVerdict(auth) ==
  LET infos == peers(auth) \o myowns(auth)
  IN IF Len(infos) > 1 THEN "aborted"
     ELSE Judge(\A i \in DOMAIN infos : infos[i] \in 1..128)

InitiatorValidator(e) ==
  /\ valid(Name, e.InitiatorName)
  /\ "InitiatorAlias" \in DOMAIN e => valid(Name, e.InitiatorAlias)
InitiatorInfo(e) ==
  IF "InitiatorName" \notin DOMAIN e THEN "rejected"
  ELSE LET auths == [state \in {"DiscoveryAuth", "SessionAuth"} \cap DOMAIN e |-> AuthVerdict(e[state])]
       IN IF \E state \in DOMAIN auths : auths[state] = "aborted" THEN "aborted"
          ELSE Judge(InitiatorValidator(e) /\ \A state \in DOMAIN auths : auths[state] = "ok")
InitiatorConfigurator(list) == ListVerdict([i \in DOMAIN list |-> InitiatorInfo(list[i])])
-----------------------------------------------------------------------------
list(root, tag) == IF tag \in DOMAIN root.lists THEN root.lists[tag] ELSE <<>>

(* RootValidator::attrsSatisfied()                                         *)
AttrValidator(members, must, may) == members \subseteq must \cup may /\ must \subseteq members
attrsSatisfied(root) == AttrValidator(DOMAIN root.attrs \cup DOMAIN root.lists, required, optional)

(* RootValidator::validAttr() and the switch on the type: an integer below *)
(* zero fails an assertion of asUInt(), another type is not supported.     *)
validAttr(attr, x) ==
  IF x.t = "uint" /\ x.n < 0 THEN "aborted"
  ELSE Judge(x.t = RootValidators[attr].t /\ valid(RootValidators[attr], x))

ListValid(root, tag) ==
  CASE tag = "TargetPort" -> TargetPortValid(TargetPortConfigurator(root.lists[tag]))
    [] tag = "Target"     -> TargetConfigurator(root.lists[tag])
    [] tag = "Initiator"  -> InitiatorConfigurator(root.lists[tag])
    [] tag = "Volume"     -> VolumeConfigurator(list(root, "Target"), root.lists[tag])

(* RootValidator::validAttrs(): every member is looked at, whatever the    *)
(* others are.                                                             *)
validAttrs(root) ==
  LET verdicts == {validAttr(a, root.attrs[a]) : a \in DOMAIN root.attrs}
                  \cup {ListValid(root, tag) : tag \in DOMAIN root.lists}
  IN IF "aborted" \in verdicts THEN "aborted" ELSE Judge(verdicts \subseteq {"ok"})

(* Configurator::validate()                                                *)
validate(root) == IF attrsSatisfied(root) THEN validAttrs(root) ELSE "rejected"

(* parseArgs(): the options c, d and p become attributes of the root, h    *)
(* and v end the program; an unknown one ends the parsing, and main() does *)
(* not look at the status that says so.                                    *)
Option(o) ==
  CASE o.opt = "c" -> [ConfigFile |-> o.val]
    [] o.opt = "p" -> [PIDfile |-> o.val]
    [] OTHER       -> [Debug |-> Bool(TRUE)]
parseArgs(args) ==
  LET last == {i \in DOMAIN args : args[i].opt \in {"h", "v", "?"}}
      n == IF last = {} THEN Len(args) ELSE (CHOOSE i \in last : \A j \in last : i <= j) - 1
      attrs[i \in 0..n] == IF i = 0 THEN <<>> ELSE Option(args[i]) @@ attrs[i-1]
  IN [exits |-> n < Len(args) /\ args[n+1].opt # "?", root |-> [attrs |-> attrs[n], lists |-> <<>>]]

(* ConfiguratorImpl::parse(): the file takes the root's place, and the     *)
(* options of the command line are put back.                               *)
parse(root, file) ==
  [attrs |-> [a \in {"Debug", "ConfigFile", "PIDfile"} \cap DOMAIN root.attrs |-> root.attrs[a]]
             @@ file.attrs,
   lists |-> file.lists]

(* readConfig(): ConfigBinder::append() opens and parses the file, then    *)
(* the whole is validated.                                                 *)
ConfigPath(root) == getAttr(root, "ConfigFile", Text(0, "")).s
readConfig(root, files) ==
  LET file == files[ConfigPath(root)]
      read == parse(root, file)
  IN IF ~(file.exists /\ file.parses) THEN [verdict |-> "rejected", root |-> root]
     ELSE [verdict |-> validate(read), root |-> read]

(* InitLogger(): the levels there are.                                     *)
InitLogger(root) ==
  getAttr(root, "LogLevel", Text(0, "")).s \in {"debug", "info", "notice", "warning", "error"}
-----------------------------------------------------------------------------
(* LogicalVolume: every part of Main must open; the copies up to the first *)
(* that does not are kept if they are large enough.                        *)
Total(array) == LET f[i \in 0..Len(array)] == IF i = 0 THEN 0 ELSE f[i-1] + array[i].Count.n
                IN f[Len(array)]
Opens(array, paths) == \A i \in DOMAIN array : array[i].Path.s \in paths
LogicalVolume(v, paths) ==
  LET copies == IF "Copy" \in DOMAIN v THEN v.Copy ELSE <<>>
      read   == {i \in DOMAIN copies : \A j \in 1..i : Opens(copies[j], paths)}
  IN [ok |-> Opens(v.Main, paths), size |-> Total(v.Main),
      copies |-> {i \in read : Total(copies[i]) >= Total(v.Main)}]

(* InitiatorConfigurator::find(), and the constructor of iSCSIInitiator:   *)
(* a LUN without a volume dereferences the end of the list.                *)
Initiators(root) == {list(root, "Initiator")[i].InitiatorName.s : i \in DOMAIN list(root, "Initiator")}
InitiatorEntry(root, name) ==
  LET l == list(root, "Initiator")
      i == CHOOSE k \in DOMAIN l : /\ l[k].InitiatorName.s = name
                                   /\ \A j \in 1..(k-1) : l[j].InitiatorName.s # name
  IN l[i]
iSCSIInitiator(root, name, paths) ==
  LET entry   == InitiatorEntry(root, name)
      luns    == IF "LUN" \in DOMAIN entry THEN entry.LUN ELSE <<>>
      vols    == list(root, "Volume")
      named(l) == {i \in DOMAIN vols : vols[i].VolumeName.s = l}
      vol(l)  == LogicalVolume(vols[CHOOSE i \in named(l) : \A j \in named(l) : i <= j], paths)
      bad     == {i \in DOMAIN luns : named(luns[i]) = {} \/ ~vol(luns[i]).ok}
      first   == CHOOSE i \in bad : \A j \in bad : i <= j
  IN IF bad = {} THEN [res |-> "ok", luns |-> Len(luns)]
     ELSE [res |-> IF named(luns[first]) = {} THEN "crashed" ELSE "failed", luns |-> 0]

(* SendTargetsHandler::handle(): a single any-address is told as the       *)
(* addresses of the machine but loopback, otherwise the ports as they are. *)
Loopback == "127.0.0.1"
SendTargets(ports) ==
  IF Len(ports) = 1 /\ ports[1] \in AnyAddresses THEN Nics \ {Loopback}
  ELSE {ports[i] : i \in DOMAIN ports}
=============================================================================
