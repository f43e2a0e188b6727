------------------------------ MODULE ScsiInfo ------------------------------
(***************************************************************************)
(* The SCSI commands that return information (src/scsi/*.cpp except READ   *)
(* and WRITE) and the DataIn PDU they answer with (src/iscsi/datain.cpp).  *)
(* A reply is written into one common buffer: its header says dlength, and *)
(* what is sent is the buffer up to its tail.                              *)
(***************************************************************************)
EXTENDS Integers, Sequences

CONSTANTS
  Luns,      \* the number of LUNs of the initiator
  Capacity   \* the room behind the header in a common buffer

ASSUME LunsAssumption == Luns \in Nat /\ Capacity \in Nat \ {0}

(* A request has the fields of its iSCSI header, and those of its CDB that *)
(* the parsers look at.  flag is EVPD of INQUIRY and DBD of MODE SENSE;    *)
(* lun says that the initiator has the unit.                               *)
CommandReqHeader == {"cmd", "read", "write", "final", "lun", "exp"}
InquiryCommand == {"flag", "page", "alloc"}
ModeSenseHeader == {"flag", "page", "alloc"}
ReadCapacityCommand == {"pmi", "lba"}
ReadCapacity16Command == {"pmi", "lba"}
ReportLUNSHeader == {"alloc"}
MaintenanceInCommand == {}
Cdb(cmd) ==
  CASE cmd = "INQUIRY"              -> InquiryCommand
    [] cmd = "MODE_SENSE"           -> ModeSenseHeader
    [] cmd = "READ_CAPACITY"        -> ReadCapacityCommand
    [] cmd = "SERVICE_ACTION_IN_16" -> ReadCapacity16Command
    [] cmd = "REPORT_LUNS"          -> ReportLUNSHeader
    [] cmd = "MAINTENANCE_IN"       -> MaintenanceInCommand
    [] OTHER                        -> {}
Commands == {"INQUIRY", "MODE_SENSE", "READ_CAPACITY", "SERVICE_ACTION_IN_16",
             "REPORT_LUNS", "MAINTENANCE_IN", "DUMMY", "UNKNOWN"}

smaller(a, b) == IF a < b THEN a ELSE b

(* The DataIn being built: the data bytes in the buffer (tail) and in the  *)
(* header (dlength), the status, the residual count, and MODE SENSE's own  *)
(* length field.  DataInGenerator::DataInGenerator().                      *)
DataIn == [what |-> "reply", dlength |-> 0, tail |-> 0, status |-> "GOOD",
           flow |-> "none", residual |-> 0, mode_data_length |-> 0]

(* handle() returns false: the connection is given up.                     *)
Failed == [DataIn EXCEPT !.what = "failed"]
(* The data segment could not be reserved and is written to.               *)
Crashed == [DataIn EXCEPT !.what = "crashed"]

(* reserveDataSegment(): NULL for no length or too much of it.             *)
Reservable(size) == 0 < size /\ size <= Capacity
reserveDataSegment(g, size) == [g EXCEPT !.dlength = size, !.tail = @ + size]

(* Mutant: the buffer keeps what the header gave up.                       *)
resetDlengthOnly(g, size) == [g EXCEPT !.dlength = size]

(* resetDlength(): header and buffer shrink together.                      *)
resetDlength(g, size) ==
  [g EXCEPT !.dlength = size, !.tail = @ - (g.dlength - size)]

(* setResidualCount(): more than expected shrinks the header only.         *)
setResidualCount(g, exp) ==
  CASE exp > g.dlength -> [g EXCEPT !.flow = "under", !.residual = exp - g.dlength]
    [] exp < g.dlength -> [g EXCEPT !.flow = "over", !.residual = g.dlength - exp,
                                    !.dlength = exp]
    [] OTHER -> g

(* serialize(): padding up to a word, by the header's length.              *)
PadWord == 4
serialize(g) ==
  [g EXCEPT !.tail = IF g.dlength % PadWord = 0 THEN @
                     ELSE @ + PadWord - (g.dlength % PadWord)]

(* The last steps of every handler but REPORT LUNS.                        *)
Answer(g, r) == serialize(setResidualCount(g, r.exp))
-----------------------------------------------------------------------------
(* What every information command asks of the request.                     *)
ReadOnly(r) == r.read /\ ~r.write /\ r.final

(* InquiryHandler::handle(): a page is returned whole or not at all.       *)
InquiryPages ==
  [page \in {"standard", "00", "80", "83"} |->
     CASE page = "standard" -> 36 [] page = "00" -> 7 [] page = "80" -> 8 [] page = "83" -> 32]
InquiryPage(r) == IF r.flag THEN r.page ELSE "standard"

Inquiry(r) ==
  IF \/ ~ReadOnly(r) \/ r.alloc < 16
     \/ InquiryPage(r) \notin DOMAIN InquiryPages
  THEN Failed
  ELSE IF r.alloc < InquiryPages[InquiryPage(r)] THEN Failed
  ELSE Answer(reserveDataSegment(DataIn, InquiryPages[InquiryPage(r)]), r)

(* The sizes of the mode pages, as the append...() members write them.     *)
DisconnectReconnect == 16
FormatDevice == 24
RigidDiskGeometry == 24
Caching == 4
Control == 12
InformationalExceptionsCtrl == 12
ModePages(page) ==
  CASE page = "00" -> 0
    [] page = "02" -> DisconnectReconnect
    [] page = "03" -> FormatDevice
    [] page = "04" -> RigidDiskGeometry
    [] page = "08" -> Caching
    [] page = "0A" -> Control
    [] page = "1C" -> InformationalExceptionsCtrl
    [] page = "3F" -> DisconnectReconnect + FormatDevice + RigidDiskGeometry
                        + Caching + Control + InformationalExceptionsCtrl
ModePageCodes == {"00", "02", "03", "04", "08", "0A", "1C", "3F"}

ModeHeader == 4
BlockDescriptor == 8

(* ModeSenseData: total is what has been appended, written or not;         *)
(* setLength() announces it first and then looks whether it fits.          *)
Appended(r) ==
  (IF r.flag THEN ModeHeader ELSE ModeHeader + BlockDescriptor) + ModePages(r.page)

(* mode_data_length, one byte: the pages announce the total, the block     *)
(* descriptor only if it fits, and a header alone is announced as 0x1F.    *)
Announced(r) ==
  CASE r.alloc = ModeHeader -> 31
    [] r.alloc # ModeHeader /\ ModePages(r.page) > 0 -> (Appended(r) - 1) % 256
    [] OTHER -> IF ~r.flag /\ Appended(r) <= r.alloc THEN Appended(r) - 1 ELSE 0

(* ModeSenseHandler::handle().  The block descriptor's length and every    *)
(* page are written to the data segment, reserved or not.                  *)
ModeSense(r) ==
  LET g == reserveDataSegment(DataIn, r.alloc)
      reply(total) == Answer([resetDlength(g, smaller(total, r.alloc))
                                EXCEPT !.mode_data_length = Announced(r)], r)
  IN IF ~ReadOnly(r) \/ ~r.lun THEN Failed
     ELSE IF ~r.flag /\ ~Reservable(r.alloc) THEN Crashed
     ELSE IF r.alloc = ModeHeader THEN reply(ModeHeader)
     ELSE IF r.page \notin ModePageCodes THEN Failed
     ELSE IF Reservable(r.alloc) THEN reply(Appended(r))
     ELSE IF ModePages(r.page) = 0 THEN Failed ELSE Crashed

(* ReadCapacityHandler and ReadCapacity16Handler: the last block, or fixed *)
(* sense data for an address without PMI.                                  *)
FixedSense == 14
LastBlock(r, size) ==
  IF ~ReadOnly(r) \/ r.pmi THEN Failed
  ELSE IF r.lba # 0
  THEN Answer([reserveDataSegment(DataIn, FixedSense) EXCEPT !.status = "CHECK_CONDITION"], r)
  ELSE IF ~r.lun THEN Failed
  ELSE Answer(reserveDataSegment(DataIn, size), r)
ReadCapacity(r) == LastBlock(r, 8)
ReadCapacity16(r) == LastBlock(r, 32)

(* ReportLUNSHandler: the whole allocation length is sent, with the LUNs   *)
(* that fit into it and no residual count.                                 *)
ReportLuns(r) ==
  IF ~ReadOnly(r) \/ r.alloc < 16 THEN Failed
  ELSE IF ~Reservable(r.alloc) THEN Crashed
  ELSE IF Luns = 0 THEN Failed
  ELSE serialize(reserveDataSegment(DataIn, r.alloc))

(* MaintenanceInHandler: always sense data.                                *)
SenseError == 18
MaintenanceIn(r) ==
  IF ~ReadOnly(r) THEN Failed
  ELSE Answer([reserveDataSegment(DataIn, SenseError) EXCEPT !.status = "CHECK_CONDITION"], r)

(* DummyHandler: a response without data, for the commands that a disk     *)
(* image has nothing to do for.                                            *)
SCSIRsp(exp) == setResidualCount(DataIn, exp)
Dummy(r) == IF ~r.final THEN Failed ELSE SCSIRsp(r.exp)

(* CommandHandler::handle(): the handler by opcode.                        *)
CommandReply(r) ==
  CASE r.read /\ r.write -> Failed
    [] OTHER ->
         CASE r.cmd = "INQUIRY"              -> Inquiry(r)
           [] r.cmd = "MODE_SENSE"           -> ModeSense(r)
           [] r.cmd = "READ_CAPACITY"        -> ReadCapacity(r)
           [] r.cmd = "SERVICE_ACTION_IN_16" -> ReadCapacity16(r)
           [] r.cmd = "REPORT_LUNS"          -> ReportLuns(r)
           [] r.cmd = "MAINTENANCE_IN"       -> MaintenanceIn(r)
           [] r.cmd = "DUMMY"                -> Dummy(r)
           [] OTHER                          -> Failed
-----------------------------------------------------------------------------
(* How long the data of a reply is on the wire when its header says n.     *)
Padded(n) == IF n % PadWord = 0 THEN n ELSE n + PadWord - (n % PadWord)

(* Data and residual count account for what the initiator expected.        *)
Accounted(g, exp) ==
  CASE g.flow = "over"  -> g.dlength = exp /\ g.residual > 0
    [] g.flow = "under" -> g.dlength + g.residual = exp
    [] OTHER            -> g.dlength = exp

(* What the handlers promise for request r and reply g.  The initiator     *)
(* finds as many bytes behind the header as it says, and no more than it   *)
(* made room for with the allocation length; data and residual count add   *)
(* up to what it expected; and MODE SENSE announces all of its data, also  *)
(* the part that did not fit.  The exceptions are the code's: more data    *)
(* than EXPDATALEN cuts the header and not the buffer; REPORT LUNS has no  *)
(* residual count; and the announced length is a constant for a header     *)
(* alone, and absent when nothing but an omitted block descriptor is in it.*)
Sound(r, g) ==
  g.what = "reply" =>
    /\ g.flow # "over" => g.tail = Padded(g.dlength)
    /\ g.flow = "over" => g.tail >= Padded(g.dlength)
    /\ r.cmd \in {"INQUIRY", "MODE_SENSE", "REPORT_LUNS"} => g.dlength <= r.alloc
    /\ r.cmd # "REPORT_LUNS" => Accounted(g, r.exp)
    /\ r.cmd = "MODE_SENSE" /\ r.alloc # ModeHeader /\ ModePages(r.page) > 0 =>
         g.mode_data_length = Appended(r) - 1

(* Only a data segment that cannot be reserved stops the program.          *)
CrashCause(r, g) ==
  g.what = "crashed" => r.cmd \in {"MODE_SENSE", "REPORT_LUNS"} /\ ~Reservable(r.alloc)
=============================================================================
