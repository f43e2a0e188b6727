------------------------------ MODULE MCReply ------------------------------
(* Bounds for Reply: a volume of two files, blocks of two bytes, receive   *)
(* buffers that hold one block and a half, and the lengths at which the    *)
(* information commands change their mind.                                 *)
EXTENDS Reply

MCParts == <<[path |-> "a", start |-> 0, count |-> 2], [path |-> "b", start |-> 0, count |-> 3]>>

Fields(cmd, flags, pages, allocs, exps) ==
  [cmd : {cmd}, read : {TRUE}, write : {FALSE}, final : {TRUE}, lun : {TRUE}, pmi : {FALSE},
   lba : {0}, flag : flags, page : pages, alloc : allocs, exp : exps]

(* A request without the fields that its CDB does not have.                *)
Cut(r) == [f \in CommandReqHeader \cup Cdb(r.cmd) |-> r[f]]

MCRequests ==
  LET read == Fields("READ_CAPACITY", {FALSE}, {"00"}, {0}, {0, 8, 14, 32})
      base == CHOOSE r \in read : r.exp = 8
  IN {Cut(r) : r \in
     Fields("INQUIRY", BOOLEAN, {"00", "80", "83", "C0"}, {15, 16, 31, 32, 36, 255}, {0, 7, 16, 36, 255})
     \cup Fields("MODE_SENSE", BOOLEAN, ModePageCodes \cup {"05"},
                 {0, 3, 4, 8, 12, 24, 27, 104, 192, 255}, {0, 4, 104, 255})
     \cup Fields("REPORT_LUNS", {FALSE}, {"00"}, {15, 16, 17, 512, 600}, {16, 512})
     \cup Fields("MAINTENANCE_IN", {FALSE}, {"00"}, {0}, {0, 17, 18, 255})
     \cup Fields("DUMMY", {FALSE}, {"00"}, {0}, {0, 5})
     \cup Fields("UNKNOWN", {FALSE}, {"00"}, {0}, {0})
     \cup {[r EXCEPT !.cmd = c, !.lba = a, !.lun = l, !.pmi = p] :
             r \in read, c \in {"READ_CAPACITY", "SERVICE_ACTION_IN_16"}, a \in {0, 1},
             l \in BOOLEAN, p \in BOOLEAN}
     \cup {[base EXCEPT !.cmd = c, !.read = rd, !.write = w, !.final = f] :
             c \in Commands, rd \in BOOLEAN, w \in BOOLEAN, f \in BOOLEAN}}
=============================================================================
