---------------------------- MODULE ReplyProofs ----------------------------
(***************************************************************************)
(* Proofs about a command and its way out: what an information command     *)
(* answers for any EXPDATALEN and allocation length, that the send queue   *)
(* is never forgotten, that a READ within Reply is one of ReadPlan, and    *)
(* that the bytes on the wire are those that the handlers meant.           *)
(***************************************************************************)
EXTENDS Reply, ReadPlanProofs, FiniteSetTheorems

(* A DataIn whose header and buffer agree on n bytes.                      *)
Built(g, n) ==
  \E st \in {"GOOD", "CHECK_CONDITION"}, m \in Nat :
    g = [what |-> "reply", dlength |-> n, tail |-> n, status |-> st,
         flow |-> "none", residual |-> 0, mode_data_length |-> m]

LEMMA PadFacts ==
  ASSUME NEW n \in Nat
  PROVE  /\ n % PadWord \in 0 .. 3
         /\ Padded(n) = IF n % PadWord = 0 THEN n ELSE n + PadWord - (n % PadWord)
BY DEF PadWord, Padded

LEMMA AnswerSound ==
  ASSUME NEW n \in Nat, NEW g, Built(g, n), NEW r, r.exp \in Nat
  PROVE  LET a == Answer(g, r) IN
         /\ a.what = "reply" /\ a.mode_data_length = g.mode_data_length
         /\ a.dlength \in Nat /\ a.dlength <= n
         /\ a.flow # "over" => a.tail = Padded(a.dlength)
         /\ a.flow = "over" => a.tail >= Padded(a.dlength)
         /\ Accounted(a, r.exp)
<1> DEFINE e == r.exp
           c == setResidualCount(g, e)
           a == serialize(c)
<1>0. e \in Nat /\ Answer(g, r) = a
  BY DEF Answer
<1>1. PICK st \in {"GOOD", "CHECK_CONDITION"}, m \in Nat :
        g = [what |-> "reply", dlength |-> n, tail |-> n, status |-> st,
             flow |-> "none", residual |-> 0, mode_data_length |-> m]
  BY DEF Built
<1> HIDE DEF e
<1>2. \E k \in Nat, fl \in {"under", "over", "none"}, res \in Nat :
        /\ c = [what |-> "reply", dlength |-> k, tail |-> n, status |-> st,
                flow |-> fl, residual |-> res, mode_data_length |-> m]
        /\ k <= n
        /\ fl = "over" => k < n /\ k = e /\ res > 0
        /\ fl = "under" => k = n /\ k + res = e
        /\ fl = "none" => k = n /\ k = e
  <2>1. CASE e > n
    <3>1. c = [g EXCEPT !.flow = "under", !.residual = e - n]
      BY <1>0, <1>1, <2>1 DEF setResidualCount
    <3>2. e - n \in Nat /\ n + (e - n) = e
      BY <1>0, <2>1
    <3>3. c = [what |-> "reply", dlength |-> n, tail |-> n, status |-> st,
               flow |-> "under", residual |-> e - n, mode_data_length |-> m]
      BY <1>1, <3>1
    <3> QED BY <3>2, <3>3
  <2>2. CASE e < n
    <3>1. c = [g EXCEPT !.flow = "over", !.residual = n - e, !.dlength = e]
      BY <1>0, <1>1, <2>2 DEF setResidualCount
    <3>2. n - e \in Nat /\ n - e > 0
      BY <1>0, <2>2
    <3>3. c = [what |-> "reply", dlength |-> e, tail |-> n, status |-> st,
               flow |-> "over", residual |-> n - e, mode_data_length |-> m]
      BY <1>1, <3>1
    <3> QED BY <1>0, <2>2, <3>2, <3>3
  <2>3. CASE e = n
    <3>1. c = g
      BY <1>0, <1>1, <2>3 DEF setResidualCount
    <3> QED BY <1>0, <1>1, <2>3, <3>1
  <2> QED BY <1>0, <2>1, <2>2, <2>3
<1>3. PICK k \in Nat, fl \in {"under", "over", "none"}, res \in Nat :
        /\ c = [what |-> "reply", dlength |-> k, tail |-> n, status |-> st,
                flow |-> fl, residual |-> res, mode_data_length |-> m]
        /\ k <= n
        /\ fl = "over" => k < n /\ k = e /\ res > 0
        /\ fl = "under" => k = n /\ k + res = e
        /\ fl = "none" => k = n /\ k = e
  BY <1>2
<1> DEFINE pad == IF k % PadWord = 0 THEN 0 ELSE PadWord - (k % PadWord)
<1>4. pad \in Nat /\ Padded(k) = k + pad /\ n + 0 = n
  <2>1. k % PadWord \in 0 .. 3 /\ PadWord = 4
    BY PadFacts DEF PadWord
  <2>2. CASE k % PadWord = 0
    BY <2>1, <2>2, PadFacts
  <2>3. CASE k % PadWord # 0
    BY <2>1, <2>3, PadFacts
  <2> QED BY <2>2, <2>3
<1>5. a = [what |-> "reply", dlength |-> k, tail |-> n + pad, status |-> st,
           flow |-> fl, residual |-> res, mode_data_length |-> m]
  <2>1. CASE k % PadWord = 0
    BY <1>3, <2>1 DEF serialize
  <2>2. CASE k % PadWord # 0
    <3>1. k % PadWord \in 0 .. 3 /\ PadWord = 4
      BY PadFacts DEF PadWord
    <3>2. n + PadWord - (k % PadWord) = n + (PadWord - (k % PadWord))
      BY <3>1
    <3>3. a = [c EXCEPT !.tail = n + PadWord - (k % PadWord)]
      BY <1>3, <2>2 DEF serialize
    <3> QED BY <1>3, <2>2, <3>2, <3>3
  <2> QED BY <2>1, <2>2
<1> HIDE DEF pad, a, c
<1>6. /\ a.what = "reply" /\ a.mode_data_length = g.mode_data_length
      /\ a.dlength = k /\ a.flow = fl /\ a.tail = n + pad /\ a.residual = res
  BY <1>1, <1>5
<1>7. /\ fl # "over" => n + pad = Padded(k)
      /\ fl = "over" => n + pad >= Padded(k)
  BY <1>3, <1>4
<1>8. Accounted(a, e)
  BY <1>3, <1>6 DEF Accounted
<1>9. /\ a.what = "reply" /\ a.mode_data_length = g.mode_data_length
      /\ a.dlength \in Nat /\ a.dlength <= n
      /\ a.flow # "over" => a.tail = Padded(a.dlength)
      /\ a.flow = "over" => a.tail >= Padded(a.dlength)
      /\ Accounted(a, e)
  BY <1>3, <1>6, <1>7, <1>8
<1> QED BY <1>0, <1>9 DEF e

LEMMA ReserveBuilds ==
  ASSUME NEW n \in Nat, NEW st \in {"GOOD", "CHECK_CONDITION"}
  PROVE  /\ Built(reserveDataSegment(DataIn, n), n)
         /\ Built([reserveDataSegment(DataIn, n) EXCEPT !.status = st], n)
<1>1. reserveDataSegment(DataIn, n) =
        [what |-> "reply", dlength |-> n, tail |-> n, status |-> "GOOD",
         flow |-> "none", residual |-> 0, mode_data_length |-> 0]
  <2>1. 0 + n = n
    OBVIOUS
  <2>2. reserveDataSegment(DataIn, n) = [DataIn EXCEPT !.dlength = n, !.tail = 0 + n]
    BY DEF reserveDataSegment, DataIn
  <2> QED BY <2>1, <2>2 DEF DataIn
<1>2. [reserveDataSegment(DataIn, n) EXCEPT !.status = st] =
        [what |-> "reply", dlength |-> n, tail |-> n, status |-> st,
         flow |-> "none", residual |-> 0, mode_data_length |-> 0]
  BY <1>1
<1> QED BY <1>1, <1>2 DEF Built

LEMMA Outcomes == Failed.what = "failed" /\ Crashed.what = "crashed" /\ DataIn.what = "reply"
  BY DEF Failed, Crashed, DataIn

(* A reply that is framed, accounts for what the initiator expected, and   *)
(* has at most n bytes.                                                    *)
Replies(g, exp, n) ==
  /\ g.what = "reply" /\ g.dlength \in Nat /\ g.dlength <= n
  /\ g.flow # "over" => g.tail = Padded(g.dlength)
  /\ g.flow = "over" => g.tail >= Padded(g.dlength)
  /\ Accounted(g, exp)

LEMMA ReserveReplies ==
  ASSUME NEW n \in Nat, NEW r, r.exp \in Nat
  PROVE  /\ Replies(Answer(reserveDataSegment(DataIn, n), r), r.exp, n)
         /\ Replies(Answer([reserveDataSegment(DataIn, n) EXCEPT !.status = "CHECK_CONDITION"], r),
                    r.exp, n)
<1> DEFINE g == reserveDataSegment(DataIn, n)
           h == [reserveDataSegment(DataIn, n) EXCEPT !.status = "CHECK_CONDITION"]
<1>1. Built(g, n) /\ Built(h, n)
  BY ReserveBuilds
<1> HIDE DEF g, h
<1>2. Replies(Answer(g, r), r.exp, n) /\ Replies(Answer(h, r), r.exp, n)
  BY <1>1, AnswerSound DEF Replies
<1> QED BY <1>2 DEF g, h

(* INQUIRY fails, or replies with no more than the allocation length.      *)
LEMMA InquirySound ==
  ASSUME NEW r, r.exp \in Nat, r.alloc \in Nat
  PROVE  Inquiry(r) = Failed \/ Replies(Inquiry(r), r.exp, r.alloc)
<1> DEFINE page == InquiryPage(r)
           n == InquiryPages[page]
<1> SUFFICES ASSUME Inquiry(r) # Failed PROVE Replies(Inquiry(r), r.exp, r.alloc)
  OBVIOUS
<1>1. /\ page \in DOMAIN InquiryPages /\ ~(r.alloc < n)
      /\ Inquiry(r) = Answer(reserveDataSegment(DataIn, n), r)
  BY DEF Inquiry
<1>2. page \in {"standard", "00", "80", "83"}
  BY <1>1 DEF InquiryPages
<1>3. n \in Nat
  BY <1>2 DEF InquiryPages
<1> HIDE DEF n, page
<1>4. n <= r.alloc
  BY <1>1, <1>3
<1>5. Replies(Inquiry(r), r.exp, n)
  BY <1>1, <1>3, ReserveReplies
<1> QED BY <1>3, <1>4, <1>5 DEF Replies

LEMMA ModePagesSize ==
  ASSUME NEW page \in ModePageCodes
  PROVE  ModePages(page) \in 0 .. 92
BY DEF ModePageCodes, ModePages, DisconnectReconnect, FormatDevice, RigidDiskGeometry,
       Caching, Control, InformationalExceptionsCtrl

LEMMA AppendedSize ==
  ASSUME NEW r, r.page \in ModePageCodes
  PROVE  Appended(r) \in 4 .. 104 /\ (Appended(r) - 1) % 256 = Appended(r) - 1
<1>1. ModePages(r.page) \in 0 .. 92
  BY ModePagesSize
<1>2. Appended(r) \in 4 .. 104
  BY <1>1 DEF Appended, ModeHeader, BlockDescriptor
<1> QED BY <1>2

(* MODE SENSE announces all that it has appended.                          *)
LEMMA AnnouncedIs ==
  ASSUME NEW r, r.alloc \in Nat, r.alloc = ModeHeader \/ r.page \in ModePageCodes
  PROVE  /\ Announced(r) \in Nat
         /\ r.alloc # ModeHeader /\ ModePages(r.page) > 0 => Announced(r) = Appended(r) - 1
<1>1. CASE r.alloc = ModeHeader
  BY <1>1 DEF Announced
<1>2. CASE r.alloc # ModeHeader
  <2>1. Appended(r) \in 4 .. 104 /\ (Appended(r) - 1) % 256 = Appended(r) - 1
    BY <1>2, AppendedSize
  <2>2. CASE ModePages(r.page) > 0
    <3>1. Announced(r) = (Appended(r) - 1) % 256
      BY <1>2, <2>2 DEF Announced
    <3> QED BY <2>1, <3>1
  <2>3. CASE ~(ModePages(r.page) > 0)
    <3>1. Announced(r) = IF ~r.flag /\ Appended(r) <= r.alloc THEN Appended(r) - 1 ELSE 0
      BY <1>2, <2>3 DEF Announced
    <3> QED BY <2>1, <2>3, <3>1
  <2> QED BY <2>2, <2>3
<1> QED BY <1>1, <1>2

(* MODE SENSE shrinks header and buffer together to what it has appended.  *)
LEMMA ResetBuilds ==
  ASSUME NEW n \in Nat, NEW k \in Nat, NEW m \in Nat
  PROVE  LET g == [resetDlength(reserveDataSegment(DataIn, n), k) EXCEPT !.mode_data_length = m]
         IN Built(g, k) /\ g.mode_data_length = m
<1> DEFINE b == reserveDataSegment(DataIn, n)
           g == [resetDlength(b, k) EXCEPT !.mode_data_length = m]
<1>1. b = [what |-> "reply", dlength |-> n, tail |-> n, status |-> "GOOD",
           flow |-> "none", residual |-> 0, mode_data_length |-> 0]
  <2>1. 0 + n = n
    OBVIOUS
  <2>2. b = [DataIn EXCEPT !.dlength = n, !.tail = 0 + n]
    BY DEF reserveDataSegment, DataIn
  <2> QED BY <2>1, <2>2 DEF DataIn
<1> HIDE DEF b
<1>2. n - (n - k) = k
  OBVIOUS
<1>3. resetDlength(b, k) = [b EXCEPT !.dlength = k, !.tail = n - (n - k)]
  BY <1>1 DEF resetDlength
<1>4. g = [what |-> "reply", dlength |-> k, tail |-> k, status |-> "GOOD",
           flow |-> "none", residual |-> 0, mode_data_length |-> m]
  <2>1. resetDlength(b, k) = [b EXCEPT !.dlength = k, !.tail = k]
    BY <1>2, <1>3
  <2>2. resetDlength(b, k) =
          [what |-> "reply", dlength |-> k, tail |-> k, status |-> "GOOD",
           flow |-> "none", residual |-> 0, mode_data_length |-> 0]
    BY <1>1, <2>1
  <2> QED BY <2>2
<1> HIDE DEF g
<1>5. Built(g, k) /\ g.mode_data_length = m
  BY <1>4 DEF Built
<1> QED BY <1>5 DEF g, b

LEMMA ModeSenseSound ==
  ASSUME NEW r, r.exp \in Nat, r.alloc \in Nat
  PROVE  LET g == ModeSense(r) IN
         \/ g = Failed
         \/ g = Crashed /\ ~Reservable(r.alloc)
         \/ /\ Replies(g, r.exp, r.alloc)
            /\ r.alloc # ModeHeader /\ ModePages(r.page) > 0 =>
                 g.mode_data_length = Appended(r) - 1
<1> DEFINE g == ModeSense(r)
           b == reserveDataSegment(DataIn, r.alloc)
           made(size) == [resetDlength(b, smaller(size, r.alloc))
                            EXCEPT !.mode_data_length = Announced(r)]
<1>1. \/ g = Failed
      \/ g = Crashed /\ ~Reservable(r.alloc)
      \/ r.alloc = ModeHeader /\ g = Answer(made(ModeHeader), r)
      \/ /\ r.alloc # ModeHeader /\ r.page \in ModePageCodes
         /\ g = Answer(made(Appended(r)), r)
  BY DEF ModeSense
<1> HIDE DEF g
<1>2. ASSUME NEW size \in Nat, g = Answer(made(size), r),
             r.alloc = ModeHeader \/ r.page \in ModePageCodes
      PROVE  /\ Replies(g, r.exp, r.alloc)
             /\ r.alloc # ModeHeader /\ ModePages(r.page) > 0 =>
                  g.mode_data_length = Appended(r) - 1
  <2> DEFINE k == smaller(size, r.alloc)
             m == Announced(r)
             h == [resetDlength(b, k) EXCEPT !.mode_data_length = m]
  <2>1. k \in Nat /\ k <= r.alloc
    BY DEF smaller
  <2>2. /\ m \in Nat
        /\ r.alloc # ModeHeader /\ ModePages(r.page) > 0 => m = Appended(r) - 1
    BY <1>2, AnnouncedIs
  <2> HIDE DEF k, m
  <2>3. Built(h, k) /\ h.mode_data_length = m
    BY <2>1, <2>2, ResetBuilds
  <2>4. g = Answer(h, r)
    BY <1>2 DEF k, m
  <2> HIDE DEF h
  <2>5. Replies(g, r.exp, k) /\ g.mode_data_length = m
    BY <2>1, <2>3, <2>4, AnswerSound DEF Replies
  <2>6. Replies(g, r.exp, r.alloc)
    BY <2>1, <2>5 DEF Replies
  <2> QED BY <2>2, <2>5, <2>6
<1>3. ModeHeader \in Nat /\ (r.page \in ModePageCodes => Appended(r) \in Nat)
  BY AppendedSize DEF ModeHeader
<1> HIDE DEF made
<1>4. \/ g = Failed
      \/ g = Crashed /\ ~Reservable(r.alloc)
      \/ /\ Replies(g, r.exp, r.alloc)
         /\ r.alloc # ModeHeader /\ ModePages(r.page) > 0 =>
              g.mode_data_length = Appended(r) - 1
  BY <1>1, <1>2, <1>3
<1> QED BY <1>4 DEF g

LEMMA LastBlockSound ==
  ASSUME NEW r, r.exp \in Nat, NEW size \in Nat
  PROVE  LastBlock(r, size) = Failed \/ \E n \in Nat : Replies(LastBlock(r, size), r.exp, n)
<1>1. \/ LastBlock(r, size) = Failed
      \/ LastBlock(r, size) =
           Answer([reserveDataSegment(DataIn, FixedSense) EXCEPT !.status = "CHECK_CONDITION"], r)
      \/ LastBlock(r, size) = Answer(reserveDataSegment(DataIn, size), r)
  BY DEF LastBlock
<1>2. FixedSense \in Nat
  BY DEF FixedSense
<1> QED BY <1>1, <1>2, ReserveReplies

LEMMA MaintenanceInSound ==
  ASSUME NEW r, r.exp \in Nat
  PROVE  MaintenanceIn(r) = Failed \/ \E n \in Nat : Replies(MaintenanceIn(r), r.exp, n)
<1>1. \/ MaintenanceIn(r) = Failed
      \/ MaintenanceIn(r) =
           Answer([reserveDataSegment(DataIn, SenseError) EXCEPT !.status = "CHECK_CONDITION"], r)
  BY DEF MaintenanceIn
<1>2. SenseError \in Nat
  BY DEF SenseError
<1> QED BY <1>1, <1>2, ReserveReplies

(* REPORT LUNS sends the whole allocation length.                          *)
LEMMA ReportLunsSound ==
  ASSUME NEW r, r.alloc \in Nat
  PROVE  LET g == ReportLuns(r) IN
         \/ g = Failed
         \/ g = Crashed /\ ~Reservable(r.alloc)
         \/ /\ g.what = "reply" /\ g.flow = "none" /\ g.dlength = r.alloc
            /\ g.tail = Padded(r.alloc)
<1> DEFINE n == r.alloc
           b == reserveDataSegment(DataIn, n)
           g == ReportLuns(r)
<1>1. \/ g = Failed
      \/ g = Crashed /\ ~Reservable(n)
      \/ g = serialize(b)
  BY DEF ReportLuns
<1>2. n \in Nat
  OBVIOUS
<1> HIDE DEF n, g
<1>3. b = [what |-> "reply", dlength |-> n, tail |-> n, status |-> "GOOD",
           flow |-> "none", residual |-> 0, mode_data_length |-> 0]
  <2>1. 0 + n = n
    BY <1>2
  <2>2. b = [DataIn EXCEPT !.dlength = n, !.tail = 0 + n]
    BY DEF reserveDataSegment, DataIn
  <2> QED BY <2>1, <2>2 DEF DataIn
<1> HIDE DEF b
<1>4. serialize(b) = [b EXCEPT !.tail = Padded(n)]
  BY <1>3 DEF serialize, Padded
<1>5. /\ serialize(b).what = "reply" /\ serialize(b).flow = "none"
      /\ serialize(b).dlength = n /\ serialize(b).tail = Padded(n)
  BY <1>3, <1>4
<1>6. \/ g = Failed
      \/ g = Crashed /\ ~Reservable(n)
      \/ g.what = "reply" /\ g.flow = "none" /\ g.dlength = n /\ g.tail = Padded(n)
  BY <1>1, <1>5
<1> QED BY <1>6 DEF g, n

LEMMA DummySound ==
  ASSUME NEW r, r.exp \in Nat
  PROVE  Dummy(r) = Failed \/ \E n \in Nat : Replies(Dummy(r), r.exp, n)
<1> DEFINE g == setResidualCount(DataIn, r.exp)
<1>1. Dummy(r) = Failed \/ Dummy(r) = g
  BY DEF Dummy, SCSIRsp
<1>2. Padded(0) = 0
  BY DEF Padded, PadWord
<1>3. CASE r.exp > 0
  <2>1. g = [DataIn EXCEPT !.flow = "under", !.residual = r.exp - 0]
    BY <1>3 DEF setResidualCount, DataIn
  <2>2. /\ g.what = "reply" /\ g.flow = "under" /\ g.residual = r.exp - 0
        /\ g.dlength = 0 /\ g.tail = 0
    BY <2>1 DEF DataIn
  <2> HIDE DEF g
  <2>3. Replies(g, r.exp, 0)
    BY <1>2, <2>2 DEF Replies, Accounted
  <2> QED BY <1>1, <2>3
<1>4. CASE r.exp = 0
  <2>1. g = DataIn
    BY <1>4 DEF setResidualCount, DataIn
  <2>2. g.what = "reply" /\ g.flow = "none" /\ g.dlength = 0 /\ g.tail = 0
    BY <2>1 DEF DataIn
  <2> HIDE DEF g
  <2>3. Replies(g, r.exp, 0)
    BY <1>2, <1>4, <2>2 DEF Replies, Accounted
  <2> QED BY <1>1, <2>3
<1> QED BY <1>3, <1>4

(* Every command of every request.                                         *)
LEMMA CommandSound ==
  ASSUME NEW r \in Requests
  PROVE  Sound(r, CommandReply(r)) /\ CrashCause(r, CommandReply(r))
<1> DEFINE g == CommandReply(r)
<1> SUFFICES Sound(r, g) /\ CrashCause(r, g)
  OBVIOUS
<1>1. r.cmd \in Commands /\ r.exp \in Nat /\ ("alloc" \in Cdb(r.cmd) => r.alloc \in Nat)
  BY RequestsAssumption
<1>2. r.cmd \in {"INQUIRY", "MODE_SENSE", "REPORT_LUNS"} => r.alloc \in Nat
  BY <1>1 DEF Cdb, InquiryCommand, ModeSenseHeader, ReportLUNSHeader
<1>3. Failed.what = "failed" /\ Crashed.what = "crashed"
  BY Outcomes
<1>4. CASE g = Failed
  BY <1>3, <1>4 DEF Sound, CrashCause
<1>5. CASE r.cmd = "INQUIRY" /\ g = Inquiry(r)
  <2>1. g = Failed \/ Replies(g, r.exp, r.alloc)
    BY <1>1, <1>2, <1>5, InquirySound
  <2> HIDE DEF g
  <2> QED BY <1>3, <1>5, <2>1 DEF Sound, CrashCause, Replies
<1>6. CASE r.cmd = "MODE_SENSE" /\ g = ModeSense(r)
  <2>1. \/ g = Failed
        \/ g = Crashed /\ ~Reservable(r.alloc)
        \/ /\ Replies(g, r.exp, r.alloc)
           /\ r.alloc # ModeHeader /\ ModePages(r.page) > 0 =>
                g.mode_data_length = Appended(r) - 1
    BY <1>1, <1>2, <1>6, ModeSenseSound
  <2> HIDE DEF g
  <2> QED BY <1>3, <1>6, <2>1 DEF Sound, CrashCause, Replies
<1>7. CASE r.cmd = "REPORT_LUNS" /\ g = ReportLuns(r)
  <2>1. \/ g = Failed
        \/ g = Crashed /\ ~Reservable(r.alloc)
        \/ /\ g.what = "reply" /\ g.flow = "none" /\ g.dlength = r.alloc
           /\ g.tail = Padded(r.alloc)
    BY <1>2, <1>7, ReportLunsSound
  <2> HIDE DEF g
  <2>2. r.alloc \in Nat /\ r.alloc <= r.alloc
    BY <1>2, <1>7
  <2> QED BY <1>3, <1>7, <2>1, <2>2 DEF Sound, CrashCause
<1>8. CASE /\ r.cmd \in {"READ_CAPACITY", "SERVICE_ACTION_IN_16", "MAINTENANCE_IN", "DUMMY"}
           /\ g = Failed \/ \E n \in Nat : Replies(g, r.exp, n)
  <2> HIDE DEF g
  <2> QED BY <1>3, <1>8 DEF Sound, CrashCause, Replies
<1>9. \/ g = Failed
      \/ r.cmd = "INQUIRY" /\ g = Inquiry(r)
      \/ r.cmd = "MODE_SENSE" /\ g = ModeSense(r)
      \/ r.cmd = "READ_CAPACITY" /\ g = LastBlock(r, 8)
      \/ r.cmd = "SERVICE_ACTION_IN_16" /\ g = LastBlock(r, 32)
      \/ r.cmd = "REPORT_LUNS" /\ g = ReportLuns(r)
      \/ r.cmd = "MAINTENANCE_IN" /\ g = MaintenanceIn(r)
      \/ r.cmd = "DUMMY" /\ g = Dummy(r)
  BY <1>1 DEF CommandReply, Commands, ReadCapacity, ReadCapacity16
<1>10. CASE \/ r.cmd = "READ_CAPACITY" /\ g = LastBlock(r, 8)
            \/ r.cmd = "SERVICE_ACTION_IN_16" /\ g = LastBlock(r, 32)
            \/ r.cmd = "MAINTENANCE_IN" /\ g = MaintenanceIn(r)
            \/ r.cmd = "DUMMY" /\ g = Dummy(r)
  <2>1. g = Failed \/ \E n \in Nat : Replies(g, r.exp, n)
    BY <1>1, <1>10, LastBlockSound, MaintenanceInSound, DummySound
  <2> QED BY <1>8, <1>10, <2>1
<1> QED BY <1>4, <1>5, <1>6, <1>7, <1>9, <1>10
-----------------------------------------------------------------------------
(* The reply is the one that CommandReply() makes of the request.          *)
InfoInv ==
  /\ info = << >> \/ \E r \in Requests : info = <<r>>
  /\ reply # << >> => info # << >> /\ reply = <<CommandReply(info[1])>>

LEMMA InitInfo == ReplyInit => InfoInv
  BY DEF ReplyInit, InfoInv

LEMMA StepInfo == InfoInv /\ [ReplyNext]_replyVars => InfoInv'
<1> SUFFICES ASSUME InfoInv, [ReplyNext]_replyVars PROVE InfoInv'
  OBVIOUS
<1>1. CASE InfoHandled
  <2>1. info' = info /\ info # << >> /\ reply' = <<CommandReply(info[1])>>
    BY <1>1 DEF InfoHandled
  <2> QED BY <2>1 DEF InfoInv
<1>2. CASE UNCHANGED <<info, reply>>
  BY <1>2 DEF InfoInv
<1>3. ReadStep \/ ReadHandled \/ Later \/ Logout \/ SendStep \/ UNCHANGED replyVars
        => UNCHANGED <<info, reply>>
  BY DEF ReadStep, ReadHandled, Later, Logout, SendStep, replyVars, command
<1> QED BY <1>1, <1>2, <1>3 DEF ReplyNext

(* Whatever EXPDATALEN and allocation length the initiator sends, and      *)
(* whatever the room in a buffer, an information command is answered with  *)
(* a DataIn that is framed, fits into the allocation length and accounts   *)
(* for EXPDATALEN, except where the code says otherwise (Sound); and only  *)
(* a data segment that cannot be reserved stops the program.               *)
THEOREM InfoSoundAlways == ReplySpec => []InfoSound
<1>1. InfoInv => InfoSound
  <2> SUFFICES ASSUME InfoInv, reply # << >>
               PROVE  Sound(info[1], reply[1]) /\ CrashCause(info[1], reply[1])
    BY DEF InfoSound
  <2>1. PICK r \in Requests : info = <<r>>
    BY DEF InfoInv
  <2>2. info[1] = r /\ reply[1] = CommandReply(r)
    BY <2>1 DEF InfoInv
  <2> QED BY <2>2, CommandSound
<1> QED BY <1>1, InitInfo, StepInfo, PTL DEF ReplySpec

LEMMA WritevWatched ==
  ASSUME Watched, invoking, NEW bytes, NEW remain, NEW rest(_, _), Writev(bytes, remain, rest)
  PROVE  Watched'
<1>1. PICK n \in 0 .. Len(bytes) :
        \/ n = 0 /\ TryAgain /\ UNCHANGED tasks
        \/ n > 0 /\ n = remain /\ Pop /\ waiting' = FALSE
        \/ /\ n > 0 /\ n # remain
           /\ tasks' = [tasks EXCEPT ![1] = rest(@, n)]
           /\ UNCHANGED <<invoking, waiting>>
  BY DEF Writev
<1> QED BY <1>1 DEF Watched, TryAgain, Pop

LEMMA FileWatched == ASSUME Watched, RunFile PROVE Watched'
<1> DEFINE t == Head1
           lhs == getLowHandles(t.offset, t.remain)
           lh == IF lhs = << >> THEN [path |-> "", offset |-> 0, length |-> 0] ELSE Head(lhs)
<1>1. invoking
  BY DEF RunFile, Running
<1>2. PICK n \in 0 .. lh.length :
        LET done == t.remain > 0 /\ n = lh.length /\ Len(lhs) <= 1
            again == n # lh.length \/ t.remain = 0
        IN IF done THEN Pop /\ waiting' = FALSE
           ELSE /\ tasks' = [tasks EXCEPT ![1].offset = @ + n, ![1].remain = @ - n]
                /\ IF again THEN TryAgain ELSE UNCHANGED <<invoking, waiting>>
  BY DEF RunFile
<1>3. \/ Pop
      \/ TryAgain
      \/ UNCHANGED <<invoking, waiting>>
  BY <1>2
<1> QED BY <1>1, <1>3 DEF Watched, Pop, TryAgain

LEMMA QueueWatched == ASSUME Watched, QueueNext PROVE Watched'
<1>1. CASE RunSend
  <2>1. invoking /\ Writev(SendBytes(Head1), SendRemain(Head1), SendStepForward)
    BY <1>1 DEF RunSend, Running
  <2> QED BY <2>1, WritevWatched
<1>2. CASE RunCache
  <2>1. invoking /\ Writev(CacheBytes(Head1), Head1.total_remain, CacheRest)
    BY <1>2 DEF RunCache, Running
  <2> QED BY <2>1, WritevWatched
<1>3. CASE RunFile
  BY <1>3, FileWatched
<1>4. CASE RunCork \/ RunClose
  BY <1>4 DEF RunCork, RunClose, Pop, Watched
<1>5. CASE RunOrphan
  BY <1>5 DEF RunOrphan, Watched
<1>6. CASE Writable
  BY <1>6 DEF Writable, Watched
<1> QED BY <1>1, <1>2, <1>3, <1>4, <1>5, <1>6 DEF QueueNext

LEMMA StepWatched == Watched /\ [ReplyNext]_replyVars => Watched'
<1> SUFFICES ASSUME Watched, [ReplyNext]_replyVars PROVE Watched'
  OBVIOUS
<1>1. CASE SendStep
  BY <1>1, QueueWatched DEF SendStep
<1>2. CASE ReadStep \/ UNCHANGED replyVars
  BY <1>2 DEF ReadStep, replyVars, queue, Watched
<1>3. CASE InfoHandled
  <2>1. invoking' = TRUE \/ (tasks' = tasks /\ invoking' = invoking)
    BY <1>3 DEF InfoHandled
  <2>2. waiting' = waiting
    BY <1>3 DEF InfoHandled
  <2> QED BY <2>1, <2>2 DEF Watched
<1>4. CASE ReadHandled \/ Later \/ Logout
  BY <1>4 DEF ReadHandled, Later, Logout, Watched
<1> QED BY <1>1, <1>2, <1>3, <1>4 DEF ReplyNext

(* Nobody forgets the send queue: whatever the socket takes of a task, and *)
(* whatever is pushed while it is full, the port of a session with pending *)
(* tasks is watched unless invoke() is at work on them.                    *)
THEOREM WatchedAlways == ReplySpec => []Watched
<1>1. ReplyInit => Watched
  BY DEF ReplyInit, QueueInit, Watched
<1> QED BY <1>1, StepWatched, PTL DEF ReplySpec

LEMMA ReplyInitReads == ReplyInit => Init
<1> SUFFICES ASSUME ReplyInit, ~Init PROVE FALSE
  OBVIOUS
<1>1. /\ segments = {} /\ first = 0 /\ total = 0 /\ byte_mrds \in Mrds
      /\ pc = "check" /\ cache = {} /\ lba = 0 /\ transfer_length = 0
      /\ length = 0 /\ hits = {} /\ left = 0 /\ pdus = << >>
  BY DEF ReplyInit
<1>2. {} \in {S \in SUBSET Segments : Disjoint(S)} /\ 0 \in 0 .. Size
  BY SizeAssumption DEF Disjoint
<1> QED BY <1>1, <1>2 DEF Init

LEMMA ReplyStepReads == [ReplyNext]_replyVars => [Next]_vars
BY DEF ReplyNext, ReadStep, ReadHandled, InfoHandled, Later, Logout, SendStep, replyVars

(* The READ of a connection is one of ReadPlan, whatever the socket and    *)
(* later requests do meanwhile: what is proved of READ holds here.         *)
THEOREM ReplyReads == ReplySpec => Spec
  BY ReplyInitReads, ReplyStepReads, PTL DEF ReplySpec, Spec

(* In particular, on a connection: lengths that do not wrap round, PDUs    *)
(* that lack exactly what MaxRecvDataSegmentLength has beyond whole blocks *)
(* (all but the last) or nothing, and READs exact where ReadPlan has them  *)
(* so.                                                                     *)
THEOREM ReplyReadsSoundly == ReplySpec => [](TypeOK /\ Framed /\ ExactInOnePdu)
  BY ReplyReads, TypeCorrect, FramedAlways, ExactAlways, PTL
-----------------------------------------------------------------------------
(* Three sequences one after another, without what a concatenation is.     *)
Cat(x, y) == x \o y
LEMMA CatThree ==
  ASSUME NEW S, NEW x \in Seq(S), NEW y \in Seq(S), NEW z \in Seq(S)
  PROVE  Cat(Cat(x, y), z) = Cat(x, Cat(y, z))
BY DEF Cat

(* The bytes of a reply.  Loops of the code are recursive functions: a     *)
(* loop has values because its turns have, and what holds before it and    *)
(* is kept by every turn holds after it.                                   *)
LEMMA Climb ==
  ASSUME NEW n \in Nat, NEW G, 0 \in G, \A i \in 1 .. n : i - 1 \in G => i \in G
  PROVE  \A i \in 0 .. n : i \in G
<1> DEFINE Bad == {k \in 0 .. n : k \notin G}
<1> SUFFICES ASSUME Bad # {} PROVE FALSE
  OBVIOUS
<1>1. PICK k \in Bad : \A x \in Bad : k <= x
  <2>1. Bad \in SUBSET Nat
    OBVIOUS
  <2> HIDE DEF Bad
  <2> QED BY <2>1, Least
<1>2. k \in 1 .. n /\ k \notin G
  BY <1>1
<1>3. k - 1 \notin Bad /\ k - 1 \in 0 .. n
  BY <1>1, <1>2
<1> QED BY <1>2, <1>3

Turns(S, n, a, F, f) ==
  f \in [0 .. n -> S] /\ f[0] = a /\ \A i \in 1 .. n : f[i] = F[<<f[i - 1], i>>]

LEMMA Loop ==
  ASSUME NEW n \in Nat, NEW S, NEW a \in S, NEW F \in [S \X (1 .. n) -> S]
  PROVE  \E f : Turns(S, n, a, F, f)
<1> SUFFICES \E f \in [0 .. n -> S] : f[0] = a /\ \A i \in 1 .. n : f[i] = F[<<f[i - 1], i>>]
  BY Zenon DEF Turns
<1> DEFINE Runs(k, f) == f[0] = a /\ \A i \in 1 .. k : f[i] = F[<<f[i - 1], i>>]
           G == {k \in 0 .. n : \E f \in [0 .. k -> S] : Runs(k, f)}
<1>1. 0 \in G
  <2> DEFINE f == [i \in 0 .. 0 |-> a]
  <2>1. f \in [0 .. 0 -> S] /\ Runs(0, f)
    OBVIOUS
  <2>2. \E e \in [0 .. 0 -> S] : Runs(0, e)
    BY <2>1, Zenon
  <2> HIDE DEF Runs
  <2> QED BY <2>2
<1>2. ASSUME NEW k \in 1 .. n, k - 1 \in G PROVE k \in G
  <2>1. PICK g \in [0 .. (k - 1) -> S] : Runs(k - 1, g)
    BY <1>2
  <2> DEFINE x == F[<<g[k - 1], k>>]
             f == [i \in 0 .. k |-> IF i = k THEN x ELSE g[i]]
  <2>2. x \in S
    <3>1. g[k - 1] \in S /\ k \in 1 .. n
      OBVIOUS
    <3> QED BY <3>1
  <2> HIDE DEF x
  <2>3. f \in [0 .. k -> S] /\ f[k] = x /\ \A i \in 0 .. (k - 1) : f[i] = g[i]
    BY <2>2
  <2> HIDE DEF f
  <2>4. f[0] = a
    BY <2>1, <2>3
  <2>5. ASSUME NEW i \in 1 .. k PROVE f[i] = F[<<f[i - 1], i>>]
    <3>1. CASE i = k
      <4>1. f[k - 1] = g[k - 1]
        BY <2>3
      <4> QED BY <2>3, <3>1, <4>1 DEF x
    <3>2. CASE i # k
      <4>1. i \in 1 .. (k - 1) /\ f[i] = g[i] /\ f[i - 1] = g[i - 1]
        BY <2>3, <3>2
      <4> QED BY <2>1, <4>1
    <3> QED BY <3>1, <3>2
  <2>6. Runs(k, f)
    BY <2>4, <2>5
  <2> HIDE DEF Runs
  <2> QED BY <2>3, <2>6
<1> HIDE DEF G
<1>3. n \in G
  BY <1>1, <1>2, Climb
<1> QED BY <1>3 DEF G

(* Concatenations of concatenations.                                       *)
LEMMA FlattenOne ==
  ASSUME NEW T, NEW x \in Seq(T)
  PROVE  FlattenSeq(<<x>>) = x
<1>1. << >> \in Seq(Seq(T)) /\ <<x>> = Append(<< >>, x)
  OBVIOUS
<1>2. FlattenSeq(<<x>>) = << >> \o x
  BY <1>1, FlattenAppend, FlattenEmpty
<1> QED BY <1>2, ConcatEmptySeq

LEMMA FlattenConcat ==
  ASSUME NEW T, NEW ss \in Seq(Seq(T)), NEW tt \in Seq(Seq(T))
  PROVE  FlattenSeq(ss \o tt) = FlattenSeq(ss) \o FlattenSeq(tt)
<1> DEFINE n == Len(tt)
           p(k) == SubSeq(tt, 1, k)
           G == {k \in 0 .. n : FlattenSeq(ss \o p(k)) = FlattenSeq(ss) \o FlattenSeq(p(k))}
<1>1. n \in Nat /\ p(n) = tt
  BY SubSeqFull
<1>2. 0 \in G
  <2>1. p(0) = << >>
    BY SubSeqEmpty
  <2>2. FlattenSeq(ss) \in Seq(T)
    BY FlattenType
  <2>3. ss \o << >> = ss /\ FlattenSeq(ss) \o << >> = FlattenSeq(ss)
    BY <2>2, ConcatEmptySeq
  <2>4. FlattenSeq(ss \o p(0)) = FlattenSeq(ss) \o FlattenSeq(p(0))
    BY <2>1, <2>3, FlattenEmpty
  <2> HIDE DEF p
  <2> QED BY <1>1, <2>4
<1>3. ASSUME NEW k \in 1 .. n, k - 1 \in G PROVE k \in G
  <2> DEFINE h == p(k - 1)
             x == tt[k]
  <2>1. h \in Seq(Seq(T)) /\ x \in Seq(T) /\ ss \o h \in Seq(Seq(T)) /\ p(k) = Append(h, x)
    OBVIOUS
  <2>2. ss \o Append(h, x) = Append(ss \o h, x)
    <3> HIDE DEF h, x
    <3> QED BY <2>1, SMTT(30)
  <2>3. FlattenSeq(ss \o h) = FlattenSeq(ss) \o FlattenSeq(h)
    BY <1>3
  <2> HIDE DEF h, x
  <2>4. FlattenSeq(Append(ss \o h, x)) = FlattenSeq(ss \o h) \o x
        /\ FlattenSeq(Append(h, x)) = FlattenSeq(h) \o x
    BY <2>1, FlattenAppend
  <2>5. FlattenSeq(ss) \in Seq(T) /\ FlattenSeq(h) \in Seq(T)
    BY <2>1, FlattenType
  <2>6. (FlattenSeq(ss) \o FlattenSeq(h)) \o x = FlattenSeq(ss) \o (FlattenSeq(h) \o x)
    <3> DEFINE a == FlattenSeq(ss)
               b == FlattenSeq(h)
    <3>1. a \in Seq(T) /\ b \in Seq(T) /\ x \in Seq(T)
      BY <2>1, <2>5
    <3> HIDE DEF a, b
    <3>2. Cat(Cat(a, b), x) = Cat(a, Cat(b, x))
      BY <3>1, CatThree
    <3>3. (a \o b) \o x = a \o (b \o x)
      BY <3>2, Zenon DEF Cat
    <3> QED BY <3>3 DEF a, b
  <2>7. FlattenSeq(ss \o p(k)) = FlattenSeq(ss) \o FlattenSeq(p(k))
    BY <2>1, <2>2, <2>3, <2>4, <2>6
  <2> QED BY <2>7
<1> HIDE DEF G, n, p
<1>4. n \in G
  <2>1. \A k \in 1 .. n : k - 1 \in G => k \in G
    BY <1>3
  <2>2. \A i \in 0 .. n : i \in G
    BY <1>1, <1>2, <2>1, Climb, Zenon
  <2> QED BY <1>1, <2>2
<1>5. FlattenSeq(ss \o p(n)) = FlattenSeq(ss) \o FlattenSeq(p(n))
  BY <1>4 DEF G
<1> QED BY <1>1, <1>5

(* A tape gives every address a byte; what a task is to send is a stretch  *)
(* of one.                                                                 *)
Places ==
  {[pdu |-> x] : x \in {"read", "info", "later", "logout"} \X Nat}
  \cup [seg : Nat, cbuf : Nat]
  \cup {[path |-> Parts[i].path] : i \in 1 .. Len(Parts)} \cup {[path |-> ""]}
Octets == [place : Places, at : Nat]
Tapes == [Nat -> Octets]

Stretch(g, p, r) == [k \in 1 .. r |-> g[(p + k) - 1]]

LEMMA StretchType ==
  ASSUME NEW g \in Tapes, NEW p \in Nat, NEW r \in Nat
  PROVE  Stretch(g, p, r) \in Seq(Octets) /\ Len(Stretch(g, p, r)) = r
<1>1. \A k \in 1 .. r : (p + k) - 1 \in Nat
  OBVIOUS
<1>2. \A a \in Nat : g[a] \in Octets
  BY DEF Tapes
<1> DEFINE f == Stretch(g, p, r)
<1>3. f \in [1 .. r -> Octets]
  BY <1>1, <1>2 DEF Stretch
<1> HIDE DEF f
<1>4. f \in Seq(Octets) /\ Len(f) = r
  BY <1>3
<1> QED BY <1>4 DEF f

LEMMA StretchCut ==
  ASSUME NEW g \in Tapes, NEW p \in Nat, NEW r \in Nat, NEW n \in 0 .. r
  PROVE  /\ SubSeq(Stretch(g, p, r), 1, n) = Stretch(g, p, n)
         /\ Stretch(g, p, n) \o Stretch(g, p + n, r - n) = Stretch(g, p, r)
<1> DEFINE s == Stretch(g, p, r)
           a == Stretch(g, p, n)
           b == Stretch(g, p + n, r - n)
<1>1. n \in Nat /\ r - n \in Nat /\ p + n \in Nat
  OBVIOUS
<1>2. /\ s \in Seq(Octets) /\ Len(s) = r /\ a \in Seq(Octets) /\ Len(a) = n
      /\ b \in Seq(Octets) /\ Len(b) = r - n
  BY <1>1, StretchType
<1>3. /\ \A k \in 1 .. r : s[k] = g[(p + k) - 1]
      /\ \A k \in 1 .. n : a[k] = g[(p + k) - 1]
      /\ \A k \in 1 .. (r - n) : b[k] = g[((p + n) + k) - 1]
  BY DEF Stretch
<1> HIDE DEF s, a, b
<1>4. SubSeq(s, 1, n) = a
  <2> DEFINE c == SubSeq(s, 1, n)
  <2>1. c \in Seq(Octets) /\ Len(c) = n /\ \A k \in 1 .. n : c[k] = s[k]
    BY <1>1, <1>2
  <2> HIDE DEF c
  <2>2. \A k \in 1 .. n : c[k] = a[k]
    BY <1>3, <2>1
  <2> QED BY <1>2, <2>1, <2>2, SeqEqual DEF c
<1>5. a \o b = s
  <2> DEFINE c == a \o b
  <2>1. /\ c \in Seq(Octets) /\ Len(c) = n + (r - n)
        /\ \A k \in 1 .. (n + (r - n)) : c[k] = IF k <= n THEN a[k] ELSE b[k - n]
    <3>1. /\ c \in Seq(Octets) /\ Len(c) = Len(a) + Len(b)
          /\ \A k \in 1 .. (Len(a) + Len(b)) : c[k] = IF k <= Len(a) THEN a[k] ELSE b[k - Len(a)]
      BY <1>2, ConcatProperties, Zenon
    <3> HIDE DEF c
    <3> QED BY <1>2, <3>1
  <2> HIDE DEF c
  <2>3. \A k \in 1 .. r : c[k] = IF k <= n THEN a[k] ELSE b[k - n]
    BY <1>1, <2>1
  <2>2. ASSUME NEW k \in 1 .. r PROVE c[k] = s[k]
    <3>1. CASE k <= n
      <4>1. k \in 1 .. n /\ c[k] = a[k]
        BY <2>3, <3>1
      <4> QED BY <1>3, <4>1
    <3>2. CASE k > n
      <4>1. k - n \in 1 .. (r - n) /\ ((p + n) + (k - n)) - 1 = (p + k) - 1
        BY <1>1, <3>2
      <4>2. c[k] = b[k - n]
        BY <2>3, <3>2
      <4> QED BY <1>3, <4>1, <4>2
    <3> QED BY <1>1, <3>1, <3>2
  <2> QED BY <1>1, <1>2, <2>1, <2>2, SeqEqual DEF c
<1> QED BY <1>4, <1>5 DEF s, a, b

PlaceTape(x) == [a \in Nat |-> [place |-> x, at |-> a]]
SegTape(id) == [a \in Nat |-> [place |-> [seg |-> id, cbuf |-> a \div CbufSize], at |-> a % CbufSize]]

LEMMA PlaceTapeType ==
  ASSUME NEW x \in Places
  PROVE  PlaceTape(x) \in Tapes
BY DEF PlaceTape, Tapes, Octets

LEMMA SegTapeType ==
  ASSUME NEW id \in Nat
  PROVE  SegTape(id) \in Tapes
<1>1. ASSUME NEW a \in Nat
      PROVE  [place |-> [seg |-> id, cbuf |-> a \div CbufSize], at |-> a % CbufSize] \in Octets
  <2>1. a \div CbufSize \in Nat /\ a % CbufSize \in Nat
    BY ReplyAssumption
  <2>2. [seg |-> id, cbuf |-> a \div CbufSize] \in Places
    BY <2>1 DEF Places
  <2> QED BY <2>1, <2>2 DEF Octets
<1> QED BY <1>1 DEF SegTape, Tapes

LEMMA BytesAre ==
  ASSUME NEW x, NEW n \in Nat, NEW len \in Nat
  PROVE  Bytes(x, n, len) = Stretch(PlaceTape(x), n, len)
<1>1. \A k \in 1 .. len : (n + k) - 1 \in Nat /\ n + k - 1 = (n + k) - 1
  OBVIOUS
<1>2. \A k \in 1 .. len : PlaceTape(x)[(n + k) - 1] = [place |-> x, at |-> n + k - 1]
  BY <1>1 DEF PlaceTape
<1> QED BY <1>2 DEF Bytes, Stretch
-----------------------------------------------------------------------------
(* What a task still has to send, and the tasks that can be pending.       *)
CachePos(t) == (t.cur_index * CbufSize + t.offset) + Skipped(t)

Grounds(i) == Total([k \in 1 .. (i - 1) |-> Parts[k].count])
VolByte(a) ==
  LET i == CHOOSE k \in 1 .. Len(Parts) : Grounds(k) * Unit <= a /\ a < Grounds(k + 1) * Unit
  IN IF a < Size * Unit THEN [place |-> [path |-> Parts[i].path], at |-> a - Grounds(i) * Unit]
     ELSE [place |-> [path |-> ""], at |-> 0]
VolTape == [a \in Nat |-> VolByte(a)]

Due(t) ==
  CASE t.kind = "send" -> Stretch(PlaceTape(t.cbufs[1].id), t.cbufs[1].offset,
                                  t.cbufs[1].tail - t.cbufs[1].offset)
    [] t.kind = "cache" -> Stretch(SegTape(t.ws.id), CachePos(t), t.total_remain)
    [] t.kind = "file" -> Stretch(VolTape, t.offset, t.remain)
    [] OTHER -> << >>

SendTasks ==
  {t \in [kind : {"send"}, cbufs : {<<c>> : c \in [id : Places, offset : Nat, tail : Nat]}] :
     t.cbufs[1].offset < t.cbufs[1].tail}
Segs == [id : Nat, lba : Nat, ds_offset : {1}, sizes : Seq({CbufSize})]
Within(t) ==
  /\ t.offset + Skipped(t) <= CbufSize
  /\ CachePos(t) + t.total_remain <= Len(t.ws.sizes) * CbufSize
CacheSet == [kind : {"cache"}, ws : Segs, total_remain : Nat, cur_index : Nat, offset : Nat]
CacheTasks == {t \in CacheSet : t.total_remain > 0 /\ Within(t)}
FileTasks ==
  {t \in [kind : {"file"}, offset : Nat, remain : Nat] :
     t.remain > 0 /\ t.offset + t.remain <= Size * Unit}
OtherTasks == [kind : {"cork", "uncork", "close"}]
DataTasks == SendTasks \cup CacheTasks \cup FileTasks
Tasks == DataTasks \cup OtherTasks

(* u is t after its first n bytes.                                         *)
GoesOn(t, u, n) == u \in DataTasks /\ Due(t) = SubSeq(Due(t), 1, n) \o Due(u)

LEMMA SendGoes ==
  ASSUME NEW t \in SendTasks
  PROVE  /\ Due(t) \in Seq(Octets) /\ Len(Due(t)) # 0
         /\ SendBytes(t) = Due(t) /\ SendRemain(t) = Len(Due(t))
         /\ \A n \in 1 .. (Len(Due(t)) - 1) : GoesOn(t, SendStepForward(t, n), n)
<1> DEFINE c == t.cbufs[1]
           x == c.id
           o == c.offset
           r == c.tail - c.offset
           g == PlaceTape(x)
<1>1. /\ t.kind = "send" /\ t.cbufs = <<c>> /\ x \in Places /\ o \in Nat /\ c.tail \in Nat /\ o < c.tail
      /\ c = [id |-> x, offset |-> o, tail |-> c.tail] /\ t = [kind |-> "send", cbufs |-> <<c>>]
  BY DEF SendTasks
<1>2. r \in Nat \ {0} /\ g \in Tapes
  BY <1>1, PlaceTapeType
<1>3. Due(t) = Stretch(g, o, r)
  BY <1>1 DEF Due
<1>4. Due(t) \in Seq(Octets) /\ Len(Due(t)) = r
  BY <1>1, <1>2, <1>3, StretchType
<1>5. DOMAIN t.cbufs = 1 .. 1 /\ Len(t.cbufs) = 1
  BY <1>1
<1>6. SendBytes(t) = Due(t)
  <2>1. [i \in DOMAIN t.cbufs |->
           Bytes(t.cbufs[i].id, t.cbufs[i].offset, t.cbufs[i].tail - t.cbufs[i].offset)]
          = <<Bytes(x, o, r)>>
    BY <1>5
  <2>2. Bytes(x, o, r) = Stretch(g, o, r)
    BY <1>1, <1>2, BytesAre
  <2>3. Stretch(g, o, r) \in Seq(Octets)
    BY <1>3, <1>4
  <2> HIDE DEF x, o, r, g
  <2>4. FlattenSeq(<<Stretch(g, o, r)>>) = Stretch(g, o, r)
    BY <2>3, FlattenOne
  <2> QED BY <1>3, <2>1, <2>2, <2>4 DEF SendBytes, x, o, r
<1>7. SendRemain(t) = r
  <2> DEFINE ns == [i \in DOMAIN t.cbufs |-> t.cbufs[i].tail - t.cbufs[i].offset]
  <2>1. ns = Append(<< >>, r)
    BY <1>5
  <2>2. << >> \in Seq(Int) /\ r \in Int
    BY <1>2
  <2> HIDE DEF r
  <2>3. Sum(Append(<< >>, r)) = 0 + r
    BY <2>2, SumAppend, SumEmpty
  <2>4. Total(ns) = Sum(ns)
    BY Zenon DEF Total, Sum
  <2> QED BY <2>1, <2>2, <2>3, <2>4 DEF SendRemain
<1>8. ASSUME NEW n \in 1 .. (r - 1) PROVE GoesOn(t, SendStepForward(t, n), n)
  <2> DEFINE d == [c EXCEPT !.offset = @ + n]
             u == SendStepForward(t, n)
             a0 == [tmp |-> n, cbufs |-> << >>]
             a1 == [tmp |-> 0, cbufs |-> <<d>>]
             Runs(f) == f = [i \in 0 .. Len(t.cbufs) |->
                               IF i = 0 THEN a0 ELSE SendEnter(f[i - 1], t.cbufs[i])]
             e == [i \in 0 .. 1 |-> IF i = 0 THEN a0 ELSE a1]
             h == CHOOSE f : Runs(f)
  <2>1. SendEnter(a0, c) = a1
    <3>1. ~(c.tail - c.offset <= n) /\ n > 0
      BY <1>1
    <3>2. Append(<< >>, d) = <<d>>
      OBVIOUS
    <3> QED BY <3>1, <3>2 DEF SendEnter
  <2>2. Runs(e)
    <3>1. e[0] = a0 /\ e[1] = a1 /\ t.cbufs[1] = c
      OBVIOUS
    <3> HIDE DEF a0, a1, c
    <3>2. \A i \in 0 .. 1 : (IF i = 0 THEN a0 ELSE a1)
                              = IF i = 0 THEN a0 ELSE SendEnter(e[i - 1], t.cbufs[i])
      <4> HIDE DEF e
      <4>1. \A i \in 0 .. 1 : i = 0 \/ i = 1
        OBVIOUS
      <4>2. SendEnter(e[1 - 1], t.cbufs[1]) = a1
        BY <2>1, <3>1
      <4> QED BY <4>1, <4>2
    <3> QED BY <1>5, <3>2
  <2>3. Runs(h)
    BY <2>2, Zenon
  <2>4. h[1] = a1
    <3>1. h = [i \in 0 .. 1 |-> IF i = 0 THEN a0 ELSE SendEnter(h[i - 1], t.cbufs[i])]
      BY <1>5, <2>3
    <3> HIDE DEF h, a0, a1, c
    <3>2. h[0] = a0
      BY <3>1
    <3>3. h[1] = SendEnter(h[0], t.cbufs[1])
      BY <3>1
    <3> QED BY <2>1, <3>2, <3>3 DEF c
  <2>5. u = [t EXCEPT !.cbufs = h[Len(t.cbufs)].cbufs]
    BY Zenon DEF SendStepForward
  <2> HIDE DEF h, u
  <2>6. u = [kind |-> "send", cbufs |-> <<d>>]
    <3>1. h[Len(t.cbufs)].cbufs = <<d>>
      BY <1>5, <2>4
    <3> HIDE DEF d
    <3> QED BY <1>1, <2>5, <3>1
  <2>7. d = [id |-> x, offset |-> o + n, tail |-> c.tail]
    BY <1>1
  <2>8. u \in SendTasks /\ Due(u) = Stretch(g, o + n, r - n)
    <3>1. o + n \in Nat /\ o + n < c.tail /\ c.tail - (o + n) = r - n
      BY <1>1, <1>2
    <3>2. d.id = x /\ d.offset = o + n /\ d.tail = c.tail /\ d \in [id : Places, offset : Nat, tail : Nat]
      BY <1>1, <2>7, <3>1
    <3> HIDE DEF d, x, o, r
    <3>3. u.kind = "send" /\ u.cbufs = <<d>> /\ u.cbufs[1] = d
      BY <2>6
    <3>4. u \in SendTasks
      BY <2>6, <3>1, <3>2, <3>3 DEF SendTasks
    <3>5. Due(u) = Stretch(PlaceTape(d.id), d.offset, d.tail - d.offset)
      BY <3>3 DEF Due
    <3> QED BY <3>1, <3>2, <3>4, <3>5
  <2>9. n \in 0 .. r
    BY <1>2, SMTT(30)
  <2> HIDE DEF g, o, r
  <2>10. SubSeq(Due(t), 1, n) \o Due(u) = Due(t)
    <3>1. o \in Nat /\ r \in Nat /\ g \in Tapes
      BY <1>1, <1>2 DEF o
    <3>2. SubSeq(Stretch(g, o, r), 1, n) = Stretch(g, o, n)
          /\ Stretch(g, o, n) \o Stretch(g, o + n, r - n) = Stretch(g, o, r)
      BY <2>9, <3>1, StretchCut
    <3> QED BY <1>3, <2>8, <3>2 DEF o, r, g
  <2> QED BY <2>8, <2>10 DEF GoesOn, DataTasks, u
<1> QED BY <1>2, <1>4, <1>6, <1>7, <1>8

-----------------------------------------------------------------------------
(* The buffers of a segment, all of them CbufSize long.                    *)
LEMMA BufferStarts ==
  ASSUME NEW i \in Nat
  PROVE  /\ i * CbufSize \in Nat /\ (i + 1) * CbufSize = i * CbufSize + CbufSize
         /\ \A j \in Nat : i <= j => i * CbufSize <= j * CbufSize
<1>1. CbufSize \in Nat \ {0}
  BY ReplyAssumption
<1>2. ASSUME NEW j \in Nat, i <= j PROVE i * CbufSize <= j * CbufSize
  <2>1. j = i + (j - i) /\ j - i \in Nat
    BY <1>2
  <2>2. (i + (j - i)) * CbufSize = i * CbufSize + (j - i) * CbufSize /\ (j - i) * CbufSize \in Nat
    BY <1>1, <2>1
  <2>3. i * CbufSize \in Nat
    BY <1>1
  <2> QED BY <1>1, <2>1, <2>2, <2>3
<1> QED BY <1>1, <1>2

LEMMA SkippedIs ==
  ASSUME NEW t \in CacheSet
  PROVE  /\ Skipped(t) = IF t.cur_index = 0 THEN 1 ELSE 0
         /\ t.cur_index \in Nat /\ t.offset \in Nat /\ t.total_remain \in Nat /\ t.ws \in Segs
         /\ t.kind = "cache" /\ CachePos(t) \in Nat
<1>1. /\ t.cur_index \in Nat /\ t.offset \in Nat /\ t.total_remain \in Nat /\ t.ws \in Segs
      /\ t.kind = "cache"
  BY DEF CacheSet
<1>2. t.ws.ds_offset = 1
  BY <1>1 DEF Segs
<1>3. Skipped(t) = IF t.cur_index = 0 THEN 1 ELSE 0
  BY <1>2 DEF Skipped
<1>4. t.cur_index * CbufSize \in Nat
  BY <1>1, BufferStarts
<1> QED BY <1>1, <1>3, <1>4 DEF CachePos

Accs(ws) == {x \in [t : CacheSet, tmp : Nat] : x.t.ws = ws}
OnTheWay(x, R, q, i) ==
  /\ x.t.total_remain = R /\ x.tmp < R /\ x.t.offset + Skipped(x.t) <= CbufSize
  /\ CachePos(x.t) + x.tmp = q
  /\ x.tmp = 0 \/ i <= x.t.cur_index

LEMMA EnterKeeps ==
  ASSUME NEW ws \in Segs, NEW x \in Accs(ws), NEW i \in 0 .. (Len(ws.sizes) - 1)
  PROVE  /\ CacheEnter(x, i) \in Accs(ws)
         /\ \A R, q \in Nat : OnTheWay(x, R, q, i) => OnTheWay(CacheEnter(x, i), R, q, i + 1)
<1> DEFINE t == x.t
           y == CacheEnter(x, i)
           room == (CbufSize - t.offset) - Skipped(t)
<1>1. t \in CacheSet /\ x.tmp \in Nat /\ x = [t |-> t, tmp |-> x.tmp] /\ t.ws = ws
  BY DEF Accs
<1>2. /\ Skipped(t) = IF t.cur_index = 0 THEN 1 ELSE 0
      /\ t.cur_index \in Nat /\ t.offset \in Nat /\ t.total_remain \in Nat /\ CachePos(t) \in Nat
  BY <1>1, SkippedIs
<1>3. CbufSize \in Nat \ {0} /\ i \in Nat
  BY ReplyAssumption
<1>4. i + 1 \in 1 .. Len(ws.sizes) /\ ws.sizes[i + 1] = CbufSize
  <2>1. ws.sizes \in Seq({CbufSize})
    BY DEF Segs
  <2>2. i + 1 \in 1 .. Len(ws.sizes)
    BY <2>1
  <2>3. ws.sizes[i + 1] \in {CbufSize}
    BY <2>1, <2>2, ElementOfSeq
  <2> QED BY <2>2, <2>3
<1>5. ASSUME i = t.cur_index
      PROVE  /\ InCbuf(t) = least(t.total_remain, room) /\ InCbuf(t) \in Int
             /\ CachePos(t) = (i * CbufSize + t.offset) + Skipped(t)
  <2>1. ws.sizes[t.cur_index + 1] - t.offset - Skipped(t) = room
    BY <1>2, <1>3, <1>4, <1>5
  <2>2. InCbuf(t) = least(t.total_remain, room)
    BY <1>1, <2>1 DEF InCbuf
  <2> QED BY <1>2, <1>3, <1>5, <2>2 DEF least, CachePos
<1>6. CASE x.tmp = 0 \/ i # t.cur_index
  <2>1. y = x
    BY <1>6 DEF CacheEnter
  <2>2. ASSUME NEW R \in Nat, NEW q \in Nat, OnTheWay(x, R, q, i) PROVE OnTheWay(x, R, q, i + 1)
    <3>1. x.tmp = 0 \/ i + 1 <= t.cur_index
      BY <1>2, <1>3, <1>6, <2>2 DEF OnTheWay
    <3> QED BY <2>2, <3>1 DEF OnTheWay
  <2> QED BY <2>1, <2>2
<1>7. CASE x.tmp > 0 /\ i = t.cur_index /\ InCbuf(t) <= x.tmp
  <2> DEFINE u == [t EXCEPT !.cur_index = i + 1, !.offset = 0]
             d == x.tmp - InCbuf(t)
  <2>1. y = [t |-> u, tmp |-> d]
    BY <1>7 DEF CacheEnter
  <2>2. d \in Nat /\ i + 1 \in Nat
    BY <1>1, <1>3, <1>5, <1>7
  <2>3. u \in CacheSet /\ u.cur_index = i + 1 /\ u.offset = 0 /\ u.total_remain = t.total_remain /\ u.ws = ws
    <3>1. /\ t = [kind |-> "cache", ws |-> ws, total_remain |-> t.total_remain,
                  cur_index |-> t.cur_index, offset |-> t.offset]
          /\ t.total_remain \in Nat
      BY <1>1 DEF CacheSet
    <3>2. u = [kind |-> "cache", ws |-> ws, total_remain |-> t.total_remain, cur_index |-> i + 1, offset |-> 0]
      <4> DEFINE v == [t EXCEPT !.cur_index = i + 1]
                 b == t.total_remain
                 o == t.offset
                 c == t.cur_index
      <4>1. t = [kind |-> "cache", ws |-> ws, total_remain |-> b, cur_index |-> c, offset |-> o]
        BY <3>1
      <4> HIDE DEF b, o, c, t
      <4>2. v = [kind |-> "cache", ws |-> ws, total_remain |-> b, cur_index |-> i + 1, offset |-> o]
        BY <4>1
      <4>3. u = [v EXCEPT !.offset = 0]
        OBVIOUS
      <4> HIDE DEF v, u
      <4>4. u = [kind |-> "cache", ws |-> ws, total_remain |-> b, cur_index |-> i + 1, offset |-> 0]
        BY <4>2, <4>3
      <4> QED BY <4>4 DEF b
    <3> HIDE DEF u, t
    <3>3. i + 1 \in Nat /\ 0 \in Nat
      BY <1>3
    <3> QED BY <3>1, <3>2, <3>3 DEF CacheSet
  <2> HIDE DEF u, d
  <2>4. y \in Accs(ws) /\ y.t = u /\ y.tmp = d
    BY <2>1, <2>2, <2>3 DEF Accs
  <2>5. Skipped(u) = 0
    BY <1>3, <2>3, SkippedIs
  <2>6. CachePos(u) = i * CbufSize + CbufSize
    BY <1>3, <2>3, <2>5, BufferStarts DEF CachePos
  <2>7. ASSUME NEW R \in Nat, NEW q \in Nat, OnTheWay(x, R, q, i) PROVE OnTheWay(y, R, q, i + 1)
    <3>1. t.total_remain = R /\ x.tmp < R /\ t.offset + Skipped(t) <= CbufSize /\ CachePos(t) + x.tmp = q
      BY <2>7 DEF OnTheWay
    <3>2. InCbuf(t) = room /\ room >= 0
      BY <1>1, <1>2, <1>3, <1>5, <1>7, <3>1, SMTT(30) DEF least
    <3>3. CachePos(u) + d = q /\ d < R
      <4> DEFINE b == i * CbufSize
                 k == Skipped(t)
                 o == t.offset
                 e == x.tmp
                 v == CachePos(u)
      <4>1. b \in Nat
        BY <1>3, BufferStarts
      <4>2. CachePos(t) = (b + o) + k /\ v = b + CbufSize
        BY <1>5, <1>7, <2>6
      <4>3. k \in Nat /\ o \in Nat /\ d = e - ((CbufSize - o) - k)
        BY <1>2, <3>2 DEF d
      <4>4. ((CbufSize - o) - k) >= 0
        BY <3>2
      <4>5. CachePos(t) + e = q
        BY <3>1
      <4>6. e \in Nat /\ e < R /\ CbufSize \in Nat
        BY <1>1, <1>3, <3>1
      <4> HIDE DEF b, k, o, e, v
      <4>7. ((b + o) + k) + e = q
        BY <4>2, <4>5, Zenon
      <4>8. v + d = q /\ d < R
        BY <4>1, <4>2, <4>3, <4>4, <4>6, <4>7
      <4> QED BY <4>8 DEF v
    <3> QED BY <1>3, <2>3, <2>4, <2>5, <3>1, <3>3 DEF OnTheWay
  <2> QED BY <2>4, <2>7
<1>8. CASE x.tmp > 0 /\ i = t.cur_index /\ ~(InCbuf(t) <= x.tmp)
  <2> DEFINE u == [t EXCEPT !.offset = @ + x.tmp]
  <2>1. y = [t |-> u, tmp |-> 0]
    BY <1>8 DEF CacheEnter
  <2>2. /\ u \in CacheSet /\ u.cur_index = t.cur_index /\ u.offset = t.offset + x.tmp
        /\ u.total_remain = t.total_remain /\ u.ws = ws
    BY <1>1, <1>2 DEF CacheSet
  <2> HIDE DEF u
  <2>3. y \in Accs(ws) /\ y.t = u /\ y.tmp = 0
    BY <2>1, <2>2 DEF Accs
  <2>4. Skipped(u) = Skipped(t)
    BY <1>2, <2>2, SkippedIs
  <2>5. ASSUME NEW R \in Nat, NEW q \in Nat, OnTheWay(x, R, q, i) PROVE OnTheWay(y, R, q, i + 1)
    <3>1. t.total_remain = R /\ x.tmp < R /\ t.offset + Skipped(t) <= CbufSize /\ CachePos(t) + x.tmp = q
      BY <2>5 DEF OnTheWay
    <3>2. x.tmp < room
      BY <1>1, <1>2, <1>3, <1>5, <1>8, <3>1 DEF least
    <3>3. u.offset + Skipped(u) <= CbufSize
      BY <1>1, <1>2, <1>3, <2>2, <2>4, <3>2
    <3>4. CachePos(u) + 0 = q
      <4> DEFINE b == i * CbufSize
                 k == Skipped(t)
      <4>1. b \in Nat /\ k \in Nat /\ t.offset \in Nat /\ x.tmp \in Nat
        BY <1>1, <1>2, <1>3, BufferStarts
      <4>2. CachePos(t) = (b + t.offset) + k
        BY <1>5, <1>8
      <4>3. CachePos(u) = (b + (t.offset + x.tmp)) + k
        BY <1>8, <2>2, <2>4 DEF CachePos
      <4>4. CachePos(t) + x.tmp = q
        BY <3>1
      <4> HIDE DEF b, k, t
      <4> QED BY <4>1, <4>2, <4>3, <4>4
    <3>5. 0 < R
      <4>1. x.tmp \in Nat /\ x.tmp < R
        BY <1>1, <3>1
      <4> QED BY <4>1
    <3>6. u.total_remain = R
      BY <2>2, <3>1
    <3> HIDE DEF t
    <3> QED BY <2>3, <3>3, <3>4, <3>5, <3>6 DEF OnTheWay
  <2> QED BY <2>3, <2>5
<1>9. x.tmp > 0 \/ x.tmp = 0
  BY <1>1
<1> QED BY <1>6, <1>7, <1>8, <1>9

(* SendCacheTask::_stepForward() goes forward by as many bytes as it is    *)
(* told, through as many buffers as that takes.                            *)
LEMMA CacheSteps ==
  ASSUME NEW t \in CacheSet, Within(t), NEW n \in Nat, n < t.total_remain
  PROVE  LET u == CacheStepForward(t, n) IN
         /\ u \in CacheSet /\ u.ws = t.ws /\ u.total_remain = t.total_remain
         /\ u.offset + Skipped(u) <= CbufSize /\ CachePos(u) = CachePos(t) + n
<1> DEFINE ws == t.ws
           m == Len(ws.sizes)
           a == [t |-> t, tmp |-> n]
           F == [z \in Accs(ws) \X (1 .. m) |-> CacheEnter(z[1], z[2] - 1)]
           Runs(f) == f = [i \in 0 .. m |-> IF i = 0 THEN a ELSE CacheEnter(f[i - 1], i - 1)]
           h == CHOOSE f : Runs(f)
           R == t.total_remain
           q == CachePos(t) + n
<1>1. ws \in Segs /\ R \in Nat /\ CachePos(t) \in Nat /\ q \in Nat /\ t.cur_index \in Nat
  BY SkippedIs
<1>2. m \in Nat
  BY <1>1 DEF Segs
<1>3. a \in Accs(ws)
  BY DEF Accs
<1>4. F \in [Accs(ws) \X (1 .. m) -> Accs(ws)]
  <2>1. ASSUME NEW x \in Accs(ws), NEW k \in 1 .. m PROVE CacheEnter(x, k - 1) \in Accs(ws)
    <3>1. k - 1 \in 0 .. (m - 1)
      BY <1>2
    <3> QED BY <1>1, <3>1, EnterKeeps
  <2>2. ASSUME NEW z \in Accs(ws) \X (1 .. m) PROVE CacheEnter(z[1], z[2] - 1) \in Accs(ws)
    <3>1. z[1] \in Accs(ws) /\ z[2] \in 1 .. m
      OBVIOUS
    <3> QED BY <2>1, <3>1
  <2> QED BY <2>2
<1>5. PICK f : Turns(Accs(ws), m, a, F, f)
  <2> HIDE DEF F, a, m, ws
  <2> QED BY <1>2, <1>3, <1>4, Loop, Zenon
<1>6. Runs(f)
  <2>1. ASSUME NEW i \in 1 .. m PROVE f[i] = CacheEnter(f[i - 1], i - 1)
    <3>1. f[i - 1] \in Accs(ws)
      BY <1>2, <1>5 DEF Turns
    <3>2. f[i] = F[<<f[i - 1], i>>]
      BY <1>5 DEF Turns
    <3> HIDE DEF a
    <3> QED BY <3>1, <3>2
  <2>2. f = [i \in 0 .. m |-> f[i]] /\ f[0] = a
    BY <1>5 DEF Turns
  <2>3. \A i \in 0 .. m : f[i] = IF i = 0 THEN a ELSE CacheEnter(f[i - 1], i - 1)
    <3> HIDE DEF a, m
    <3>1. \A i \in 0 .. m : i = 0 \/ i \in 1 .. m
      BY <1>2
    <3> QED BY <2>1, <2>2, <3>1
  <2> HIDE DEF a, m
  <2> QED BY <2>2, <2>3, Zenon
<1>7. Runs(h)
  BY <1>6, Zenon
<1>8. CacheStepForward(t, n) = h[m].t
  BY Zenon DEF CacheStepForward
<1> DEFINE G == {i \in 0 .. m : h[i] \in Accs(ws) /\ OnTheWay(h[i], R, q, i)}
<1>9. h[0] = a /\ \A i \in 1 .. m : h[i] = CacheEnter(h[i - 1], i - 1)
  <2> HIDE DEF h, a, m
  <2> QED BY <1>2, <1>7
<1>10. 0 \in G
  <2>1. OnTheWay(a, R, q, 0)
    BY <1>1 DEF OnTheWay, Within
  <2> HIDE DEF h, m
  <2> QED BY <1>2, <1>3, <1>9, <2>1
<1>11. ASSUME NEW i \in 1 .. m, i - 1 \in G PROVE i \in G
  <2> HIDE DEF h, R, q, ws
  <2>1. h[i - 1] \in Accs(ws) /\ OnTheWay(h[i - 1], R, q, i - 1)
    BY <1>11
  <2>2. i - 1 \in 0 .. (m - 1) /\ (i - 1) + 1 = i
    BY <1>2
  <2>3. /\ CacheEnter(h[i - 1], i - 1) \in Accs(ws)
        /\ OnTheWay(CacheEnter(h[i - 1], i - 1), R, q, (i - 1) + 1)
    <3> DEFINE j == i - 1
               x == h[j]
    <3>1. j \in 0 .. (Len(ws.sizes) - 1) /\ x \in Accs(ws) /\ OnTheWay(x, R, q, j)
      BY <2>1, <2>2
    <3> HIDE DEF j, x
    <3>2. CacheEnter(x, j) \in Accs(ws) /\ OnTheWay(CacheEnter(x, j), R, q, j + 1)
      BY <1>1, <3>1, EnterKeeps
    <3> QED BY <3>2 DEF x, j
  <2>4. h[i] \in Accs(ws) /\ OnTheWay(h[i], R, q, i)
    BY <1>9, <2>2, <2>3
  <2> QED BY <2>4
<1>12. m \in G
  <2>1. \A k \in 1 .. m : k - 1 \in G => k \in G
    BY <1>11
  <2> HIDE DEF G, m
  <2>2. \A i \in 0 .. m : i \in G
    BY <1>2, <1>10, <2>1, Climb, Zenon
  <2> QED BY <1>2, <2>2
<1> DEFINE y == h[m]
<1>13. y \in Accs(ws) /\ OnTheWay(y, R, q, m)
  BY <1>12
<1> HIDE DEF y, h, G, F
<1>14. y.t \in CacheSet /\ y.t.ws = ws /\ y.tmp \in Nat
  BY <1>13 DEF Accs
<1>15. /\ Skipped(y.t) \in Nat /\ y.t.cur_index \in Nat /\ y.t.offset \in Nat
       /\ CachePos(y.t) = (y.t.cur_index * CbufSize + y.t.offset) + Skipped(y.t)
  BY <1>14, SkippedIs DEF CachePos
<1>16. y.tmp = 0
  <2> SUFFICES ASSUME y.tmp # 0 PROVE FALSE
    OBVIOUS
  <2>1. m <= y.t.cur_index /\ CachePos(y.t) + y.tmp = q
    BY <1>13 DEF OnTheWay
  <2>2. m * CbufSize <= y.t.cur_index * CbufSize /\ m * CbufSize \in Nat /\ y.t.cur_index * CbufSize \in Nat
    BY <1>2, <1>15, <2>1, BufferStarts
  <2>3. CachePos(t) + R <= m * CbufSize
    BY DEF Within
  <2>4. n < R
    OBVIOUS
  <2> HIDE DEF m, R
  <2> QED BY <1>1, <1>14, <1>15, <2>1, <2>2, <2>3, <2>4
<1>17. CachePos(y.t) = q /\ y.t.total_remain = R /\ y.t.offset + Skipped(y.t) <= CbufSize
  <2>1. CachePos(y.t) \in Nat
    BY <1>14, SkippedIs
  <2> QED BY <1>13, <1>16, <2>1 DEF OnTheWay
<1> QED BY <1>8, <1>14, <1>17 DEF y

(* What writev() is given: the stretch of the segment, buffer by buffer.   *)
LEMMA BufferBytes ==
  ASSUME NEW id \in Nat, NEW i \in Nat, NEW o \in Nat, NEW len \in Nat, o + len <= CbufSize
  PROVE  Bytes([seg |-> id, cbuf |-> i], o, len) = Stretch(SegTape(id), i * CbufSize + o, len)
<1> DEFINE b == i * CbufSize
<1>1. b \in Nat /\ CbufSize \in Nat \ {0}
  BY BufferStarts, ReplyAssumption
<1>2. ASSUME NEW k \in 1 .. len
      PROVE  SegTape(id)[((b + o) + k) - 1] = [place |-> [seg |-> id, cbuf |-> i], at |-> o + k - 1]
  <2> DEFINE c == (o + k) - 1
  <2>1. c \in Nat /\ c < CbufSize /\ c = o + k - 1 /\ ((b + o) + k) - 1 = b + c
    BY <1>1
  <2>2. (b + c) \div CbufSize = i /\ (b + c) % CbufSize = c
    <3> HIDE DEF c
    <3> QED BY <1>1, <2>1 DEF b
  <2> HIDE DEF b, c
  <2>3. b + c \in Nat
    BY <1>1, <2>1
  <2>4. SegTape(id)[b + c] = [place |-> [seg |-> id, cbuf |-> i], at |-> c]
    BY <2>2, <2>3 DEF SegTape
  <2> QED BY <2>1, <2>4
<1> HIDE DEF b
<1>3. Bytes([seg |-> id, cbuf |-> i], o, len) = Stretch(SegTape(id), b + o, len)
  BY <1>2 DEF Bytes, Stretch
<1> QED BY <1>3 DEF b

(* How much of what a task is to send lies before buffer i.                *)
Before(t, i) ==
  IF i <= t.cur_index THEN 0 ELSE least(t.total_remain, i * CbufSize - CachePos(t))

LEMMA CacheTaskIs ==
  ASSUME NEW t \in CacheTasks
  PROVE  /\ t \in CacheSet /\ t.kind = "cache" /\ t.ws \in Segs /\ t.ws.id \in Nat
         /\ t.cur_index \in Nat /\ t.offset \in Nat /\ Skipped(t) \in Nat
         /\ t.total_remain \in Nat \ {0} /\ CachePos(t) \in Nat
         /\ CachePos(t) = t.cur_index * CbufSize + (t.offset + Skipped(t))
         /\ t.offset + Skipped(t) <= CbufSize /\ t.cur_index * CbufSize \in Nat
         /\ CachePos(t) + t.total_remain <= Len(t.ws.sizes) * CbufSize
         /\ Len(t.ws.sizes) \in Nat /\ Len(t.ws.sizes) * CbufSize \in Nat
         /\ t.cur_index < Len(t.ws.sizes)
         /\ \A i \in 0 .. (Len(t.ws.sizes) - 1) : t.ws.sizes[i + 1] = CbufSize
<1>1. t \in CacheSet /\ t.total_remain > 0 /\ Within(t)
  BY DEF CacheTasks
<1>2. /\ t.kind = "cache" /\ t.ws \in Segs /\ t.cur_index \in Nat /\ t.offset \in Nat
      /\ Skipped(t) = (IF t.cur_index = 0 THEN 1 ELSE 0) /\ t.total_remain \in Nat /\ CachePos(t) \in Nat
  BY <1>1, SkippedIs
<1>3. t.ws.id \in Nat /\ t.ws.sizes \in Seq({CbufSize}) /\ Len(t.ws.sizes) \in Nat
  BY <1>2 DEF Segs
<1>4. t.cur_index * CbufSize \in Nat /\ Len(t.ws.sizes) * CbufSize \in Nat
  BY <1>2, <1>3, BufferStarts
<1>5. CachePos(t) = t.cur_index * CbufSize + (t.offset + Skipped(t))
  BY <1>2, <1>4 DEF CachePos
<1>6. t.offset + Skipped(t) <= CbufSize /\ CachePos(t) + t.total_remain <= Len(t.ws.sizes) * CbufSize
  BY <1>1 DEF Within
<1>7. t.cur_index < Len(t.ws.sizes)
  <2> DEFINE m == Len(t.ws.sizes)
             c == t.cur_index
  <2> SUFFICES ASSUME m <= c PROVE FALSE
    BY <1>2, <1>3
  <2>1. m * CbufSize <= c * CbufSize
    BY <1>2, <1>3, BufferStarts
  <2>2. /\ Skipped(t) \in Nat /\ t.total_remain > 0
        /\ t.offset \in Nat /\ t.total_remain \in Nat
    BY <1>1, <1>2
  <2> DEFINE a == c * CbufSize
             b == m * CbufSize
             k == t.offset + Skipped(t)
             R == t.total_remain
             p == CachePos(t)
  <2>3. a \in Nat /\ b \in Nat /\ p = a + k /\ p + R <= b /\ b <= a /\ k \in Nat /\ R > 0 /\ R \in Nat
    BY <1>4, <1>5, <1>6, <2>1, <2>2
  <2> HIDE DEF a, b, k, R, p
  <2> QED BY <2>3
<1>8. \A i \in 0 .. (Len(t.ws.sizes) - 1) : t.ws.sizes[i + 1] = CbufSize
  <2> DEFINE z == t.ws.sizes
  <2> SUFFICES ASSUME NEW i \in 0 .. (Len(z) - 1) PROVE z[i + 1] = CbufSize
    OBVIOUS
  <2>1. z \in Seq({CbufSize}) /\ i + 1 \in 1 .. Len(z)
    BY <1>3
  <2> HIDE DEF z
  <2>2. z[i + 1] \in {CbufSize}
    BY <2>1, ElementOfSeq
  <2> QED BY <2>2
<1> QED BY <1>1, <1>2, <1>3, <1>4, <1>5, <1>6, <1>7, <1>8

LEMMA IovecAdds ==
  ASSUME NEW t \in CacheTasks, NEW i \in 0 .. (Len(t.ws.sizes) - 1)
  PROVE  /\ Before(t, i) \in Nat /\ Before(t, i + 1) \in Nat
         /\ LET g == SegTape(t.ws.id) IN
              AddIovec(t, Stretch(g, CachePos(t), Before(t, i)), i) = Stretch(g, CachePos(t), Before(t, i + 1))
<1> DEFINE g == SegTape(t.ws.id)
           p == CachePos(t)
           r == t.total_remain
           c == t.cur_index
           o == t.offset + Skipped(t)
           b == i * CbufSize
           l == Before(t, i)
           acc == Stretch(g, p, l)
           off == IF i = c THEN t.offset + Skipped(t) ELSE 0
           len == least(r - Len(acc), t.ws.sizes[i + 1] - off)
<1>1. /\ t.ws.id \in Nat /\ c \in Nat /\ r \in Nat /\ p \in Nat /\ o \in Nat /\ o <= CbufSize
      /\ p = c * CbufSize + o /\ c * CbufSize \in Nat /\ t.ws.sizes[i + 1] = CbufSize
      /\ Len(t.ws.sizes) \in Nat
  BY CacheTaskIs
<1>2. i \in Nat /\ CbufSize \in Nat \ {0}
  BY <1>1, ReplyAssumption
<1>3. b \in Nat /\ (i + 1) * CbufSize = b + CbufSize
  BY <1>2, BufferStarts
<1>4. g \in Tapes
  BY <1>1, SegTapeType
<1>5. i >= c => b >= c * CbufSize
  BY <1>1, <1>2, BufferStarts
<1>6. i > c => b >= c * CbufSize + CbufSize
  <2> SUFFICES ASSUME i > c PROVE b >= c * CbufSize + CbufSize
    OBVIOUS
  <2>1. c + 1 \in Nat /\ c + 1 <= i
    BY <1>1, <1>2, SMTT(30)
  <2>2. (c + 1) * CbufSize <= i * CbufSize
    BY <1>2, <2>1, BufferStarts
  <2>3. (c + 1) * CbufSize = c * CbufSize + CbufSize
    BY <1>1, BufferStarts
  <2> QED BY <2>2, <2>3
<1>7. l = (IF i <= c THEN 0 ELSE least(r, b - p))
      /\ Before(t, i + 1) = IF i + 1 <= c THEN 0 ELSE least(r, (b + CbufSize) - p)
  BY <1>3, Zenon DEF Before
<1>8. c * CbufSize \in Nat
  BY <1>1
<1>10. AddIovec(t, acc, i) = IF i < c THEN acc ELSE acc \o Bytes([seg |-> t.ws.id, cbuf |-> i], off, len)
  BY Zenon DEF AddIovec
<1>11. off = IF i = c THEN o ELSE 0
  OBVIOUS
<1> DEFINE d == c * CbufSize
<1>12. p = d + o /\ d \in Nat /\ (i >= c => b >= d) /\ (i > c => b >= d + CbufSize)
  BY <1>1, <1>5, <1>6
<1> HIDE DEF b, d, p, r, c, o, off, l, g
<1>13. l \in Nat /\ l <= r /\ Before(t, i + 1) \in Nat
  BY <1>1, <1>2, <1>3, <1>7, <1>12 DEF least
<1>14. acc \in Seq(Octets) /\ Len(acc) = l
  BY <1>1, <1>4, <1>13, StretchType
<1>15. len = least(r - l, CbufSize - off)
  BY <1>1, <1>14
<1> HIDE DEF len, acc
<1>16. CASE i < c
  <2>1. l = 0 /\ Before(t, i + 1) = 0 /\ AddIovec(t, acc, i) = acc
    BY <1>1, <1>2, <1>7, <1>10, <1>16
  <2> QED BY <1>13, <2>1 DEF acc, g, p, l
<1>17. CASE ~(i < c)
  <2>1. off \in Nat /\ len \in Nat /\ off + len <= CbufSize /\ Before(t, i + 1) = l + len
    BY <1>1, <1>2, <1>3, <1>7, <1>11, <1>12, <1>13, <1>15, <1>17 DEF least
  <2>2. len # 0 => b + off = p + l
    BY <1>1, <1>2, <1>3, <1>7, <1>11, <1>12, <1>13, <1>15, <1>17 DEF least
  <2>3. Bytes([seg |-> t.ws.id, cbuf |-> i], off, len) = Stretch(g, b + off, len)
    BY <1>1, <1>2, <2>1, BufferBytes DEF g, b
  <2>4. Stretch(g, b + off, len) = Stretch(g, p + l, len)
    <3>1. CASE len = 0
      BY <3>1 DEF Stretch
    <3>2. CASE len # 0
      BY <2>2, <3>2
    <3> QED BY <3>1, <3>2
  <2>5. Stretch(g, p, l) \o Stretch(g, p + l, (l + len) - l) = Stretch(g, p, l + len)
    <3>1. l + len \in Nat /\ l \in 0 .. (l + len)
      BY <1>13, <2>1
    <3> DEFINE w == l + len
    <3>2. w \in Nat /\ l \in 0 .. w
      BY <3>1
    <3> HIDE DEF w
    <3>3. Stretch(g, p, l) \o Stretch(g, p + l, w - l) = Stretch(g, p, w)
      <4>1. g \in Tapes /\ p \in Nat
        BY <1>1, <1>4
      <4> QED BY <3>2, <4>1, StretchCut, Zenon
    <3> QED BY <3>3 DEF w
  <2>6. (l + len) - l = len
    BY <1>13, <2>1
  <2>7. AddIovec(t, acc, i) = Stretch(g, p, Before(t, i + 1))
    BY <1>10, <1>17, <2>1, <2>3, <2>4, <2>5, <2>6 DEF acc
  <2> QED BY <1>13, <2>7 DEF acc, g, p, l
<1> QED BY <1>16, <1>17

LEMMA CacheBytesAre ==
  ASSUME NEW t \in CacheTasks
  PROVE  /\ Due(t) = Stretch(SegTape(t.ws.id), CachePos(t), t.total_remain)
         /\ Due(t) \in Seq(Octets) /\ Len(Due(t)) = t.total_remain
         /\ CacheBytes(t) = Due(t)
<1> DEFINE g == SegTape(t.ws.id)
           p == CachePos(t)
           m == Len(t.ws.sizes)
           f == [i \in 0 .. m |-> Stretch(g, p, Before(t, i))]
           Runs(e) == e = [i \in 0 .. m |-> IF i = 0 THEN << >> ELSE AddIovec(t, e[i - 1], i - 1)]
           h == CHOOSE e : Runs(e)
<1>1. /\ t.kind = "cache" /\ t.ws.id \in Nat /\ p \in Nat /\ t.total_remain \in Nat /\ m \in Nat
      /\ t.cur_index \in Nat /\ t.cur_index < m /\ p + t.total_remain <= m * CbufSize
      /\ m * CbufSize \in Nat
  BY CacheTaskIs
<1>2. Due(t) = Stretch(g, p, t.total_remain)
  BY <1>1 DEF Due
<1>3. Due(t) \in Seq(Octets) /\ Len(Due(t)) = t.total_remain
  <2>1. g \in Tapes
    BY <1>1, SegTapeType
  <2> DEFINE R == t.total_remain
  <2>2. p \in Nat /\ R \in Nat
    BY <1>1
  <2> HIDE DEF g, p, R
  <2>3. Stretch(g, p, R) \in Seq(Octets) /\ Len(Stretch(g, p, R)) = R
    BY <2>1, <2>2, StretchType
  <2> QED BY <1>2, <2>3 DEF R
<1>4. \A i \in 1 .. m : AddIovec(t, f[i - 1], i - 1) = f[i]
  <2> SUFFICES ASSUME NEW i \in 1 .. m PROVE AddIovec(t, f[i - 1], i - 1) = f[i]
    OBVIOUS
  <2> DEFINE j == i - 1
  <2>1. j \in 0 .. (m - 1) /\ j \in 0 .. m /\ i \in 0 .. m /\ j + 1 = i
    BY <1>1
  <2> HIDE DEF j, m
  <2>2. AddIovec(t, Stretch(g, p, Before(t, j)), j) = Stretch(g, p, Before(t, j + 1))
    <3>1. j \in 0 .. (Len(t.ws.sizes) - 1)
      BY <2>1 DEF m
    <3> QED BY <3>1, IovecAdds
  <2>3. f[j] = Stretch(g, p, Before(t, j)) /\ f[i] = Stretch(g, p, Before(t, i))
    <3> HIDE DEF g, p
    <3> QED BY <2>1
  <2>4. AddIovec(t, f[j], j) = f[i]
    BY <2>1, <2>2, <2>3, Zenon
  <2> QED BY <2>4 DEF j
<1>5. f[0] = << >> /\ f[m] = Due(t)
  <2>1. Before(t, 0) = 0
    BY <1>1 DEF Before
  <2>2. Before(t, m) = t.total_remain
    BY <1>1 DEF Before, least
  <2>3. f[0] = Stretch(g, p, 0) /\ f[m] = Stretch(g, p, t.total_remain)
    <3>1. 0 \in 0 .. m /\ m \in 0 .. m
      BY <1>1
    <3> HIDE DEF g, p, m
    <3>2. f[0] = Stretch(g, p, Before(t, 0)) /\ f[m] = Stretch(g, p, Before(t, m))
      BY <3>1, Zenon
    <3> QED BY <2>1, <2>2, <3>2 DEF m
  <2>4. Stretch(g, p, 0) = << >>
    BY DEF Stretch
  <2> HIDE DEF f, g, p
  <2> QED BY <1>2, <2>3, <2>4
<1>6. Runs(f)
  <2>1. f = [i \in 0 .. m |-> f[i]]
    OBVIOUS
  <2> HIDE DEF f, m
  <2>2. \A i \in 0 .. m : f[i] = IF i = 0 THEN << >> ELSE AddIovec(t, f[i - 1], i - 1)
    <3>1. \A i \in 0 .. m : i = 0 \/ i \in 1 .. m
      BY <1>1
    <3> QED BY <1>4, <1>5, <3>1
  <2> QED BY <2>1, <2>2, Zenon
<1>7. Runs(h)
  BY <1>6, Zenon
<1>8. CacheBytes(t) = h[m]
  BY Zenon DEF CacheBytes
<1>9. h[0] = << >> /\ \A i \in 1 .. m : h[i] = AddIovec(t, h[i - 1], i - 1)
  <2> HIDE DEF h, m
  <2> QED BY <1>1, <1>7
<1> DEFINE G == {i \in 0 .. m : h[i] = f[i]}
<1>10. 0 \in G
  <2> HIDE DEF h, f, m
  <2> QED BY <1>1, <1>5, <1>9
<1>11. ASSUME NEW i \in 1 .. m, i - 1 \in G PROVE i \in G
  <2> HIDE DEF h, f
  <2>1. h[i - 1] = f[i - 1]
    BY <1>11
  <2>2. h[i] = f[i]
    BY <1>4, <1>9, <2>1
  <2>3. i \in 0 .. m
    BY <1>1
  <2> QED BY <2>2, <2>3
<1>12. h[m] = f[m]
  <2>1. \A k \in 1 .. m : k - 1 \in G => k \in G
    BY <1>11
  <2> HIDE DEF G, m
  <2>2. \A i \in 0 .. m : i \in G
    BY <1>1, <1>10, <2>1, Climb, Zenon
  <2>3. m \in G
    BY <1>1, <2>2
  <2> QED BY <2>3 DEF G
<1> HIDE DEF h, f
<1> QED BY <1>2, <1>3, <1>5, <1>8, <1>12

LEMMA CacheGoes ==
  ASSUME NEW t \in CacheTasks
  PROVE  /\ Due(t) \in Seq(Octets) /\ Len(Due(t)) # 0
         /\ CacheBytes(t) = Due(t) /\ t.total_remain = Len(Due(t))
         /\ \A n \in 1 .. (Len(Due(t)) - 1) : GoesOn(t, CacheRest(t, n), n)
<1> DEFINE R == t.total_remain
           p == CachePos(t)
           g == SegTape(t.ws.id)
<1>1. /\ Due(t) = Stretch(g, p, R) /\ Due(t) \in Seq(Octets) /\ Len(Due(t)) = R
      /\ CacheBytes(t) = Due(t)
  BY CacheBytesAre
<1>2. t \in CacheSet /\ R \in Nat \ {0} /\ p \in Nat /\ g \in Tapes
  BY CacheTaskIs, SegTapeType
<1>3. ASSUME NEW n \in 1 .. (R - 1) PROVE GoesOn(t, CacheRest(t, n), n)
  <2> DEFINE u == CacheStepForward(t, n)
             w == CacheRest(t, n)
  <2>1. n \in Nat /\ n < R /\ Within(t)
    BY <1>2 DEF CacheTasks
  <2>2. /\ u \in CacheSet /\ u.ws = t.ws /\ u.total_remain = R
        /\ u.offset + Skipped(u) <= CbufSize /\ CachePos(u) = p + n
    BY <1>2, <2>1, CacheSteps
  <2>3. w = [u EXCEPT !.total_remain = R - n]
    BY DEF CacheRest
  <2>4. R - n \in Nat \ {0}
    BY <1>2, <2>1
  <2> HIDE DEF u, w
  <2>5. /\ w.kind = "cache" /\ w.ws = t.ws /\ w.total_remain = R - n /\ w.cur_index = u.cur_index
        /\ w.offset = u.offset /\ w \in CacheSet
    <3> HIDE DEF R
    <3> QED BY <2>2, <2>3, <2>4 DEF CacheSet
  <2>6. Skipped(w) = Skipped(u)
    BY <2>2, <2>5 DEF Skipped
  <2>7. CachePos(w) = p + n
    BY <2>2, <2>5, <2>6 DEF CachePos
  <2>8. (p + n) + (R - n) = p + R /\ p + R <= Len(t.ws.sizes) * CbufSize
    BY <1>2, <2>1, CacheTaskIs
  <2>9. w \in CacheTasks
    <3>1. w.offset + Skipped(w) <= CbufSize
      BY <2>2, <2>5, <2>6
    <3>2. CachePos(w) + w.total_remain <= Len(w.ws.sizes) * CbufSize
      BY <2>5, <2>7, <2>8
    <3>3. w.total_remain > 0
      BY <2>4, <2>5
    <3> QED BY <2>5, <3>1, <3>2, <3>3 DEF CacheTasks, Within
  <2>10. Due(w) = Stretch(g, p + n, R - n)
    BY <2>5, <2>7 DEF Due
  <2>11. n \in 0 .. R /\ R \in Nat
    BY <1>2
  <2> HIDE DEF R, p, g
  <2>12. SubSeq(Stretch(g, p, R), 1, n) = Stretch(g, p, n)
         /\ Stretch(g, p, n) \o Stretch(g, p + n, R - n) = Stretch(g, p, R)
    BY <1>2, <2>11, StretchCut
  <2> QED BY <1>1, <2>9, <2>10, <2>12 DEF GoesOn, DataTasks, w
<1>4. Len(Due(t)) # 0
  BY <1>1, <1>2
<1> QED BY <1>1, <1>3, <1>4

-----------------------------------------------------------------------------
(* The physical volumes, one after another.                                *)
LEMMA GroundsSteps ==
  /\ Grounds(1) = 0 /\ Grounds(Len(Parts) + 1) = Size
  /\ \A i \in 1 .. Len(Parts) :
       Grounds(i) \in Int => Grounds(i + 1) = Grounds(i) + Parts[i].count
<1> DEFINE N == Len(Parts)
           s(i) == [k \in 1 .. (i - 1) |-> Parts[k].count]
<1>1. N \in Nat /\ DOMAIN Parts = 1 .. N /\ \A i \in 1 .. N : Parts[i].count \in Nat \ {0}
  BY PartsAssumption
<1>2. \A i : Grounds(i) = Sum(s(i))
  BY Zenon DEF Grounds, Total, Sum
<1>3. \A i \in 1 .. (N + 1) : s(i) \in Seq(Int)
  <2> SUFFICES ASSUME NEW i \in 1 .. (N + 1) PROVE s(i) \in Seq(Int)
    OBVIOUS
  <2> DEFINE m == i - 1
  <2>1. m \in Nat /\ \A k \in 1 .. m : Parts[k].count \in Int
    BY <1>1
  <2> DEFINE f == [k \in 1 .. m |-> Parts[k].count]
  <2>2. f \in [1 .. m -> Int]
    BY <2>1
  <2> HIDE DEF m, f
  <2>3. f \in Seq(Int)
    BY <2>1, <2>2
  <2> QED BY <2>3 DEF f, m
<1>4. Grounds(1) = 0
  <2>1. s(1) = << >>
    OBVIOUS
  <2> HIDE DEF s
  <2> QED BY <1>2, <2>1, SumEmpty
<1>5. ASSUME NEW i \in 1 .. N, Grounds(i) \in Int PROVE Grounds(i + 1) = Grounds(i) + Parts[i].count
  <2> DEFINE x == Parts[i].count
             m == i - 1
  <2>1. x \in Int /\ m \in Nat /\ (i + 1) - 1 = m + 1 /\ i \in 1 .. (N + 1) /\ i = m + 1
    BY <1>1
  <2>2. s(i + 1) = Append(s(i), x)
    <3> DEFINE a == [k \in 1 .. m |-> Parts[k].count]
               b == [k \in 1 .. (m + 1) |-> Parts[k].count]
    <3>1. a \in Seq(Int)
      BY <1>3, <2>1
    <3>2. Len(a) = m
      BY <2>1
    <3>3. b[m + 1] = x
      BY <2>1
    <3>4. \A k \in 1 .. m : a[k] = b[k]
      BY <2>1
    <3> HIDE DEF x
    <3> DEFINE c == Append(a, x)
    <3>5. c \in Seq(Int) /\ Len(c) = m + 1 /\ c[m + 1] = x /\ \A k \in 1 .. m : c[k] = a[k]
      <4> HIDE DEF a, m
      <4> QED BY <2>1, <3>1, <3>2
    <3>6. b \in Seq(Int) /\ Len(b) = m + 1
      <4>1. i + 1 \in 1 .. (N + 1)
        BY <1>1
      <4>2. b = s(i + 1)
        BY <2>1
      <4> HIDE DEF s, b
      <4>3. b \in Seq(Int)
        BY <1>3, <4>1, <4>2
      <4>4. Len(b) = m + 1
        BY <2>1 DEF b
      <4> QED BY <4>3, <4>4
    <3>7. \A k \in 1 .. (m + 1) : c[k] = b[k]
      <4> HIDE DEF a, b, c, m
      <4>1. \A k \in 1 .. (m + 1) : k = m + 1 \/ k \in 1 .. m
        BY <2>1
      <4> QED BY <3>3, <3>4, <3>5, <4>1
    <3>8. b = Append(a, x)
      <4> HIDE DEF a, b, c, m
      <4> QED BY <2>1, <3>5, <3>6, <3>7, SeqEqual DEF c
    <3> QED BY <2>1, <3>8 DEF a, b
  <2> HIDE DEF s, x
  <2>3. Sum(Append(s(i), x)) = Sum(s(i)) + x
    BY <1>3, <2>1, SumAppend
  <2> QED BY <1>2, <2>2, <2>3 DEF x
<1>6. Grounds(N + 1) = Size
  <2> DEFINE c == [i \in DOMAIN Parts |-> Parts[i].count]
  <2>1. Size = Sum(c)
    BY ReplyAssumption, Zenon DEF getTotalSize, Total, Sum
  <2>2. (N + 1) - 1 = N
    BY <1>1
  <2>3. s(N + 1) = c
    BY <1>1, <2>2
  <2> HIDE DEF s, c
  <2> QED BY <1>2, <2>1, <2>3
<1> QED BY <1>4, <1>5, <1>6

(* The same in bytes.                                                      *)
At(i) == Grounds(i) * Unit

LEMMA AtSteps ==
  /\ At(1) = 0 /\ At(Len(Parts) + 1) = Size * Unit /\ Size * Unit \in Nat /\ Size \in Nat \ {0}
  /\ \A i \in 1 .. (Len(Parts) + 1) : Grounds(i) \in Nat /\ At(i) \in Nat
  /\ \A i \in 1 .. Len(Parts) :
       /\ Grounds(i + 1) = Grounds(i) + Parts[i].count /\ Parts[i].count \in Nat \ {0}
       /\ At(i + 1) = At(i) + Sector(Parts[i]) /\ Sector(Parts[i]) \in Nat \ {0}
<1> DEFINE N == Len(Parts)
           G == {k \in 0 .. N : Grounds(k + 1) \in Nat}
<1>1. N \in Nat /\ \A i \in 1 .. N : Parts[i].count \in Nat \ {0}
  BY PartsAssumption
<1>2. 0 \in G
  <2>1. 0 + 1 = 1
    OBVIOUS
  <2> QED BY <1>1, <2>1, GroundsSteps
<1>3. \A i \in 1 .. N : i - 1 \in G => i \in G
  <2> SUFFICES ASSUME NEW i \in 1 .. N, i - 1 \in G PROVE i \in G
    BY Zenon
  <2>1. (i - 1) + 1 = i
    OBVIOUS
  <2>2. Grounds(i) \in Nat
    BY <2>1
  <2>3. Grounds(i + 1) = Grounds(i) + Parts[i].count
    BY <2>2, GroundsSteps
  <2> QED BY <1>1, <2>2, <2>3
<1>4. \A i \in 0 .. N : i \in G
  <2> HIDE DEF G, N
  <2> QED BY <1>1, <1>2, <1>3, Climb, Zenon
<1>5. \A i \in 1 .. (N + 1) : Grounds(i) \in Nat
  <2> SUFFICES ASSUME NEW i \in 1 .. (N + 1) PROVE Grounds(i) \in Nat
    OBVIOUS
  <2> DEFINE j == i - 1
  <2>1. j \in 0 .. N /\ j + 1 = i
    BY <1>1
  <2> HIDE DEF j, N
  <2>2. Grounds(j + 1) \in Nat
    BY <1>4, <2>1
  <2> QED BY <2>1, <2>2
<1>6. Unit \in Nat \ {0} /\ Size \in Nat \ {0}
  BY UnitAssumption, SizeAssumption
<1>7. \A i \in 1 .. (N + 1) : At(i) \in Nat
  BY <1>5, <1>6 DEF At
<1>8. ASSUME NEW i \in 1 .. N
      PROVE  /\ Grounds(i + 1) = Grounds(i) + Parts[i].count /\ Parts[i].count \in Nat \ {0}
             /\ At(i + 1) = At(i) + Sector(Parts[i]) /\ Sector(Parts[i]) \in Nat \ {0}
  <2> DEFINE g == Grounds(i)
             c == Parts[i].count
  <2>1. i \in 1 .. (N + 1)
    BY <1>1
  <2>2. g \in Nat /\ c \in Nat \ {0} /\ Grounds(i + 1) = g + c
    BY <1>1, <1>5, <2>1, GroundsSteps
  <2> HIDE DEF g, c
  <2>3. (g + c) * Unit = g * Unit + c * Unit /\ c * Unit \in Nat \ {0}
    BY <1>6, <2>2
  <2>4. At(i + 1) = (g + c) * Unit /\ At(i) = g * Unit /\ Sector(Parts[i]) = c * Unit
    BY <2>2 DEF At, Sector, LBA2OFFSET, g, c
  <2> QED BY <2>2, <2>3, <2>4 DEF g, c
<1>9. At(1) = 0 /\ At(N + 1) = Size * Unit /\ Size * Unit \in Nat
  BY <1>6, GroundsSteps DEF At
<1> QED BY <1>5, <1>6, <1>7, <1>8, <1>9

LEMMA AtClimbs ==
  ASSUME NEW i \in 1 .. (Len(Parts) + 1), NEW j \in 1 .. (Len(Parts) + 1), i <= j
  PROVE  At(i) <= At(j) /\ Grounds(i) <= Grounds(j)
<1> DEFINE N == Len(Parts)
           n == j - i
           G == {k \in 0 .. n : At(i) <= At(i + k) /\ Grounds(i) <= Grounds(i + k)}
<1>1. N \in Nat /\ n \in Nat /\ i + n = j /\ i \in Nat
  BY PartsAssumption
<1>2. 0 \in G
  <2>1. i + 0 = i /\ At(i) \in Nat /\ Grounds(i) \in Nat
    BY <1>1, AtSteps
  <2> HIDE DEF n
  <2> QED BY <1>1, <2>1
<1>3. \A k \in 1 .. n : k - 1 \in G => k \in G
  <2> SUFFICES ASSUME NEW k \in 1 .. n, k - 1 \in G PROVE k \in G
    BY Zenon
  <2> DEFINE h == i + (k - 1)
  <2>1. h \in 1 .. N /\ h + 1 = i + k /\ h + 1 \in 1 .. (N + 1) /\ h \in 1 .. (N + 1) /\ k \in 0 .. n
    BY <1>1
  <2>2. At(i) <= At(h) /\ Grounds(i) <= Grounds(h)
    OBVIOUS
  <2> HIDE DEF h, n, N
  <2>3. /\ At(h + 1) = At(h) + Sector(Parts[h]) /\ Sector(Parts[h]) \in Nat
        /\ Grounds(h + 1) = Grounds(h) + Parts[h].count /\ Parts[h].count \in Nat
        /\ At(h) \in Nat /\ Grounds(h) \in Nat /\ At(i) \in Nat /\ Grounds(i) \in Nat
    BY <2>1, AtSteps DEF N
  <2>4. At(i) <= At(h + 1) /\ Grounds(i) <= Grounds(h + 1)
    BY <2>2, <2>3, SMTT(30)
  <2> QED BY <2>1, <2>4
<1>4. \A k \in 0 .. n : k \in G
  <2> HIDE DEF G, n
  <2> QED BY <1>1, <1>2, <1>3, Climb, Zenon
<1>5. n \in G
  <2>1. n \in 0 .. n
    BY <1>1
  <2> HIDE DEF G, n
  <2> QED BY <1>4, <2>1
<1> HIDE DEF n
<1> QED BY <1>1, <1>5

(* Every byte of the volume is in one physical volume.                     *)
LEMMA PartOf ==
  ASSUME NEW a \in Nat, a < Size * Unit
  PROVE  \E i \in 1 .. Len(Parts) : At(i) <= a /\ a < At(i + 1)
<1> DEFINE N == Len(Parts)
           G == {k \in 0 .. N : At(k + 1) <= a}
<1> SUFFICES ASSUME \A i \in 1 .. N : At(i) <= a => ~(a < At(i + 1)) PROVE FALSE
  OBVIOUS
<1>1. N \in Nat
  BY PartsAssumption
<1>2. 0 \in G
  <2>1. At(0 + 1) = 0
    BY AtSteps
  <2> QED BY <1>1, <2>1
<1>3. \A i \in 1 .. N : i - 1 \in G => i \in G
  <2> SUFFICES ASSUME NEW i \in 1 .. N, i - 1 \in G PROVE i \in G
    BY Zenon
  <2>1. (i - 1) + 1 = i /\ i + 1 \in 1 .. (N + 1) /\ i \in 0 .. N
    BY <1>1
  <2>2. At(i) <= a
    BY <2>1
  <2>3. At(i + 1) \in Nat
    BY <2>1, AtSteps
  <2>4. At(i + 1) <= a
    BY <2>2, <2>3
  <2> QED BY <2>1, <2>4
<1>4. \A i \in 0 .. N : i \in G
  <2> HIDE DEF G, N
  <2> QED BY <1>1, <1>2, <1>3, Climb, Zenon
<1>5. N \in 0 .. N
  BY <1>1
<1>6. At(N + 1) <= a
  BY <1>4, <1>5
<1> HIDE DEF N
<1> QED BY <1>6, AtSteps DEF N

LEMMA VolByteIs ==
  ASSUME NEW a \in Nat, NEW i \in 1 .. Len(Parts), At(i) <= a, a < At(i + 1)
  PROVE  /\ a < Size * Unit
         /\ VolByte(a) = [place |-> [path |-> Parts[i].path], at |-> a - At(i)]
         /\ \A k \in 1 .. Len(Parts) : At(k) <= a /\ a < At(k + 1) => k = i
<1> DEFINE N == Len(Parts)
           P(k) == At(k) <= a /\ a < At(k + 1)
<1>1. N \in Nat
  BY PartsAssumption
<1>2. ASSUME NEW k \in 1 .. N, P(k) PROVE k = i
  <2>1. k + 1 \in 1 .. (N + 1) /\ i + 1 \in 1 .. (N + 1) /\ k \in 1 .. (N + 1) /\ i \in 1 .. (N + 1)
    BY <1>1
  <2>2. At(k) \in Nat /\ At(i) \in Nat /\ At(k + 1) \in Nat /\ At(i + 1) \in Nat
    BY <2>1, AtSteps
  <2>3. CASE k < i
    <3>1. k + 1 <= i
      BY <2>3
    <3>2. At(k + 1) <= At(i)
      BY <2>1, <3>1, AtClimbs
    <3> QED BY <1>2, <2>2, <3>2
  <2>4. CASE i < k
    <3>1. i + 1 <= k
      BY <2>4
    <3>2. At(i + 1) <= At(k)
      BY <2>1, <3>1, AtClimbs
    <3> QED BY <1>2, <2>2, <3>2
  <2> QED BY <2>3, <2>4
<1>3. a < Size * Unit
  <2>1. i + 1 \in 1 .. (N + 1) /\ N + 1 \in 1 .. (N + 1) /\ i + 1 <= N + 1
    BY <1>1
  <2>2. At(i + 1) <= At(N + 1) /\ At(i + 1) \in Nat
    BY <2>1, AtClimbs, AtSteps
  <2>3. At(N + 1) = Size * Unit /\ Size * Unit \in Nat
    BY AtSteps
  <2> QED BY <2>2, <2>3
<1> DEFINE j == CHOOSE k \in 1 .. N : Grounds(k) * Unit <= a /\ a < Grounds(k + 1) * Unit
<1>4. j = i
  <2> DEFINE k0 == CHOOSE k \in 1 .. N : P(k)
  <2>1. j = k0
    BY Zenon DEF At
  <2>2. k0 \in 1 .. N /\ P(k0)
    OBVIOUS
  <2> HIDE DEF k0, P, j, N
  <2> QED BY <1>2, <2>1, <2>2
<1>5. VolByte(a) = IF a < Size * Unit
                   THEN [place |-> [path |-> Parts[j].path], at |-> a - At(j)]
                   ELSE [place |-> [path |-> ""], at |-> 0]
  BY Zenon DEF VolByte, At
<1> HIDE DEF j, P
<1>6. VolByte(a) = [place |-> [path |-> Parts[i].path], at |-> a - At(i)]
  BY <1>3, <1>4, <1>5
<1> QED BY <1>2, <1>3, <1>6 DEF P

LEMMA VolTapeType == VolTape \in Tapes
<1>1. ASSUME NEW a \in Nat PROVE VolByte(a) \in Octets
  <2>1. CASE a < Size * Unit
    <3>1. PICK i \in 1 .. Len(Parts) : At(i) <= a /\ a < At(i + 1)
      BY <2>1, PartOf
    <3>2. VolByte(a) = [place |-> [path |-> Parts[i].path], at |-> a - At(i)]
      BY <3>1, VolByteIs
    <3>3. i \in 1 .. (Len(Parts) + 1)
      BY PartsAssumption
    <3>4. a - At(i) \in Nat
      <4>1. At(i) \in Nat
        BY <3>3, AtSteps
      <4> QED BY <3>1, <4>1
    <3>5. [path |-> Parts[i].path] \in Places
      BY DEF Places
    <3> QED BY <3>2, <3>4, <3>5 DEF Octets
  <2>2. CASE ~(a < Size * Unit)
    <3>1. VolByte(a) = [place |-> [path |-> ""], at |-> 0]
      BY <2>2 DEF VolByte
    <3>2. [path |-> ""] \in Places
      BY DEF Places
    <3> DEFINE z == [path |-> ""]
    <3>3. VolByte(a) = [place |-> z, at |-> 0] /\ z \in Places
      BY <3>1, <3>2, Zenon
    <3> HIDE DEF z
    <3> QED BY <3>3 DEF Octets
  <2> QED BY <2>1, <2>2
<1> QED BY <1>1 DEF VolTape, Tapes

Handles == [path : {Parts[i].path : i \in 1 .. Len(Parts)}, offset : Int, length : Nat]
Founds == [ret : Seq(Handles), remain : Nat, cur : Int]

LEMMA CoverIs ==
  ASSUME NEW acc \in Founds, NEW i \in 1 .. Len(Parts)
  PROVE  LET p == Parts[i]
             n == least(acc.remain, Sector(p) - acc.cur)
             c == Cover(acc, p)
         IN /\ c \in Founds
            /\ acc.remain = 0 => c = acc
            /\ acc.remain > 0 /\ acc.cur >= Sector(p) =>
                 c = [ret |-> acc.ret, remain |-> acc.remain, cur |-> acc.cur - Sector(p)]
            /\ acc.remain > 0 /\ acc.cur < Sector(p) =>
                 c = [ret |-> Append(acc.ret, LowHandle(p, acc.cur, n)), remain |-> acc.remain - n, cur |-> 0]
            /\ c.ret = acc.ret \/ \E x \in Handles : c.ret = Append(acc.ret, x)
<1> DEFINE p == Parts[i]
           s == Sector(p)
           r == acc.remain
           q == acc.cur
           n == least(r, s - q)
           d == getCoverage(p, q, r)
           c == Cover(acc, p)
           x == LowHandle(p, q, d)
<1>1. s \in Nat \ {0}
  BY AtSteps
<1>2. r \in Nat /\ q \in Int /\ acc.ret \in Seq(Handles) /\ acc = [ret |-> acc.ret, remain |-> r, cur |-> q]
  BY DEF Founds
<1>3. d = IF q > s THEN 0 ELSE IF q + r < s THEN r ELSE s - q
  BY DEF getCoverage
<1>4. x \in Handles <=> d \in Nat
  <2>1. p.start \in Nat /\ p.path \in {Parts[k].path : k \in 1 .. Len(Parts)}
    BY PartsAssumption
  <2>2. p.start + q \in Int
    BY <1>2, <2>1
  <2> HIDE DEF d, q, p
  <2> QED BY <2>1, <2>2 DEF LowHandle, Handles
<1>5. c = CASE r = 0 -> acc
            [] r > 0 /\ d > 0 -> [ret |-> Append(acc.ret, x), remain |-> r - d, cur |-> 0]
            [] OTHER -> [acc EXCEPT !.cur = @ - s]
  BY Zenon DEF Cover
<1>6. [acc EXCEPT !.cur = @ - s] = [ret |-> acc.ret, remain |-> r, cur |-> q - s]
  BY <1>2
<1> HIDE DEF s, r, q, d, c, x
<1>7. CASE r = 0
  <2>1. c = acc
    BY <1>5, <1>7
  <2> QED BY <1>7, <2>1 DEF c, r
<1>8. CASE r > 0 /\ q >= s
  <2>1. ~(d > 0) /\ ~(r = 0)
    BY <1>1, <1>2, <1>3, <1>8
  <2>2. c = [ret |-> acc.ret, remain |-> r, cur |-> q - s]
    BY <1>5, <1>6, <2>1
  <2>3. q - s \in Int /\ ~(q < s)
    BY <1>1, <1>2, <1>8
  <2>4. c \in Founds /\ c.ret = acc.ret
    BY <1>2, <2>2, <2>3 DEF Founds
  <2> QED BY <1>8, <2>1, <2>2, <2>3, <2>4 DEF c, r, q, s
<1>9. CASE r > 0 /\ q < s
  <2>1. d = n /\ d \in Nat /\ d > 0 /\ r - d \in Nat /\ ~(r = 0) /\ ~(q >= s)
    BY <1>1, <1>2, <1>3, <1>9 DEF least
  <2>2. c = [ret |-> Append(acc.ret, x), remain |-> r - d, cur |-> 0]
    BY <1>5, <1>9, <2>1
  <2>3. x \in Handles
    BY <1>4, <2>1
  <2>4. Append(acc.ret, x) \in Seq(Handles)
    BY <1>2, <2>3
  <2>5. c \in Founds /\ c.ret = Append(acc.ret, x)
    BY <2>1, <2>2, <2>4 DEF Founds
  <2> QED BY <1>9, <2>1, <2>2, <2>3, <2>5 DEF c, r, q, s, x
<1> QED BY <1>1, <1>2, <1>7, <1>8, <1>9

(* getLowHandles() begins in the physical volume that the offset is in,    *)
(* and returns one range only if that holds all the bytes.                 *)
LEMMA LowHandlesAre ==
  ASSUME NEW q \in Nat, NEW r \in Nat \ {0}, q + r <= Size * Unit,
         NEW i \in 1 .. Len(Parts), At(i) <= q, q < At(i + 1)
  PROVE  LET ls == getLowHandles(q, r)
             n == least(r, At(i + 1) - q)
         IN /\ ls # << >> /\ Head(ls) = LowHandle(Parts[i], q - At(i), n)
            /\ Len(ls) <= 1 <=> n = r
<1> DEFINE N == Len(Parts)
           n == least(r, At(i + 1) - q)
           lh == LowHandle(Parts[i], q - At(i), n)
           a == [ret |-> << >>, remain |-> r, cur |-> q]
           F == [z \in Founds \X (1 .. N) |-> Cover(z[1], Parts[z[2]])]
           Runs(f) == f = [k \in 0 .. N |-> IF k = 0 THEN a ELSE Cover(f[k - 1], Parts[k])]
           h == CHOOSE f : Runs(f)
<1>1. N \in Nat /\ i \in 1 .. (N + 1) /\ i + 1 \in 1 .. (N + 1) /\ N + 1 \in 1 .. (N + 1)
  BY PartsAssumption
<1>2. At(i) \in Nat /\ At(i + 1) \in Nat /\ At(i + 1) = At(i) + Sector(Parts[i]) /\ Sector(Parts[i]) \in Nat
      /\ At(N + 1) = Size * Unit /\ At(N + 1) \in Nat /\ At(1) = 0
  BY <1>1, AtSteps
<1>3. a \in Founds
  <2>1. << >> \in Seq(Handles)
    OBVIOUS
  <2> QED BY <2>1 DEF Founds
<1>4. F \in [Founds \X (1 .. N) -> Founds]
  <2>1. ASSUME NEW z \in Founds \X (1 .. N) PROVE Cover(z[1], Parts[z[2]]) \in Founds
    <3> DEFINE x == z[1]
               k == z[2]
    <3>1. x \in Founds /\ k \in 1 .. Len(Parts)
      OBVIOUS
    <3> HIDE DEF x, k
    <3>2. Cover(x, Parts[k]) \in Founds
      BY <3>1, CoverIs
    <3> QED BY <3>2 DEF x, k
  <2> QED BY <2>1
<1>5. PICK f : Turns(Founds, N, a, F, f)
  <2> HIDE DEF F, a, N
  <2> QED BY <1>1, <1>3, <1>4, Loop, Zenon
<1>6. Runs(f)
  <2>1. ASSUME NEW k \in 1 .. N PROVE f[k] = Cover(f[k - 1], Parts[k])
    <3>1. f[k - 1] \in Founds
      BY <1>1, <1>5 DEF Turns
    <3>2. f[k] = F[<<f[k - 1], k>>]
      BY <1>5 DEF Turns
    <3> HIDE DEF a
    <3> QED BY <3>1, <3>2
  <2>2. f = [k \in 0 .. N |-> f[k]] /\ f[0] = a
    BY <1>5 DEF Turns
  <2>3. \A k \in 0 .. N : f[k] = IF k = 0 THEN a ELSE Cover(f[k - 1], Parts[k])
    <3> HIDE DEF a, N
    <3>1. \A k \in 0 .. N : k = 0 \/ k \in 1 .. N
      BY <1>1
    <3> QED BY <2>1, <2>2, <3>1
  <2> HIDE DEF a, N
  <2> QED BY <2>2, <2>3, Zenon
<1>7. Runs(h)
  BY <1>6, Zenon
<1>8. getLowHandles(q, r) = h[N].ret
  BY Zenon DEF getLowHandles
<1>9. h[0] = a /\ \A k \in 1 .. N : h[k] = Cover(h[k - 1], Parts[k])
  <2> HIDE DEF h, a, N
  <2> QED BY <1>1, <1>7
<1> HIDE DEF h, F
<1> DEFINE G == {k \in 0 .. N : k < i => h[k] = [ret |-> << >>, remain |-> r, cur |-> q - At(k + 1)]}
<1>10. 0 \in G
  <2>1. 0 + 1 = 1 /\ q - 0 = q
    OBVIOUS
  <2> QED BY <1>1, <1>2, <1>9, <2>1
<1>11. \A k \in 1 .. N : k - 1 \in G => k \in G
  <2> SUFFICES ASSUME NEW k \in 1 .. N, k - 1 \in G, k < i
               PROVE  h[k] = [ret |-> << >>, remain |-> r, cur |-> q - At(k + 1)]
    BY <1>1
  <2>1. h[k - 1] = [ret |-> << >>, remain |-> r, cur |-> q - At(k)]
    <3>1. k - 1 < i /\ (k - 1) + 1 = k
      BY <1>1
    <3> QED BY <3>1
  <2>2. k + 1 \in 1 .. (N + 1) /\ k \in 1 .. (N + 1) /\ k + 1 <= i
    BY <1>1
  <2>3. At(k + 1) <= At(i)
    BY <1>1, <2>2, AtClimbs
  <2>4. At(k) \in Nat /\ At(k + 1) = At(k) + Sector(Parts[k]) /\ Sector(Parts[k]) \in Nat
    BY <2>2, AtSteps
  <2> DEFINE x == h[k - 1]
             p == Parts[k]
  <2>5. /\ x \in Founds /\ x.remain = r /\ x.cur = q - At(k) /\ x.ret = << >>
    <3>1. q - At(k) \in Int /\ << >> \in Seq(Handles)
      BY <2>4
    <3> QED BY <2>1, <3>1 DEF Founds
  <2> HIDE DEF x
  <2>6. x.remain > 0 /\ x.cur >= Sector(p) /\ x.cur - Sector(p) = q - At(k + 1)
    <3> DEFINE sp == Sector(p)
               at0 == At(k)
               at1 == At(k + 1)
               at2 == At(i)
    <3>1. /\ at0 \in Nat /\ sp \in Nat /\ at1 = at0 + sp /\ at1 <= at2 /\ x.cur = q - at0 /\ x.remain = r
          /\ q \in Nat /\ r \in Nat \ {0} /\ at2 <= q /\ at2 \in Nat
      BY <1>1, <1>2, <2>2, <2>3, <2>4, <2>5, AtSteps
    <3> HIDE DEF sp, at0, at1, at2, p
    <3>2. x.remain > 0 /\ x.cur >= sp /\ x.cur - sp = q - at1
      BY <3>1
    <3> QED BY <3>2 DEF sp, at1
  <2>7. Cover(x, p) = [ret |-> x.ret, remain |-> x.remain, cur |-> x.cur - Sector(p)]
    BY <2>5, <2>6, CoverIs
  <2> QED BY <1>9, <2>5, <2>6, <2>7 DEF x
<1>12. \A k \in 0 .. N : k \in G
  <2> HIDE DEF G, N
  <2> QED BY <1>1, <1>10, <1>11, Climb, Zenon
<1>13. h[i - 1] = [ret |-> << >>, remain |-> r, cur |-> q - At(i)]
  <2>1. i - 1 \in 0 .. N /\ i - 1 < i /\ (i - 1) + 1 = i
    BY <1>1
  <2> QED BY <1>12, <2>1
<1>14. /\ h[i] \in Founds /\ n \in Nat /\ n <= r /\ n > 0
       /\ h[i] = [ret |-> <<lh>>, remain |-> r - n, cur |-> 0]
  <2> DEFINE x == h[i - 1]
             p == Parts[i]
  <2>1. q - At(i) \in Int /\ << >> \in Seq(Handles)
    BY <1>2
  <2>2. x \in Founds /\ x.remain = r /\ x.cur = q - At(i) /\ x.ret = << >>
    BY <1>13, <2>1 DEF Founds
  <2> HIDE DEF x
  <2>3. x.remain > 0 /\ x.cur < Sector(p) /\ Sector(p) - x.cur = At(i + 1) - q
    BY <1>2, <2>2
  <2>4. /\ Cover(x, p) \in Founds
        /\ Cover(x, p) = [ret |-> Append(x.ret, LowHandle(p, x.cur, n)), remain |-> x.remain - n, cur |-> 0]
    <3>1. least(x.remain, Sector(p) - x.cur) = n
      BY <2>2, <2>3
    <3> HIDE DEF n, p
    <3> QED BY <2>2, <2>3, <3>1, CoverIs DEF p
  <2>5. h[i] = Cover(x, p)
    BY <1>9 DEF x
  <2>6. Append(<< >>, lh) = <<lh>>
    <3> HIDE DEF lh
    <3> QED OBVIOUS
  <2>7. n \in Nat /\ n <= r /\ n > 0
    BY <1>2 DEF least
  <2> HIDE DEF n, lh
  <2> QED BY <2>2, <2>4, <2>5, <2>6, <2>7 DEF lh
<1> HIDE DEF n, lh
<1> DEFINE Q(k) == /\ h[k] \in Founds /\ h[k].ret # << >> /\ Head(h[k].ret) = lh
                   /\ n = r => h[k].ret = <<lh>> /\ h[k].remain = 0
                   /\ n < r /\ k > i => Len(h[k].ret) > 1
           E == {k \in 0 .. N : k >= i => Q(k)}
<1>15. Q(i)
  <2>1. h[i].ret = <<lh>> /\ h[i].remain = r - n
    BY <1>14
  <2>2. <<lh>> # << >> /\ Head(<<lh>>) = lh
    OBVIOUS
  <2>3. n = r => r - n = 0
    OBVIOUS
  <2>4. ~(i > i)
    BY <1>1
  <2> QED BY <1>14, <2>1, <2>2, <2>3, <2>4
<1>16. 0 \in E
  <2>1. ~(0 >= i) /\ 0 \in 0 .. N
    BY <1>1
  <2> HIDE DEF Q
  <2> QED BY <2>1
<1>17. \A k \in 1 .. N : k - 1 \in E => k \in E
  <2> SUFFICES ASSUME NEW k \in 1 .. N, k - 1 \in E, k >= i PROVE Q(k)
    <3>1. \A k \in 1 .. N : k \in 0 .. N
      BY <1>1
    <3> HIDE DEF Q
    <3> QED BY <3>1
  <2>1. CASE k = i
    BY <1>15, <2>1
  <2>2. CASE k # i
    <3> DEFINE x == h[k - 1]
    <3>1. k - 1 >= i /\ k > i
      BY <1>1, <2>2
    <3>2. Q(k - 1)
      <4> HIDE DEF Q
      <4> QED BY <3>1
    <3>3. h[k] = Cover(x, Parts[k])
      BY <1>9
    <3>4. x \in Founds /\ x.ret # << >> /\ Head(x.ret) = lh /\ x.ret \in Seq(Handles)
      BY <3>2 DEF Founds
    <3>5. x.remain = 0 => h[k] = x
      <4> HIDE DEF x
      <4> QED BY <3>3, <3>4, CoverIs
    <3>6. h[k] \in Founds /\ (h[k].ret = x.ret \/ \E y \in Handles : h[k].ret = Append(x.ret, y))
      <4> DEFINE c == Cover(x, Parts[k])
      <4>1. x \in Founds
        BY <3>4
      <4> HIDE DEF x, E
      <4>2. c \in Founds /\ (c.ret = x.ret \/ \E y \in Handles : c.ret = Append(x.ret, y))
        BY <4>1, CoverIs, Zenon
      <4> QED BY <3>3, <4>2, Zenon
    <3>7. Len(h[k].ret) >= Len(x.ret) /\ h[k].ret # << >> /\ Head(h[k].ret) = lh /\ Len(x.ret) \in Nat
      <4> DEFINE y == h[k]
                 s == x.ret
                 u == y.ret
      <4>1. s \in Seq(Handles) /\ s # << >> /\ Head(s) = lh /\ (u = s \/ \E v \in Handles : u = Append(s, v))
        BY <3>4, <3>6
      <4> HIDE DEF s, u
      <4>2. CASE u = s
        BY <4>1, <4>2 DEF s, u
      <4>3. CASE \E v \in Handles : u = Append(s, v)
        <5>1. PICK v \in Handles : u = Append(s, v)
          BY <4>3
        <5>2. Len(u) = Len(s) + 1 /\ u # << >> /\ Head(u) = Head(s) /\ Len(s) \in Nat
          BY <4>1, <5>1
        <5>3. Len(u) >= Len(s)
          BY <5>2
        <5> QED BY <4>1, <5>2, <5>3 DEF s, u
      <4> QED BY <4>1, <4>2, <4>3
    <3>8. n = r => h[k].ret = <<lh>> /\ h[k].remain = 0
      <4> SUFFICES ASSUME n = r PROVE h[k].ret = <<lh>> /\ h[k].remain = 0
        OBVIOUS
      <4>1. x.ret = <<lh>> /\ x.remain = 0
        BY <3>2
      <4> HIDE DEF x
      <4> QED BY <3>5, <4>1
    <3>9. n < r => Len(h[k].ret) > 1
      <4> SUFFICES ASSUME n < r PROVE Len(h[k].ret) > 1
        OBVIOUS
      <4>1. CASE k - 1 > i
        <5>1. Len(x.ret) > 1
          BY <3>2, <4>1
        <5>2. Len(h[k].ret) \in Nat
          <6>1. h[k].ret \in Seq(Handles)
            BY <3>6 DEF Founds
          <6> QED BY <6>1
        <5> QED BY <3>7, <5>1, <5>2
      <4>2. CASE k - 1 = i
        <5>1. x.ret = <<lh>> /\ x.remain > 0 /\ x.cur = 0
          BY <1>14, <4>2
        <5>2. Sector(Parts[k]) > 0
          BY AtSteps, SMTT(30)
        <5> DEFINE v == LowHandle(Parts[k], x.cur, least(x.remain, Sector(Parts[k]) - x.cur))
        <5>3. h[k].ret = Append(x.ret, v)
          <6> HIDE DEF x
          <6>1. x.cur < Sector(Parts[k])
            BY <5>1, <5>2
          <6>2. Cover(x, Parts[k]) = [ret |-> Append(x.ret, v),
                  remain |-> x.remain - least(x.remain, Sector(Parts[k]) - x.cur), cur |-> 0]
            BY <3>4, <5>1, <6>1, CoverIs
          <6> HIDE DEF v
          <6> QED BY <3>3, <6>2
        <5> HIDE DEF v, x
        <5>4. Len(Append(<<lh>>, v)) = 2
          OBVIOUS
        <5> QED BY <5>1, <5>3, <5>4
      <4>3. k - 1 > i \/ k - 1 = i
        BY <1>1, <3>1
      <4> QED BY <4>1, <4>2, <4>3
    <3> QED BY <3>6, <3>7, <3>8, <3>9
  <2> QED BY <2>1, <2>2
<1>18. Q(N)
  <2> HIDE DEF Q
  <2>1. \A k \in 0 .. N : k \in E
    <3> HIDE DEF E, N
    <3> QED BY <1>1, <1>16, <1>17, Climb, Zenon
  <2>2. N \in 0 .. N /\ N >= i
    BY <1>1
  <2> QED BY <2>1, <2>2
<1>19. n < r => N > i
  <2> SUFFICES ASSUME n < r, ~(N > i) PROVE FALSE
    OBVIOUS
  <2>1. i = N
    BY <1>1
  <2>2. At(i + 1) = Size * Unit
    BY <1>2, <2>1
  <2> QED BY <1>2, <2>2 DEF n, least
<1>20. Len(h[N].ret) <= 1 <=> n = r
  <2>1. h[N].ret \in Seq(Handles)
    BY <1>18 DEF Founds
  <2>2. CASE n = r
    <3>1. h[N].ret = <<lh>>
      BY <1>18, <2>2
    <3>2. Len(<<lh>>) = 1
      OBVIOUS
    <3> QED BY <2>2, <3>1, <3>2
  <2>3. CASE n < r
    <3>1. Len(h[N].ret) > 1 /\ Len(h[N].ret) \in Nat
      BY <1>18, <1>19, <2>1, <2>3, SMTT(30)
    <3> QED BY <1>14, <2>3, <3>1
  <2> QED BY <1>14, <2>2, <2>3
<1> QED BY <1>8, <1>18, <1>20 DEF lh, n

-----------------------------------------------------------------------------
(* A range of the volume goes out physical volume by physical volume.  The *)
(* first block of a physical volume has to be the first one of its file:   *)
(* LowHandle adds its start, in blocks, to an offset in bytes.             *)
StartsAtZero == \A i \in 1 .. Len(Parts) : Parts[i].start = 0

LEMMA FileGoes ==
  ASSUME StartsAtZero, NEW t \in FileTasks
  PROVE  LET ls == getLowHandles(t.offset, t.remain)
             lh == Head(ls)
         IN /\ Due(t) \in Seq(Octets) /\ Len(Due(t)) = t.remain /\ t.remain \in Nat \ {0}
            /\ ls # << >> /\ lh.length \in 1 .. t.remain /\ (Len(ls) <= 1 <=> lh.length = t.remain)
            /\ \A n \in 0 .. lh.length : Bytes([path |-> lh.path], lh.offset, n) = SubSeq(Due(t), 1, n)
            /\ \A n \in 0 .. (t.remain - 1) :
                 GoesOn(t, [kind |-> "file", offset |-> t.offset + n, remain |-> t.remain - n], n)
<1> DEFINE q == t.offset
           r == t.remain
           g == VolTape
           ls == getLowHandles(q, r)
           lh == Head(ls)
<1>1. t.kind = "file" /\ q \in Nat /\ r \in Nat \ {0} /\ q + r <= Size * Unit /\ Size * Unit \in Nat
  BY AtSteps DEF FileTasks
<1>2. g \in Tapes
  BY VolTapeType
<1>3. Due(t) = Stretch(g, q, r)
  BY <1>1 DEF Due
<1> HIDE DEF q, r
<1>4. Stretch(g, q, r) \in Seq(Octets) /\ Len(Stretch(g, q, r)) = r
  BY <1>1, <1>2, StretchType
<1>5. PICK i \in 1 .. Len(Parts) : At(i) <= q /\ q < At(i + 1)
  <2>1. q < Size * Unit
    BY <1>1
  <2> QED BY <1>1, <2>1, PartOf
<1> DEFINE w == least(r, At(i + 1) - q)
<1>6. ls # << >> /\ lh = LowHandle(Parts[i], q - At(i), w) /\ (Len(ls) <= 1 <=> w = r)
  BY <1>1, <1>5, LowHandlesAre
<1>7. At(i) \in Nat /\ At(i + 1) \in Nat
  <2>1. i \in 1 .. (Len(Parts) + 1) /\ i + 1 \in 1 .. (Len(Parts) + 1)
    BY PartsAssumption
  <2> QED BY <2>1, AtSteps
<1>8. w \in Nat /\ w \in 1 .. r /\ q + w <= At(i + 1)
  BY <1>1, <1>5, <1>7 DEF least
<1> HIDE DEF w, ls
<1>9. lh.path = Parts[i].path /\ lh.offset = q - At(i) /\ lh.length = w
  <2>1. Parts[i].start = 0 /\ 0 + (q - At(i)) = q - At(i)
    BY <1>1, <1>7 DEF StartsAtZero
  <2>2. lh = [path |-> Parts[i].path, offset |-> Parts[i].start + (q - At(i)), length |-> w]
    BY <1>6 DEF LowHandle
  <2> HIDE DEF lh
  <2> QED BY <2>1, <2>2
<1> HIDE DEF lh
<1>10. ASSUME NEW n \in 0 .. w
       PROVE  Bytes([path |-> Parts[i].path], q - At(i), n) = SubSeq(Stretch(g, q, r), 1, n)
  <2>1. n \in 0 .. r /\ r \in Nat
    BY <1>1, <1>8
  <2>2. SubSeq(Stretch(g, q, r), 1, n) = Stretch(g, q, n)
    BY <1>1, <1>2, <2>1, StretchCut
  <2>3. ASSUME NEW k \in 1 .. n
        PROVE  g[(q + k) - 1] = [place |-> [path |-> Parts[i].path], at |-> (q - At(i)) + k - 1]
    <3> DEFINE a == (q + k) - 1
    <3>1. a \in Nat /\ At(i) <= a /\ a < At(i + 1) /\ a - At(i) = (q - At(i)) + k - 1
      BY <1>1, <1>5, <1>7, <1>8
    <3> HIDE DEF a
    <3>2. VolByte(a) = [place |-> [path |-> Parts[i].path], at |-> a - At(i)]
      BY <3>1, VolByteIs
    <3>3. g[a] = VolByte(a)
      BY <3>1 DEF VolTape
    <3> QED BY <3>1, <3>2, <3>3 DEF a
  <2>4. Bytes([path |-> Parts[i].path], q - At(i), n) = Stretch(g, q, n)
    <3> DEFINE x == [path |-> Parts[i].path]
               o == q - At(i)
    <3>1. \A k \in 1 .. n : g[(q + k) - 1] = [place |-> x, at |-> o + k - 1]
      BY <2>3
    <3> HIDE DEF x, o
    <3>2. Bytes(x, o, n) = Stretch(g, q, n)
      BY <3>1 DEF Bytes, Stretch
    <3> QED BY <3>2 DEF x, o
  <2> QED BY <2>2, <2>4
<1>11. ASSUME NEW n \in 0 .. (r - 1)
       PROVE  GoesOn(t, [kind |-> "file", offset |-> q + n, remain |-> r - n], n)
  <2> DEFINE u == [kind |-> "file", offset |-> q + n, remain |-> r - n]
  <2>1. /\ n \in Nat /\ n \in 0 .. r /\ q + n \in Nat /\ r - n \in Nat /\ r - n > 0 /\ r \in Nat
        /\ (q + n) + (r - n) <= Size * Unit
    BY <1>1
  <2>2. u \in FileTasks
    BY <2>1 DEF FileTasks
  <2>3. Due(u) = Stretch(g, q + n, r - n)
    BY DEF Due
  <2>4. SubSeq(Stretch(g, q, r), 1, n) = Stretch(g, q, n)
        /\ Stretch(g, q, n) \o Stretch(g, q + n, r - n) = Stretch(g, q, r)
    BY <1>1, <1>2, <2>1, StretchCut, ZenonT(60)
  <2> HIDE DEF u
  <2> QED BY <1>3, <2>2, <2>3, <2>4 DEF GoesOn, DataTasks, u
<1>12. \A n \in 0 .. lh.length : Bytes([path |-> lh.path], lh.offset, n) = SubSeq(Due(t), 1, n)
  BY <1>3, <1>9, <1>10
<1> QED BY <1>1, <1>3, <1>4, <1>6, <1>8, <1>9, <1>11, <1>12 DEF q, r, ls, lh

LEMMA DueType ==
  ASSUME NEW t \in Tasks
  PROVE  Due(t) \in Seq(Octets) /\ (t \in DataTasks => Len(Due(t)) # 0)
<1>1. CASE t \in SendTasks
  BY <1>1, SendGoes
<1>2. CASE t \in CacheTasks
  BY <1>2, CacheGoes
<1>3. CASE t \in FileTasks
  <2>1. t.kind = "file" /\ t.offset \in Nat /\ t.remain \in Nat \ {0}
    BY <1>3 DEF FileTasks
  <2> DEFINE q == t.offset
             r == t.remain
  <2>2. Due(t) = Stretch(VolTape, q, r)
    BY <2>1 DEF Due
  <2> HIDE DEF q, r
  <2>3. Stretch(VolTape, q, r) \in Seq(Octets) /\ Len(Stretch(VolTape, q, r)) = r
    BY <2>1, VolTapeType, StretchType DEF q, r
  <2> QED BY <2>1, <2>2, <2>3 DEF r
<1>4. CASE t \in OtherTasks
  <2>1. t.kind \in {"cork", "uncork", "close"}
    BY <1>4 DEF OtherTasks
  <2>2. t.kind # "send" /\ t.kind # "cache" /\ t.kind # "file"
    BY <2>1
  <2>3. Due(t) = << >>
    BY <2>2 DEF Due
  <2>4. t \notin SendTasks /\ t \notin CacheTasks /\ t \notin FileTasks
    BY <2>2 DEF SendTasks, CacheTasks, CacheSet, FileTasks
  <2> QED BY <2>3, <2>4 DEF DataTasks
<1> QED BY <1>1, <1>2, <1>3, <1>4 DEF Tasks, DataTasks

LEMMA UnitSteps ==
  ASSUME NEW i \in Nat, NEW j \in Nat
  PROVE  /\ i * Unit \in Nat /\ (i + j) * Unit = i * Unit + j * Unit /\ (i + 1) * Unit = i * Unit + Unit
         /\ i <= j => i * Unit <= j * Unit
<1>1. Unit \in Nat \ {0}
  BY UnitAssumption
<1>2. ASSUME i <= j PROVE i * Unit <= j * Unit
  <2> DEFINE d == j - i
  <2>1. d \in Nat /\ j = i + d
    BY <1>2
  <2> HIDE DEF d
  <2>2. (i + d) * Unit = i * Unit + d * Unit /\ d * Unit \in Nat /\ i * Unit \in Nat
    BY <1>1, <2>1
  <2>3. j * Unit = i * Unit + d * Unit
    BY <2>1, <2>2
  <2> QED BY <2>2, <2>3
<1> QED BY <1>1, <1>2

(* The byte that a reader of the volume expects, block by block, is the    *)
(* byte at its address.                                                    *)
LEMMA FileByteIs ==
  ASSUME StartsAtZero, NEW b \in Nat, b < Size, NEW j \in 0 .. (Unit - 1)
  PROVE  FileByte(b, j) = VolTape[b * Unit + j]
<1> DEFINE N == Len(Parts)
           c == b * Unit
           a == c + j
           I == {k \in DOMAIN Parts : BlocksBefore(k) <= b /\ b < BlocksBefore(k + 1)}
<1>1. N \in Nat /\ DOMAIN Parts = 1 .. N /\ Unit \in Nat \ {0} /\ Size \in Nat \ {0} /\ j \in Nat
  BY PartsAssumption, UnitAssumption, SizeAssumption
<1>2. c \in Nat /\ (b + 1) * Unit = c + Unit
  BY UnitSteps
<1>3. a \in Nat /\ a < Size * Unit
  <2>1. (b + 1) * Unit <= Size * Unit /\ Size * Unit \in Nat
    <3>1. b + 1 \in Nat /\ b + 1 <= Size /\ Size \in Nat
      BY <1>1
    <3> QED BY <3>1, UnitSteps
  <2> HIDE DEF c
  <2> QED BY <1>1, <1>2, <2>1
<1>4. PICK i \in 1 .. N : At(i) <= a /\ a < At(i + 1)
  <2> HIDE DEF a
  <2> QED BY <1>3, PartOf
<1>5. \A k : BlocksBefore(k) = Grounds(k)
  BY Zenon DEF BlocksBefore, Grounds
<1>6. \A k \in 1 .. N : /\ Grounds(k) \in Nat /\ Grounds(k + 1) \in Nat
                        /\ At(k) \in Nat /\ At(k + 1) \in Nat
  <2>1. \A k \in 1 .. N : k \in 1 .. (N + 1) /\ k + 1 \in 1 .. (N + 1)
    BY <1>1
  <2> HIDE DEF N
  <2> QED BY <2>1, AtSteps DEF N
<1>7. \A k \in 1 .. N : Grounds(k) <= b /\ b < Grounds(k + 1) <=> At(k) <= a /\ a < At(k + 1)
  <2> SUFFICES ASSUME NEW k \in 1 .. N
               PROVE  Grounds(k) <= b /\ b < Grounds(k + 1) <=> At(k) <= a /\ a < At(k + 1)
    BY Zenon
  <2> DEFINE g == Grounds(k)
             h == Grounds(k + 1)
  <2>1. g \in Nat /\ h \in Nat
    BY <1>6
  <2>2. At(k) = g * Unit /\ At(k + 1) = h * Unit
    BY DEF At
  <2> HIDE DEF g, h, N
  <2>3. /\ g <= b => g * Unit <= c
        /\ b + 1 <= g => c + Unit <= g * Unit
        /\ b + 1 <= h => c + Unit <= h * Unit
        /\ h <= b => h * Unit <= c
    <3>1. b + 1 \in Nat
      OBVIOUS
    <3> QED BY <1>2, <2>1, <3>1, UnitSteps
  <2>4. g * Unit \in Nat /\ h * Unit \in Nat
    BY <2>1, UnitSteps
  <2>5. g <= b <=> g * Unit <= a
    <3> HIDE DEF c
    <3> QED BY <1>1, <1>2, <2>1, <2>3, <2>4
  <2>6. b < h <=> a < h * Unit
    <3> HIDE DEF c
    <3> QED BY <1>1, <1>2, <2>1, <2>3, <2>4
  <2> QED BY <2>2, <2>5, <2>6 DEF g, h
<1>8. \A k \in 1 .. N : At(k) <= a /\ a < At(k + 1) => k = i
  <2> HIDE DEF a
  <2> QED BY <1>3, <1>4, VolByteIs
<1>9. I = {i}
  <2> HIDE DEF a, N
  <2>1. I = {k \in 1 .. N : Grounds(k) <= b /\ b < Grounds(k + 1)}
    BY <1>1, <1>5
  <2> QED BY <1>4, <1>7, <1>8, <2>1
<1> DEFINE x == IF I = {} THEN Len(Parts) ELSE CHOOSE k \in I : TRUE
<1>10. x = i
  <2> HIDE DEF I
  <2> QED BY <1>9, Zenon
<1>11. FileByte(b, j) = [place |-> [path |-> Parts[x].path],
                         at    |-> (Parts[x].start + (b - BlocksBefore(x))) * Unit + j]
  BY Zenon DEF FileByte, LBA2OFFSET
<1> DEFINE g == Grounds(i)
<1>12. (0 + (b - g)) * Unit + j = a - At(i)
  <2>1. g \in Nat /\ g <= b
    BY <1>4, <1>6, <1>7
  <2> DEFINE d == b - g
  <2>2. d \in Nat /\ b = g + d /\ 0 + d = d
    BY <2>1
  <2>3. At(i) = g * Unit
    BY DEF At
  <2> HIDE DEF d, g
  <2>4. (g + d) * Unit = g * Unit + d * Unit /\ d * Unit \in Nat /\ g * Unit \in Nat
    BY <2>1, <2>2, UnitSteps
  <2>5. c = g * Unit + d * Unit
    BY <2>2, <2>4
  <2> HIDE DEF c
  <2>6. d * Unit + j = a - g * Unit
    BY <1>1, <2>4, <2>5
  <2> QED BY <2>2, <2>3, <2>6 DEF d
<1>13. FileByte(b, j) = [place |-> [path |-> Parts[i].path], at |-> a - At(i)]
  <2>1. Parts[i].start = 0
    BY DEF StartsAtZero
  <2> HIDE DEF x, a, I, c
  <2>2. (Parts[i].start + (b - BlocksBefore(i))) * Unit + j = a - At(i)
    BY <1>5, <1>12, <2>1, Zenon
  <2> QED BY <1>10, <1>11, <2>2, Zenon
<1>14. VolTape[a] = VolByte(a)
  <2> HIDE DEF a
  <2> QED BY <1>3 DEF VolTape
<1>15. VolByte(a) = [place |-> [path |-> Parts[i].path], at |-> a - At(i)]
  <2> HIDE DEF a
  <2> QED BY <1>3, <1>4, VolByteIs
<1> QED BY <1>13, <1>14, <1>15

(* Byte k of the blocks from b on.                                         *)
LEMMA BlockOf ==
  ASSUME NEW b \in Nat, NEW n \in Nat, NEW k \in 1 .. (n * Unit)
  PROVE  LET d == (k - 1) \div Unit
             m == (k - 1) % Unit
         IN /\ d \in Nat /\ d < n /\ m \in 0 .. (Unit - 1) /\ b + d \in Nat
            /\ (b + d) * Unit + m = (b * Unit + k) - 1
<1> DEFINE d == (k - 1) \div Unit
           m == (k - 1) % Unit
<1>1. Unit \in Nat \ {0} /\ n * Unit \in Nat /\ k - 1 \in Nat
  BY UnitAssumption, UnitSteps
<1>2. d \in Nat /\ m \in 0 .. (Unit - 1) /\ k - 1 = d * Unit + m
  BY <1>1
<1> HIDE DEF d, m
<1>3. d * Unit \in Nat /\ b * Unit \in Nat /\ (b + d) * Unit = b * Unit + d * Unit
  BY <1>2, UnitSteps
<1>4. d < n
  <2> SUFFICES ASSUME n <= d PROVE FALSE
    BY <1>2
  <2>1. n * Unit <= d * Unit
    BY <1>2, UnitSteps
  <2> QED BY <1>1, <1>2, <1>3, <2>1
<1>5. (b + d) * Unit + m = (b * Unit + k) - 1
  <2> DEFINE e == d * Unit
             c == b * Unit
             w == (b + d) * Unit
  <2>1. e \in Nat /\ c \in Nat /\ w = c + e /\ k - 1 = e + m
    BY <1>2, <1>3
  <2> HIDE DEF e, c, w
  <2>2. w + m = (c + k) - 1
    BY <1>1, <1>2, <2>1
  <2> QED BY <2>2 DEF w, c
<1> QED BY <1>2, <1>4, <1>5 DEF d, m

LEMMA FilePieceGoes ==
  ASSUME StartsAtZero, NEW b \in Nat, NEW n \in Nat \ {0}, b + n <= Size
  PROVE  /\ SendfileTask(b, n) \in FileTasks
         /\ PieceOwed(File(b, n)) = Due(SendfileTask(b, n))
         /\ PieceTask(File(b, n)) = SendfileTask(b, n)
<1> DEFINE p == File(b, n)
           u == SendfileTask(b, n)
           c == b * Unit
           r == n * Unit
<1>1. c \in Nat /\ r \in Nat /\ Size \in Nat /\ Unit \in Nat \ {0} /\ Size * Unit \in Nat
  BY UnitSteps, SizeAssumption, UnitAssumption, AtSteps
<1>2. r > 0
  <2>1. 1 * Unit <= n * Unit
    BY UnitSteps
  <2> QED BY <1>1, <2>1
<1>3. c + r <= Size * Unit
  <2>1. b + n \in Nat
    OBVIOUS
  <2>2. (b + n) * Unit <= Size * Unit
    BY <1>1, <2>1, UnitSteps
  <2>3. (b + n) * Unit = c + r
    BY UnitSteps
  <2> QED BY <2>2, <2>3
<1>4. u = [kind |-> "file", offset |-> c, remain |-> r]
  BY DEF SendfileTask, LBA2OFFSET
<1>5. u \in FileTasks
  <2> HIDE DEF c, r
  <2> QED BY <1>1, <1>2, <1>3, <1>4 DEF FileTasks
<1>6. Due(u) = Stretch(VolTape, c, r)
  <2> HIDE DEF c, r
  <2> QED BY <1>4 DEF Due
<1>7. p.seg = {} /\ p.lba = b /\ p.len = n
  BY DEF File
<1> HIDE DEF p
<1>8. ASSUME NEW k \in 1 .. r
      PROVE  FileByte(b + (k - 1) \div Unit, (k - 1) % Unit) = VolTape[(c + k) - 1]
  <2> DEFINE d == (k - 1) \div Unit
             m == (k - 1) % Unit
  <2>1. d \in Nat /\ d < n /\ m \in 0 .. (Unit - 1) /\ b + d \in Nat /\ (b + d) * Unit + m = (c + k) - 1
    BY BlockOf
  <2> HIDE DEF d, m
  <2>2. b + d < Size
    BY <1>1, <2>1
  <2>3. FileByte(b + d, m) = VolTape[(b + d) * Unit + m]
    BY <2>1, <2>2, FileByteIs
  <2> QED BY <2>1, <2>3 DEF d, m
<1>9. PieceOwed(p) = [k \in 1 .. r |-> FileByte(b + (k - 1) \div Unit, (k - 1) % Unit)]
  BY <1>7 DEF PieceOwed, LBA2OFFSET
<1>10. PieceOwed(p) = Stretch(VolTape, c, r)
  <2> HIDE DEF c, r
  <2> QED BY <1>8, <1>9 DEF Stretch
<1> HIDE DEF u
<1>11. PieceTask(p) = u
  BY <1>7 DEF PieceTask, u
<1> QED BY <1>5, <1>6, <1>10, <1>11 DEF p, u

(* A segment's buffers hold its data, and the constructor of a             *)
(* SendCacheTask finds the first block wanted in them.                     *)
LEMMA BuffersHold ==
  ASSUME NEW n \in Nat
  PROVE  LET m == (n + CbufSize - 1) \div CbufSize IN m \in Nat /\ n <= m * CbufSize
<1> DEFINE a == n + (CbufSize - 1)
           m == a \div CbufSize
<1>1. CbufSize \in Nat \ {0} /\ a \in Nat
  BY ReplyAssumption
<1>2. m \in Nat /\ a = m * CbufSize + (a % CbufSize) /\ a % CbufSize \in 0 .. (CbufSize - 1)
  <2> HIDE DEF a
  <2> QED BY <1>1
<1>3. m * CbufSize \in Nat
  BY <1>2, BufferStarts
<1>4. n <= m * CbufSize
  <2> DEFINE b == m * CbufSize
             e == a % CbufSize
  <2>1. b \in Nat /\ e \in 0 .. (CbufSize - 1) /\ n + (CbufSize - 1) = b + e
    BY <1>2, <1>3
  <2> HIDE DEF b, e
  <2>2. n <= b
    BY <1>1, <2>1
  <2> QED BY <2>2 DEF b
<1>5. (n + CbufSize - 1) \div CbufSize = m
  OBVIOUS
<1> QED BY <1>2, <1>4, <1>5

LEMMA WriteSegmentIs ==
  ASSUME segments \in SUBSET Segments, NEW s \in Segments
  PROVE  LET ws == WriteSegment(s) IN
         /\ ws \in Segs /\ ws.id = s.rlba /\ ws.lba <= s.rlba
         /\ 1 + (ReadEnd(s) - ws.lba) * Unit <= Len(ws.sizes) * CbufSize
<1> DEFINE ws == WriteSegment(s)
           lost == IF \E t \in segments : ReadEnd(t) = s.rlba THEN 1 ELSE 0
           e == s.rlen + lost
           bytes == 1 + e * Unit
           m == (bytes + CbufSize - 1) \div CbufSize
           z == [i \in 1 .. m |-> CbufSize]
<1>1. s.rlba \in Nat /\ s.rlen \in Nat \ {0} /\ ReadEnd(s) = s.rlba + s.rlen
  BY SegmentFacts
<1>2. lost \in Nat /\ lost <= s.rlba
  <2>1. CASE \E t \in segments : ReadEnd(t) = s.rlba
    <3>1. PICK t \in segments : ReadEnd(t) = s.rlba
      BY <2>1
    <3>2. t.rlba \in Nat /\ t.rlba < ReadEnd(t) /\ ReadEnd(t) \in Nat
      BY SegmentFacts
    <3> QED BY <1>1, <2>1, <3>1, <3>2
  <2>2. CASE ~ \E t \in segments : ReadEnd(t) = s.rlba
    BY <1>1, <2>2
  <2> QED BY <2>1, <2>2
<1>3. ws = [id |-> s.rlba, lba |-> s.rlba - lost, ds_offset |-> 1, sizes |-> z]
  BY Zenon DEF WriteSegment, DsOffset, LBA2OFFSET
<1> HIDE DEF lost
<1>4. e \in Nat /\ s.rlba - lost \in Nat /\ s.rlba - lost <= s.rlba /\ ReadEnd(s) - (s.rlba - lost) = e
  BY <1>1, <1>2
<1> HIDE DEF e
<1>5. bytes \in Nat
  <2>1. e * Unit \in Nat
    BY <1>4, UnitSteps
  <2> QED BY <2>1
<1> HIDE DEF bytes
<1>6. m \in Nat /\ bytes <= m * CbufSize
  BY <1>5, BuffersHold
<1> HIDE DEF m
<1>7. z \in Seq({CbufSize}) /\ Len(z) = m
  <2>1. z \in [1 .. m -> {CbufSize}]
    OBVIOUS
  <2> HIDE DEF z
  <2> QED BY <1>6, <2>1
<1> HIDE DEF z, ws
<1>8. ws \in Segs /\ ws.id = s.rlba /\ ws.lba = s.rlba - lost /\ ws.sizes = z
  BY <1>1, <1>3, <1>4, <1>7 DEF Segs
<1>9. 1 + (ReadEnd(s) - ws.lba) * Unit = bytes
  BY <1>4, <1>8 DEF bytes
<1> QED BY <1>4, <1>6, <1>7, <1>8, <1>9 DEF ws

LEMMA CacheTaskMade ==
  ASSUME NEW ws \in Segs, NEW b \in Nat, NEW n \in Nat \ {0},
         ws.lba <= b, 1 + ((b + n) - ws.lba) * Unit <= Len(ws.sizes) * CbufSize
  PROVE  LET u == SendCacheTask(ws, b, n) IN
         u \in CacheTasks /\ Due(u) = Stretch(SegTape(ws.id), 1 + (b - ws.lba) * Unit, n * Unit)
<1> DEFINE a == (b - ws.lba) * Unit
           r == n * Unit
           ahead == IF ws.lba < b THEN LBA2OFFSET(b - ws.lba) ELSE 0
           t == [kind |-> "cache", ws |-> ws, total_remain |-> r + a, cur_index |-> 0, offset |-> 0]
           v == CacheStepForward(t, a)
           u == SendCacheTask(ws, b, n)
<1>1. ws.lba \in Nat /\ ws.id \in Nat /\ Len(ws.sizes) \in Nat /\ ws.ds_offset = 1
  BY DEF Segs
<1>2. b - ws.lba \in Nat /\ ((b - ws.lba) + n) = (b + n) - ws.lba
  BY <1>1
<1>3. a \in Nat /\ r \in Nat /\ r > 0 /\ 1 + (a + r) <= Len(ws.sizes) * CbufSize
  <2> DEFINE d == b - ws.lba
  <2>1. d \in Nat /\ d + n = (b + n) - ws.lba /\ n \in Nat /\ 1 <= n
    BY <1>2
  <2> HIDE DEF d
  <2>2. /\ d * Unit \in Nat /\ n * Unit \in Nat /\ (d + n) * Unit = d * Unit + n * Unit
        /\ 1 * Unit <= n * Unit
    BY <2>1, UnitSteps
  <2>3. 1 * Unit > 0 /\ 1 * Unit \in Nat
    BY UnitAssumption
  <2>4. 1 + (d * Unit + n * Unit) <= Len(ws.sizes) * CbufSize
    BY <2>1, <2>2
  <2> DEFINE w == n * Unit
             y == 1 * Unit
  <2>5. w > 0
    <3> SUFFICES ASSUME NEW i \in Nat, NEW j \in Nat, i <= j, i > 0 PROVE j > 0
      BY <2>2, <2>3
    <3> QED OBVIOUS
  <2> QED BY <2>2, <2>4, <2>5 DEF d
<1>4. ahead = a
  <2>1. CASE ws.lba < b
    BY <2>1 DEF LBA2OFFSET
  <2>2. CASE ~(ws.lba < b)
    <3>1. b - ws.lba = 0
      BY <1>1, <2>2
    <3>2. 0 * Unit = 0
      BY UnitAssumption
    <3> QED BY <2>2, <3>1, <3>2
  <2> QED BY <2>1, <2>2
<1>5. u = [v EXCEPT !.total_remain = r]
  <2>1. u = [CacheStepForward([kind |-> "cache", ws |-> ws, total_remain |-> r + ahead,
                               cur_index |-> 0, offset |-> 0], ahead) EXCEPT !.total_remain = r]
    BY Zenon DEF SendCacheTask, LBA2OFFSET
  <2> HIDE DEF ahead, a, r
  <2> QED BY <1>4, <2>1, Zenon
<1> HIDE DEF a, r
<1>6. /\ t \in CacheSet /\ Within(t) /\ CachePos(t) = 1 /\ t.total_remain = r + a /\ t.ws = ws
      /\ a < t.total_remain
  <2>1. r + a \in Nat /\ a < r + a
    BY <1>3
  <2>2. /\ t.kind = "cache" /\ t.ws = ws /\ t.total_remain = r + a /\ t.cur_index = 0 /\ t.offset = 0
        /\ t \in CacheSet
    BY <2>1 DEF CacheSet
  <2> HIDE DEF t
  <2>3. Skipped(t) = 1
    BY <1>1, <2>2 DEF Skipped
  <2>4. CbufSize \in Nat \ {0} /\ 0 * CbufSize = 0
    BY ReplyAssumption
  <2>5. CachePos(t) = 1
    BY <2>2, <2>3, <2>4 DEF CachePos
  <2>6. t.offset + Skipped(t) <= CbufSize
    BY <2>2, <2>3, <2>4
  <2>7. CachePos(t) + t.total_remain <= Len(t.ws.sizes) * CbufSize
    <3>1. 1 + (r + a) = 1 + (a + r)
      BY <1>3
    <3> QED BY <1>3, <2>2, <2>5, <3>1
  <2> QED BY <2>1, <2>2, <2>5, <2>6, <2>7 DEF Within
<1> HIDE DEF t
<1>7. /\ v \in CacheSet /\ v.ws = ws /\ v.total_remain = r + a
      /\ v.offset + Skipped(v) <= CbufSize /\ CachePos(v) = 1 + a
  BY <1>3, <1>6, CacheSteps
<1> HIDE DEF v, u
<1>8. /\ u.kind = "cache" /\ u.ws = ws /\ u.total_remain = r /\ u.cur_index = v.cur_index
      /\ u.offset = v.offset /\ u \in CacheSet
  BY <1>3, <1>5, <1>7 DEF CacheSet
<1>9. Skipped(u) = Skipped(v)
  BY <1>7, <1>8 DEF Skipped
<1>10. CachePos(u) = 1 + a
  BY <1>7, <1>8, <1>9 DEF CachePos
<1>11. u \in CacheTasks
  <2>1. u.offset + Skipped(u) <= CbufSize
    BY <1>7, <1>8, <1>9
  <2>2. (1 + a) + r = 1 + (a + r)
    BY <1>3
  <2>3. CachePos(u) + u.total_remain <= Len(u.ws.sizes) * CbufSize
    BY <1>3, <1>8, <1>10, <2>2
  <2> QED BY <1>3, <1>8, <2>1, <2>3 DEF CacheTasks, Within
<1>12. Due(u) = Stretch(SegTape(ws.id), 1 + a, r)
  BY <1>8, <1>10 DEF Due
<1> QED BY <1>11, <1>12 DEF u, a, r

LEMMA CachePieceGoes ==
  ASSUME segments \in SUBSET Segments, NEW s \in Segments, NEW b \in Nat, NEW n \in Nat \ {0},
         s.rlba <= b, b + n <= ReadEnd(s)
  PROVE  LET p == Cache(s, b, n) IN PieceTask(p) \in CacheTasks /\ PieceOwed(p) = Due(PieceTask(p))
<1> DEFINE p == Cache(s, b, n)
           ws == WriteSegment(s)
           u == SendCacheTask(ws, b, n)
           a == (b - ws.lba) * Unit
           r == n * Unit
           g == SegTape(s.rlba)
<1>1. /\ ws \in Segs /\ ws.id = s.rlba /\ ws.lba <= s.rlba /\ ws.lba \in Nat
      /\ 1 + (ReadEnd(s) - ws.lba) * Unit <= Len(ws.sizes) * CbufSize
      /\ Len(ws.sizes) * CbufSize \in Nat
  <2>1. ws \in Segs
    BY WriteSegmentIs
  <2>2. ws.lba \in Nat /\ Len(ws.sizes) \in Nat
    BY <2>1 DEF Segs
  <2>3. Len(ws.sizes) * CbufSize \in Nat
    BY <2>2, BufferStarts
  <2> QED BY <2>1, <2>2, <2>3, WriteSegmentIs
<1> HIDE DEF ws
<1>2. s.rlba \in Nat /\ ReadEnd(s) \in Nat
  BY SegmentFacts
<1>3. ws.lba <= b
  BY <1>1, <1>2
<1>4. 1 + ((b + n) - ws.lba) * Unit <= Len(ws.sizes) * CbufSize
  <2> DEFINE x == (b + n) - ws.lba
             y == ReadEnd(s) - ws.lba
  <2>1. x \in Nat /\ y \in Nat /\ x <= y
    BY <1>1, <1>2, <1>3
  <2> HIDE DEF x, y
  <2>2. x * Unit <= y * Unit /\ x * Unit \in Nat /\ y * Unit \in Nat
    BY <2>1, UnitSteps
  <2>3. 1 + y * Unit <= Len(ws.sizes) * CbufSize
    BY <1>1 DEF y
  <2>4. 1 + x * Unit <= Len(ws.sizes) * CbufSize
    BY <1>1, <2>2, <2>3
  <2> QED BY <2>4 DEF x
<1>5. u \in CacheTasks /\ Due(u) = Stretch(g, 1 + a, r)
  BY <1>1, <1>3, <1>4, CacheTaskMade
<1>6. p.seg = {s} /\ p.lba = b /\ p.len = n /\ p.seg # {}
  BY DEF Cache
<1>7. First(p.seg) = s
  <2>1. {s} \in SUBSET Segments /\ {s} # {}
    OBVIOUS
  <2>2. First({s}) \in {s}
    BY <2>1, FirstIsLeast
  <2> QED BY <1>6, <2>2
<1> HIDE DEF p, u
<1>8. PieceTask(p) = u
  BY <1>6, <1>7 DEF PieceTask, u, ws
<1>9. b - ws.lba \in Nat /\ a \in Nat /\ r \in Nat
  <2>1. b - ws.lba \in Nat
    BY <1>1, <1>3
  <2> QED BY <2>1, UnitSteps
<1>10. ASSUME NEW k \in 1 .. r
       PROVE  CachedByte(s, b + (k - 1) \div Unit, (k - 1) % Unit) = g[((1 + a) + k) - 1]
  <2> DEFINE d == (k - 1) \div Unit
             m == (k - 1) % Unit
             c == b - ws.lba
             at == 1 + ((b + d) - ws.lba) * Unit + m
  <2>1. d \in Nat /\ m \in 0 .. (Unit - 1) /\ (c + d) * Unit + m = (c * Unit + k) - 1
    BY <1>9, BlockOf
  <2>2. CachedByte(s, b + d, m) =
          [place |-> [seg |-> s.rlba, cbuf |-> at \div CbufSize], at |-> at % CbufSize]
    BY Zenon DEF CachedByte, DsOffset, LBA2OFFSET, ws
  <2> HIDE DEF d, m
  <2>3. (b + d) - ws.lba = c + d /\ c \in Nat
    BY <1>1, <1>9, <2>1, SMTT(30)
  <2> DEFINE w == (c + d) * Unit
             e == c * Unit
  <2>4. w \in Nat /\ e \in Nat /\ m \in Nat
    BY <2>1, <2>3, UnitSteps, UnitAssumption
  <2>5. at = (1 + w) + m
    BY <2>3
  <2>6. w + m = (e + k) - 1
    BY <2>1
  <2>7. a = e
    OBVIOUS
  <2> HIDE DEF at, w, e, a
  <2>8. at \in Nat /\ at = ((1 + a) + k) - 1
    BY <2>4, <2>5, <2>6, <2>7
  <2>9. g[at] = [place |-> [seg |-> s.rlba, cbuf |-> at \div CbufSize], at |-> at % CbufSize]
    BY <2>8 DEF SegTape
  <2> QED BY <2>2, <2>8, <2>9 DEF d, m
<1>11. PieceOwed(p) = [k \in 1 .. r |-> CachedByte(s, b + (k - 1) \div Unit, (k - 1) % Unit)]
  BY <1>6, <1>7 DEF PieceOwed, LBA2OFFSET
<1>12. PieceOwed(p) = Stretch(g, 1 + a, r)
  <2> HIDE DEF g, a, r
  <2> QED BY <1>10, <1>11 DEF Stretch
<1> QED BY <1>5, <1>8, <1>12 DEF p

LEMMA PieceGoes ==
  ASSUME StartsAtZero, segments \in SUBSET Segments, NEW p \in Pieces, p.len > 0,
         p.seg = {} => p.lba + p.len <= Size,
         p.seg # {} => First(p.seg).rlba <= p.lba /\ p.lba + p.len <= ReadEnd(First(p.seg))
  PROVE  PieceTask(p) \in DataTasks /\ PieceOwed(p) = Due(PieceTask(p))
<1> DEFINE b == p.lba
           n == p.len
<1>1. /\ b \in Nat /\ n \in Nat \ {0} /\ p.seg \in {{}} \cup {{s} : s \in Segments}
      /\ p = [seg |-> p.seg, lba |-> b, len |-> n]
  BY DEF Pieces
<1>2. CASE p.seg = {}
  <2>1. p = File(b, n) /\ b + n <= Size
    BY <1>1, <1>2 DEF File
  <2> HIDE DEF b, n
  <2>2. SendfileTask(b, n) \in FileTasks /\ PieceOwed(File(b, n)) = Due(SendfileTask(b, n))
        /\ PieceTask(File(b, n)) = SendfileTask(b, n)
    BY <1>1, <2>1, FilePieceGoes
  <2>3. PieceTask(p) = SendfileTask(b, n) /\ PieceOwed(p) = Due(SendfileTask(b, n))
    BY <2>1, <2>2, Zenon
  <2> QED BY <2>2, <2>3 DEF DataTasks
<1>3. CASE p.seg # {}
  <2>1. PICK s \in Segments : p.seg = {s}
    BY <1>1, <1>3
  <2>2. First({s}) = s
    <3>1. {s} \in SUBSET Segments /\ {s} # {}
      OBVIOUS
    <3>2. First({s}) \in {s}
      BY <3>1, FirstIsLeast
    <3> QED BY <3>2
  <2>3. s.rlba <= b /\ b + n <= ReadEnd(s) /\ p = Cache(s, b, n)
    BY <1>1, <1>3, <2>1, <2>2 DEF Cache
  <2> HIDE DEF b, n
  <2>4. PieceTask(Cache(s, b, n)) \in CacheTasks
        /\ PieceOwed(Cache(s, b, n)) = Due(PieceTask(Cache(s, b, n)))
    BY <1>1, <2>3, CachePieceGoes
  <2>5. PieceTask(p) \in CacheTasks /\ PieceOwed(p) = Due(PieceTask(p))
    BY <2>3, <2>4, Zenon
  <2> QED BY <2>5 DEF DataTasks
<1> QED BY <1>2, <1>3
-----------------------------------------------------------------------------
(* What a list of tasks still has to send.                                 *)
Dues(ts) == [i \in DOMAIN ts |-> Due(ts[i])]
Unsent(ts) == FlattenSeq(Dues(ts))

LEMMA UnsentType ==
  ASSUME NEW ts \in Seq(Tasks)
  PROVE  Dues(ts) \in Seq(Seq(Octets)) /\ Len(Dues(ts)) = Len(ts) /\ Unsent(ts) \in Seq(Octets)
<1> DEFINE n == Len(ts)
           d == Dues(ts)
<1>1. n \in Nat /\ DOMAIN ts = 1 .. n /\ \A i \in 1 .. n : ts[i] \in Tasks
  OBVIOUS
<1>2. \A i \in 1 .. n : Due(ts[i]) \in Seq(Octets)
  BY <1>1, DueType
<1>3. d \in [1 .. n -> Seq(Octets)]
  BY <1>1, <1>2 DEF Dues
<1> HIDE DEF d, n
<1>4. d \in Seq(Seq(Octets)) /\ Len(d) = n
  BY <1>1, <1>3
<1>5. FlattenSeq(d) \in Seq(Octets)
  BY <1>4, FlattenType
<1> QED BY <1>4, <1>5 DEF d, n, Unsent

LEMMA UnsentEmpty == Unsent(<< >>) = << >>
<1>1. Dues(<< >>) = << >>
  BY DEF Dues
<1> QED BY <1>1, FlattenEmpty DEF Unsent

LEMMA UnsentOne ==
  ASSUME NEW t \in Tasks
  PROVE  Unsent(<<t>>) = Due(t)
<1>1. Dues(<<t>>) = <<Due(t)>>
  BY DEF Dues
<1>2. FlattenSeq(<<Due(t)>>) = Due(t)
  BY DueType, FlattenOne
<1> QED BY <1>1, <1>2 DEF Unsent

LEMMA UnsentConcat ==
  ASSUME NEW ts \in Seq(Tasks), NEW us \in Seq(Tasks)
  PROVE  Unsent(ts \o us) = Unsent(ts) \o Unsent(us)
<1> DEFINE m == Len(ts)
           n == Len(us)
           w == ts \o us
           a == Dues(ts)
           b == Dues(us)
           c == a \o b
           d == Dues(w)
<1>1. /\ m \in Nat /\ n \in Nat /\ w \in Seq(Tasks) /\ Len(w) = m + n
      /\ a \in Seq(Seq(Octets)) /\ b \in Seq(Seq(Octets)) /\ Len(a) = m /\ Len(b) = n
  BY UnsentType
<1>2. d \in Seq(Seq(Octets)) /\ Len(d) = m + n
  <2> HIDE DEF w
  <2> QED BY <1>1, UnsentType
<1>3. /\ c \in Seq(Seq(Octets)) /\ Len(c) = m + n
      /\ \A k \in 1 .. (m + n) : c[k] = IF k <= m THEN a[k] ELSE b[k - m]
  <2> DEFINE S == Seq(Octets)
  <2> HIDE DEF a, b, m, n, S
  <2>1. a \in Seq(S) /\ b \in Seq(S) /\ Len(a) = m /\ Len(b) = n
    BY <1>1 DEF S
  <2>2. /\ c \in Seq(S) /\ Len(c) = Len(a) + Len(b)
        /\ \A k \in 1 .. (Len(a) + Len(b)) : c[k] = IF k <= Len(a) THEN a[k] ELSE b[k - Len(a)]
    BY <2>1, ConcatProperties, Zenon
  <2> HIDE DEF c
  <2> QED BY <2>1, <2>2 DEF S
<1>4. ASSUME NEW i \in 1 .. (m + n) PROVE c[i] = d[i]
  <2>1. d[i] = Due(w[i])
    <3> HIDE DEF w
    <3>1. DOMAIN w = 1 .. (m + n)
      BY <1>1
    <3> QED BY <3>1 DEF Dues
  <2>2. CASE i <= m
    <3>1. i \in 1 .. m /\ w[i] = ts[i] /\ i \in DOMAIN ts
      BY <1>1, <2>2
    <3>2. a[i] = Due(ts[i])
      BY <3>1 DEF Dues
    <3>3. c[i] = a[i]
      <4> HIDE DEF a, b, c, m, n
      <4> QED BY <1>3, <2>2
    <3> QED BY <2>1, <3>1, <3>2, <3>3, Zenon
  <2>3. CASE i > m
    <3> DEFINE j == i - m
    <3>1. j \in 1 .. n /\ w[i] = us[j] /\ j \in DOMAIN us
      BY <1>1, <2>3
    <3> HIDE DEF j
    <3>2. b[j] = Due(us[j])
      BY <3>1 DEF Dues
    <3>3. c[i] = b[j]
      <4> HIDE DEF a, b, c, m, n
      <4>1. ~(i <= m)
        BY <1>1, <2>3
      <4> QED BY <1>3, <4>1 DEF j
    <3> QED BY <2>1, <3>1, <3>2, <3>3, Zenon
  <2> QED BY <1>1, <2>2, <2>3
<1>5. c = d
  <2> HIDE DEF c, d, m, n
  <2> QED BY <1>2, <1>3, <1>4, SeqEqual
<1>6. FlattenSeq(c) = FlattenSeq(a) \o FlattenSeq(b)
  <2> HIDE DEF a, b
  <2> QED BY <1>1, FlattenConcat
<1> QED BY <1>5, <1>6, Zenon DEF Unsent

LEMMA UnsentHead ==
  ASSUME NEW ts \in Seq(Tasks), ts # << >>
  PROVE  /\ Head(ts) \in Tasks /\ Tail(ts) \in Seq(Tasks) /\ ts = <<Head(ts)>> \o Tail(ts)
         /\ Unsent(ts) = Due(Head(ts)) \o Unsent(Tail(ts))
         /\ \A u : [ts EXCEPT ![1] = u] = <<u>> \o Tail(ts)
<1> DEFINE t == Head(ts)
           us == Tail(ts)
<1>1. t \in Tasks /\ us \in Seq(Tasks) /\ ts = <<t>> \o us /\ <<t>> \in Seq(Tasks)
  OBVIOUS
<1>2. \A u : [ts EXCEPT ![1] = u] = <<u>> \o us
  OBVIOUS
<1> HIDE DEF t, us
<1>3. Unsent(<<t>> \o us) = Unsent(<<t>>) \o Unsent(us)
  BY <1>1, UnsentConcat
<1>4. Unsent(ts) = Due(t) \o Unsent(us)
  BY <1>1, <1>3, UnsentOne
<1> QED BY <1>1, <1>2, <1>4 DEF t, us

LEMMA UnsentFlatten ==
  ASSUME NEW ss \in Seq(Seq(Tasks))
  PROVE  /\ FlattenSeq(ss) \in Seq(Tasks)
         /\ Unsent(FlattenSeq(ss)) = FlattenSeq([i \in DOMAIN ss |-> Unsent(ss[i])])
<1> DEFINE n == Len(ss)
           p(k) == SubSeq(ss, 1, k)
           u == [i \in 1 .. n |-> Unsent(ss[i])]
           q(k) == SubSeq(u, 1, k)
           G == {k \in 0 .. n : Unsent(FlattenSeq(p(k))) = FlattenSeq(q(k))}
<1>1. n \in Nat /\ DOMAIN ss = 1 .. n /\ \A i \in 1 .. n : ss[i] \in Seq(Tasks)
  OBVIOUS
<1>2. u \in Seq(Seq(Octets)) /\ Len(u) = n /\ \A i \in 1 .. n : u[i] = Unsent(ss[i])
  <2>1. \A i \in 1 .. n : Unsent(ss[i]) \in Seq(Octets)
    BY <1>1, UnsentType
  <2>2. u \in [1 .. n -> Seq(Octets)]
    BY <2>1
  <2>3. \A i \in 1 .. n : u[i] = Unsent(ss[i])
    OBVIOUS
  <2> HIDE DEF u, n
  <2> QED BY <1>1, <2>2, <2>3
<1> HIDE DEF u
<1>3. 0 \in G
  <2>1. p(0) = << >> /\ q(0) = << >>
    BY <1>2, SubSeqEmpty
  <2>2. Unsent(FlattenSeq(p(0))) = FlattenSeq(q(0))
    BY <2>1, FlattenEmpty, UnsentEmpty
  <2> HIDE DEF p, q
  <2> QED BY <1>1, <2>2
<1>4. \A k \in 1 .. n : k - 1 \in G => k \in G
  <2> SUFFICES ASSUME NEW k \in 1 .. n, k - 1 \in G PROVE k \in G
    BY Zenon
  <2> DEFINE a == p(k - 1)
             b == q(k - 1)
             x == ss[k]
             y == u[k]
  <2>1. a \in Seq(Seq(Tasks)) /\ x \in Seq(Tasks) /\ p(k) = Append(a, x)
    OBVIOUS
  <2>2. b \in Seq(Seq(Octets)) /\ y \in Seq(Octets) /\ q(k) = Append(b, y) /\ y = Unsent(x)
    <3> HIDE DEF G, p, a, x, n
    <3>1. n \in Nat /\ u \in Seq(Seq(Octets)) /\ Len(u) = n
      BY <1>1, <1>2
    <3>2. u[k] = Unsent(ss[k])
      BY <1>2
    <3>3. SubSeq(u, 1, k - 1) \in Seq(Seq(Octets)) /\ u[k] \in Seq(Octets)
          /\ SubSeq(u, 1, k) = Append(SubSeq(u, 1, k - 1), u[k])
      BY <3>1
    <3> QED BY <3>2, <3>3 DEF x
  <2>3. Unsent(FlattenSeq(a)) = FlattenSeq(b)
    OBVIOUS
  <2> HIDE DEF a, b, x, y, p, q
  <2>4. FlattenSeq(Append(a, x)) = FlattenSeq(a) \o x /\ FlattenSeq(a) \in Seq(Tasks)
    BY <2>1, FlattenAppend, FlattenType
  <2>5. Unsent(FlattenSeq(a) \o x) = Unsent(FlattenSeq(a)) \o Unsent(x)
    BY <2>1, <2>4, UnsentConcat
  <2>6. FlattenSeq(Append(b, y)) = FlattenSeq(b) \o y
    BY <2>2, FlattenAppend
  <2>7. Unsent(FlattenSeq(p(k))) = FlattenSeq(q(k))
    BY <2>1, <2>2, <2>3, <2>4, <2>5, <2>6, Zenon
  <2>8. k \in 0 .. n
    BY <1>1
  <2> QED BY <2>7, <2>8
<1>5. \A k \in 0 .. n : k \in G
  <2> HIDE DEF G, n
  <2> QED BY <1>1, <1>3, <1>4, Climb, Zenon
<1>6. p(n) = ss /\ q(n) = u
  <2>1. SubSeq(ss, 1, Len(ss)) = ss
    BY SubSeqFull
  <2>2. SubSeq(u, 1, Len(u)) = u
    BY <1>2, SubSeqFull
  <2> QED BY <1>2, <2>1, <2>2
<1>7. Unsent(FlattenSeq(p(n))) = FlattenSeq(q(n))
  <2>1. n \in 0 .. n
    BY <1>1
  <2> HIDE DEF n, p, q
  <2> QED BY <1>5, <2>1
<1>8. [i \in DOMAIN ss |-> Unsent(ss[i])] = u
  BY <1>1 DEF u
<1>9. FlattenSeq(ss) \in Seq(Tasks)
  BY FlattenType
<1> HIDE DEF p, q, n
<1> QED BY <1>6, <1>7, <1>8, <1>9, Zenon

-----------------------------------------------------------------------------
(* What a handler queues is what it means to send.                         *)
LEMMA SendOwed ==
  ASSUME NEW x \in Places, NEW n \in Nat \ {0}
  PROVE  /\ SendTask(x, n) \in Tasks /\ SendTask(x, n) \in DataTasks /\ SendTask(x, n).kind # "close"
         /\ Due(SendTask(x, n)) = Bytes(x, 0, n) /\ Bytes(x, 0, n) \in Seq(Octets)
<1> DEFINE c == [id |-> x, offset |-> 0, tail |-> n]
           t == SendTask(x, n)
<1>1. t = [kind |-> "send", cbufs |-> <<c>>] /\ c \in [id : Places, offset : Nat, tail : Nat]
  BY DEF SendTask
<1>2. c.id = x /\ c.offset = 0 /\ c.tail = n /\ n - 0 = n /\ 0 < n /\ n \in Nat
  OBVIOUS
<1> HIDE DEF c, t
<1>3. t.kind = "send" /\ t.cbufs = <<c>> /\ t.cbufs[1] = c
  BY <1>1
<1>4. t \in SendTasks
  BY <1>1, <1>2, <1>3 DEF SendTasks
<1>5. Due(t) = Stretch(PlaceTape(x), 0, n)
  BY <1>2, <1>3 DEF Due
<1>6. Bytes(x, 0, n) = Stretch(PlaceTape(x), 0, n)
  BY <1>2, BytesAre
<1>7. Stretch(PlaceTape(x), 0, n) \in Seq(Octets)
  BY <1>2, PlaceTapeType, StretchType
<1> QED BY <1>3, <1>4, <1>5, <1>6, <1>7 DEF t, Tasks, DataTasks

LEMMA PduPlaces ==
  /\ Pdu("info", 0) \in Places /\ Pdu("later", 0) \in Places /\ Pdu("logout", 0) \in Places
  /\ \A i \in Nat : Pdu("read", i) \in Places
BY DEF Pdu, Places

(* The tasks that do not close the connection.                             *)
Quiet == {t \in Tasks : t.kind # "close"}

PduTasks(i) ==
  <<SendTask(Pdu("read", i), BhsSize + pdus[i].pad)>> \o [j \in DOMAIN pdus[i].pieces |-> PieceTask(pdus[i].pieces[j])]
PduOwed(i) ==
  Bytes(Pdu("read", i), 0, BhsSize + pdus[i].pad)
    \o FlattenSeq([j \in DOMAIN pdus[i].pieces |-> PieceOwed(pdus[i].pieces[j])])

LEMMA PduGoes ==
  ASSUME StartsAtZero, RInv, Plannable, NEW i \in DOMAIN pdus
  PROVE  PduTasks(i) \in Seq(Quiet) /\ Unsent(PduTasks(i)) = PduOwed(i) /\ PduOwed(i) \in Seq(Octets)
<1> DEFINE ps == pdus[i].pieces
           n == Len(ps)
           m == BhsSize + pdus[i].pad
           h == SendTask(Pdu("read", i), m)
           ts == [j \in DOMAIN ps |-> PieceTask(ps[j])]
           os == [j \in DOMAIN ps |-> PieceOwed(ps[j])]
<1>1. segments \in SUBSET Segments /\ i \in Nat /\ ps \in Seq(Pieces) /\ pdus[i].pad \in Nat
  <2>1. segments \in SUBSET Segments /\ pdus \in Seq(PduSet)
    BY DEF RInv, Request, Progress
  <2>2. i \in 1 .. Len(pdus) /\ Len(pdus) \in Nat
    BY <2>1
  <2>3. pdus[i] \in PduSet
    BY <2>1, <2>2, ElementOfSeq
  <2> QED BY <2>1, <2>2, <2>3 DEF PduSet
<1>2. \A j \in DOMAIN ps :
        /\ ps[j].len > 0
        /\ ps[j].seg = {} => ps[j].lba + ps[j].len <= Size
        /\ ps[j].seg # {} => /\ First(ps[j].seg).rlba <= ps[j].lba
                             /\ ps[j].lba + ps[j].len <= ReadEnd(First(ps[j].seg))
  BY Zenon DEF Plannable
<1>0. m \in Nat \ {0}
  BY <1>1, ReplyAssumption
<1> HIDE DEF ps
<1>3. n \in Nat /\ DOMAIN ps = 1 .. n /\ \A j \in 1 .. n : ps[j] \in Pieces
  BY <1>1
<1>4. ASSUME NEW j \in 1 .. n PROVE PieceTask(ps[j]) \in DataTasks /\ PieceOwed(ps[j]) = Due(PieceTask(ps[j]))
  <2> DEFINE p == ps[j]
  <2>1. /\ p \in Pieces /\ p.len > 0 /\ (p.seg = {} => p.lba + p.len <= Size)
        /\ p.seg # {} => First(p.seg).rlba <= p.lba /\ p.lba + p.len <= ReadEnd(First(p.seg))
    BY <1>2, <1>3
  <2> HIDE DEF p
  <2>2. PieceTask(p) \in DataTasks /\ PieceOwed(p) = Due(PieceTask(p))
    BY <1>1, <2>1, PieceGoes
  <2> QED BY <2>2 DEF p
<1>5. DataTasks \in SUBSET Quiet
  BY DEF Quiet, Tasks, DataTasks, SendTasks, CacheTasks, CacheSet, FileTasks
<1>6. ts \in Seq(Quiet) /\ Len(ts) = n
  <2>1. ts \in [1 .. n -> Quiet]
    BY <1>3, <1>4, <1>5
  <2> HIDE DEF ts
  <2> QED BY <1>3, <2>1
<1>7. h \in Quiet /\ Due(h) = Bytes(Pdu("read", i), 0, m) /\ Bytes(Pdu("read", i), 0, m) \in Seq(Octets)
  <2>1. Pdu("read", i) \in Places
    BY <1>1, PduPlaces
  <2> HIDE DEF m
  <2> QED BY <1>0, <2>1, SendOwed DEF Quiet
<1>8. PduTasks(i) = <<h>> \o ts /\ PduOwed(i) = Bytes(Pdu("read", i), 0, m) \o FlattenSeq(os)
  BY Zenon DEF PduTasks, PduOwed, ps
<1>9. Dues(ts) = os
  <2>1. DOMAIN ts = DOMAIN ps
    OBVIOUS
  <2>2. \A j \in DOMAIN ps : Due(ts[j]) = PieceOwed(ps[j])
    BY <1>3, <1>4
  <2> HIDE DEF ts
  <2> QED BY <2>1, <2>2 DEF Dues
<1> HIDE DEF h, ts, os, n, m
<1>10. ts \in Seq(Tasks) /\ h \in Tasks /\ <<h>> \in Seq(Tasks) /\ <<h>> \in Seq(Quiet)
  BY <1>6, <1>7 DEF Quiet
<1>11. <<h>> \o ts \in Seq(Quiet)
  BY <1>6, <1>10
<1>12. Unsent(<<h>> \o ts) = Due(h) \o FlattenSeq(os)
  <2>1. Unsent(<<h>> \o ts) = Unsent(<<h>>) \o Unsent(ts)
    BY <1>10, UnsentConcat
  <2>2. Unsent(<<h>>) = Due(h) /\ Unsent(ts) = FlattenSeq(os)
    BY <1>9, <1>10, UnsentOne DEF Unsent
  <2> QED BY <2>1, <2>2
<1>13. PduOwed(i) \in Seq(Octets)
  <2>1. PduTasks(i) \in Seq(Tasks)
    BY <1>8, <1>11 DEF Quiet
  <2>2. Unsent(PduTasks(i)) \in Seq(Octets)
    BY <2>1, UnsentType
  <2> QED BY <1>7, <1>8, <1>12, <2>2
<1> QED BY <1>7, <1>8, <1>11, <1>12, <1>13

LEMMA ReadGoes ==
  ASSUME StartsAtZero, RInv, Plannable
  PROVE  ReadTasks \in Seq(Quiet) /\ Unsent(ReadTasks) = ReadOwed /\ ReadOwed \in Seq(Octets)
<1> DEFINE n == Len(pdus)
           ss == [i \in DOMAIN pdus |-> PduTasks(i)]
           os == [i \in DOMAIN pdus |-> PduOwed(i)]
           fs == FlattenSeq(ss)
<1>1. n \in Nat /\ DOMAIN pdus = 1 .. n
  <2>1. pdus \in Seq(PduSet)
    BY DEF RInv, Progress
  <2> QED BY <2>1
<1>2. \A i \in 1 .. n : PduTasks(i) \in Seq(Quiet) /\ Unsent(PduTasks(i)) = PduOwed(i)
  BY <1>1, PduGoes
<1>3. ReadTasks = (<<CorkTask>> \o fs) \o <<UncorkTask>> /\ ReadOwed = FlattenSeq(os)
  BY Zenon DEF ReadTasks, ReadOwed, PduTasks, PduOwed
<1> HIDE DEF n
<1>4. ss \in Seq(Seq(Quiet)) /\ DOMAIN ss = 1 .. n /\ \A i \in 1 .. n : ss[i] = PduTasks(i)
  <2>1. ss \in [1 .. n -> Seq(Quiet)] /\ \A i \in 1 .. n : ss[i] = PduTasks(i)
    BY <1>1, <1>2
  <2> HIDE DEF ss
  <2> QED BY <1>1, <2>1
<1>5. os = [i \in DOMAIN ss |-> Unsent(ss[i])]
  <2> HIDE DEF ss
  <2> QED BY <1>1, <1>2, <1>4
<1> HIDE DEF ss, os
<1>6. ss \in Seq(Seq(Tasks))
  BY <1>4 DEF Quiet
<1>7. fs \in Seq(Quiet) /\ fs \in Seq(Tasks) /\ Unsent(fs) = FlattenSeq(os)
  BY <1>4, <1>5, <1>6, FlattenType, UnsentFlatten
<1> HIDE DEF fs
<1>8. CorkTask \in Quiet /\ UncorkTask \in Quiet /\ Due(CorkTask) = << >> /\ Due(UncorkTask) = << >>
  BY DEF CorkTask, UncorkTask, Quiet, Tasks, OtherTasks, Due
<1>9. /\ CorkTask \in Tasks /\ UncorkTask \in Tasks
      /\ <<CorkTask>> \in Seq(Tasks) /\ <<UncorkTask>> \in Seq(Tasks)
      /\ <<CorkTask>> \in Seq(Quiet) /\ <<UncorkTask>> \in Seq(Quiet)
  BY <1>8 DEF Quiet
<1> DEFINE a == <<CorkTask>> \o fs
<1>10. a \in Seq(Tasks) /\ a \in Seq(Quiet)
  BY <1>7, <1>9
<1>11. a \o <<UncorkTask>> \in Seq(Quiet)
  <2> HIDE DEF a
  <2> QED BY <1>9, <1>10
<1>12. Unsent(a) = << >> \o Unsent(fs)
  <2>1. Unsent(a) = Unsent(<<CorkTask>>) \o Unsent(fs)
    BY <1>7, <1>9, UnsentConcat
  <2>2. Unsent(<<CorkTask>>) = << >>
    BY <1>8, <1>9, UnsentOne
  <2> QED BY <2>1, <2>2
<1>13. Unsent(a \o <<UncorkTask>>) = Unsent(a) \o << >>
  <2> HIDE DEF a
  <2>1. Unsent(a \o <<UncorkTask>>) = Unsent(a) \o Unsent(<<UncorkTask>>)
    BY <1>9, <1>10, UnsentConcat
  <2>2. Unsent(<<UncorkTask>>) = << >>
    BY <1>8, <1>9, UnsentOne
  <2> QED BY <2>1, <2>2
<1>14. Unsent(fs) \in Seq(Octets)
  BY <1>7, UnsentType
<1>15. << >> \o Unsent(fs) = Unsent(fs) /\ Unsent(fs) \o << >> = Unsent(fs)
  BY <1>14, ConcatEmptySeq
<1> HIDE DEF a
<1>16. Unsent(a \o <<UncorkTask>>) = Unsent(fs)
  BY <1>12, <1>13, <1>15
<1>17. ReadTasks = a \o <<UncorkTask>>
  BY <1>3 DEF a
<1>18. ReadOwed = Unsent(fs)
  BY <1>3, <1>7
<1> QED BY <1>11, <1>14, <1>16, <1>17, <1>18

(* A list that is pushed into an empty queue stays as it is.               *)
LEMMA PushedAlone ==
  ASSUME NEW a, NEW b, NEW x \in Interleavings(<< >>, <<a, b>>)
  PROVE  x = <<a, b>>
<1> DEFINE t == <<a, b>>
           B(ps, i) == Cardinality({j \in ps : j < i})
<1>1. Len(<< >>) + Len(t) = 2 /\ Len(t) = 2
  OBVIOUS
<1>2. PICK ps \in {q \in SUBSET (1 .. 2) : Cardinality(q) = 2} :
        x = [i \in 1 .. 2 |-> IF i \in ps THEN t[B(ps, i) + 1] ELSE << >>[i - B(ps, i)]]
  BY <1>1 DEF Interleavings
<1>3. ps = 1 .. 2
  <2>1. IsFiniteSet(1 .. 2) /\ Cardinality(1 .. 2) = 2
    <3>1. 1 \in Int /\ 2 \in Int /\ ~(1 > 2) /\ 2 - 1 + 1 = 2
      OBVIOUS
    <3>2. IsFiniteSet(1 .. 2) /\ Cardinality(1 .. 2) = IF 1 > 2 THEN 0 ELSE 2 - 1 + 1
      BY <3>1, FS_Interval, Zenon
    <3> QED BY <3>1, <3>2
  <2>2. ps \in SUBSET (1 .. 2) /\ Cardinality(ps) = 2
    BY <1>2
  <2> QED BY <2>1, <2>2, FS_Subset
<1>4. {j \in ps : j < 1} = {} /\ {j \in ps : j < 2} = {1}
  BY <1>3
<1>5. B(ps, 1) = 0 /\ B(ps, 2) = 1
  BY <1>4, FS_EmptySet, FS_Singleton
<1> HIDE DEF B
<1>6. x[1] = a /\ x[2] = b
  BY <1>2, <1>3, <1>5
<1>7. x = [i \in 1 .. 2 |-> x[i]]
  BY <1>2
<1>8. \A i \in 1 .. 2 : i = 1 \/ i = 2
  OBVIOUS
<1> QED BY <1>6, <1>7, <1>8
-----------------------------------------------------------------------------
(* What holds between two steps while the reply is on its way: the wire    *)
(* and the pending tasks together are what the handlers owe, and nothing   *)
(* is behind the task that closes the connection.                          *)
Pending ==
  /\ tasks \in Seq(Tasks) /\ wire \in Seq(Octets) /\ owed \in Seq(Octets)
  /\ owed = wire \o Unsent(tasks)
Closes ==
  /\ ~crashed
  /\ \A i \in 1 .. Len(tasks) : tasks[i].kind = "close" => i = Len(tasks) /\ later = MaxLater
  /\ ~conn => tasks = << >>
OrderInv ==
  /\ phase # "sent" =>
       tasks = << >> /\ wire = << >> /\ owed = << >> /\ conn /\ ~crashed /\ ~merged
  /\ merged => later = MaxLater
  /\ phase = "sent" /\ Plannable /\ ~merged => Pending /\ Closes

LEMMA OrderInvOrders == ASSUME OrderInv PROVE InOrder
<1> SUFFICES ASSUME ~merged, Plannable
             PROVE IsPrefix(wire, owed) /\ (tasks = << >> => wire = owed) /\ ~crashed
  BY DEF InOrder
<1>1. CASE phase # "sent"
  <2>1. wire = << >> /\ owed = << >> /\ ~crashed
    BY <1>1 DEF OrderInv
  <2> QED BY <2>1 DEF IsPrefix
<1>2. CASE phase = "sent"
  <2>1. Pending /\ ~crashed
    BY <1>2 DEF OrderInv, Closes
  <2> DEFINE u == Unsent(tasks)
  <2>2. wire \in Seq(Octets) /\ owed \in Seq(Octets) /\ u \in Seq(Octets) /\ owed = wire \o u
    BY <2>1, UnsentType DEF Pending
  <2> HIDE DEF u
  <2>3. Len(wire) <= Len(owed) /\ SubSeq(owed, 1, Len(wire)) = wire
    BY <2>2
  <2>4. SubSeq(wire, 1, Len(wire)) = wire
    BY <2>2, SubSeqFull
  <2>5. tasks = << >> => u = << >>
    BY UnsentEmpty DEF u
  <2>6. tasks = << >> => wire = owed
    BY <2>2, <2>5, ConcatEmptySeq
  <2> QED BY <2>1, <2>3, <2>4, <2>6 DEF IsPrefix
<1> QED BY <1>1, <1>2

(* The queue after a step: the first task is as it was, or gone, or went   *)
(* forward by as many bytes as the wire got.                               *)
LEMMA TaskGoes ==
  ASSUME Pending, Closes, tasks # << >>, Head(tasks) \in DataTasks,
         NEW n \in 0 .. Len(Due(Head(tasks))), wire' = wire \o SubSeq(Due(Head(tasks)), 1, n),
         \/ n = 0 /\ tasks' = tasks
         \/ n = Len(Due(Head(tasks))) /\ tasks' = Tail(tasks)
         \/ \E u : GoesOn(Head(tasks), u, n) /\ tasks' = <<u>> \o Tail(tasks),
         UNCHANGED <<conn, crashed, owed, later>>
  PROVE  Pending' /\ Closes'
<1> DEFINE t == Head(tasks)
           us == Tail(tasks)
           d == Due(t)
           w == SubSeq(d, 1, n)
<1>1. t \in Tasks /\ us \in Seq(Tasks) /\ tasks = <<t>> \o us /\ Unsent(tasks) = d \o Unsent(us)
  BY UnsentHead DEF Pending
<1>2. d \in Seq(Octets) /\ Unsent(us) \in Seq(Octets) /\ wire \in Seq(Octets)
  BY <1>1, DueType, UnsentType DEF Pending
<1>3. w \in Seq(Octets) /\ wire \o w \in Seq(Octets)
  <2> HIDE DEF d
  <2>1. w \in Seq(Octets)
    <3>1. d \in Seq(Octets) /\ n \in 0 .. Len(d)
      BY <1>2 DEF d
    <3> QED BY <3>1
  <2> HIDE DEF w
  <2> QED BY <1>2, <2>1
<1>4. owed = wire \o (d \o Unsent(us)) /\ owed \in Seq(Octets) /\ tasks \in Seq(Tasks)
  BY <1>1 DEF Pending
<1>5. wire' = wire \o w /\ owed' = owed /\ later' = later /\ conn' = conn /\ crashed' = crashed
  OBVIOUS
<1>6. DataTasks \in SUBSET Quiet
  BY DEF Quiet, Tasks, DataTasks, SendTasks, CacheTasks, CacheSet, FileTasks
<1>7. conn /\ ~crashed
  BY DEF Closes
<1>8. \A i \in 1 .. Len(tasks) : tasks[i].kind = "close" => i = Len(tasks) /\ later = MaxLater
  BY DEF Closes
<1> HIDE DEF t, us, d, w
<1>9. CASE n = 0 /\ tasks' = tasks
  <2>1. w = << >>
    BY <1>9, SubSeqEmpty DEF w
  <2>2. wire' = wire
    BY <1>2, <1>5, <2>1, ConcatEmptySeq
  <2> QED BY <1>5, <1>9, <2>2 DEF Pending, Closes, Unsent, Dues
<1>10. CASE n = Len(d) /\ tasks' = us
  <2>1. w = d
    BY <1>2, <1>10, SubSeqFull DEF w
  <2>2. wire \o (d \o Unsent(us)) = (wire \o d) \o Unsent(us)
    <3> DEFINE x == Unsent(us)
    <3>1. x \in Seq(Octets)
      BY <1>2
    <3> HIDE DEF x
    <3>2. wire \in Seq(Octets) /\ d \in Seq(Octets)
      BY <1>2
    <3>3. Cat(Cat(wire, d), x) = Cat(wire, Cat(d, x))
      BY <3>1, <3>2, CatThree
    <3> QED BY <3>3, Zenon DEF x, Cat
  <2>3. Unsent(tasks)' = Unsent(us)
    BY <1>10 DEF Unsent, Dues
  <2>4. Pending'
    BY <1>1, <1>3, <1>4, <1>5, <1>10, <2>1, <2>2, <2>3 DEF Pending
  <2>5. \A i \in 1 .. Len(us) : us[i].kind = "close" => i = Len(us) /\ later = MaxLater
    <3> SUFFICES ASSUME NEW i \in 1 .. Len(us), us[i].kind = "close"
                 PROVE  i = Len(us) /\ later = MaxLater
      OBVIOUS
    <3>1. Len(tasks) = Len(us) + 1 /\ i + 1 \in 1 .. Len(tasks) /\ tasks[i + 1] = us[i] /\ Len(us) \in Nat
      BY <1>1
    <3>2. i + 1 = Len(tasks) /\ later = MaxLater
      BY <1>8, <3>1
    <3> QED BY <3>1, <3>2
  <2> QED BY <1>5, <1>7, <1>10, <2>4, <2>5 DEF Closes
<1>11. CASE \E u : GoesOn(t, u, n) /\ tasks' = <<u>> \o us
  <2>1. PICK u : GoesOn(t, u, n) /\ tasks' = <<u>> \o us
    BY <1>11
  <2>2. u \in DataTasks /\ u \in Tasks /\ u.kind # "close" /\ d = w \o Due(u)
    BY <1>6, <2>1 DEF GoesOn, Quiet, d, w
  <2>3. Due(u) \in Seq(Octets) /\ <<u>> \in Seq(Tasks)
    BY <2>2, DueType
  <2>4. Unsent(<<u>> \o us) = Due(u) \o Unsent(us)
    <3>1. Unsent(<<u>> \o us) = Unsent(<<u>>) \o Unsent(us)
      BY <1>1, <2>3, UnsentConcat
    <3> QED BY <2>2, <3>1, UnsentOne
  <2>5. wire \o ((w \o Due(u)) \o Unsent(us)) = (wire \o w) \o (Due(u) \o Unsent(us))
    <3> DEFINE x == Unsent(us)
               v == Due(u)
    <3>1. x \in Seq(Octets) /\ v \in Seq(Octets) /\ wire \in Seq(Octets) /\ w \in Seq(Octets)
      BY <1>2, <1>3, <2>3
    <3> HIDE DEF x, v
    <3>2. Cat(Cat(w, v), x) = Cat(w, Cat(v, x)) /\ v \o x \in Seq(Octets)
      <4>1. Cat(Cat(w, v), x) = Cat(w, Cat(v, x))
        BY <3>1, CatThree
      <4>2. v \o x \in Seq(Octets)
        BY <3>1, ConcatProperties
      <4> QED BY <4>1, <4>2
    <3>3. wire \o (w \o (v \o x)) = (wire \o w) \o (v \o x)
      <4> DEFINE y == v \o x
      <4>1. y \in Seq(Octets)
        BY <3>2
      <4> HIDE DEF y
      <4>2. (wire \o w) \o y = wire \o (w \o y)
        <5>1. Cat(Cat(wire, w), y) = Cat(wire, Cat(w, y))
          BY <3>1, <4>1, CatThree
        <5> QED BY <5>1, Zenon DEF Cat
      <4> QED BY <4>2 DEF y
    <3>4. wire \o ((w \o v) \o x) = (wire \o w) \o (v \o x)
      BY <3>2, <3>3, Zenon DEF Cat
    <3> QED BY <3>4 DEF x, v
  <2>6. Unsent(tasks)' = Unsent(<<u>> \o us)
    BY <2>1 DEF Unsent, Dues
  <2>7. <<u>> \o us \in Seq(Tasks)
    BY <1>1, <2>3
  <2>8. owed' = wire' \o Unsent(tasks)'
    BY <1>4, <1>5, <2>2, <2>4, <2>5, <2>6, Zenon
  <2>9. Pending'
    BY <1>3, <1>4, <1>5, <2>1, <2>7, <2>8 DEF Pending
  <2> DEFINE vs == <<u>> \o us
  <2>10. \A i \in 1 .. Len(vs) : vs[i].kind = "close" => i = Len(vs) /\ later = MaxLater
    <3> SUFFICES ASSUME NEW i \in 1 .. Len(vs), vs[i].kind = "close"
                 PROVE  i = Len(vs) /\ later = MaxLater
      OBVIOUS
    <3>1. Len(vs) = Len(us) + 1 /\ Len(tasks) = Len(us) + 1 /\ vs[1] = u /\ Len(us) \in Nat
      BY <1>1
    <3>2. i # 1
      BY <2>2, <3>1
    <3>3. vs[i] = tasks[i] /\ i \in 1 .. Len(tasks)
      <4>1. i - 1 \in 1 .. Len(us) /\ vs[i] = us[i - 1] /\ tasks[i] = us[i - 1] /\ i \in 1 .. Len(tasks)
        BY <1>1, <3>1, <3>2
      <4> QED BY <4>1
    <3> QED BY <1>8, <3>1, <3>3
  <2> QED BY <1>5, <1>7, <2>1, <2>9, <2>10 DEF Closes
<1> QED BY <1>9, <1>10, <1>11 DEF t, us, d

(* The task at the head of the queue, by its kind.                         *)
LEMMA HeadIs ==
  ASSUME Pending, tasks # << >>
  PROVE  LET t == Head(tasks) IN
         /\ t \in Tasks /\ Tail(tasks) \in Seq(Tasks)
         /\ t.kind = "send" => t \in SendTasks
         /\ t.kind = "cache" => t \in CacheTasks
         /\ t.kind = "file" => t \in FileTasks
         /\ t.kind \in {"cork", "uncork", "close"} => Due(t) = << >>
<1> DEFINE t == Head(tasks)
<1>1. t \in Tasks /\ Tail(tasks) \in Seq(Tasks)
  BY UnsentHead DEF Pending
<1> HIDE DEF t
<1>2. /\ t \in SendTasks => t.kind = "send"
      /\ t \in CacheTasks => t.kind = "cache"
      /\ t \in FileTasks => t.kind = "file"
      /\ t \in OtherTasks => t.kind \in {"cork", "uncork", "close"}
  BY DEF SendTasks, CacheTasks, CacheSet, FileTasks, OtherTasks
<1>3. t \in SendTasks \/ t \in CacheTasks \/ t \in FileTasks \/ t \in OtherTasks
  BY <1>1 DEF Tasks, DataTasks
<1>4. t.kind \in {"cork", "uncork", "close"} => Due(t) = << >>
  BY DEF Due
<1> QED BY <1>1, <1>2, <1>3, <1>4 DEF t

LEMMA SendOrdered ==
  ASSUME Pending, Closes, RunSend, UNCHANGED <<owed, later>>
  PROVE  Pending' /\ Closes'
<1> DEFINE t == Head(tasks)
           d == Due(t)
<1>1. tasks # << >> /\ t.kind = "send"
  BY DEF RunSend, Running, Head1
<1>2. t \in SendTasks /\ t \in DataTasks
  BY <1>1, HeadIs DEF DataTasks
<1>3. /\ d \in Seq(Octets) /\ SendBytes(t) = d /\ SendRemain(t) = Len(d)
      /\ \A k \in 1 .. (Len(d) - 1) : GoesOn(t, SendStepForward(t, k), k)
  BY <1>2, SendGoes
<1>4. PICK n \in 0 .. Len(SendBytes(t)) :
        /\ wire' = wire \o SubSeq(SendBytes(t), 1, n)
        /\ \/ n = 0 /\ TryAgain /\ UNCHANGED tasks
           \/ n > 0 /\ n = SendRemain(t) /\ Pop /\ waiting' = FALSE
           \/ /\ n > 0 /\ n # SendRemain(t)
              /\ tasks' = [tasks EXCEPT ![1] = SendStepForward(@, n)]
              /\ UNCHANGED <<invoking, waiting>>
  BY DEF RunSend, Writev, Head1
<1>5. UNCHANGED <<conn, crashed, owed, later>>
  BY DEF RunSend, Writev
<1>6. tasks[1] = t /\ \A u : [tasks EXCEPT ![1] = u] = <<u>> \o Tail(tasks)
  BY <1>1, UnsentHead DEF Pending
<1>7. n \in 0 .. Len(d) /\ wire' = wire \o SubSeq(d, 1, n)
  BY <1>3, <1>4, Zenon
<1>8. \/ n = 0 /\ tasks' = tasks
      \/ n = Len(d) /\ tasks' = Tail(tasks)
      \/ n \in 1 .. (Len(d) - 1) /\ tasks' = <<SendStepForward(t, n)>> \o Tail(tasks)
  <2> DEFINE m == Len(d)
             u == SendStepForward(t, n)
  <2>1. m \in Nat /\ n \in 0 .. m /\ SendRemain(t) = m
    BY <1>3, <1>7
  <2>2. [tasks EXCEPT ![1] = SendStepForward(@, n)] = <<u>> \o Tail(tasks)
    BY <1>6, Zenon
  <2>3. \/ n = 0 /\ tasks' = tasks
        \/ n = m /\ tasks' = Tail(tasks)
        \/ n > 0 /\ n # m /\ tasks' = <<u>> \o Tail(tasks)
    BY <1>4, <2>1, <2>2, Zenon DEF Pop
  <2> HIDE DEF m, u
  <2>4. \/ n = 0 /\ tasks' = tasks
        \/ n = m /\ tasks' = Tail(tasks)
        \/ n \in 1 .. (m - 1) /\ tasks' = <<u>> \o Tail(tasks)
    <3>1. n > 0 /\ n # m => n \in 1 .. (m - 1)
      BY <2>1
    <3> QED BY <2>3, <3>1, Zenon
  <2> QED BY <2>4, Zenon DEF m, u
<1>9. \/ n = 0 /\ tasks' = tasks
      \/ n = Len(d) /\ tasks' = Tail(tasks)
      \/ \E u : GoesOn(t, u, n) /\ tasks' = <<u>> \o Tail(tasks)
  BY <1>3, <1>8, Zenon
<1> QED BY <1>1, <1>2, <1>5, <1>7, <1>9, TaskGoes, Zenon

LEMMA CacheOrdered ==
  ASSUME Pending, Closes, RunCache, UNCHANGED <<owed, later>>
  PROVE  Pending' /\ Closes'
<1> DEFINE t == Head(tasks)
           d == Due(t)
<1>1. tasks # << >> /\ t.kind = "cache"
  BY DEF RunCache, Running, Head1
<1>2. t \in CacheTasks /\ t \in DataTasks
  BY <1>1, HeadIs DEF DataTasks
<1>3. /\ d \in Seq(Octets) /\ CacheBytes(t) = d /\ t.total_remain = Len(d)
      /\ \A k \in 1 .. (Len(d) - 1) : GoesOn(t, CacheRest(t, k), k)
  BY <1>2, CacheGoes
<1>4. PICK n \in 0 .. Len(CacheBytes(t)) :
        /\ wire' = wire \o SubSeq(CacheBytes(t), 1, n)
        /\ \/ n = 0 /\ TryAgain /\ UNCHANGED tasks
           \/ n > 0 /\ n = t.total_remain /\ Pop /\ waiting' = FALSE
           \/ /\ n > 0 /\ n # t.total_remain
              /\ tasks' = [tasks EXCEPT ![1] = CacheRest(@, n)]
              /\ UNCHANGED <<invoking, waiting>>
  BY DEF RunCache, Writev, Head1
<1>5. UNCHANGED <<conn, crashed, owed, later>>
  BY DEF RunCache, Writev
<1>6. tasks[1] = t /\ \A u : [tasks EXCEPT ![1] = u] = <<u>> \o Tail(tasks)
  BY <1>1, UnsentHead DEF Pending
<1>7. n \in 0 .. Len(d) /\ wire' = wire \o SubSeq(d, 1, n)
  BY <1>3, <1>4, Zenon
<1>8. \/ n = 0 /\ tasks' = tasks
      \/ n = Len(d) /\ tasks' = Tail(tasks)
      \/ n \in 1 .. (Len(d) - 1) /\ tasks' = <<CacheRest(t, n)>> \o Tail(tasks)
  <2> DEFINE m == Len(d)
             u == CacheRest(t, n)
  <2>1. m \in Nat /\ n \in 0 .. m /\ t.total_remain = m
    BY <1>3, <1>7
  <2>2. [tasks EXCEPT ![1] = CacheRest(@, n)] = <<u>> \o Tail(tasks)
    BY <1>6, Zenon
  <2>3. \/ n = 0 /\ tasks' = tasks
        \/ n = m /\ tasks' = Tail(tasks)
        \/ n > 0 /\ n # m /\ tasks' = <<u>> \o Tail(tasks)
    BY <1>4, <2>1, <2>2, Zenon DEF Pop
  <2> HIDE DEF m, u
  <2>4. \/ n = 0 /\ tasks' = tasks
        \/ n = m /\ tasks' = Tail(tasks)
        \/ n \in 1 .. (m - 1) /\ tasks' = <<u>> \o Tail(tasks)
    <3>1. n > 0 /\ n # m => n \in 1 .. (m - 1)
      BY <2>1
    <3> QED BY <2>3, <3>1, Zenon
  <2> QED BY <2>4, Zenon DEF m, u
<1>9. \/ n = 0 /\ tasks' = tasks
      \/ n = Len(d) /\ tasks' = Tail(tasks)
      \/ \E u : GoesOn(t, u, n) /\ tasks' = <<u>> \o Tail(tasks)
  BY <1>3, <1>8, Zenon
<1> QED BY <1>1, <1>2, <1>5, <1>7, <1>9, TaskGoes, Zenon


LEMMA FileOrdered ==
  ASSUME StartsAtZero, Pending, Closes, RunFile, UNCHANGED <<owed, later>>
  PROVE  Pending' /\ Closes'
<1> DEFINE t == Head(tasks)
           d == Due(t)
           q == t.offset
           r == t.remain
           ls == getLowHandles(q, r)
           l == Head(ls)
           v(n) == [kind |-> "file", offset |-> q + n, remain |-> r - n]
<1>1. tasks # << >> /\ t.kind = "file"
  BY DEF RunFile, Running, Head1
<1>2. t \in FileTasks /\ t \in DataTasks
  BY <1>1, HeadIs DEF DataTasks
<1>3. /\ d \in Seq(Octets) /\ Len(d) = r /\ r \in Nat \ {0}
      /\ ls # << >> /\ l.length \in 1 .. r /\ (Len(ls) <= 1 <=> l.length = r)
      /\ \A n \in 0 .. l.length : Bytes([path |-> l.path], l.offset, n) = SubSeq(d, 1, n)
      /\ \A n \in 0 .. (r - 1) : GoesOn(t, v(n), n)
  BY <1>2, FileGoes
<1>4. PICK n \in 0 .. l.length :
        /\ wire' = wire \o Bytes([path |-> l.path], l.offset, n)
        /\ IF r > 0 /\ n = l.length /\ Len(ls) <= 1 THEN Pop /\ waiting' = FALSE
           ELSE tasks' = [tasks EXCEPT ![1].offset = @ + n, ![1].remain = @ - n]
  <2>1. (IF ls = << >> THEN [path |-> "", offset |-> 0, length |-> 0] ELSE Head(ls)) = l
    BY <1>3, Zenon
  <2> QED BY <2>1, Zenon DEF RunFile, Head1
<1>5. UNCHANGED <<conn, crashed, owed, later>>
  BY DEF RunFile
<1>6. /\ Tail(tasks) \in Seq(Tasks) /\ tasks = <<t>> \o Tail(tasks) /\ tasks \in Seq(Tasks)
      /\ \A u : [tasks EXCEPT ![1] = u] = <<u>> \o Tail(tasks)
  BY <1>1, UnsentHead DEF Pending
<1>7. n \in 0 .. Len(d) /\ wire' = wire \o SubSeq(d, 1, n) /\ n \in Nat
  <2>1. wire' = wire \o SubSeq(d, 1, n)
    BY <1>3, <1>4, ZenonT(60)
  <2>2. Len(d) = r /\ r \in Nat /\ l.length \in 1 .. r /\ n \in 0 .. l.length
    BY <1>3, <1>4
  <2> HIDE DEF l, r, d, ls
  <2>3. n \in 0 .. Len(d) /\ n \in Nat
    BY <2>2
  <2> QED BY <2>1, <2>3
<1>8. [tasks EXCEPT ![1].offset = @ + n, ![1].remain = @ - n] = <<v(n)>> \o Tail(tasks)
  <2> DEFINE a == [t EXCEPT !.offset = q + n]
             ts == [tasks EXCEPT ![1] = a]
  <2>1. t = [kind |-> "file", offset |-> q, remain |-> r] /\ q \in Nat /\ r \in Nat
    BY <1>2 DEF FileTasks
  <2>2. tasks[1] = t /\ 1 \in DOMAIN tasks /\ Len(tasks) \in Nat
    BY <1>1, <1>6
  <2>3. a.remain = r /\ [a EXCEPT !.remain = r - n] = v(n)
    <3> DEFINE x == q + n
               y == r - n
    <3> HIDE DEF x, y
    <3>1. [t EXCEPT !.offset = x] = [kind |-> "file", offset |-> x, remain |-> r]
      BY <2>1
    <3>2. [[kind |-> "file", offset |-> x, remain |-> r] EXCEPT !.remain = y]
            = [kind |-> "file", offset |-> x, remain |-> y]
      OBVIOUS
    <3>3. [kind |-> "file", offset |-> x, remain |-> r].remain = r
      OBVIOUS
    <3> QED BY <3>1, <3>2, <3>3, Zenon DEF x, y
  <2>4. ts[1] = a
    BY <2>2
  <2>5. [tasks EXCEPT ![1].offset = @ + n, ![1].remain = @ - n]
          = [ts EXCEPT ![1] = [a EXCEPT !.remain = r - n]]
    BY <2>2, <2>3, <2>4
  <2>6. [ts EXCEPT ![1] = v(n)] = [tasks EXCEPT ![1] = v(n)]
    <3> HIDE DEF a, v
    <3> QED BY <2>2
  <2> QED BY <1>6, <2>3, <2>5, <2>6, Zenon
<1>9. \/ n = Len(d) /\ tasks' = Tail(tasks)
      \/ n \in 0 .. (r - 1) /\ tasks' = <<v(n)>> \o Tail(tasks)
  <2>1. CASE r > 0 /\ n = l.length /\ Len(ls) <= 1
    <3>1. tasks' = Tail(tasks)
      BY <1>4, <2>1, ZenonT(60) DEF Pop
    <3>2. n = Len(d)
      BY <1>3, <2>1
    <3> QED BY <3>1, <3>2, SMTT(30)
  <2>2. CASE ~(r > 0 /\ n = l.length /\ Len(ls) <= 1)
    <3>1. tasks' = <<v(n)>> \o Tail(tasks)
      BY <1>4, <1>8, <2>2
    <3>2. n \in 0 .. (r - 1)
      <4> HIDE DEF l, r, ls, d, t
      <4>1. n \in Nat /\ n <= l.length /\ l.length <= r /\ r > 0 /\ l.length \in Nat /\ r \in Nat
        BY <1>3, <1>4
      <4>2. n # r
        BY <1>3, <2>2, <4>1
      <4> QED BY <4>1, <4>2
    <3> QED BY <3>1, <3>2, SMTT(30)
  <2> QED BY <2>1, <2>2
<1>10. \/ n = 0 /\ tasks' = tasks
       \/ n = Len(d) /\ tasks' = Tail(tasks)
       \/ \E u : GoesOn(t, u, n) /\ tasks' = <<u>> \o Tail(tasks)
  BY <1>3, <1>9, Zenon
<1> QED BY <1>1, <1>2, <1>5, <1>7, <1>10, TaskGoes, ZenonT(60)

(* The tasks that send nothing, and the one that closes the connection,    *)
(* which is the last.                                                      *)
LEMMA OtherOrdered ==
  ASSUME Pending, Closes, RunCork \/ RunClose, UNCHANGED <<owed, later>>
  PROVE  Pending' /\ Closes'
<1> DEFINE t == Head(tasks)
           us == Tail(tasks)
<1>1. tasks # << >> /\ t.kind \in {"cork", "uncork", "close"} /\ tasks' = us
  BY DEF RunCork, RunClose, Running, Head1, Pop
<1>2. UNCHANGED <<wire, crashed, owed, later>>
  BY DEF RunCork, RunClose
<1>3. Due(t) = << >> /\ us \in Seq(Tasks) /\ Unsent(tasks) = Due(t) \o Unsent(us)
  BY <1>1, HeadIs, UnsentHead DEF Pending
<1>4. /\ tasks \in Seq(Tasks) /\ wire \in Seq(Octets) /\ owed \in Seq(Octets)
      /\ owed = wire \o Unsent(tasks) /\ Unsent(us) \in Seq(Octets)
  BY <1>3, UnsentType DEF Pending
<1>5. Unsent(tasks) = Unsent(us)
  <2> DEFINE x == Unsent(us)
  <2>1. x \in Seq(Octets)
    BY <1>4
  <2> HIDE DEF x
  <2>2. << >> \o x = x
    BY <2>1, ConcatEmptySeq
  <2> QED BY <1>3, <2>2 DEF x
<1>6. Unsent(tasks)' = Unsent(us)
  BY <1>1 DEF Unsent, Dues
<1>7. Pending'
  BY <1>1, <1>2, <1>3, <1>4, <1>5, <1>6 DEF Pending
<1>8. /\ ~crashed
      /\ \A i \in 1 .. Len(tasks) : tasks[i].kind = "close" => i = Len(tasks) /\ later = MaxLater
      /\ ~conn => tasks = << >>
  BY DEF Closes
<1>9. Len(tasks) = Len(us) + 1 /\ Len(us) \in Nat /\ tasks[1] = t
      /\ \A i \in 1 .. Len(us) : i + 1 \in 1 .. Len(tasks) /\ tasks[i + 1] = us[i]
  BY <1>1, <1>4
<1> HIDE DEF us, t
<1>10. \A i \in 1 .. Len(us) : us[i].kind = "close" => i = Len(us) /\ later = MaxLater
  BY <1>8, <1>9
<1>11. conn' \/ us = << >>
  <2>1. CASE RunCork
    <3>1. conn' = conn
      BY <2>1 DEF RunCork
    <3> QED BY <1>1, <1>8, <3>1
  <2>2. CASE RunClose
    <3>1. tasks[1].kind = "close"
      BY <2>2, <1>9 DEF RunClose, Running, Head1, t
    <3>2. Len(us) = 0
      BY <1>8, <1>9, <3>1
    <3> QED BY <1>3, <3>2
  <2> QED BY <2>1, <2>2
<1> QED BY <1>1, <1>2, <1>7, <1>8, <1>10, <1>11 DEF Closes

LEMMA QueueOrdered ==
  ASSUME StartsAtZero, Pending, Closes, QueueNext, UNCHANGED <<owed, later>>
  PROVE  Pending' /\ Closes'
<1>1. CASE RunSend
  BY <1>1, SendOrdered
<1>2. CASE RunCache
  BY <1>2, CacheOrdered
<1>3. CASE RunFile
  BY <1>3, FileOrdered
<1>4. CASE RunCork \/ RunClose
  BY <1>4, OtherOrdered
<1>5. ~RunOrphan
  BY DEF RunOrphan, Running, Closes
<1>6. CASE Writable
  BY <1>6 DEF Writable, Pending, Closes, Unsent, Dues
<1> QED BY <1>1, <1>2, <1>3, <1>4, <1>5, <1>6 DEF QueueNext
-----------------------------------------------------------------------------

LEMMA ConcatNth ==
  ASSUME NEW S, NEW x \in Seq(S), NEW y \in Seq(S)
  PROVE  /\ Len(x \o y) = Len(x) + Len(y)
         /\ \A i \in 1 .. (Len(x) + Len(y)) :
              (x \o y)[i] = IF i <= Len(x) THEN x[i] ELSE y[i - Len(x)]
OBVIOUS

LEMMA Pair ==
  ASSUME NEW S, NEW a \in S, NEW b \in S
  PROVE  <<a, b>> \in Seq(S) /\ <<a, b>> = <<a>> \o <<b>>
<1> DEFINE p == <<a>> \o <<b>>
<1>1. <<a, b>> \in Seq(S) /\ Len(<<a, b>>) = 2 /\ p \in Seq(S) /\ Len(p) = 2
  OBVIOUS
<1>2. p[1] = a /\ p[2] = b /\ \A i \in 1 .. 2 : i = 1 \/ i = 2
  OBVIOUS
<1> HIDE DEF p
<1>3. \A i \in 1 .. 2 : p[i] = <<a, b>>[i]
  BY <1>2
<1>4. p = <<a, b>>
  BY <1>1, <1>3, SeqEqual
<1> QED BY <1>1, <1>4 DEF p

(* A reply is pushed behind the pending tasks.                             *)
LEMMA PushOrdered ==
  ASSUME Pending, Closes, conn, later < MaxLater \/ tasks = << >>,
         NEW ts \in Seq(Quiet), NEW bs, bs \in Seq(Octets), Unsent(ts) = bs,
         tasks' = tasks \o ts, owed' = owed \o bs, later' \in Nat, later \in Nat,
         UNCHANGED <<wire, conn, crashed>>
  PROVE  Pending' /\ Closes'
<1> DEFINE u == Unsent(tasks)
           m == Len(tasks)
           n == Len(ts)
<1>1. tasks \in Seq(Tasks) /\ ts \in Seq(Tasks) /\ m \in Nat /\ n \in Nat
  BY DEF Pending, Quiet
<1>2. Unsent(tasks \o ts) = u \o bs /\ u \in Seq(Octets)
  BY <1>1, UnsentConcat, UnsentType
<1>3. wire \in Seq(Octets) /\ owed \in Seq(Octets) /\ owed = wire \o u
  BY DEF Pending
<1>4. Unsent(tasks)' = u \o bs
  BY <1>2 DEF Unsent, Dues
<1> HIDE DEF u
<1>5. owed' = wire' \o (u \o bs) /\ owed' \in Seq(Octets)
  <2>1. (wire \o u) \o bs = wire \o (u \o bs)
    <3>1. Cat(Cat(wire, u), bs) = Cat(wire, Cat(u, bs))
      BY <1>2, <1>3, CatThree
    <3> QED BY <3>1, Zenon DEF Cat
  <2>2. owed \o bs \in Seq(Octets)
    BY <1>3
  <2> QED BY <1>3, <2>1, <2>2
<1>6. tasks' \in Seq(Tasks)
  BY <1>1
<1>7. Pending'
  BY <1>3, <1>4, <1>5, <1>6 DEF Pending
<1>8. \A i \in 1 .. Len(tasks') : tasks'[i].kind # "close"
  <2>1. \A i \in 1 .. m : tasks[i].kind # "close"
    <3>1. CASE later < MaxLater
      <4>1. later # MaxLater
        BY <3>1, ReplyAssumption
      <4> QED BY <4>1 DEF Closes
    <3>2. CASE tasks = << >>
      BY <3>2
    <3> QED BY <3>1, <3>2
  <2>2. \A i \in 1 .. n : ts[i].kind # "close"
    <3>1. \A i \in 1 .. n : ts[i] \in Quiet
      BY ElementOfSeq
    <3> QED BY <3>1 DEF Quiet
  <2>3. /\ Len(tasks') = m + n
        /\ \A i \in 1 .. (m + n) : tasks'[i] = IF i <= m THEN tasks[i] ELSE ts[i - m]
    <3>1. /\ Len(tasks \o ts) = m + n
          /\ \A i \in 1 .. (m + n) : (tasks \o ts)[i] = IF i <= m THEN tasks[i] ELSE ts[i - m]
      BY <1>1, ConcatNth, ZenonT(60)
    <3> QED BY <3>1, Zenon
  <2> HIDE DEF m, n
  <2>4. \A i \in 1 .. (m + n) : (i <= m => i \in 1 .. m) /\ (~(i <= m) => i - m \in 1 .. n)
    BY <1>1
  <2> QED BY <2>1, <2>2, <2>3, <2>4
<1>9. ~crashed' /\ conn'
  BY DEF Closes
<1> QED BY <1>7, <1>8, <1>9 DEF Closes

(* One PDU that is not followed by others.                                 *)
LEMMA OneTask ==
  ASSUME NEW x \in Places, NEW n \in Nat \ {0}
  PROVE  /\ <<SendTask(x, n)>> \in Seq(Quiet) /\ Bytes(x, 0, n) \in Seq(Octets)
         /\ Unsent(<<SendTask(x, n)>>) = Bytes(x, 0, n)
<1> DEFINE t == SendTask(x, n)
<1>1. /\ t \in Tasks /\ t.kind # "close"
      /\ Due(t) = Bytes(x, 0, n) /\ Bytes(x, 0, n) \in Seq(Octets)
  BY SendOwed
<1> HIDE DEF t
<1>2. t \in Quiet /\ Unsent(<<t>>) = Due(t)
  BY <1>1, UnsentOne DEF Quiet
<1> QED BY <1>1, <1>2 DEF t

(* Before the reply there is nothing.                                      *)
LEMMA EmptyPending ==
  ASSUME tasks = << >>, wire = << >>, owed = << >>, conn, ~crashed
  PROVE  Pending /\ Closes
<1>1. tasks \in Seq(Tasks) /\ wire \in Seq(Octets) /\ owed \in Seq(Octets)
  OBVIOUS
<1>2. Unsent(tasks) = << >> /\ << >> \o << >> = << >>
  BY UnsentEmpty
<1>3. owed = wire \o Unsent(tasks)
  BY <1>2
<1> QED BY <1>1, <1>3 DEF Pending, Closes

Counts == later \in Nat

LEMMA ReadOrdered ==
  ASSUME StartsAtZero, RInv, Counts, OrderInv, ReadHandled
  PROVE  OrderInv'
<1>1. /\ phase # "sent" /\ phase' = "sent" /\ tasks' = tasks \o ReadTasks /\ owed' = owed \o ReadOwed
      /\ UNCHANGED <<vars, later, merged, wire, conn, crashed>>
  BY DEF ReadHandled, Push
<1>2. tasks = << >> /\ wire = << >> /\ owed = << >> /\ conn /\ ~crashed /\ ~merged
  BY <1>1 DEF OrderInv
<1>3. pdus' = pdus
  BY <1>1 DEF vars
<1>4. Plannable' => Plannable
  BY <1>3 DEF Plannable
<1>5. ASSUME Plannable PROVE Pending' /\ Closes'
  <2>1. Pending /\ Closes
    BY <1>2, EmptyPending
  <2>2. ReadTasks \in Seq(Quiet) /\ Unsent(ReadTasks) = ReadOwed /\ ReadOwed \in Seq(Octets)
    BY <1>5, ReadGoes
  <2>3. later \in Nat /\ later' \in Nat
    BY <1>1 DEF Counts
  <2> QED BY <1>1, <1>2, <2>1, <2>2, <2>3, PushOrdered
<1> QED BY <1>1, <1>2, <1>4, <1>5 DEF OrderInv

LEMMA InfoOrdered ==
  ASSUME Counts, OrderInv, InfoHandled
  PROVE  OrderInv'
<1> DEFINE g == CommandReply(info[1])
           n == BhsSize + (IF g.tail > 0 THEN 1 ELSE 0)
<1>1. /\ phase # "sent" /\ UNCHANGED <<later, merged, wire, conn, crashed>>
      /\ \/ /\ tasks' = tasks \o <<SendTask(Pdu("info", 0), n)>> /\ owed' = Bytes(Pdu("info", 0), 0, n)
            /\ phase' = "sent"
         \/ phase' = "failed" /\ UNCHANGED <<tasks, owed>>
  BY DEF InfoHandled, Push
<1>2. tasks = << >> /\ wire = << >> /\ owed = << >> /\ conn /\ ~crashed /\ ~merged
  BY <1>1 DEF OrderInv
<1>3. CASE phase' = "failed" /\ UNCHANGED <<tasks, owed>>
  BY <1>1, <1>2, <1>3 DEF OrderInv
<1>4. CASE /\ tasks' = tasks \o <<SendTask(Pdu("info", 0), n)>> /\ owed' = Bytes(Pdu("info", 0), 0, n)
           /\ phase' = "sent"
  <2>1. n \in Nat \ {0}
    BY ReplyAssumption
  <2> HIDE DEF n
  <2> DEFINE ts == <<SendTask(Pdu("info", 0), n)>>
             bs == Bytes(Pdu("info", 0), 0, n)
  <2>2. ts \in Seq(Quiet) /\ bs \in Seq(Octets) /\ Unsent(ts) = bs
    BY <2>1, PduPlaces, OneTask
  <2>3. Pending /\ Closes
    BY <1>2, EmptyPending
  <2>4. tasks' = tasks \o ts /\ owed' = bs
    BY <1>4
  <2>5. later \in Nat /\ later' \in Nat
    BY <1>1 DEF Counts
  <2> HIDE DEF ts, bs
  <2>6. owed' = owed \o bs
    BY <1>2, <2>2, <2>4, ConcatEmptySeq
  <2>7. Pending' /\ Closes'
    BY <1>1, <1>2, <2>2, <2>3, <2>4, <2>5, <2>6, PushOrdered
  <2> QED BY <1>1, <1>2, <1>4, <2>7 DEF OrderInv
<1> QED BY <1>1, <1>3, <1>4

LEMMA LaterOrdered ==
  ASSUME Counts, OrderInv, Later
  PROVE  OrderInv'
<1> DEFINE ts == <<SendTask(Pdu("later", 0), BhsSize)>>
           bs == Bytes(Pdu("later", 0), 0, BhsSize)
<1>1. /\ phase = "sent" /\ conn /\ later < MaxLater /\ later' = later + 1
      /\ tasks' = tasks \o ts /\ owed' = owed \o bs
      /\ UNCHANGED <<vars, phase, merged, wire, conn, crashed>>
  BY DEF Later, Push
<1>2. ts \in Seq(Quiet) /\ bs \in Seq(Octets) /\ Unsent(ts) = bs
  BY PduPlaces, OneTask, ReplyAssumption
<1> HIDE DEF ts, bs
<1>3. later \in Nat /\ later' \in Nat /\ MaxLater \in Nat /\ later # MaxLater
  BY <1>1, ReplyAssumption DEF Counts
<1>4. ~merged /\ ~merged'
  BY <1>1, <1>3 DEF OrderInv
<1>5. pdus' = pdus
  BY <1>1 DEF vars
<1>6. Plannable' => Plannable
  BY <1>5 DEF Plannable
<1>7. ASSUME Plannable PROVE Pending' /\ Closes'
  <2>1. Pending /\ Closes
    BY <1>1, <1>4, <1>7 DEF OrderInv
  <2> QED BY <1>1, <1>2, <1>3, <2>1, PushOrdered
<1> QED BY <1>1, <1>4, <1>6, <1>7 DEF OrderInv

LEMMA LogoutOrdered ==
  ASSUME Counts, OrderInv, Logout
  PROVE  OrderInv'
<1> DEFINE t == SendTask(Pdu("logout", 0), BhsSize)
           c == CloseConnectionTask
           bs == Bytes(Pdu("logout", 0), 0, BhsSize)
           ts == <<t, c>>
<1>1. /\ phase = "sent" /\ conn /\ later < MaxLater /\ later' = MaxLater
      /\ tasks' \in Interleavings(tasks, ts) /\ owed' = owed \o bs /\ merged' = (tasks # << >>)
      /\ UNCHANGED <<vars, phase, wire, conn, crashed>>
  BY DEF Logout, PushList, LogoutTasks
<1>2. /\ t \in Tasks /\ t.kind # "close" /\ Due(t) = bs /\ bs \in Seq(Octets)
  BY PduPlaces, SendOwed, ReplyAssumption
<1>3. c \in Tasks /\ c.kind = "close" /\ Due(c) = << >>
  <2>1. c = [kind |-> "close"]
    BY DEF CloseConnectionTask
  <2>2. c \in OtherTasks /\ c.kind = "close" /\ c.kind # "send" /\ c.kind # "cache" /\ c.kind # "file"
    BY <2>1 DEF OtherTasks
  <2>3. Due(c) = << >>
    BY <2>2 DEF Due
  <2> QED BY <2>2, <2>3 DEF Tasks
<1> HIDE DEF t, c, bs
<1>4. later \in Nat /\ MaxLater \in Nat /\ later # MaxLater
  BY <1>1, ReplyAssumption DEF Counts
<1>5. ~merged
  BY <1>4 DEF OrderInv
<1>6. pdus' = pdus
  BY <1>1 DEF vars
<1>7. Plannable' => Plannable
  BY <1>6 DEF Plannable
<1>8. ASSUME Plannable, ~merged' PROVE Pending' /\ Closes'
  <2>1. Pending /\ Closes /\ tasks = << >>
    BY <1>1, <1>5, <1>8 DEF OrderInv
  <2>2. tasks' = ts
    BY <1>1, <2>1, PushedAlone
  <2>3. ts \in Seq(Tasks) /\ ts = <<t>> \o <<c>> /\ <<t>> \in Seq(Tasks) /\ <<c>> \in Seq(Tasks)
    <3>1. <<t>> \in Seq(Tasks) /\ <<c>> \in Seq(Tasks)
      BY <1>2, <1>3
    <3>2. <<t, c>> = <<t>> \o <<c>>
      BY <1>2, <1>3, Pair, Zenon
    <3> QED BY <3>1, <3>2
  <2>4. Unsent(ts) = Unsent(<<t>>) \o Unsent(<<c>>) /\ Unsent(<<t>>) = bs /\ Unsent(<<c>>) = << >>
    BY <1>2, <1>3, <2>3, UnsentConcat, UnsentOne
  <2>5. Unsent(ts) = bs
    BY <1>2, <2>4, ConcatEmptySeq
  <2>6. Unsent(tasks)' = Unsent(ts)
    BY <2>2 DEF Unsent, Dues
  <2>7. /\ wire \in Seq(Octets) /\ owed \in Seq(Octets) /\ owed = wire
        /\ Unsent(tasks) = << >>
    BY <2>1, UnsentEmpty, ConcatEmptySeq DEF Pending
  <2>8. owed' = wire' \o bs /\ owed' \in Seq(Octets)
    BY <1>1, <1>2, <2>7
  <2>9. Pending'
    BY <1>1, <2>2, <2>3, <2>5, <2>6, <2>7, <2>8 DEF Pending
  <2>10. Len(ts) = 2 /\ ts[1] = t /\ ts[2] = c /\ \A i \in 1 .. Len(ts) : i = 1 \/ i = Len(ts)
    OBVIOUS
  <2>11. \A i \in 1 .. Len(ts) : ts[i].kind = "close" => i = Len(ts)
    BY <1>2, <2>10
  <2> QED BY <1>1, <2>1, <2>2, <2>9, <2>11 DEF Closes
<1> QED BY <1>1, <1>7, <1>8 DEF OrderInv

LEMMA SendStepOrdered ==
  ASSUME StartsAtZero, OrderInv, SendStep
  PROVE  OrderInv'
<1>1. QueueNext /\ UNCHANGED <<phase, later, merged, owed, pdus>>
  BY DEF SendStep, vars, command
<1>2. Plannable' => Plannable
  BY <1>1 DEF Plannable
<1>3. CASE phase # "sent"
  <2>1. tasks = << >>
    BY <1>3 DEF OrderInv
  <2>2. Writable
    BY <1>1, <2>1 DEF QueueNext, RunSend, RunCache, RunFile, RunCork, RunClose, RunOrphan, Running
  <2> QED BY <1>1, <1>3, <2>2 DEF OrderInv, Writable
<1>4. CASE phase = "sent"
  <2>1. Plannable' /\ ~merged' => Pending /\ Closes
    BY <1>1, <1>2, <1>4 DEF OrderInv
  <2>2. Plannable' /\ ~merged' => Pending' /\ Closes'
    BY <1>1, <2>1, QueueOrdered
  <2> QED BY <1>1, <1>4, <2>2 DEF OrderInv
<1> QED BY <1>3, <1>4

LEMMA StepOrdered ==
  ASSUME StartsAtZero, RInv, Counts, OrderInv, [ReplyNext]_replyVars
  PROVE  OrderInv'
<1>1. CASE ReadStep
  <2>1. phase # "sent" /\ UNCHANGED <<queue, command>>
    BY <1>1 DEF ReadStep
  <2> QED BY <2>1 DEF OrderInv, queue, command
<1>2. CASE ReadHandled
  BY <1>2, ReadOrdered
<1>3. CASE InfoHandled
  BY <1>3, InfoOrdered
<1>4. CASE Later
  BY <1>4, LaterOrdered
<1>5. CASE Logout
  BY <1>5, LogoutOrdered
<1>6. CASE SendStep
  BY <1>6, SendStepOrdered
<1>7. CASE UNCHANGED replyVars
  <2>1. UNCHANGED <<tasks, wire, conn, crashed, phase, later, merged, owed, pdus>>
    BY <1>7 DEF replyVars, vars, queue, command
  <2> QED BY <2>1 DEF OrderInv, Pending, Closes, Plannable, Unsent, Dues
<1> QED BY <1>1, <1>2, <1>3, <1>4, <1>5, <1>6, <1>7 DEF ReplyNext

LEMMA StepCounts == Counts /\ [ReplyNext]_replyVars => Counts'
<1> SUFFICES ASSUME Counts, [ReplyNext]_replyVars PROVE Counts'
  OBVIOUS
<1>1. later' = later \/ later' = later + 1 \/ later' = MaxLater
  BY DEF ReplyNext, ReadStep, ReadHandled, InfoHandled, Later, Logout, SendStep, replyVars, command
<1> QED BY <1>1, ReplyAssumption DEF Counts

LEMMA ReadsAll == ReplySpec => []RInv
  BY ReplyReads, InitRInv, StepRInv, PTL DEF Spec

(* However the socket cuts the pieces of a reply, and however often a task *)
(* is run again: the bytes on the wire are the ones that the handlers      *)
(* meant, each from its buffer or its place in the files, in their order,  *)
(* none twice and none left out, and when the queue is empty all of them   *)
(* are out; for any number of later requests, any volume whose parts start *)
(* at 0 of their files (the code adds a start in blocks to an offset in    *)
(* bytes, volume.cpp), any sizes of buffers and of headers.                *)
THEOREM InOrderHolds == ASSUME StartsAtZero PROVE ReplySpec => []InOrder
<1>1. ReplyInit => OrderInv /\ Counts
  BY DEF ReplyInit, QueueInit, OrderInv, Counts
<1>2. RInv /\ Counts /\ OrderInv /\ [ReplyNext]_replyVars => OrderInv'
  BY StepOrdered
<1>3. OrderInv => InOrder
  BY OrderInvOrders
<1> QED BY <1>1, <1>2, <1>3, StepCounts, ReadsAll, PTL DEF ReplySpec
=============================================================================
