---------------------------- MODULE DriverFrames ----------------------------
(***************************************************************************)
(* What the hardware drivers do to one frame or one controller report      *)
(* between gocan and the native API.  A frame a caller sends is checked,   *)
(* encoded into the driver's native form, carried by the network, and      *)
(* decoded by the same driver of another node; a controller report is      *)
(* decoded into events and perhaps an error that ends the bus.             *)
(*                                                                         *)
(* Bytes are abstracted to how many of them, from the first, are the       *)
(* caller's: a frame in memory always has 64, a native message as many as  *)
(* were copied into it.  Native words are a number and a set of bits.      *)
(***************************************************************************)
EXTENDS Integers, FiniteSets, Sequences

CONSTANTS IDs,        \* arbitration identifiers a caller tries
          Counters    \* values of the controller's error counters

VARIABLES driver,     \* the driver, its API, and what its controller supports
          stage,      \* how far the journey is
          frame,      \* the caller's frame, or NoFrame for a controller report
          native,     \* the message or report in the driver's native form
          outcome     \* what the driver made of it

frameVars == <<driver, stage, frame, native, outcome>>

None == "none"
NoFrame == [kind |-> "none"]
MaxStandardID == 2047
MaxExtendedID == 536870911
Flags == {"extended", "remote", "fd", "brs", "esi"}

Drivers ==
    {[kind |-> k, fd |-> fd, len8 |-> len8] :
       k \in {"socketcan", "pcan", "vector", "nixnet"}, fd \in BOOLEAN, len8 \in BOOLEAN}

Has(f, flag) == flag \in f.flags
FD(f) == Has(f, "fd")
Lesser(a, b) == IF a < b THEN a ELSE b

-----------------------------------------------------------------------------
(* frame.go *)

FDLength == [dlc \in 9..15 |-> CASE dlc = 9 -> 12 [] dlc = 10 -> 16 [] dlc = 11 -> 20
                                 [] dlc = 12 -> 24 [] dlc = 13 -> 32 [] dlc = 14 -> 48
                                 [] dlc = 15 -> 64]

DLCToLength(dlc, fd) ==
    IF dlc <= 8 THEN dlc ELSE IF fd THEN FDLength[dlc] ELSE 8

\* The codes of a length: at most one, none for a length that has no code.
LengthToDLC(length, fd) ==
    IF length <= 8 THEN {length}
    ELSE {dlc \in 9..15 : fd /\ FDLength[dlc] = length}

Valid(f) ==
    /\ f.flags \subseteq Flags
    /\ f.id <= IF Has(f, "extended") THEN MaxExtendedID ELSE MaxStandardID
    /\ f.dlc <= 15
    /\ ~(Has(f, "remote") /\ FD(f))
    /\ Has(f, "brs") => FD(f)
    /\ Has(f, "esi") => FD(f)

DataLength(f) ==
    IF Has(f, "remote") \/ f.dlc > 15 THEN 0 ELSE DLCToLength(f.dlc, FD(f))

Accepted(f) == IF Valid(f) THEN [kind |-> "frame", frame |-> f] ELSE [kind |-> "error"]
Failed == [kind |-> "error"]

\* The flags of the set that a native word has, as frame flags.
Renamed(f, pairs) == {p[2] : p \in {q \in pairs : q[1] \in f}}

-----------------------------------------------------------------------------
(* SocketCAN *)

SocketEncode(f) ==
    [size |-> IF FD(f) THEN 72 ELSE 16,
     id |-> f.id,
     bits |-> (f.flags \cap {"extended", "remote"}),
     length |-> IF Has(f, "remote") THEN Lesser(f.dlc, 8) ELSE DataLength(f),
     fdFlags |-> f.flags \cap {"brs", "esi"},
     len8 |-> IF ~FD(f) /\ f.dlc > 8 THEN f.dlc ELSE 0,
     data |-> DataLength(f)]

SocketDecode(p) ==
    LET fd == p.size = 72
        codes == IF fd THEN LengthToDLC(p.length, TRUE)
                 ELSE IF p.length > 8 THEN {}
                 ELSE IF p.length = 8 /\ p.len8 \in 9..15 THEN {p.len8} ELSE {p.length}
        flags == p.bits \cup (IF fd THEN {"fd"} \cup p.fdFlags ELSE {})
    IN IF codes = {} THEN Failed
       ELSE Accepted([id |-> IF "extended" \in p.bits THEN p.id ELSE p.id % (MaxStandardID + 1),
                      flags |-> flags,
                      dlc |-> CHOOSE dlc \in codes : TRUE,
                      data |-> IF "remote" \in flags THEN 0 ELSE Lesser(p.length, p.data)])

-----------------------------------------------------------------------------
(* PCAN: the classical message has a length of 0 to 8 and eight bytes, the *)
(* FD message a data length code and 64.                                   *)

PcanSends(f, fd) == Valid(f) /\ (FD(f) => fd) /\ (~fd => f.dlc <= 8)

PcanType(f) == f.flags

PcanEncodeClassic(f) ==
    [id |-> f.id, type |-> PcanType(f), dlc |-> f.dlc, data |-> Lesser(8, DataLength(f))]

PcanEncodeFD(f) ==
    [id |-> f.id, type |-> PcanType(f), dlc |-> f.dlc, data |-> DataLength(f)]

PcanDecode(msg, fd) ==
    LET allowed == {"remote", "extended"} \cup (IF fd THEN {"fd", "brs", "esi"} ELSE {})
        length == IF msg.dlc > 15 THEN 65 ELSE DLCToLength(msg.dlc, "fd" \in msg.type)
        remote == "remote" \in msg.type
    IN IF \/ ~(msg.type \subseteq allowed)
          \/ ~remote /\ length > (IF fd THEN 64 ELSE 8)
       THEN Failed
       ELSE Accepted([id |-> msg.id, flags |-> msg.type, dlc |-> msg.dlc,
                      data |-> IF remote THEN 0 ELSE Lesser(length, msg.data)])

-----------------------------------------------------------------------------
(* Vector *)

VectorSends(f, fd) == Valid(f) /\ (FD(f) => fd) /\ ~Has(f, "esi")

VectorEncodeClassic(f) ==
    [id |-> f.id, idBits |-> f.flags \cap {"extended"}, flags |-> f.flags \cap {"remote"},
     dlc |-> f.dlc, data |-> Lesser(8, DataLength(f))]

VectorDecodeClassic(msg) ==
    IF msg.dlc > 15 THEN Failed
    ELSE Accepted([id |-> msg.id, flags |-> msg.idBits \cup msg.flags, dlc |-> msg.dlc,
                   data |-> IF "remote" \in msg.flags THEN 0
                            ELSE Lesser(Lesser(msg.dlc, 8), msg.data)])

VectorEncodeFD(f) ==
    [id |-> f.id, idBits |-> f.flags \cap {"extended"},
     flags |-> Renamed(f.flags, {<<"fd", "EDL">>, <<"brs", "BRS">>, <<"remote", "RTR">>}),
     dlc |-> f.dlc, data |-> DataLength(f)]

VectorDecodeFD(msg) ==
    LET flags == msg.idBits \cup Renamed(msg.flags, {<<"EDL", "fd">>, <<"BRS", "brs">>,
                                                     <<"ESI", "esi">>, <<"RTR", "remote">>})
    IN IF msg.dlc > 15 THEN Failed
       ELSE Accepted([id |-> msg.id, flags |-> flags, dlc |-> msg.dlc,
                      data |-> IF "remote" \in flags THEN 0
                               ELSE Lesser(DLCToLength(msg.dlc, "fd" \in flags), msg.data)])

-----------------------------------------------------------------------------
(* NI-XNET *)

NixnetSends(f, fd) ==
    /\ Valid(f)
    /\ FD(f) => fd
    /\ ~FD(f) => f.dlc <= 8
    /\ ~Has(f, "esi")

RecordSize(length) == 16 + (((IF length < 8 THEN 8 ELSE length) + 7) \div 8) * 8

NixnetEncode(f, fd) ==
    LET length == IF Has(f, "remote") THEN f.dlc ELSE DataLength(f) IN
    [id |-> f.id, idBits |-> f.flags \cap {"extended"},
     type |-> CASE Has(f, "remote") -> "remote"
                [] Has(f, "brs")    -> "fdbrs"
                [] FD(f)            -> "fd"
                [] OTHER            -> IF fd THEN "can20" ELSE "data",
     length |-> length, size |-> RecordSize(length), data |-> DataLength(f)]

NixnetDecode(r) ==
    LET flags == r.idBits \cup CASE r.type = "remote" -> {"remote"}
                                 [] r.type = "fd"     -> {"fd"}
                                 [] r.type = "fdbrs"  -> {"fd", "brs"}
                                 [] OTHER             -> {}
        codes == LengthToDLC(r.length, "fd" \in flags)
    IN IF r.size < 24 \/ r.length > 64 \/ r.size < RecordSize(r.length) \/ codes = {}
       THEN Failed
       ELSE Accepted([id |-> r.id, flags |-> flags, dlc |-> CHOOSE dlc \in codes : TRUE,
                      data |-> IF "remote" \in flags THEN 0 ELSE Lesser(r.length, r.data)])

-----------------------------------------------------------------------------
(* The journey of a frame. *)

Sends(d, f) ==
    CASE d.kind = "socketcan" -> Valid(f)
      [] d.kind = "pcan"      -> PcanSends(f, d.fd)
      [] d.kind = "vector"    -> VectorSends(f, d.fd)
      [] d.kind = "nixnet"    -> NixnetSends(f, d.fd)

Encode(d, f) ==
    CASE d.kind = "socketcan" -> SocketEncode(f)
      [] d.kind = "pcan"      -> IF d.fd THEN PcanEncodeFD(f) ELSE PcanEncodeClassic(f)
      [] d.kind = "vector"    -> IF d.fd THEN VectorEncodeFD(f) ELSE VectorEncodeClassic(f)
      [] d.kind = "nixnet"    -> NixnetEncode(f, d.fd)

Decode(d, msg) ==
    CASE d.kind = "socketcan" -> SocketDecode(msg)
      [] d.kind = "pcan"      -> PcanDecode(msg, d.fd)
      [] d.kind = "vector"    -> IF d.fd THEN VectorDecodeFD(msg) ELSE VectorDecodeClassic(msg)
      [] d.kind = "nixnet"    -> NixnetDecode(msg)

Send ==
    /\ stage = "sending"
    /\ IF Sends(driver, frame)
       THEN stage' = "queued" /\ native' = Encode(driver, frame)
       ELSE stage' = "refused" /\ UNCHANGED native
    /\ UNCHANGED <<driver, frame, outcome>>

\* External: what an API opened for classical CAN, or PCAN's classical message,
\* cannot carry.
NativeTakes(d, f) ==
    /\ FD(f) => d.fd \/ d.kind = "socketcan"
    /\ f.dlc > 8 => d.fd \/ d.kind # "pcan"

\* External: the bus.  A Linux controller without CC_LEN8_DLC sends DLC 8 for a
\* classical frame with a DLC above eight.
Transports ==
    /\ stage = "queued"
    /\ stage' = IF NativeTakes(driver, frame) THEN "carried" ELSE "stuck"
    /\ native' = IF driver.kind = "socketcan" /\ ~driver.len8
                 THEN [native EXCEPT !.len8 = 0] ELSE native
    /\ UNCHANGED <<driver, frame, outcome>>

-----------------------------------------------------------------------------
(* Controller reports.  A controller has two error counters and may be     *)
(* off the bus; what a report may say of it besides is a receive overflow  *)
(* or an error on the bus.                                                 *)

Controllers == [tx : Counters, rx : Counters, off : BOOLEAN,
                overflow : BOOLEAN, error : BOOLEAN]

Level(n) == IF n >= 128 THEN "passive" ELSE IF n >= 96 THEN "warning" ELSE "active"
Larger(a, b) == IF a > b THEN a ELSE b
State(c) == IF c.off THEN "busoff" ELSE Level(Larger(c.tx, c.rx))

Event(kind) == [kind |-> kind]
StateEvent(state, known, tx, rx) ==
    [kind |-> "state", state |-> state, known |-> known,
     tx |-> IF known THEN tx ELSE 0, rx |-> IF known THEN rx ELSE 0]
Observed(events, terminal) == [kind |-> "report", events |-> events, terminal |-> terminal]
Ends(state) == IF state = "busoff" THEN "busoff" ELSE None

\* External: the forms in which the native APIs report a controller.  Linux
\* names the direction whose counter is the larger, PCAN reports a state or
\* an error frame with its counters, and a status that reports an overflow
\* may say anything else as well.
Flag == [side \in {"TX", "RX"}, level \in {"warning", "passive", "active"} |->
           CASE level = "warning" -> IF side = "TX" THEN "TX_WARNING" ELSE "RX_WARNING"
             [] level = "passive" -> IF side = "TX" THEN "TX_PASSIVE" ELSE "RX_PASSIVE"
             [] OTHER             -> "ACTIVE"]

LinuxPackets(c) ==
    LET lead == (IF c.tx >= c.rx THEN {Flag["TX", Level(c.tx)]} ELSE {})
                  \cup (IF c.rx >= c.tx THEN {Flag["RX", Level(c.rx)]} ELSE {})
        flags == IF State(c) = "active" THEN {"ACTIVE"}
                 ELSE IF c.off THEN {} ELSE lead
        over == IF c.overflow THEN {"RX_OVERFLOW"} ELSE {}
    IN {[classes |-> (IF c.off THEN {"BUSOFF"} ELSE {}) \cup (IF c.error THEN {"PROT"} ELSE {})
                        \cup (IF flags \cup over # {} THEN {"CRTL"} ELSE {})
                        \cup restarted \cup counted,
         controller |-> IF restarted = {} THEN flags \cup over ELSE over,
         tx |-> c.tx, rx |-> c.rx] :
          restarted \in {{}} \cup (IF State(c) = "active" THEN {{"RESTARTED"}} ELSE {}),
          counted \in {{}, {"CNT"}}}

PcanStatusBits(c) ==
    {bits \cup (IF c.overflow THEN {o} ELSE {}) :
       bits \in CASE State(c) = "busoff"  -> {{"BUSOFF"}}
                  [] State(c) = "passive" -> {{"BUSPASSIVE"}, {"BUSPASSIVE", "BUSWARNING"}}
                  [] State(c) = "warning" -> {{"BUSLIGHT"}, {"BUSWARNING"}}
                  [] OTHER                -> {{}},
       o \in {"OVERRUN", "QOVERRUN"}}

PcanReads(c) ==
    {[status |-> bits, type |-> type, tx |-> c.tx, rx |-> c.rx] :
       bits \in PcanStatusBits(c), type \in IF c.error THEN {"error"} ELSE {"status"}}

VectorEvents(c) ==
    [tag : {"chip"}, overrun : {c.overflow}, error : {c.error},
     status : {State(c)}, tx : {c.tx}, rx : {c.rx}]

NixnetStates(c) ==
    [state : {IF c.off THEN 2 ELSE IF State(c) = "passive" THEN 1 ELSE 0}, tx : {c.tx}, rx : {c.rx}]

Reports(d, c) ==
    CASE d.kind = "socketcan" -> LinuxPackets(c)
      [] d.kind = "pcan"      -> PcanReads(c)
      [] d.kind = "vector"    -> VectorEvents(c)
      [] d.kind = "nixnet"    -> NixnetStates(c)

-----------------------------------------------------------------------------
(* Decoding of controller reports. *)

SocketState(p) ==
    CASE "BUSOFF" \in p.classes -> {"busoff"}
      [] "RESTARTED" \in p.classes -> {"active"}
      [] "CRTL" \notin p.classes -> {}
      [] "ACTIVE" \in p.controller -> {"active"}
      [] {"RX_PASSIVE", "TX_PASSIVE"} \cap p.controller # {} -> {"passive"}
      [] {"RX_WARNING", "TX_WARNING"} \cap p.controller # {} -> {"warning"}
      [] OTHER -> {}

SocketReport(p) ==
    LET error == "PROT" \in p.classes \/ ("CRTL" \in p.classes /\ p.controller = {})
        states == SocketState(p)
        overrun == "CRTL" \in p.classes /\ "RX_OVERFLOW" \in p.controller
        known == "CNT" \in p.classes
    IN Observed((IF error THEN {Event("error")} ELSE {})
                  \cup {StateEvent(s, known, p.tx, p.rx) : s \in states}
                  \cup (IF overrun THEN {Event("overrun")} ELSE {}),
                IF overrun THEN "overrun"
                ELSE IF "BUSOFF" \in p.classes THEN "busoff" ELSE None)

PcanStatus(status) ==
    IF status \cap {"OVERRUN", "QOVERRUN"} # {}
    THEN Observed({Event("overrun")}, "overrun")
    ELSE LET state == CASE "BUSOFF" \in status -> "busoff"
                        [] "BUSPASSIVE" \in status -> "passive"
                        [] status \cap {"BUSLIGHT", "BUSWARNING"} # {} -> "warning"
                        [] OTHER -> "active"
         IN Observed({StateEvent(state, FALSE, 0, 0)}, Ends(state))

PcanErrorFrame(r) ==
    LET state == IF "BUSOFF" \in r.status THEN "busoff" ELSE Level(Larger(r.tx, r.rx))
    IN Observed({Event("error"), StateEvent(state, state # "busoff", r.tx, r.rx)}, Ends(state))

\* Mutant: the overrun bits of a read that also returned a message are not
\* looked at first.
PcanReadsMessageFirst(r) ==
    IF r.type = "error" THEN PcanErrorFrame(r) ELSE PcanStatus(r.status)

\* receiveOne looks for an overrun before it looks at the message.
PcanReport(r) ==
    IF r.status \cap {"OVERRUN", "QOVERRUN"} # {} THEN PcanStatus(r.status)
    ELSE IF r.type = "error" THEN PcanErrorFrame(r) ELSE PcanStatus(r.status)

VectorReport(e) ==
    IF e.overrun THEN Observed({Event("overrun")}, "overrun")
    ELSE Observed({StateEvent(e.status, TRUE, e.tx, e.rx)}, Ends(e.status))

NixnetReport(r) ==
    LET state == CASE r.state = 0 -> IF r.tx >= 96 \/ r.rx >= 96 THEN "warning" ELSE "active"
                   [] r.state = 1 -> "passive"
                   [] r.state = 2 -> "busoff"
    IN Observed({StateEvent(state, state # "busoff", r.tx, r.rx)}, Ends(state))

Report(d, r) ==
    CASE d.kind = "socketcan" -> SocketReport(r)
      [] d.kind = "pcan"      -> PcanReport(r)
      [] d.kind = "vector"    -> VectorReport(r)
      [] d.kind = "nixnet"    -> NixnetReport(r)

\* External: what a PCAN read may return as its status beside the message.
PcanStatuses == UNION {PcanStatusBits(c) : c \in Controllers}
ReadStatuses(d) == IF d.kind = "pcan" THEN PcanStatuses ELSE {{}}

\* decodePCANReceive: beside a status other than OK the message is not looked
\* at; the status takes its place.
PcanReceive(msg, status, fd) == IF status = {} THEN PcanDecode(msg, fd) ELSE PcanStatus(status)

Receive ==
    /\ stage = "carried"
    /\ \E status \in ReadStatuses(driver) :
         /\ stage' = IF status = {} THEN "received" ELSE "displaced"
         /\ outcome' = IF driver.kind = "pcan" THEN PcanReceive(native, status, driver.fd)
                       ELSE Decode(driver, native)
    /\ UNCHANGED <<driver, frame, native>>

\* The controller reports, and the driver decodes.
ControllerReports ==
    /\ stage = "watching"
    /\ \E r \in Reports(driver, native) : outcome' = Report(driver, r)
    /\ stage' = "reported"
    /\ UNCHANGED <<driver, frame, native>>

-----------------------------------------------------------------------------
CallerFrames == [id : IDs, flags : SUBSET Flags, dlc : 0..16, data : {64}]

FrameInit ==
    /\ driver \in Drivers
    /\ driver.len8 => driver.kind = "socketcan"
    /\ driver.fd => driver.kind # "socketcan"
    /\ outcome = NoFrame
    /\ \/ stage = "sending" /\ frame \in CallerFrames /\ native = NoFrame
       \/ /\ stage = "watching" /\ frame = NoFrame /\ native \in Controllers
          \* an overflow or an error comes with a NI-XNET read of its own
          /\ driver.kind = "nixnet" => ~native.overflow /\ ~native.error

FrameNext == Send \/ Transports \/ Receive \/ ControllerReports

-----------------------------------------------------------------------------
\* The frame as another gocan node would hold it: without the bytes past its
\* payload, which are not part of it.
Meaning(f) == [f EXCEPT !.data = Lesser(@, DataLength(f))]

\* What an unchanged journey delivers.  Without CC_LEN8_DLC Linux sends the
\* eight bytes of a classical DLC above eight with DLC 8.
Delivered(f) ==
    IF driver.kind = "socketcan" /\ ~driver.len8 /\ ~FD(f) /\ f.dlc > 8
    THEN [Meaning(f) EXCEPT !.dlc = 8] ELSE Meaning(f)

\* A frame Send accepts reaches another node of the same driver as the same
\* frame: identifier and its width, kind, rate and error state flags, data
\* length code and exactly the bytes of its payload.
RoundTrip == stage = "received" => outcome = [kind |-> "frame", frame |-> Delivered(frame)]

\* A frame whose place its status took is not missing without a record: an event
\* stands where it would, and if that is an overrun it ended the bus.
Accounted ==
    stage = "displaced" =>
        /\ outcome.kind = "report" /\ outcome.events # {}
        /\ Event("overrun") \in outcome.events => outcome.terminal = "overrun"

\* Send refuses a valid frame only where the native form has no place for it:
\* encoded all the same it would be another frame at the receiver, or the
\* native API would not take it.
RefusedForCause ==
    stage = "refused" /\ Valid(frame) =>
        \/ Decode(driver, Encode(driver, frame)) # [kind |-> "frame", frame |-> Meaning(frame)]
        \/ ~NativeTakes(driver, frame)

\* No accepted frame is turned away by the native API for its form.
NeverStuck == stage # "stuck"

\* The controller state a driver records is the controller's, and the counts
\* it calls known are the controller's counts, whatever the native form.
StateExact ==
    stage = "reported" =>
        \A e \in outcome.events :
            e.kind = "state" =>
                /\ e.state = State(native)
                /\ e.known => e.tx = native.tx /\ e.rx = native.rx

\* A report of lost frames ends the bus as an overrun and records it, and one
\* of a controller off the bus ends the bus; nothing else does.
EndsOnLoss ==
    stage = "reported" =>
        /\ native.overflow <=> outcome.terminal = "overrun"
        /\ native.overflow <=> Event("overrun") \in outcome.events
        /\ native.off => outcome.terminal # None
        /\ ~native.off /\ ~native.overflow => outcome.terminal = None

\* Frames and reports mean after the native form what they meant before it.
FramesExact == RoundTrip /\ Accounted /\ RefusedForCause /\ NeverStuck /\ StateExact /\ EndsOnLoss
=============================================================================
