------------------------------ MODULE MCCodecs ------------------------------
(***************************************************************************)
(* The conversions between gocan's values and the forms other programs     *)
(* read: native frames, signals and data records.  A behaviour is about    *)
(* one of them, its subject; the others stay idle, so that their states    *)
(* add and do not multiply.                                                *)
(***************************************************************************)
EXTENDS DriverFrames, SignalCodec, RecordCodec

VARIABLE subject

SomeIDs == {0, MaxStandardID, MaxStandardID + 1, MaxExtendedID, MaxExtendedID + 1}
SomeCounters == {0, 95, 96, 127, 128, 255}

-----------------------------------------------------------------------------
(* Messages: two or three places that overlap, under one selector or two. *)

Plain(start, bits, order) ==
    [start |-> start, bits |-> bits, order |-> order, signed |-> FALSE, factor |-> 1, offset |-> 0,
     minimum |-> 0, maximum |-> 0, choices |-> <<>>, selector |-> 0, ranges |-> {}, mux |-> FALSE]
Selector(s) == [s EXCEPT !.mux = TRUE]
Under(s, selector, ranges) == [s EXCEPT !.selector = selector, !.ranges = ranges]
Message(signals) == [length |-> 2, signals |-> signals]

Places == {Plain(2, 3, "little"), Plain(4, 6, "little"), Plain(2, 5, "big"), Plain(8, 4, "little"),
           Plain(13, 4, "big")}
FewPlaces == {Plain(2, 3, "little"), Plain(2, 5, "big"), Plain(8, 4, "little")}
SomeRanges == {{<<0, 0>>}, {<<1, 2>>}, {<<0, 0>>, <<2, 3>>}}
S == Selector(Plain(6, 2, "little"))
T == Under(Selector(Plain(4, 2, "little")), 1, {<<1, 2>>})

Flat == {Message(<<S, Under(x, 1, r), Under(y, 1, q)>>) :
           x \in Places, y \in Places, r \in SomeRanges, q \in SomeRanges}
Always == {Message(<<S, Under(x, 1, r), y>>) : x \in Places, y \in Places, r \in {{<<1, 2>>}}}
Nested == {Message(<<S, T, Under(x, 2, r), Under(y, b, q)>>) :
             x \in FewPlaces, y \in FewPlaces, r \in {{<<0, 0>>}}, b \in {1, 2}, q \in {{<<1, 3>>}, {<<3, 3>>}}}
Cycles == {Message(<<Under(S, 2, {<<0, 1>>}), Under(T, 1, {<<0, 1>>}), x>>) : x \in Places}

Named == <<[label |-> "na", value |-> 3], [label |-> "off", value |-> -1], [label |-> "na", value |-> 3]>>
Twice == <<[label |-> "na", value |-> 3], [label |-> "na", value |-> 2]>>
Scaled == {Message(<<[p EXCEPT !.signed = signed, !.factor = factor, !.offset = 1, !.choices = choices,
                                !.minimum = least, !.maximum = -2 * least],
                     Plain(5, 3, "little")>>) :
             p \in {Plain(2, 3, "little"), Plain(13, 4, "big")}, signed \in BOOLEAN,
             factor \in {-3, 0, 1, 2}, choices \in {<<>>, Named, Twice}, least \in {0, -2, 2}}

SomeMessages == Flat \cup Always \cup Nested \cup Cycles \cup Scaled
SomePayloads == {0..15, {0, 3, 5, 6, 10, 14}}
SomeNumbers == {-3, 0, 1, 4}
SomeLabels == {"na"}

-----------------------------------------------------------------------------
(* Records: a leading item, then packed fields, a scalar or an array. *)

Integer(bits, order, least, most) ==
    [bits |-> bits, order |-> order, least |-> least, most |-> most, signed |-> FALSE,
     factor |-> 1, offset |-> 0, low |-> -99, high |-> 99, choices |-> <<>>, at |-> 0,
     container |-> NoContainer]
Data(f) == [item |-> "data", field |-> f]
Gap(bits) == [item |-> "gap", bits |-> bits]
Struct(bits, order, children) == [item |-> "struct", bits |-> bits, order |-> order, children |-> children]
Child(gap, f) == [gap |-> gap, field |-> f]

Converted(f) ==
    {[f EXCEPT !.signed = signed, !.factor = factor, !.offset = 1, !.low = low, !.high = high, !.choices = choices] :
       signed \in BOOLEAN, factor \in {-3, 2}, low \in {-1, 0}, high \in {2, 5}, choices \in {<<>>, Twice}}
     \cup {[f EXCEPT !.signed = signed, !.choices = choices] : signed \in BOOLEAN, choices \in {Named, Twice}}

ByteOrders == {"little", "big"}
Leading == {<<>>, <<Data(Integer(2, "little", 1, 1))>>, <<Gap(2)>>}
Packed == {<<Struct(4, order, <<Child(a, f), Child(b, Integer(w, "little", 1, 1))>>)>> :
             order \in ByteOrders, a \in 0..1, b \in 0..1, w \in 1..2,
             f \in {Integer(2, "little", 1, 1), [Integer(2, "little", 1, 1) EXCEPT !.signed = TRUE]}}
Scalars == {<<Data(f)>> : f \in UNION {Converted(Integer(4, order, 1, 1)) : order \in ByteOrders}}
Arrays == {<<Data(Integer(bits, "big", least, most))>> : bits \in {2}, least \in 0..2, most \in 1..2}

SomeRecords ==
    {lead \o middle : lead \in Leading, middle \in Packed}
      \cup {lead \o middle : lead \in Leading, middle \in Scalars}
      \cup {lead \o middle \o trail : lead \in Leading, middle \in {a \in Arrays : a[1].field.least <= a[1].field.most},
                                      trail \in {<<>>, <<Gap(2)>>}} \cup {lead \o <<Data(Integer(4, "little", 1, 2))>> : lead \in Leading}
SomeElements == {Number(-1), Number(0), Number(1), Number(3), Number(6), Label("na")}

-----------------------------------------------------------------------------
IdleFrames ==
    /\ driver = [kind |-> "none", fd |-> FALSE, len8 |-> FALSE]
    /\ stage = "idle" /\ frame = NoFrame /\ native = NoFrame /\ outcome = NoFrame
IdleSignals == message = [length |-> 0, signals |-> <<>>] /\ payload = {} /\ latest = [op |-> "idle"]
IdleRecord == record = <<>> /\ bytes = <<>> /\ done = [op |-> "idle"]
IdleCodecs == IdleFrames /\ IdleSignals /\ IdleRecord
codecVars == <<frameVars, signalVars, recordVars>>

CodecsInit ==
    \/ subject = "frames" /\ FrameInit /\ IdleSignals /\ IdleRecord
    \/ subject = "signals" /\ IdleFrames /\ SignalInit /\ IdleRecord
    \/ subject = "records" /\ IdleFrames /\ IdleSignals /\ RecordInit

CodecsNext ==
    \/ subject = "frames" /\ FrameNext /\ UNCHANGED <<signalVars, recordVars>>
    \/ subject = "signals" /\ SignalNext /\ UNCHANGED <<frameVars, recordVars>>
    \/ subject = "records" /\ RecordNext /\ UNCHANGED <<frameVars, signalVars>>
=============================================================================
