---------------------------- MODULE SignalCodec ----------------------------
(***************************************************************************)
(* The codec of a DBC message: signals are runs of bits of the payload,    *)
(* in Intel or Motorola order, some of them present only while a selector  *)
(* signal has a value in their ranges, and selectors may themselves be     *)
(* selected.  Encode builds a payload, Patch changes some signals of one,  *)
(* DecodePayload reads one signal of a payload that may be cut short.      *)
(*                                                                         *)
(* A payload is the set of its bits that are one.  Physical values,        *)
(* factors and offsets are integers here; a value is a number or a label.  *)
(***************************************************************************)
EXTENDS Scalar, TLC

CONSTANTS Messages,    \* the messages a database describes
          Payloads,    \* payloads received from the bus
          Numbers,     \* physical values a caller tries
          Labels       \* labels a caller tries

VARIABLES message,     \* the message in use
          payload,     \* the frame's payload
          latest       \* the last operation, its input and its outcome

signalVars == <<message, payload, latest>>

New == [op |-> "new"]
Received == [op |-> "received"]
Refused == [kind |-> "refused"]
Inactive == [kind |-> "inactive"]
Present == [kind |-> "active"]

Signals(m) == DOMAIN m.signals
Signal(m, i) == m.signals[i]

-----------------------------------------------------------------------------
(* The bits of a signal. *)

\* nextBigEndianBit: down a byte, then to the top bit of the byte after it.
NextBit(bit) == IF bit % 8 = 0 THEN bit + 15 ELSE bit - 1

\* The bits of signal s in the order visitSignalBits visits them.
Visits(s) ==
    LET visit[i \in 1..s.bits] ==
          IF i = 1 THEN s.start
          ELSE IF s.order = "little" THEN visit[i - 1] + 1 ELSE NextBit(visit[i - 1])
    IN visit

Bits(s) == {Visits(s)[i] : i \in 1..s.bits}

\* The weight of the i-th bit visited.
Weight(s, i) == 2 ^ (IF s.order = "little" THEN i - 1 ELSE s.bits - i)

ReadBits(data, s) ==
    LET visit == Visits(s) IN
    Total([i \in 1..s.bits |-> IF visit[i] \in data THEN Weight(s, i) ELSE 0])

WriteBits(data, s, raw) ==
    LET visit == Visits(s) IN
    (data \ Bits(s)) \cup {visit[i] : i \in {j \in 1..s.bits : (raw \div Weight(s, j)) % 2 = 1}}

\* validateSignalLayout
Fits(s, length) == s.bits > 0 /\ \A bit \in Bits(s) : bit < 8 * length

Available(s, length) == \A bit \in Bits(s) : bit < 8 * length

-----------------------------------------------------------------------------
(* Values. *)

InRange(s, physical) ==
    \/ s.minimum = 0 /\ s.maximum = 0
    \/ physical \in s.minimum..s.maximum

\* The range is checked before the conversion and, as it may round the value
\* across a limit, after it.
RawOfNumber(s, physical) ==
    {raw \in RawOfInteger(s, physical) : InRange(s, physical) /\ InRange(s, Physical(s, raw))}

\* encodeSignalValue: one raw value, or none.
RawOf(s, value) ==
    IF value.kind = "label" THEN RawOfLabel(s, value.label) ELSE RawOfNumber(s, value.n)

-----------------------------------------------------------------------------
(* Multiplexing. *)

RangesContain(ranges, value) == \E r \in ranges : r[1] <= value /\ value <= r[2]

\* Mutant: ranges that share only their ends do not intersect.
RangesIntersectOpen(left, right) ==
    \E a \in left, b \in right : a[1] < b[2] /\ b[1] < a[2]

RangesIntersect(left, right) ==
    \E a \in left, b \in right : a[1] <= b[2] /\ b[1] <= a[2]

\* The selector of a signal, its selector, and so on; a cycle ends the walk.
Path(m, i) ==
    LET walk[n \in 1..Cardinality(Signals(m)) + 1] ==
          IF n = 1 THEN i
          ELSE IF walk[n - 1] = 0 THEN 0 ELSE Signal(m, walk[n - 1]).selector
    IN walk

Cyclic(m, i) == Path(m, i)[Cardinality(Signals(m)) + 1] # 0

\* signalConstraints: the ranges every selector above a signal must be in.
Constraints(m, i) ==
    LET path == Path(m, i)
        steps == {n \in DOMAIN path : path[n] # 0 /\ Signal(m, path[n]).selector # 0}
    IN [selector \in {Signal(m, path[n]).selector : n \in steps} |->
          UNION {Signal(m, path[n]).ranges :
                   n \in {k \in steps : Signal(m, path[k]).selector = selector}}]

ConstraintsCompatible(left, right) ==
    \A selector \in DOMAIN left \cap DOMAIN right :
        RangesIntersect(left[selector], right[selector])

\* validateOverlaps
Overlaps(m) ==
    \E i, j \in Signals(m) :
        /\ i < j
        /\ ConstraintsCompatible(Constraints(m, i), Constraints(m, j))
        /\ Bits(Signal(m, i)) \cap Bits(Signal(m, j)) # {}

\* compileMessageCodec: why a message cannot be used at all, or not written.
Usable(m) == \A i \in Signals(m) : ~Cyclic(m, i)

Writable(m) ==
    /\ Usable(m)
    /\ \A i \in Signals(m) :
         /\ Signal(m, i).factor # 0
         /\ Signal(m, i).minimum <= Signal(m, i).maximum
         /\ Signal(m, i).mux => ~Signal(m, i).signed
    /\ ~Overlaps(m)

\* activeSignals: the signals whose whole path of selectors has raw values in
\* their ranges.
ActiveSignals(m, raw) ==
    LET path(i) == Path(m, i)
        above(i) == {n \in DOMAIN path(i) : path(i)[n] # 0 /\ Signal(m, path(i)[n]).selector # 0}
    IN {i \in Signals(m) :
          \A n \in above(i) :
             LET of == Signal(m, path(i)[n]) IN
             of.selector \in DOMAIN raw /\ RangesContain(of.ranges, raw[of.selector])}

\* The selectors activeSignals needs and does not have.
MissingSelectors(m, raw) ==
    {s \in {Signal(m, i).selector : i \in Signals(m)} \ {0} :
       s \in ActiveSignals(m, raw) /\ s \notin DOMAIN raw}

Selectors(m) == {i \in Signals(m) : Signal(m, i).mux}
SelectorValues(m, data) == [i \in Selectors(m) |-> ReadBits(data, Signal(m, i))]

-----------------------------------------------------------------------------
(* Operations.  values is a function from some signals to values. *)

\* convertValues
Convertible(m, values) == \A i \in DOMAIN values : RawOf(Signal(m, i), values[i]) # {}
RawValues(m, values) == [i \in DOMAIN values |-> CHOOSE raw \in RawOf(Signal(m, i), values[i]) : TRUE]

\* The signals written one after the other, in the order of the sequence.
Written(m, data, raw, order) ==
    LET after[n \in 0..Len(order)] ==
          IF n = 0 THEN data ELSE WriteBits(after[n - 1], Signal(m, order[n]), raw[order[n]])
    IN after[Len(order)]

\* Encode visits the signals in the order of the message, Patch its changes in
\* the order of a Go map, which is any order.
InOrder(m, S) == SelectSeq([i \in Signals(m) |-> i], LAMBDA i : i \in S)
Orders(m, S) ==
    {[n \in 1..Cardinality(S) |-> p[InOrder(m, S)[n]]] : p \in Permutations(S)}

EncodePayload(m, values) ==
    IF ~Writable(m) \/ ~Convertible(m, values) THEN {}
    ELSE LET raw == RawValues(m, values)
             active == ActiveSignals(m, raw)
         IN IF MissingSelectors(m, raw) # {} \/ active # DOMAIN values THEN {}
            ELSE {Written(m, {}, raw, InOrder(m, active))}

PatchPayload(m, data, changes) ==
    IF ~Writable(m) \/ ~Convertible(m, changes) THEN {}
    ELSE LET raw == RawValues(m, changes)
             old == SelectorValues(m, data)
             new == [i \in DOMAIN old |-> IF i \in DOMAIN raw THEN raw[i] ELSE old[i]]
             was == ActiveSignals(m, old)
             active == ActiveSignals(m, new)
         IN IF active \ was \subseteq DOMAIN changes /\ DOMAIN changes \subseteq active
            THEN {Written(m, data, raw, order) : order \in Orders(m, DOMAIN changes)} ELSE {}

\* signalActiveInPayload: from the top selector down, each must be active and
\* its bits present before its value says whether the next one is.
ActiveInPayload(m, data, length, i) ==
    LET path == Path(m, i)
        status[n \in DOMAIN path] ==
          LET of == Signal(m, path[n])
              above == Signal(m, of.selector)
          IN IF of.selector = 0 THEN Present
             ELSE IF status[n + 1] # Present THEN status[n + 1]
             ELSE IF ~Available(above, length) THEN Refused
             ELSE IF RangesContain(of.ranges, ReadBits(data, above)) THEN Present ELSE Inactive
    IN status[1]

DecodePayload(m, data, length, i) ==
    IF ~Usable(m) THEN Refused
    ELSE LET status == ActiveInPayload(m, data, length, i) IN
         IF status # Present THEN status
         ELSE IF ~Available(Signal(m, i), length) THEN Refused
         ELSE ValueOf(Signal(m, i), ReadBits(data, Signal(m, i)))

-----------------------------------------------------------------------------
Choices(m) == UNION {[S -> {Number(n) : n \in Numbers} \cup {Label(l) : l \in Labels}] :
                       S \in SUBSET Signals(m)}

SignalInit ==
    /\ message \in Messages
    /\ \A i \in Signals(message) : Fits(Signal(message, i), message.length)
    /\ \/ latest = New /\ payload = {}
       \/ latest = Received /\ payload \in Payloads

EncodeSignals ==
    /\ latest = New
    /\ \E values \in Choices(message) :
         LET results == EncodePayload(message, values) IN
         /\ results # {}
         /\ payload' \in results
         /\ latest' = [op |-> "encode", values |-> values]
    /\ UNCHANGED message

Patch ==
    /\ latest = Received
    /\ \E changes \in Choices(message) :
         LET results == PatchPayload(message, payload, changes) IN
         /\ results # {}
         /\ payload' \in results
         /\ latest' = [op |-> "patch", values |-> changes, before |-> payload]
    /\ UNCHANGED message

SignalNext == EncodeSignals \/ Patch

-----------------------------------------------------------------------------
Active == ActiveSignals(message, SelectorValues(message, payload))

\* A value written is the value read: the name of the label's raw value, or a
\* value that is in the range and within half a step of the number given.
Held(s, value, decoded) ==
    \E raw \in RawOf(s, value) :
        /\ decoded = ValueOf(s, raw)
        /\ value.kind = "number" => Nearest(s, value.n, Physical(s, raw)) /\ InRange(s, Physical(s, raw))
        /\ value.kind = "label" => Names(s, value.label, raw)

\* Encode writes a payload from which every signal it was given decodes to its
\* value, and from which no other signal decodes.
EncodeExact ==
    latest.op = "encode" =>
        \A i \in Signals(message) :
            LET decoded == DecodePayload(message, payload, message.length, i) IN
            IF i \in DOMAIN latest.values
            THEN /\ decoded.kind \in {"number", "label"}
                 /\ Held(Signal(message, i), latest.values[i], decoded)
            ELSE decoded = Inactive

\* Patch changes the bits of the signals it was given and no others, so that
\* each decodes to its value, and every other signal that is active was active
\* before and still decodes to what it did.
PatchExact ==
    latest.op = "patch" =>
        LET data(d, i) == DecodePayload(message, d, message.length, i)
            touched == UNION {Bits(Signal(message, i)) : i \in DOMAIN latest.values}
        IN /\ payload \ touched = latest.before \ touched
           /\ \A i \in Signals(message) :
                IF i \in DOMAIN latest.values
                THEN /\ data(payload, i).kind \in {"number", "label"}
                     /\ Held(Signal(message, i), latest.values[i], data(payload, i))
                ELSE data(payload, i) # Inactive => data(payload, i) = data(latest.before, i)

\* No two active signals of a message that can be written share a bit.
ActiveDisjoint ==
    Writable(message) =>
        \A i, j \in Active : i # j =>
            Bits(Signal(message, i)) \cap Bits(Signal(message, j)) = {}

\* A short payload gives the value the whole one would, or says that the
\* signal is inactive or not there: never another value, and an absence is
\* never reported as inactivity.
ShortPayloadSafe ==
    \A i \in Signals(message), n \in 0..message.length :
        DecodePayload(message, {bit \in payload : bit < 8 * n}, n, i)
            \in {Refused, DecodePayload(message, payload, message.length, i)}

\* Signals share a payload without touching each other.
SignalsExact == EncodeExact /\ PatchExact /\ ActiveDisjoint /\ ShortPayloadSafe
=============================================================================
