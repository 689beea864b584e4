---------------------------- MODULE RecordCodec ----------------------------
(***************************************************************************)
(* The codec of a CDD data record: how the items of a record are laid out  *)
(* as fields, and how Encode and Decode go between the fields' values and  *)
(* the bytes of a payload.  Fields are whole bytes, each repeated a fixed  *)
(* number of times, or the last one a variable number; the fields of a     *)
(* STRUCT are bits of an enclosing value with a byte order of its own.     *)
(*                                                                         *)
(* Integer encodings are modelled; text and floating point are bytes that  *)
(* are copied.  A byte has ByteBits bits, eight in the code.               *)
(***************************************************************************)
EXTENDS Scalar

CONSTANTS ByteBits,    \* bits in a byte
          Records,     \* the records a document describes, as their items
          MaxBytes,    \* length of the longest payload received
          Elements     \* values a caller tries for one element

ASSUME ByteBitsAssumption == ByteBits \in Nat \ {0}

VARIABLES record,      \* the record in use
          bytes,       \* a payload
          done         \* the last operation and its values

recordVars == <<record, bytes, done>>

Octets == 0..(2 ^ ByteBits - 1)
Array(elements) == [kind |-> "array", elements |-> elements]

Sum(n, term) == Total([i \in 1..n |-> term[i]])
Whole(bits) == bits % ByteBits = 0
LastOf(s) == s[Len(s)]

-----------------------------------------------------------------------------
(* Layout: the fields of a record and where each of them is. *)

NoContainer == [bits |-> 0]
Variable(f) == f.least # f.most
BitSize(f) == f.bits * f.least
MaxBitSize(f) == f.bits * f.most

\* appendBitfield: the children of a STRUCT fill the enclosing value from its
\* least significant bit, a child after the gap before it.
StructFields(item, at) ==
    LET end[i \in 0..Len(item.children)] ==
          IF i = 0 THEN 0
          ELSE end[i - 1] + item.children[i].gap + item.children[i].field.bits
    IN [i \in DOMAIN item.children |->
          [item.children[i].field EXCEPT !.at = end[i] - item.children[i].field.bits,
                                         !.container = [at |-> at, bits |-> item.bits,
                                                        order |-> item.order]]]

StructFits(item, at) ==
    LET fields == StructFields(item, at) IN
    /\ Whole(item.bits) /\ Whole(at)
    /\ \A i \in DOMAIN fields :
         /\ fields[i].least = 1 /\ fields[i].most = 1
         /\ fields[i].at + fields[i].bits <= item.bits

Layout(fields, offset, ok) == [fields |-> fields, offset |-> offset, ok |-> ok]

\* appendFields: nothing may follow a field of variable length.
AppendField(layout, item) ==
    LET follows == layout.fields # <<>> /\ Variable(LastOf(layout.fields)) IN
    CASE item.item = "data" ->
           Layout(Append(layout.fields, [item.field EXCEPT !.at = layout.offset]),
                  layout.offset + BitSize(item.field), layout.ok /\ ~follows)
      [] item.item = "gap" ->
           Layout(layout.fields, layout.offset + item.bits,
                  layout.ok /\ ~follows /\ Whole(item.bits) /\ Whole(layout.offset))
      [] item.item = "struct" ->
           Layout(layout.fields \o StructFields(item, layout.offset), layout.offset + item.bits,
                  layout.ok /\ ~follows /\ StructFits(item, layout.offset))

\* resolveRecord
Resolved(items) ==
    LET after[n \in 0..Len(items)] ==
          IF n = 0 THEN Layout(<<>>, 0, TRUE) ELSE AppendField(after[n - 1], items[n])
    IN after[Len(items)]

Fields(r) == Resolved(r).fields
BytesOf(bits) == (bits + ByteBits - 1) \div ByteBits
Length(r) == BytesOf(Resolved(r).offset)
MaxLength(r) ==
    LET fields == Fields(r) IN
    BytesOf(Resolved(r).offset
              + IF fields = <<>> THEN 0 ELSE MaxBitSize(LastOf(fields)) - BitSize(LastOf(fields)))

\* validateConversionRange: some raw value is within the limits.
LimitsReachable(f) ==
    LET least == IF f.signed THEN -(2 ^ (f.bits - 1)) ELSE 0
        most == IF f.signed THEN 2 ^ (f.bits - 1) - 1 ELSE 2 ^ f.bits - 1
    IN f.low <= most /\ f.high >= least

\* compileRecordCodec
RecordUsable(r) ==
    /\ Resolved(r).ok
    /\ \A i \in DOMAIN Fields(r) :
         LET f == Fields(r)[i] IN
         /\ f.container = NoContainer => Whole(f.at) /\ Whole(f.bits)
         /\ f.factor # 0
         /\ LimitsReachable(f)

-----------------------------------------------------------------------------
(* Elements. *)

WithinLimits(f, raw) == DecodeInteger(f, raw) \in f.low..f.high

\* encodeScalar
RawOfElement(f, value, allowLabel) ==
    {raw \in IF value.kind = "label"
             THEN IF allowLabel THEN RawOfLabel(f, value.label) ELSE {}
             ELSE RawOfInteger(f, value.n) :
       WithinLimits(f, raw)}

\* decodeScalar
ElementOf(f, raw, allowLabel) == IF allowLabel THEN ValueOf(f, raw) ELSE Number(Physical(f, raw))

\* writeRaw and readRaw: the bytes of an element in its byte order.
RawBytes(f, raw) ==
    LET n == f.bits \div ByteBits IN
    [i \in 1..n |-> (raw \div 2 ^ (ByteBits * (IF f.order = "little" THEN i - 1 ELSE n - i)))
                      % 2 ^ ByteBits]

RawOfBytes(f, b) ==
    Sum(Len(b), [i \in DOMAIN b |->
                   b[i] * 2 ^ (ByteBits * (IF f.order = "little" THEN i - 1 ELSE Len(b) - i))])

\* packedBit: the byte of the payload, counted from zero, and its bit.
PackedBit(f, bit) ==
    LET position == f.at + bit
        index == position \div ByteBits
        placed == IF f.container.order = "big"
                  THEN (f.container.bits \div ByteBits) - 1 - index ELSE index
    IN <<(f.container.at \div ByteBits) + placed, position % ByteBits>>

Bit(b, place) == (b[place[1] + 1] \div 2 ^ place[2]) % 2

ReadPacked(b, f) == Sum(f.bits, [i \in 1..f.bits |-> Bit(b, PackedBit(f, i - 1)) * 2 ^ (i - 1)])

WritePacked(b, f, raw) ==
    [k \in DOMAIN b |->
       LET mine == {bit \in 0..(f.bits - 1) : PackedBit(f, bit)[1] = k - 1}
           value(place) == LET own == {bit \in mine : PackedBit(f, bit)[2] = place} IN
             IF own = {} THEN Bit(b, <<k - 1, place>>)
             ELSE (raw \div 2 ^ (CHOOSE bit \in own : TRUE)) % 2
       IN Sum(ByteBits, [place \in 1..ByteBits |-> value(place - 1) * 2 ^ (place - 1)])]

-----------------------------------------------------------------------------
(* Encode and Decode.  values has a value for every field. *)

Failure == [kind |-> "failed"]

IsScalar(f) == f.least = 1 /\ f.most = 1

\* encodeField: the field's bytes, or none.
EncodedField(f, value) ==
    LET given == IF value.kind = "array" THEN value.elements ELSE <<value>>
        raws == [i \in DOMAIN given |-> RawOfElement(f, given[i], IsScalar(f))]
        n == f.bits \div ByteBits
    IN IF \/ (value.kind = "array") = IsScalar(f)
          \/ Len(given) \notin f.least..f.most
          \/ \E i \in DOMAIN raws : raws[i] = {}
       THEN {}
       ELSE {[k \in 1..(n * Len(given)) |->
                RawBytes(f, CHOOSE raw \in raws[((k - 1) \div n) + 1] : TRUE)[((k - 1) % n) + 1]]}

Overwritten(b, start, encoded) ==
    [k \in 1..(IF start + Len(encoded) > Len(b) THEN start + Len(encoded) ELSE Len(b)) |->
       IF k \in start + 1..start + Len(encoded) THEN encoded[k - start] ELSE b[k]]

\* Encode: field after field into a payload of the record's length, which a
\* field of variable length extends.
EncodeRecord(r, values) ==
    LET fields == Fields(r)
        after[n \in 0..Len(fields)] ==
          IF n = 0 THEN {[k \in 1..Length(r) |-> 0]}
          ELSE LET f == fields[n] IN
            IF f.container # NoContainer
            THEN {WritePacked(b, f, raw) : b \in after[n - 1],
                    raw \in IF values[n].kind = "array" THEN {} ELSE RawOfElement(f, values[n], TRUE)}
            ELSE {Overwritten(b, f.at \div ByteBits, e) : b \in after[n - 1], e \in EncodedField(f, values[n])}
    IN IF RecordUsable(r)
       THEN {b \in after[Len(fields)] : Len(b) <= MaxLength(r)} ELSE {}


\* validatePayloadLength
AcceptsLength(r, n) ==
    /\ n \in Length(r)..MaxLength(r)
    /\ Length(r) # MaxLength(r) =>
         LET last == LastOf(Fields(r))
             size == last.bits \div ByteBits
             rest == n - (last.at \div ByteBits)
         IN rest >= 0 /\ rest % size = 0 /\ rest \div size \in last.least..last.most

\* decodeField
DecodedField(f, b) ==
    LET n == f.bits \div ByteBits
        raws == [i \in 1..(Len(b) \div n) |-> RawOfBytes(f, SubSeq(b, (i - 1) * n + 1, i * n))]
    IN IF \E i \in DOMAIN raws : ~WithinLimits(f, raws[i]) THEN Failure
       ELSE IF IsScalar(f) THEN ElementOf(f, raws[1], TRUE)
       ELSE Array([i \in DOMAIN raws |-> ElementOf(f, raws[i], FALSE)])

DecodeRecord(r, b) ==
    LET value(f) ==
          IF f.container # NoContainer
          THEN IF WithinLimits(f, ReadPacked(b, f)) THEN ElementOf(f, ReadPacked(b, f), TRUE) ELSE Failure
          ELSE LET start == f.at \div ByteBits
                   end == IF Variable(f) THEN Len(b) ELSE start + (BitSize(f) \div ByteBits)
               IN DecodedField(f, SubSeq(b, start + 1, end))
    IN IF ~RecordUsable(r) \/ ~AcceptsLength(r, Len(b)) THEN Failure
       ELSE LET values == [i \in DOMAIN Fields(r) |-> value(Fields(r)[i])] IN
            IF \E i \in DOMAIN values : values[i] = Failure THEN Failure
            ELSE [kind |-> "values", values |-> values]

-----------------------------------------------------------------------------
Tries(f) ==
    IF IsScalar(f) THEN Elements
    ELSE {Array(e) : e \in UNION {[1..n -> {v \in Elements : v.kind = "number"}] : n \in f.least..f.most}}

\* A value for every field.
ValuesFor(fields) ==
    LET upTo[n \in 0..Len(fields)] ==
          IF n = 0 THEN {<<>>} ELSE {Append(p, v) : p \in upTo[n - 1], v \in Tries(fields[n])}
    IN upTo[Len(fields)]

RecordInit ==
    /\ record \in Records
    /\ RecordUsable(record)
    /\ \/ done = [op |-> "new"] /\ bytes = <<>>
       \/ /\ done = [op |-> "received"]
          /\ bytes \in UNION {[1..n -> Octets] : n \in 0..MaxBytes}

EncodeNew ==
    /\ done.op = "new"
    /\ \E values \in ValuesFor(Fields(record)) :
         LET results == EncodeRecord(record, values) IN
         /\ results # {}
         /\ bytes' \in results
         /\ done' = [op |-> "encoded", values |-> values]
    /\ UNCHANGED record

DecodeReceived ==
    /\ done.op = "received"
    /\ LET decoded == DecodeRecord(record, bytes) IN
         /\ decoded # Failure
         /\ done' = [op |-> "decoded", values |-> decoded.values]
    /\ UNCHANGED <<record, bytes>>

RecordNext == EncodeNew \/ DecodeReceived

-----------------------------------------------------------------------------
\* The places a field occupies in a payload of n bytes.
Occupied(f, n) ==
    IF f.container # NoContainer THEN {PackedBit(f, bit) : bit \in 0..(f.bits - 1)}
    ELSE LET start == f.at \div ByteBits
             size == (IF Variable(f) THEN n * ByteBits - f.at ELSE BitSize(f)) \div ByteBits
         IN (start..(start + size - 1)) \X (0..(ByteBits - 1))

HeldElement(f, value, decoded) ==
    \E raw \in RawOfElement(f, value, TRUE) :
        /\ decoded \in {ValueOf(f, raw), Number(Physical(f, raw))}
        /\ value.kind = "number" => Nearest(f, value.n, Physical(f, raw))
        /\ value.kind = "label" => Names(f, value.label, raw)

\* Whatever Encode accepts, Decode accepts, and every field comes back: a label
\* as the name of its raw value, a number within half a step, an array element
\* by element.
RecordRoundTrip ==
    done.op = "encoded" =>
        LET decoded == DecodeRecord(record, bytes) IN
        /\ decoded.kind = "values"
        /\ \A i \in DOMAIN Fields(record) :
             LET f == Fields(record)[i]
                 given == done.values[i]
                 got == decoded.values[i] IN
             IF given.kind = "array"
             THEN /\ got.kind = "array" /\ Len(got.elements) = Len(given.elements)
                  /\ \A k \in DOMAIN given.elements :
                       HeldElement(f, given.elements[k], got.elements[k])
             ELSE HeldElement(f, given, got)

Ambiguous(f) ==
    \E i, j \in DOMAIN f.choices :
        f.choices[i].label = f.choices[j].label /\ f.choices[i].value # f.choices[j].value

HasInexact(f, value) ==
    IF value.kind = "array" THEN \E k \in DOMAIN value.elements : Inexact(f, value.elements[k])
    ELSE Inexact(f, value)

\* What Decode returns, Encode accepts, and it restores the payload: every bit
\* a field occupies as it was, every bit of a gap zero.  But a scaled value whose
\* raw magnitude is not exact in a float64 is refused, and never written as a
\* neighbour of what was read.  A field two values of which have one label is
\* excepted.
RecordRestored ==
    done.op = "decoded" /\ (\A i \in DOMAIN Fields(record) : ~Ambiguous(Fields(record)[i])) =>
        LET results == EncodeRecord(record, done.values)
            occupied == UNION {Occupied(Fields(record)[i], Len(bytes)) : i \in DOMAIN Fields(record)}
            restored(b) ==
              /\ Len(b) = Len(bytes)
              /\ \A place \in (0..(Len(b) - 1)) \X (0..(ByteBits - 1)) :
                   Bit(b, place) = IF place \in occupied THEN Bit(bytes, place) ELSE 0
        IN IF \E i \in DOMAIN Fields(record) : HasInexact(Fields(record)[i], done.values[i])
           THEN results = {}
           ELSE \E b \in results : restored(b)

\* The fields of a record are inside its payload and share no bit of it, for
\* every number of elements the last one may have.
FieldsDisjoint ==
    done.op \in {"encoded", "decoded"} =>
        \A i \in DOMAIN Fields(record) :
            LET mine == Occupied(Fields(record)[i], Len(bytes)) IN
            /\ mine \subseteq (0..(Len(bytes) - 1)) \X (0..(ByteBits - 1))
            /\ \A j \in DOMAIN Fields(record) :
                 i # j => mine \cap Occupied(Fields(record)[j], Len(bytes)) = {}

=============================================================================
