---------------------------- MODULE Scalar ----------------------------
(***************************************************************************)
(* Raw and physical values of one integer element, as the DBC and the CDD  *)
(* codec share them.  An element s has a width, a sign, a factor, an       *)
(* offset and a sequence of choices that label raw values.  Physical       *)
(* values, factors and offsets are integers here.  A conversion that can   *)
(* fail returns the set of its results: one, or none.                      *)
(***************************************************************************)
EXTENDS Integers, FiniteSets, Sequences

CONSTANT ExactMagnitude   \* the raw magnitude float64 is exact to, 2^53 in the code

ASSUME ExactMagnitudeAssumption == ExactMagnitude \in Nat

Number(n) == [kind |-> "number", n |-> n]
Label(l) == [kind |-> "label", label |-> l]

Total(weights) ==
    LET sum[n \in 0..Len(weights)] == IF n = 0 THEN 0 ELSE sum[n - 1] + weights[n]
    IN sum[Len(weights)]

Abs(n) == IF n < 0 THEN -n ELSE n

\* math.Round(n / d): half away from zero.
Rounded(n, d) ==
    LET q == (2 * Abs(n) + Abs(d)) \div (2 * Abs(d)) IN
    IF (n < 0) = (d < 0) THEN q ELSE -q

\* EncodeSigned and EncodeUnsigned.
EncodeInteger(s, value) ==
    LET span == 2 ^ s.bits
        least == IF s.signed THEN -(span \div 2) ELSE 0
    IN IF value \in least..(least + span - 1) THEN {value % span} ELSE {}

DecodeInteger(s, raw) ==
    IF s.signed /\ raw >= 2 ^ (s.bits - 1) THEN raw - 2 ^ s.bits ELSE raw

Physical(s, raw) == DecodeInteger(s, raw) * s.factor + s.offset

\* The nearest raw value, unless float64 could not produce it exactly.
LinearRaw(s, physical) ==
    LET rounded == Rounded(physical - s.offset, s.factor) IN
    IF Abs(rounded) > ExactMagnitude THEN {} ELSE EncodeInteger(s, rounded)

\* An unscaled element takes its integer as it is, whatever its magnitude.
Unscaled(s) == s.factor = 1 /\ s.offset = 0
RawOfInteger(s, n) == IF Unscaled(s) THEN EncodeInteger(s, n) ELSE LinearRaw(s, n)

\* The values the label stands for must agree.
RawOfLabel(s, label) ==
    LET values == {s.choices[i].value : i \in {j \in DOMAIN s.choices : s.choices[j].label = label}}
    IN IF Cardinality(values) # 1 THEN {}
       ELSE EncodeInteger(s, CHOOSE v \in values : TRUE)

\* DecodeLinear: the first choice with the raw value, or its number.
ValueOf(s, raw) ==
    LET named == {i \in DOMAIN s.choices : s.choices[i].value = DecodeInteger(s, raw)} IN
    IF named # {} THEN Label(s.choices[CHOOSE i \in named : \A j \in named : i <= j].label)
    ELSE Number(Physical(s, raw))

-----------------------------------------------------------------------------
\* A value that Decode returns and Encode refuses: of too large a raw magnitude.
Inexact(s, value) ==
    /\ value.kind = "number" /\ ~Unscaled(s)
    /\ Abs(Rounded(value.n - s.offset, s.factor)) > ExactMagnitude
Nearest(s, n, decoded) == 2 * Abs(decoded - n) <= Abs(s.factor)
Names(s, label, raw) ==
    \E i \in DOMAIN s.choices : s.choices[i] = [label |-> label, value |-> DecodeInteger(s, raw)]

=============================================================================
