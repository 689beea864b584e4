---------------------------- MODULE J1939Decoder ----------------------------
(***************************************************************************)
(* The passive J1939 decoder (j1939.Decoder): transport sessions and       *)
(* observed identities, as a function of the frames pushed so far.  A      *)
(* decoder is a record of its two maps and of the messages it has          *)
(* completed.  Malformed frames are left out (a TP frame of other than     *)
(* eight bytes, a size that does not fit its packet count); a payload is   *)
(* the sequence of its packets, each with the number of the transfer it    *)
(* belongs to, which the frame does not carry.                             *)
(***************************************************************************)
EXTENDS Integers, Sequences, FiniteSets

GlobalAddress == 255
NullAddress == 254

\* The frames of a J1939 bus: pgn is the target of a TP.CM, a and b are its
\* numbers (packets and window of an RTS, count and next of a CTS, sequence of
\* a DT, NAME of a claim), id the transfer, as history.
Frame(kind, src, dst, pgn, a, b, id) ==
    [kind |-> kind, src |-> src, dst |-> dst, pgn |-> pgn, a |-> a, b |-> b, id |-> id]

NewDecoder == [sessions |-> {}, names |-> {}, messages |-> {}]

oppositeDirection(dir) == IF dir = "tx" THEN "rx" ELSE "tx"

\* The session of a key: at most one.
SessionOf(d, dir, src, dst) ==
    {x \in d.sessions : x.dir = dir /\ x.src = src /\ x.dst = dst}

Without(d, gone) == [d EXCEPT !.sessions = @ \ gone]

\* startSession: a new BAM or RTS replaces what its key held.
startSession(d, dir, f) ==
    LET left == Without(d, SessionOf(d, dir, f.src, f.dst)) IN
    IF f.src >= NullAddress \/ f.dst = NullAddress \/ (f.kind = "bam") # (f.dst = GlobalAddress)
       \/ (f.kind = "rts" /\ f.b = 0)
    THEN left
    ELSE [left EXCEPT !.sessions = @ \cup {[dir |-> dir, src |-> f.src, dst |-> f.dst,
            pgn |-> f.pgn, packets |-> f.a, max |-> f.b, next |-> 1,
            end |-> IF f.kind = "bam" THEN f.a ELSE 0, data |-> <<>>]}]

\* pushData: the packet expected next, inside the window a CTS granted.
pushData(d, dir, f) ==
    LET active == SessionOf(d, dir, f.src, f.dst) IN
    IF active = {} THEN d
    ELSE LET x == CHOOSE x \in active : TRUE
             grown == [x EXCEPT !.data = Append(@, <<f.id, f.a>>), !.next = @ + 1] IN
         IF f.a # x.next \/ f.a > x.end THEN Without(d, active)
         ELSE IF Len(grown.data) = x.packets
         THEN [Without(d, active) EXCEPT !.messages = @ \cup {grown}]
         ELSE [Without(d, active) EXCEPT !.sessions = @ \cup {grown}]

\* The sessions a reverse-direction control frame may be about.
reverseSession(d, dir, f) ==
    {x \in SessionOf(d, dir, f.dst, f.src) \cup SessionOf(d, oppositeDirection(dir), f.dst, f.src) :
        x.pgn = f.pgn}

\* clearToSend: opens a window, or truncates to a prefix that is sent again.
clearToSend(d, dir, f) ==
    LET active == reverseSession(d, dir, f) IN
    IF Cardinality(active) # 1 THEN Without(d, active)
    ELSE LET x == CHOOSE x \in active : TRUE IN
         IF \/ x.next <= x.end
            \/ x.dst = GlobalAddress
            \/ f.a > x.max
            \/ (f.a # 0 /\ (f.b < 1 \/ f.b > x.next \/ f.b + f.a - 1 > x.packets))
         THEN Without(d, active)
         ELSE [Without(d, active) EXCEPT !.sessions = @ \cup
                 {IF f.a = 0 THEN [x EXCEPT !.end = 0]
                  ELSE [x EXCEPT !.data = SubSeq(@, 1, f.b - 1), !.next = f.b,
                                 !.end = f.b + f.a - 1]}]

\* abortSession: either peer ends the transfers of the PGN between them.
abortSession(d, dir, f) ==
    IF f.src >= NullAddress \/ f.dst >= NullAddress THEN d
    ELSE Without(d, {x \in SessionOf(d, dir, f.src, f.dst) \cup SessionOf(d, dir, f.dst, f.src)
                        \cup SessionOf(d, oppositeDirection(dir), f.dst, f.src) : x.pgn = f.pgn})

\* Names: the identities observed claiming address.
Names(d, address) == {e[1] : e \in {e \in d.names : e[2] = address}}

\* observeClaim: a NAME has one address; a claim that competes with another, or
\* that moves a NAME, invalidates the sessions of the addresses involved.
observeClaim(d, f) ==
    LET previous == {e[2] : e \in {e \in d.names : e[1] = f.a}}
        others == {e \in d.names : e[1] # f.a}
        names == IF f.src = NullAddress THEN others ELSE others \cup {<<f.a, f.src>>}
        competing == Cardinality(Names([d EXCEPT !.names = names], f.src)) > 1
        moved == previous # {} /\ previous # {f.src}
        touched == {f.src} \cup previous
    IN [d EXCEPT !.names = names,
                 !.sessions = IF competing \/ moved
                              THEN {x \in @ : x.src \notin touched /\ x.dst \notin touched}
                              ELSE @]

\* A frame that is a message by itself.
single(d, dir, f) ==
    [d EXCEPT !.messages = @ \cup {[dir |-> dir, src |-> f.src, dst |-> f.dst, pgn |-> f.pgn,
        packets |-> 0, max |-> 0, next |-> 1, end |-> 0, data |-> <<<<f.id, 0>>>>]}]

\* Push: the sessions in late have outlived their deadline when f arrives.
Push(decoder, dir, f, late) ==
    LET d == Without(decoder, late) IN
    CASE f.kind \in {"bam", "rts"} -> startSession(d, dir, f)
      [] f.kind = "dt" -> pushData(d, dir, f)
      [] f.kind = "cts" -> clearToSend(d, dir, f)
      [] f.kind = "eoma" -> Without(d, reverseSession(d, dir, f))
      [] f.kind = "abort" -> abortSession(d, dir, f)
      [] f.kind = "claim" -> observeClaim(d, f)
      [] OTHER -> single(d, dir, f)
=============================================================================
