----------------------------- MODULE AscWriter -----------------------------
(***************************************************************************)
(* The ASC trace writer over a buffered stream.  The header is written by  *)
(* the first record, which gives the start of the measurement, the footer  *)
(* by Close.  The buffer is flushed when it is full, in the middle of a    *)
(* line if need be; a write may fail with a part of it in the output, and  *)
(* the buffer keeps the error.                                             *)
(*                                                                         *)
(* The text of a line is its two halves, so that an output can end between *)
(* them; the buffer holds AscBuffer halves.                                *)
(***************************************************************************)
EXTENDS Integers, Sequences

CONSTANTS AscTimes,      \* timestamps of records
          AscBuffer,     \* halves of lines the buffer holds, two or more
          AscRecords     \* records accepted in one behaviour

VARIABLES asc,           \* the Writer and its buffer
          output,        \* the halves of lines in the output
          told           \* the accepted records, and what the last call returned

ascVars == <<asc, output, told>>

HeaderLine(t) == [line |-> "header", time |-> t]
RecordLine(t) == [line |-> "record", time |-> t]
FooterLine == [line |-> "footer", time |-> 0]
Halves(line) == <<<<line, 1>>, <<line, 2>>>>

First(n, s) == SubSeq(s, 1, n)
After(n, s) == SubSeq(s, n + 1, Len(s))

\* The outcomes of one underlying write of n of the pending halves: all of
\* them, or an error with any number of them.
Delivers(w, out, n) ==
    {[w |-> [w EXCEPT !.pending = After(n, @)], out |-> out \o First(n, w.pending)]}
      \cup {[w |-> [w EXCEPT !.failed = TRUE], out |-> out \o First(k, w.pending)] : k \in 0..n}

\* External: bufio.Writer.  A line that does not fit fills the buffer, which is
\* delivered whole, and the rest of the line follows into the empty buffer.
Buffers(w, out, line) ==
    LET all == [w EXCEPT !.pending = @ \o Halves(line)] IN
    IF w.failed THEN {[w |-> w, out |-> out]}
    ELSE IF Len(all.pending) <= AscBuffer THEN {[w |-> all, out |-> out]}
    ELSE Delivers(all, out, AscBuffer)

DeliversAll(w, out) ==
    IF w.failed \/ w.pending = <<>> THEN {[w |-> w, out |-> out]}
    ELSE Delivers(w, out, Len(w.pending))

Tells(call, result) == [told EXCEPT !.call = call, !.result = result]
Result(w) == IF w.failed THEN "error" ELSE "nil"

\* beginRecord's header: the writer has started only when it was buffered.
Started(t) ==
    IF asc.started THEN {[w |-> asc, out |-> output]}
    ELSE {[s EXCEPT !.w = IF s.w.failed THEN s.w
                          ELSE [s.w EXCEPT !.started = TRUE, !.start = t, !.last = t]] :
            s \in Buffers(asc, output, HeaderLine(t))}

Regresses(w, t) == t < w.last

\* WriteFrame and WriteEvent.
WriteRecord(t) ==
    /\ Len(told.accepted) < AscRecords
    /\ IF asc.closed THEN told' = Tells("Write", "refused") /\ UNCHANGED <<asc, output>>
       ELSE \E s \in Started(t) :
              IF s.w.failed \/ Regresses(s.w, t)
              THEN /\ asc' = s.w /\ output' = s.out
                   /\ told' = Tells("Write", IF s.w.failed THEN "error" ELSE "refused")
              ELSE \E r \in Buffers(s.w, s.out, RecordLine(t)) :
                     /\ asc' = IF r.w.failed THEN r.w ELSE [r.w EXCEPT !.last = t]
                     /\ output' = r.out
                     /\ told' = [Tells("Write", Result(r.w)) EXCEPT
                                   !.accepted = IF r.w.failed THEN @ ELSE Append(@, t)]

FlushTrace ==
    \E s \in DeliversAll(asc, output) :
        asc' = s.w /\ output' = s.out /\ told' = Tells("Flush", Result(s.w))

\* The footer, if a record was ever begun, and the delivery of all there is.
Closing(w, out) ==
    UNION {DeliversAll(s.w, s.out) :
             s \in IF w.started THEN Buffers(w, out, FooterLine) ELSE {[w |-> w, out |-> out]}}

\* Close a second time returns nil, also after a Close that failed.
CloseTrace ==
    IF asc.closed THEN told' = Tells("CloseAgain", "nil") /\ UNCHANGED <<asc, output>>
    ELSE \E s \in Closing([asc EXCEPT !.closed = TRUE], output) :
           asc' = s.w /\ output' = s.out /\ told' = Tells("Close", Result(s.w))

AscInit ==
    /\ asc = [started |-> FALSE, closed |-> FALSE, failed |-> FALSE, start |-> 0, last |-> 0,
              pending |-> <<>>]
    /\ output = <<>>
    /\ told = [call |-> "none", result |-> "none", accepted |-> <<>>]

AscNext == (\E t \in AscTimes : WriteRecord(t)) \/ FlushTrace \/ CloseTrace

-----------------------------------------------------------------------------
TextOf(lines) ==
    LET upTo[n \in 0..Len(lines)] == IF n = 0 THEN <<>> ELSE upTo[n - 1] \o Halves(lines[n])
    IN upTo[Len(lines)]

AcceptedLines ==
    (IF asc.started THEN <<HeaderLine(asc.start)>> ELSE <<>>)
      \o [i \in DOMAIN told.accepted |-> RecordLine(told.accepted[i])]
Trace(more) == TextOf(AcceptedLines \o more)

Begins(s, t) == Len(s) <= Len(t) /\ s = First(Len(s), t)

\* Whatever write fails, the output is the beginning of a trace: one header of
\* the first record's time, the accepted records with times that never go back,
\* and after them at most a part of one more line, the footer only of a closed
\* writer.
TraceBegins ==
    /\ \E more \in {<<>>} \cup (IF asc.started THEN {} ELSE {<<HeaderLine(t)>> : t \in AscTimes})
                     \cup {<<RecordLine(t)>> : t \in AscTimes}
                     \cup (IF asc.closed THEN {<<FooterLine>>} ELSE {}) :
         Begins(output, Trace(more))
    /\ \A i \in 1..(Len(told.accepted) - 1) : told.accepted[i] <= told.accepted[i + 1]
    /\ told.accepted # <<>> => asc.start <= told.accepted[1]

\* A nil from Flush means that every accepted record is in the output, from
\* Close that the footer is as well.
TraceComplete ==
    told.result = "nil" =>
        /\ told.call = "Flush" /\ ~asc.closed => output = Trace(<<>>)
        /\ told.call = "Close" => output = IF asc.started THEN Trace(<<FooterLine>>) ELSE <<>>

\* The trace is whole up to where it ends, and nil means it does not end early.
TraceExact == TraceBegins /\ TraceComplete
=============================================================================
