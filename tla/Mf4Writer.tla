----------------------------- MODULE Mf4Writer -----------------------------
(***************************************************************************)
(* The MF4 log writer and the file it writes.  A file is a header and a    *)
(* sequence of blocks that are linked by addresses; the writer appends     *)
(* blocks and patches links, counters and the identifier of blocks already *)
(* written.  Every write may fail, with nothing, a part or all of it in    *)
(* the file, and the error is sticky; what the file holds then is also     *)
(* what a crash at that write leaves.                                      *)
(*                                                                         *)
(* An address is the number of a block, 0 for none and Torn for a link     *)
(* half written.  The blocks that describe a channel group are one         *)
(* definition block, the texts of an event marker one text block.          *)
(***************************************************************************)
EXTENDS Integers, Sequences, FiniteSets

CONSTANTS GroupKeys,     \* pairs of a bus and whether frames are remote
          Times,         \* timestamps of frames and events, positive
          BufferSize,    \* frame records the buffer holds
          MaxRecords     \* records the writer accepts in one behaviour

VARIABLES writer,        \* the Writer
          file,          \* its output
          history        \* what the calls asked for and were told

mf4Vars == <<writer, file, history>>

Torn == -1
Header == 0

NewFile == [id |-> "unfinished", flags |-> "unfinished", start |-> 0,
            groups |-> 0, data |-> 0, events |-> 0, blocks |-> <<>>]

Link(block, field) == [block |-> block, field |-> field]

NewMf4Writer(compress) ==
    [compress |-> compress, start |-> 0, failed |-> FALSE, closed |-> FALSE, buffer |-> <<>>,
     groups |-> [k \in {} |-> 0],
     groupLink |-> Link(Header, "groups"), dataLink |-> Link(Header, "data"),
     eventLink |-> Link(Header, "events"), flushed |-> FALSE]

-----------------------------------------------------------------------------
(* Writes: a block appended, or a field patched. *)

Block(kind, next, content) == [kind |-> kind, next |-> next, content |-> content, whole |-> TRUE]
Appends(block) == [write |-> "block", block |-> block]
Patches(link, value) == [write |-> "patch", link |-> link, value |-> value]
PatchesHeader(field, value) == Patches(Link(Header, field), value)

Patched(f, link, value) ==
    IF link.block = Header THEN [f EXCEPT ![link.field] = value]
    ELSE [f EXCEPT !.blocks[link.block][link.field] = value]

AfterWrite(f, w) ==
    IF w.write = "block" THEN [f EXCEPT !.blocks = Append(@, w.block)] ELSE Patched(f, w.link, w.value)

\* A write that stopped half way.
Partly(f, w) ==
    IF w.write = "block" THEN [f EXCEPT !.blocks = Append(@, [w.block EXCEPT !.whole = FALSE])]
    ELSE Patched(f, w.link, CASE w.link.field \in {"id", "flags"} -> "torn"
                              [] w.link.field = "content" -> [w.value EXCEPT !.cycles = Torn]
                              [] OTHER -> Torn)

WrittenUpTo(f, writes, k) ==
    LET after[n \in 0..k] == IF n = 0 THEN f ELSE AfterWrite(after[n - 1], writes[n])
    IN after[k]

\* write and patch do nothing once the error is set: the writes of an
\* operation reach the file up to the one that fails, and perhaps part of that.
Failures(f, writes) ==
    {WrittenUpTo(f, writes, k) : k \in 0..Len(writes)}
      \cup {Partly(WrittenUpTo(f, writes, k), writes[k + 1]) : k \in 0..(Len(writes) - 1)}

-----------------------------------------------------------------------------
(* The writes of each operation. *)

NextAddress(f) == Len(f.blocks) + 1

StartWrites(w, t) == IF w.start = 0 THEN <<PatchesHeader("start", t)>> ELSE <<>>

GroupWrites(w, f, key) ==
    IF key \in DOMAIN w.groups THEN <<>>
    ELSE <<Appends(Block("definition", 0, key)),
           Appends(Block("CG", 0, [key |-> key, cycles |-> 0])),
           Patches(w.groupLink, NextAddress(f) + 1)>>

\* Mutant: the list block is linked before it is written.
FlushLinksFirst(w, at) ==
    IF w.buffer = <<>> THEN <<>>
    ELSE <<Appends(Block("DT", 0, w.buffer)), Patches(w.dataLink, at + 1),
           Appends(Block("DL", 0, at))>>

\* One data block and one list block, which a file of compressed data hangs
\* from an HL block the first time.
FlushWrites(w, at) ==
    IF w.buffer = <<>> THEN <<>>
    ELSE LET header == w.compress /\ ~w.flushed IN
         <<Appends(Block("DT", 0, w.buffer)), Appends(Block("DL", 0, at))>>
           \o (IF header THEN <<Appends(Block("HL", 0, at + 1))>> ELSE <<>>)
           \o <<Patches(w.dataLink, IF header THEN at + 2 ELSE at + 1)>>

AfterFlush(w, at) ==
    IF w.buffer = <<>> THEN w
    ELSE [w EXCEPT !.dataLink = Link(at + 1, "next"), !.flushed = TRUE, !.buffer = <<>>]

EventWrites(w, f, event) ==
    <<Appends(Block("text", 0, event)), Appends(Block("EV", 0, event)),
      Patches(w.eventLink, NextAddress(f) + 1)>>

\* Close visits the groups in the order of a Go map, which is any order.
Orderings(S) ==
    {s \in [1..Cardinality(S) -> S] : \A i, j \in DOMAIN s : s[i] = s[j] => i = j}

CounterWrites(w, keys) ==
    [i \in DOMAIN keys |->
       Patches(Link(w.groups[keys[i]].address, "content"), [key |-> keys[i], cycles |-> w.groups[keys[i]].cycles])]

CloseWrites(w, f, keys) ==
    FlushWrites(w, NextAddress(f)) \o CounterWrites(w, keys)
      \o <<PatchesHeader("flags", "finished"), PatchesHeader("id", "final")>>

-----------------------------------------------------------------------------
Said(call, result) == [history EXCEPT !.last = [call |-> call, result |-> result]]
Ready == ~writer.failed /\ ~writer.closed
MoreRecords == Len(history.frames) + Len(history.events) < MaxRecords

\* An operation whose writes fail at one of them: nothing but the error
\* matters of the writer afterwards.
FailsAt(call, writes) ==
    /\ writes # <<>>
    /\ file' \in Failures(file, writes)
    /\ writer' = [writer EXCEPT !.failed = TRUE, !.closed = writer.closed \/ call = "Close"]
    /\ history' = Said(call, "error")

\* A call that is refused changes nothing.
Refuses(call) ==
    /\ history' = Said(call, "refused")
    /\ UNCHANGED <<writer, file>>

Recorded(w, key, t) ==
    [w EXCEPT !.groups[key].cycles = @ + 1, !.groups[key].last = t,
              !.buffer = Append(@, [key |-> key, time |-> t])]

Grouped(w, f, key) ==
    IF key \in DOMAIN w.groups THEN w
    ELSE [w EXCEPT !.groups = [k \in DOMAIN @ \cup {key} |->
                                 IF k = key THEN [address |-> NextAddress(f) + 1, cycles |-> 0, last |-> 0]
                                 ELSE @[k]],
                   !.groupLink = Link(NextAddress(f) + 1, "next")]

WriteFrame(key, t) ==
    /\ MoreRecords
    /\ LET started == [writer EXCEPT !.start = IF @ = 0 THEN t ELSE @]
           early == StartWrites(writer, t)
           grouped == Grouped(started, file, key)
           toGroup == early \o GroupWrites(started, file, key)
           at == Len(WrittenUpTo(file, toGroup, Len(toGroup)).blocks) + 1
           full == Len(grouped.buffer) + 1 > BufferSize
           writes == toGroup \o IF full THEN FlushWrites(grouped, at) ELSE <<>>
           ready == IF full THEN AfterFlush(grouped, at) ELSE grouped
       IN IF ~Ready THEN Refuses("WriteFrame")
          ELSE IF t < started.start \/ (key \in DOMAIN writer.groups /\ t < writer.groups[key].last)
          THEN Refuses("WriteFrame")
          ELSE \/ FailsAt("WriteFrame", writes)
               \/ /\ file' = WrittenUpTo(file, writes, Len(writes))
                  /\ writer' = Recorded(ready, key, t)
                  /\ history' = [Said("WriteFrame", "nil") EXCEPT
                                   !.frames = Append(@, [key |-> key, time |-> t])]

WriteEvent(bus, t) ==
    /\ MoreRecords
    /\ LET started == [writer EXCEPT !.start = IF @ = 0 THEN t ELSE @]
           event == [bus |-> bus, time |-> t]
           writes == StartWrites(writer, t) \o EventWrites(writer, file, event)
       IN IF ~Ready \/ t < started.start THEN Refuses("WriteEvent")
          ELSE \/ FailsAt("WriteEvent", writes)
               \/ /\ file' = WrittenUpTo(file, writes, Len(writes))
                  /\ writer' = [started EXCEPT !.eventLink = Link(NextAddress(file) + 1, "next")]
                  /\ history' = [Said("WriteEvent", "nil") EXCEPT !.events = Append(@, event)]

FlushFile ==
    /\ LET writes == FlushWrites(writer, NextAddress(file)) IN
       IF writer.failed THEN Refuses("Flush")
       ELSE \/ FailsAt("Flush", writes)
            \/ /\ file' = WrittenUpTo(file, writes, Len(writes))
               /\ writer' = AfterFlush(writer, NextAddress(file))
               /\ history' = Said("Flush", "nil")

\* Close a second time returns what the writer's error is.
Close ==
    IF writer.closed \/ writer.failed
    THEN /\ writer' = [writer EXCEPT !.closed = TRUE]
         /\ history' = Said("Close", IF writer.failed THEN "error" ELSE "nil")
         /\ UNCHANGED file
    ELSE \E keys \in Orderings(DOMAIN writer.groups) :
           LET writes == CloseWrites(writer, file, keys) IN
           \/ FailsAt("Close", writes)
           \/ /\ file' = WrittenUpTo(file, writes, Len(writes))
              /\ writer' = [AfterFlush(writer, NextAddress(file)) EXCEPT !.closed = TRUE]
              /\ history' = Said("Close", "nil")

NoHistory ==
    [last |-> [call |-> "none", result |-> "none"], frames |-> <<>>, events |-> <<>>]

Mf4Init ==
    /\ \E compress \in BOOLEAN : writer = NewMf4Writer(compress)
    /\ file = NewFile
    /\ history = NoHistory

Mf4Next ==
    \/ \E key \in GroupKeys, t \in Times : WriteFrame(key, t)
    \/ \E key \in GroupKeys, t \in Times : WriteEvent(key[1], t)
    \/ FlushFile
    \/ Close

-----------------------------------------------------------------------------
(* What a reader finds: the chains of blocks from the header. *)

Chain(first) ==
    LET at[n \in 1..Len(file.blocks) + 1] ==
          IF n = 1 THEN first
          ELSE IF at[n - 1] \in DOMAIN file.blocks THEN file.blocks[at[n - 1]].next ELSE 0
    IN SelectSeq([n \in 1..Len(file.blocks) + 1 |-> at[n]], LAMBDA a : a # 0)

IsHL(address) == address \in DOMAIN file.blocks /\ file.blocks[address].kind = "HL"
Lists == Chain(IF IsHL(file.data) THEN file.blocks[file.data].content ELSE file.data)
Groups == Chain(file.groups)
Markers == Chain(file.events)

Concatenated(s) ==
    LET upTo[n \in 0..Len(s)] == IF n = 0 THEN <<>> ELSE upTo[n - 1] \o s[n]
    IN upTo[Len(s)]

Linked == {Lists[i] : i \in DOMAIN Lists} \cup {Groups[i] : i \in DOMAIN Groups}
            \cup {Markers[i] : i \in DOMAIN Markers}
IsTorn == Torn \in Linked \/ Torn \in {file.start, file.data}

Frames == Concatenated([i \in DOMAIN Lists |-> file.blocks[file.blocks[Lists[i]].content].content])
Events == [i \in DOMAIN Markers |-> file.blocks[Markers[i]].content]
Group(i) == file.blocks[Groups[i]].content

Prefix(s, t) == Len(s) <= Len(t) /\ s = SubSeq(t, 1, Len(s))

\* Whichever write fails, a file whose links were not cut short can be read: a
\* link leads only to blocks that are whole and of its kind, the frames found
\* are the accepted ones in their order, up to where the file was flushed, and
\* each frame belongs to a group the file describes.
Readable ==
    ~IsTorn =>
        /\ Linked \subseteq DOMAIN file.blocks
        /\ \A a \in Linked : file.blocks[a].whole
        /\ \A i \in DOMAIN Lists : /\ file.blocks[Lists[i]].kind = "DL"
                                   /\ file.blocks[file.blocks[Lists[i]].content].whole
        /\ \A i \in DOMAIN Groups : file.blocks[Groups[i]].kind = "CG"
        /\ Prefix(Frames, history.frames)
        /\ \A i \in DOMAIN Frames : \E g \in DOMAIN Groups : Group(g).key = Frames[i].key
        /\ ~writer.failed => Frames \o writer.buffer = history.frames /\ Events = history.events

\* A file with the finished identifier is finished: it has every accepted frame
\* and marker, the counter of every group is the number of its frames, its
\* start is no later than any time in it, and no flag calls it unfinished.
FinalIsComplete ==
    file.id = "final" =>
        /\ file.flags = "finished"
        /\ Frames = history.frames
        /\ Events = history.events
        /\ \A g \in DOMAIN Groups :
             Group(g).cycles = Cardinality({i \in DOMAIN Frames : Frames[i].key = Group(g).key})
        /\ \A i \in DOMAIN Frames : file.start # 0 /\ file.start <= Frames[i].time
        /\ \A i \in DOMAIN Events : file.start # 0 /\ file.start <= Events[i].time

\* A nil from Close means the file is finished, from Flush that every accepted
\* frame can be read.
NilMeansWritten ==
    history.last.result = "nil" =>
        /\ history.last.call = "Close" => file.id = "final"
        /\ history.last.call = "Flush" => Frames = history.frames

\* The file says no more than what was written, wherever writing stopped.
FileExact == Readable /\ FinalIsComplete /\ NilMeansWritten
=============================================================================
