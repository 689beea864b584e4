--------------------------- MODULE CaptureStorage ---------------------------
(***************************************************************************)
(* The storage of gocan's Capture (capture.go, capture_range.go) as values *)
(* and pure operators: chunks, the record envelope, cursors, frozen views  *)
(* and the read algorithms that run on them after the mutex is released.   *)
(*                                                                         *)
(* Indices held in the stored data (record, key and payload offsets, chunk *)
(* sequence numbers) are 0-based as in the code; TLA+ sequences are        *)
(* 1-based.  A *captureChunk is an index into a heap (a sequence of chunk  *)
(* values), so that two holders of one pointer see one object.             *)
(***************************************************************************)
EXTENDS Integers, Sequences, SequencesExt

CONSTANTS
  Keys,             \* frame keys (bus, identifier, direction)
  Buses,            \* BusIDs, positive 16-bit numbers
  BusSpan,          \* 2^16, the span of the BusID field of a packed word
  KindSpan,         \* 2^8, the span of the event kind field
  DLCLength,        \* DLCToLength as a function from DLC to a byte count
  Bytes,            \* payload byte values
  MaxDataLength,    \* longest payload of one frame
  InitialRecords,   \* initialCaptureChunkRecordCapacity
  InitialPayload,   \* initialCaptureChunkPayloadCapacity
  MinRecords,       \* minimumCaptureChunkRecordCapacity
  MinPayload,       \* minimumCaptureChunkPayloadCapacity
  NoCaptureRecord   \* noCaptureRecord, larger than any record index

ASSUME BusesAssumption ==
  /\ BusSpan \in Nat \ {0} /\ Buses \subseteq 1..(BusSpan - 1)
  /\ KindSpan \in Nat /\ KindSpan > 3
ASSUME LengthAssumption ==
  /\ MaxDataLength \in Nat
  /\ DOMAIN DLCLength \subseteq Nat
  /\ \A dlc \in DOMAIN DLCLength : DLCLength[dlc] \in 0..MaxDataLength
ASSUME CapacityAssumption ==
  /\ MinRecords \in Nat \ {0} /\ InitialRecords \in Nat /\ MinRecords <= InitialRecords
  /\ MinPayload \in Nat \ {0} /\ InitialPayload \in Nat /\ MinPayload <= InitialPayload
  /\ MaxDataLength <= MinPayload
ASSUME NoRecordAssumption == NoCaptureRecord \in Nat

-----------------------------------------------------------------------------
(* What is appended.  A frame event is its key, DLC, remote flag and       *)
(* payload; an event its bus, kind (1 = controller state, 2 = error frame, *)
(* 3 = receive overrun) and controller state.                              *)

EventControllerState == 1

DataLength(dlc, remote) == IF remote THEN 0 ELSE DLCLength[dlc]

FrameEvent == { f \in [kind : {"frame"}, key : Keys, dlc : DOMAIN DLCLength,
                       remote : BOOLEAN, data : BoundedSeq(Bytes, MaxDataLength)] :
                Len(f.data) = DataLength(f.dlc, f.remote) }
Event == { e \in [kind : {"event"}, bus : Buses, event : 1..3, state : 0..4] :
           e.event = EventControllerState <=> e.state # 0 }

-----------------------------------------------------------------------------
(* The record envelope: word0 and word1 carry the payload offset and key   *)
(* index of a frame, and word1 packs bus, kind and state of an event.      *)

FrameRecord(payloadOffset, keyIndex, previous, dlc, remote) ==
  [kind |-> "frame", word0 |-> payloadOffset, word1 |-> keyIndex,
   previous |-> previous, detail0 |-> dlc, detail1 |-> IF remote THEN 1 ELSE 0]

EventRecord(bus, previous, event, state) ==
  [kind |-> "event", word0 |-> 0, word1 |-> bus + (event + state * KindSpan) * BusSpan,
   previous |-> previous, detail0 |-> 0, detail1 |-> 0]

EventData(record) ==
  [kind |-> "event", bus |-> record.word1 % BusSpan,
   event |-> (record.word1 \div BusSpan) % KindSpan,
   state |-> (record.word1 \div BusSpan) \div KindSpan]

-----------------------------------------------------------------------------
(* Chunks.                                                                 *)

\* A Go map's zero value stands for a key or bus the chunk has not seen: the
\* count of a stored state is never zero.
NoKeyState == [index |-> 0, lastRecord |-> 0, count |-> 0]
NoEventState == [lastRecord |-> 0, count |-> 0]

NewCaptureChunk(recordCapacity, payloadCapacity) ==
  [sequence |-> 0, keys |-> <<>>, records |-> <<>>, payload |-> <<>>,
   keyStates |-> [key \in Keys |-> NoKeyState],
   eventStates |-> [bus \in Buses |-> NoEventState],
   recordCap |-> recordCapacity, payloadCap |-> payloadCapacity]

Fits(chunk, payloadLength) ==
  /\ Len(chunk.payload) + payloadLength <= chunk.payloadCap
  /\ Len(chunk.records) < chunk.recordCap

\* Mutant of AtLeast: no minimum capacity.
NoFloor(n, floor) == n

AtLeast(n, floor) == IF n < floor THEN floor ELSE n

ReplacementCapacities(records, payloadBytes) ==
  IF payloadBytes * InitialRecords >= records * InitialPayload
  THEN [records |-> AtLeast((records * InitialPayload) \div payloadBytes, MinRecords),
        payload |-> AtLeast(InitialPayload, MinPayload)]
  ELSE [records |-> AtLeast(InitialRecords, MinRecords),
        payload |-> AtLeast((payloadBytes * InitialRecords) \div records, MinPayload)]

\* appendFrame's writes to the active chunk.
PutFrame(chunk, frame) ==
  LET known    == chunk.keyStates[frame.key].count # 0
      state    == IF known THEN chunk.keyStates[frame.key]
                  ELSE [index |-> Len(chunk.keys), lastRecord |-> NoCaptureRecord, count |-> 0]
      record   == FrameRecord(Len(chunk.payload), state.index, state.lastRecord,
                              frame.dlc, frame.remote)
  IN [chunk EXCEPT
        !.keys      = IF known THEN @ ELSE Append(@, frame.key),
        !.payload   = @ \o frame.data,
        !.records   = Append(@, record),
        !.keyStates[frame.key] = [index      |-> state.index,
                                  lastRecord |-> Len(chunk.records),
                                  count      |-> state.count + 1]]

\* appendEvent's writes to the active chunk.
PutEvent(chunk, event) ==
  LET state == IF chunk.eventStates[event.bus].count # 0 THEN chunk.eventStates[event.bus]
               ELSE [lastRecord |-> NoCaptureRecord, count |-> 0]
  IN [chunk EXCEPT
        !.records     = Append(@, EventRecord(event.bus, state.lastRecord, event.event, event.state)),
        !.eventStates[event.bus] = [lastRecord |-> Len(chunk.records),
                                    count      |-> state.count + 1]]

-----------------------------------------------------------------------------
(* Cursors.                                                                *)

ZeroCursor == [generation |-> 0, chunk |-> 0, record |-> 0]

LocateCursor(heap, cursor, generation, chunks, pruneSeam) ==
  LET index   == cursor.chunk - heap[chunks[1]].sequence
      inRange == index >= 0 /\ index < Len(chunks)
      lost    == [ok |-> FALSE, chunk |-> 0, boundary |-> 0]
      front   == [ok |-> TRUE, chunk |-> 0, boundary |-> -1]
  IN IF cursor = ZeroCursor THEN front
     ELSE IF cursor.generation # generation THEN lost
     ELSE IF ~inRange THEN (IF cursor = pruneSeam THEN front ELSE lost)
     ELSE [ok |-> TRUE, chunk |-> index, boundary |-> cursor.record]

-----------------------------------------------------------------------------
(* Views freeze a chunk's slice headers: which storage, and how much of it. *)
(* The heap behind a view may grow after the view is taken.                *)

View(heap, id) ==
  [id |-> id, sequence |-> heap[id].sequence, records |-> Len(heap[id].records),
   keys |-> Len(heap[id].keys), payload |-> Len(heap[id].payload)]

ViewsOf(heap, ids) == [i \in DOMAIN ids |-> View(heap, ids[i])]

\* The cursor of the newest record in views, or cursor when they are empty.
NewestCursor(cursor, generation, views) ==
  LET filled == { i \in DOMAIN views : views[i].records > 0 }
      last   == CHOOSE i \in filled : \A j \in filled : j <= i
  IN IF filled = {} THEN cursor
     ELSE [generation |-> generation, chunk |-> views[last].sequence,
           record |-> views[last].records - 1]

\* An index outside a slice stops the program; no stored entry equals Panic.
Panic == [kind |-> "panic"]

FrameAt(heap, view, index) ==
  LET chunk  == heap[view.id]
      record == chunk.records[index + 1]
      remote == record.detail1 = 1
      length == DataLength(record.detail0, remote)
      inView == /\ index < view.records
                /\ record.word1 < view.keys
                /\ record.word0 + length <= view.payload
  IN IF ~inView THEN Panic
     ELSE [kind |-> "frame", key |-> chunk.keys[record.word1 + 1],
           dlc |-> record.detail0, remote |-> remote,
           data |-> SubSeq(chunk.payload, record.word0 + 1, record.word0 + length)]

EventAt(heap, view, index) ==
  IF index < view.records THEN EventData(heap[view.id].records[index + 1]) ELSE Panic

EntryAt(heap, view, index) ==
  IF heap[view.id].records[index + 1].kind = "frame"
  THEN FrameAt(heap, view, index) ELSE EventAt(heap, view, index)

-----------------------------------------------------------------------------
(* Reads.  A snapshot is what a reader copies under the mutex: the chunk   *)
(* list, the active chunk's view and per-key and per-bus states, the       *)
(* generation and the prune seam.                                          *)

\* Mutant of SnapshotViews: the active chunk is viewed at read time as well.
LiveViews(heap, snapshot, first, last) ==
  [i \in 1..(last - first + 1) |-> View(heap, snapshot.chunks[first + i])]

\* The views of chunks first..last (0-based) of a snapshot.  Only the active
\* chunk uses the frozen view; the sealed ones are viewed at read time.
SnapshotViews(heap, snapshot, first, last) ==
  [i \in 1..(last - first + 1) |->
     IF first + i = Len(snapshot.chunks) THEN snapshot.activeView
     ELSE View(heap, snapshot.chunks[first + i])]

\* The entries Wanted(view, record) of views in append order, from the
\* skip-th record of the first view: writeRecords, framesFromViews,
\* eventsFromViews and the filters of SeriesBetween and BusEventsBetween.
ScanViews(heap, views, skip, Wanted(_, _)) ==
  FlattenSeq([i \in DOMAIN views |->
    LET from  == IF i = 1 THEN skip ELSE 0
        index == [n \in 1..(views[i].records - from) |-> from + n - 1]
        hits  == SelectSeq(index, LAMBDA n : Wanted(views[i], heap[views[i].id].records[n + 1]))
    IN [n \in DOMAIN hits |-> EntryAt(heap, views[i], hits[n])]])

\* Mutant of RecordCursors: a record's cursor names the record after it.
RecordCursorsAhead(generation, views, skip) ==
  UNION { { [generation |-> generation, chunk |-> views[i].sequence, record |-> n + 1] :
            n \in (IF i = 1 THEN skip ELSE 0)..(views[i].records - 1) } : i \in DOMAIN views }

\* The cursors of the records ScanViews visits.
RecordCursors(generation, views, skip) ==
  UNION { { [generation |-> generation, chunk |-> views[i].sequence, record |-> n] :
            n \in (IF i = 1 THEN skip ELSE 0)..(views[i].records - 1) } : i \in DOMAIN views }

AnyRecord(view, record) == TRUE
IsFrame(view, record) == record.kind = "frame"
IsEvent(view, record) == record.kind = "event"

\* Mutant of Chain: the record at the boundary is read again.
ChainFromBoundary(heap, view, last, stop) ==
  LET walk[r \in 0..NoCaptureRecord] ==
        IF r = NoCaptureRecord \/ r < stop THEN <<>>
        ELSE Append(walk[heap[view.id].records[r + 1].previous], r)
  IN walk[last]

\* The record indices of one key's or bus's chain in a view, oldest first:
\* from last back through the previous links, while they stay after stop.
Chain(heap, view, last, stop) ==
  LET walk[r \in 0..NoCaptureRecord] ==
        IF r = NoCaptureRecord \/ r <= stop THEN <<>>
        ELSE Append(walk[heap[view.id].records[r + 1].previous], r)
  IN walk[last]

\* SeriesSince and BusEventsSince: size the result from the states' counts,
\* then fill it backwards along the chains.
LinkedEntries(heap, views, states, boundary) ==
  LET stop(i)  == IF i = 1 THEN boundary ELSE -1
      chain(i) == IF states[i].count = 0 THEN <<>>
                  ELSE Chain(heap, views[i], states[i].lastRecord, stop(i))
      size(i)  == IF i = 1 /\ boundary >= 0 THEN Len(chain(i)) ELSE states[i].count
      total    == FoldLeft(LAMBDA n, i : n + size(i), 0, [i \in DOMAIN views |-> i])
      found    == FlattenSeq([i \in DOMAIN views |->
                    [n \in DOMAIN chain(i) |-> EntryAt(heap, views[i], chain(i)[n])]])
      blank    == total - Len(found)
  IN IF total = 0 THEN <<>>
     ELSE IF blank < 0 THEN <<Panic>>
     ELSE [n \in 1..total |-> IF n <= blank THEN [kind |-> "blank"] ELSE found[n - blank]]

\* viewsSince.
ViewsSince(heap, snapshot, cursor) ==
  LET at    == LocateCursor(heap, cursor, snapshot.generation, snapshot.chunks, snapshot.pruneSeam)
      views == SnapshotViews(heap, snapshot, at.chunk, Len(snapshot.chunks) - 1)
  IN [ok |-> at.ok, views |-> views, skip |-> at.boundary + 1, boundary |-> at.boundary,
      first |-> at.chunk, next |-> NewestCursor(cursor, snapshot.generation, views)]

SinceRead(heap, snapshot, cursor, Wanted(_, _)) ==
  LET since == ViewsSince(heap, snapshot, cursor)
  IN ScanViews(heap, since.views, since.skip, Wanted)

\* key's state in each viewed chunk; the active chunk's was frozen by value.
KeyStatesSince(heap, snapshot, since, key) ==
  [i \in DOMAIN since.views |->
     IF since.first + i = Len(snapshot.chunks) THEN snapshot.keyStates[key]
     ELSE heap[since.views[i].id].keyStates[key]]

SeriesSince(heap, snapshot, key, cursor) ==
  LET since  == ViewsSince(heap, snapshot, cursor)
      states == KeyStatesSince(heap, snapshot, since, key)
  IN LinkedEntries(heap, since.views, states, since.boundary)

BusEventsSince(heap, snapshot, bus, cursor) ==
  LET since  == ViewsSince(heap, snapshot, cursor)
      states == [i \in DOMAIN since.views |->
                   IF since.first + i = Len(snapshot.chunks) THEN snapshot.eventStates[bus]
                   ELSE heap[since.views[i].id].eventStates[bus]]
  IN LinkedEntries(heap, since.views, states, since.boundary)

\* viewsBetween: the records in (start, end], or an error.
ViewsBetween(heap, snapshot, start, end) ==
  LET Locate(c) == LocateCursor(heap, c, snapshot.generation, snapshot.chunks, snapshot.pruneSeam)
      to     == Locate(end)
      from   == Locate(start)
      views  == SnapshotViews(heap, snapshot, from.chunk, to.chunk)
      tail   == Len(views)
      error  == [ok |-> FALSE, views |-> <<>>, skip |-> 0]
  IN IF ~to.ok \/ ~from.ok THEN error
     ELSE IF from.chunk > to.chunk \/ (from.chunk = to.chunk /\ from.boundary > to.boundary)
     THEN error
     ELSE IF start = end THEN [ok |-> TRUE, views |-> <<>>, skip |-> 0]
     ELSE IF to.boundary + 1 > views[tail].records THEN error
     ELSE [ok |-> TRUE, views |-> [views EXCEPT ![tail].records = to.boundary + 1],
           skip |-> from.boundary + 1]

BetweenRead(heap, snapshot, start, end, Wanted(_, _)) ==
  LET between == ViewsBetween(heap, snapshot, start, end)
  IN ScanViews(heap, between.views, between.skip, Wanted)

\* nextSearch.find: the first frame of key after the located cursor.
FindNext(heap, snapshot, key, cursor) ==
  LET since    == ViewsSince(heap, snapshot, cursor)
      states   == KeyStatesSince(heap, snapshot, since, key)
      chain(i) == IF states[i].count = 0 THEN <<>>
                  ELSE Chain(heap, since.views[i], states[i].lastRecord,
                             IF i = 1 THEN since.boundary ELSE -1)
      firsts   == { hit \in [view : DOMAIN since.views, record : 0..NoCaptureRecord] :
                      /\ chain(hit.view) # <<>> /\ hit.record = Head(chain(hit.view))
                      /\ hit.record < since.views[hit.view].records }
      first    == CHOOSE hit \in firsts : \A other \in firsts : hit.view <= other.view
  IN IF firsts = {} THEN [found |-> FALSE]
     ELSE [found |-> TRUE, event |-> FrameAt(heap, since.views[first.view], first.record),
           cursor |-> [generation |-> snapshot.generation,
                       chunk |-> since.views[first.view].sequence, record |-> first.record]]
=============================================================================
