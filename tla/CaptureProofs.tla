---------------------------- MODULE CaptureProofs ----------------------------
(***************************************************************************)
(* Lemmas and theorems about Capture, for every value of its constants:    *)
(* its types, the invariant behind cursors, what a cursor that places      *)
(* means, the accounting of the waiters of Next, and that what is stored,  *)
(* linked, viewed, remembered and counted is what was appended.            *)
(***************************************************************************)
EXTENDS Capture, SequenceTheorems, FiniteSetTheorems, WellFoundedInduction, TLAPS

-----------------------------------------------------------------------------
(* Least and greatest elements.                                            *)

\* Every non-empty set of naturals has a least element.
LEMMA LeastNatural ==
  ASSUME NEW S \in SUBSET Nat, S # {}
  PROVE  \E m \in S : \A k \in S : m <= k
<1>1. PICK m \in S : \A k \in S : ~(<<k, m>> \in OpToRel(<, Nat))
  BY NatLessThanWellFounded, WFMin, Zenon
<1>2. ASSUME NEW k \in S PROVE m <= k
  <2>1. ~(k < m) BY <1>1 DEF OpToRel
  <2>. QED BY <2>1
<1>. QED BY <1>2

\* Every non-empty set of numbers up to n has a greatest element.
LEMMA GreatestNatural ==
  ASSUME NEW n \in Nat, NEW S \in SUBSET (1..n), S # {}
  PROVE  \E m \in S : \A k \in S : k <= m
<1>. DEFINE T == { t \in 0..n : n - t \in S }
<1>1. T \in SUBSET Nat OBVIOUS
<1>2. T # {}
  <2>1. PICK m \in S : TRUE OBVIOUS
  <2>2. n - m \in 0..n /\ n - (n - m) = m OBVIOUS
  <2>3. n - m \in T BY <2>1, <2>2
  <2>. QED BY <2>3
<1>3. PICK t \in T : \A u \in T : t <= u BY <1>1, <1>2, LeastNatural
<1>4. ASSUME NEW k \in S PROVE k <= n - t
  <2>1. k \in 1..n OBVIOUS
  <2>2. n - k \in 0..n /\ n - (n - k) = k BY <2>1
  <2>3. n - k \in T BY <2>2
  <2>. QED BY <1>3, <2>1, <2>3
<1>. QED BY <1>3, <1>4

-----------------------------------------------------------------------------
(* Chunks.                                                                 *)

\* replacementCapacities never plans below the floors and never divides by
\* zero, whatever the traffic of the chunk it replaces.
LEMMA CapacitiesFloor ==
  ASSUME NEW records \in Nat \ {0}, NEW payloadBytes \in Nat
  PROVE  ReplacementCapacities(records, payloadBytes) \in Capacities
<1>. DEFINE a == payloadBytes * InitialRecords
            b == records * InitialPayload
<1>1. a \in Nat /\ b \in Nat BY CapacityAssumption
<1>2. b > 0 BY CapacityAssumption
<1>3. CASE a >= b
  <2>1. payloadBytes # 0 BY <1>2, <1>3, CapacityAssumption
  <2>2. b \div payloadBytes \in Nat BY <1>1, <2>1
  <2>3. ReplacementCapacities(records, payloadBytes) =
          [records |-> AtLeast(b \div payloadBytes, MinRecords),
           payload |-> AtLeast(InitialPayload, MinPayload)]
    BY <1>3 DEF ReplacementCapacities
  <2>. HIDE DEF a, b
  <2>. QED BY <2>2, <2>3, CapacityAssumption DEF AtLeast, Capacities
<1>4. CASE ~(a >= b)
  <2>1. a \div records \in Nat BY <1>1
  <2>2. ReplacementCapacities(records, payloadBytes) =
          [records |-> AtLeast(InitialRecords, MinRecords),
           payload |-> AtLeast(a \div records, MinPayload)]
    BY <1>4 DEF ReplacementCapacities
  <2>. HIDE DEF a, b
  <2>. QED BY <2>1, <2>2, CapacityAssumption DEF AtLeast, Capacities
<1>. QED BY <1>3, <1>4

\* A frame the capture is given has the fields a record stores.
LEMMA FrameTyped ==
  ASSUME NEW frame \in FrameEvent
  PROVE  /\ frame = [kind |-> "frame", key |-> frame.key, dlc |-> frame.dlc,
                     remote |-> frame.remote, data |-> frame.data]
         /\ frame.key \in Keys /\ frame.dlc \in Nat /\ frame.remote \in BOOLEAN
         /\ frame.data \in Seq(Bytes) /\ Len(frame.data) \in 0..MaxDataLength
         /\ Len(frame.data) = DataLength(frame.dlc, frame.remote)
<1>1. /\ frame \in [kind : {"frame"}, key : Keys, dlc : DOMAIN DLCLength,
                     remote : BOOLEAN, data : BoundedSeq(Bytes, MaxDataLength)]
      /\ Len(frame.data) = DataLength(frame.dlc, frame.remote)
  BY DEF FrameEvent
<1>2. frame.dlc \in DOMAIN DLCLength /\ frame.dlc \in Nat BY <1>1, LengthAssumption
<1>3. PICK n \in 0..MaxDataLength : frame.data \in [1..n -> Bytes]
  BY <1>1 DEF BoundedSeq, SeqOf
<1>4. frame.data \in Seq(Bytes) /\ Len(frame.data) = n BY <1>3, LengthAssumption
<1>. QED BY <1>1, <1>2, <1>4

\* A new chunk has the room it was planned with and holds nothing.
LEMMA NewChunkSound ==
  ASSUME NEW room \in Capacities, NEW sequence \in Nat
  PROVE  LET fresh == NewCaptureChunk(room.records, room.payload)
         IN /\ fresh \in Chunk /\ ChunkSound(fresh) /\ fresh.sequence = 0
            /\ [fresh EXCEPT !.sequence = sequence] \in Chunk
            /\ ChunkSound([fresh EXCEPT !.sequence = sequence])
            /\ fresh.records = <<>> /\ fresh.payload = <<>>
<1>1. [key \in Keys |-> NoKeyState] \in [Keys -> KeyState]
  BY DEF NoKeyState, KeyState
<1>2. [bus \in Buses |-> NoEventState] \in [Buses -> EventState]
  BY DEF NoEventState, EventState
<1>. DEFINE Fresh(n) == [NewCaptureChunk(room.records, room.payload) EXCEPT !.sequence = n]
            blank(n) == [sequence |-> n, keys |-> <<>>, records |-> <<>>, payload |-> <<>>,
                         keyStates |-> [key \in Keys |-> NoKeyState],
                         eventStates |-> [bus \in Buses |-> NoEventState],
                         recordCap |-> room.records, payloadCap |-> room.payload]
<1>3. NewCaptureChunk(room.records, room.payload) = blank(0) BY DEF NewCaptureChunk
<1>4. Fresh(sequence) = blank(sequence) BY DEF NewCaptureChunk
<1>5. room.records \in Nat /\ room.payload \in Nat
      /\ room.records >= MinRecords /\ room.payload >= MinPayload
  BY DEF Capacities
<1>6. ASSUME NEW n \in Nat PROVE blank(n) \in Chunk /\ ChunkSound(blank(n))
  <2>1. blank(n) \in Chunk BY <1>1, <1>2, <1>5 DEF Chunk
  <2>2. ChunkSound(blank(n)) BY <1>5 DEF ChunkSound, NoKeyState
  <2>. QED BY <2>1, <2>2
<1>. QED BY <1>3, <1>4, <1>6

\* appendFrame keeps the chunk well formed.
LEMMA PutFrameSound ==
  ASSUME NEW chunk \in Chunk, ChunkSound(chunk), NEW frame \in FrameEvent
  PROVE  LET put == PutFrame(chunk, frame)
         IN /\ put \in Chunk /\ ChunkSound(put)
            /\ put.sequence = chunk.sequence
            /\ Len(put.records) = Len(chunk.records) + 1
            /\ put.payload = chunk.payload \o frame.data
            /\ \E index, previous \in Nat :
                 /\ index < Len(put.keys) /\ put.keys[index + 1] = frame.key
                 /\ put.records[Len(put.records)] =
                      FrameRecord(Len(chunk.payload), index, previous, frame.dlc, frame.remote)
<1>. DEFINE known == chunk.keyStates[frame.key].count # 0
            state == IF known THEN chunk.keyStates[frame.key]
                     ELSE [index |-> Len(chunk.keys), lastRecord |-> NoCaptureRecord, count |-> 0]
            record == FrameRecord(Len(chunk.payload), state.index, state.lastRecord,
                                  frame.dlc, frame.remote)
            keys == IF known THEN chunk.keys ELSE Append(chunk.keys, frame.key)
            entry == [index |-> state.index, lastRecord |-> Len(chunk.records),
                      count |-> state.count + 1]
            put == PutFrame(chunk, frame)
<1>1. /\ frame.key \in Keys /\ frame.dlc \in Nat /\ frame.remote \in BOOLEAN
      /\ frame.data \in Seq(Bytes)
  BY FrameTyped
<1>2. /\ chunk.sequence \in Nat /\ chunk.keys \in Seq(Keys) /\ chunk.records \in Seq(Record)
      /\ chunk.payload \in Seq(Bytes) /\ chunk.keyStates \in [Keys -> KeyState]
      /\ chunk.eventStates \in [Buses -> EventState]
      /\ chunk.recordCap \in Nat /\ chunk.payloadCap \in Nat
  BY DEF Chunk
<1>3. put = [chunk EXCEPT !.keys = keys, !.payload = chunk.payload \o frame.data,
                          !.records = Append(chunk.records, record),
                          !.keyStates = [chunk.keyStates EXCEPT ![frame.key] = entry]]
  BY DEF PutFrame, Chunk
<1>4. state \in KeyState
  BY <1>1, <1>2, NoRecordAssumption DEF KeyState
<1>5. entry \in KeyState BY <1>2, <1>4 DEF KeyState
<1>6. record \in Record BY <1>1, <1>2, <1>4 DEF FrameRecord, Record, KeyState
<1>7. keys \in Seq(Keys) BY <1>1, <1>2
<1>8. /\ Len(put.records) = Len(chunk.records) + 1 /\ put.records # <<>>
      /\ put.records \in Seq(Record) /\ put.records = Append(chunk.records, record)
      /\ put.payload \in Seq(Bytes) /\ put.payload = chunk.payload \o frame.data
      /\ put.keys = keys /\ put.keyStates = [chunk.keyStates EXCEPT ![frame.key] = entry]
      /\ put.recordCap = chunk.recordCap /\ put.payloadCap = chunk.payloadCap
      /\ put.sequence = chunk.sequence /\ put.eventStates = chunk.eventStates
  <2>. HIDE DEF keys, record, entry, put
  <2>1. /\ put.records = Append(chunk.records, record)
        /\ put.payload = chunk.payload \o frame.data
        /\ put.keys = keys /\ put.keyStates = [chunk.keyStates EXCEPT ![frame.key] = entry]
    BY <1>3 DEF Chunk
  <2>2. /\ put.recordCap = chunk.recordCap /\ put.payloadCap = chunk.payloadCap
        /\ put.sequence = chunk.sequence /\ put.eventStates = chunk.eventStates
    BY <1>3 DEF Chunk
  <2>3. put.payload \in Seq(Bytes) BY <1>1, <1>2, <2>1
  <2>4. /\ put.records \in Seq(Record) /\ put.records # <<>>
        /\ Len(put.records) = Len(chunk.records) + 1
    BY <1>2, <1>6, <2>1, AppendProperties
  <2>. QED BY <2>1, <2>2, <2>3, <2>4
<1>9. put \in Chunk
  <2>. HIDE DEF keys, record, entry, put
  <2>1. put.keyStates \in [Keys -> KeyState] BY <1>2, <1>5, <1>8
  <2>. QED BY <1>2, <1>3, <1>7, <1>8, <2>1 DEF Chunk
<1>10. ChunkSound(put)
  <2>1. ASSUME NEW key \in Keys, put.keyStates[key].count # 0
        PROVE  put.keyStates[key].index < Len(put.keys)
               /\ put.keys[put.keyStates[key].index + 1] = key
    <3>1. CASE key = frame.key /\ known
      BY <3>1, <1>2, <1>8 DEF ChunkSound
    <3>2. CASE key = frame.key /\ ~known
      BY <3>2, <1>1, <1>2, <1>8, SMTT(30)
    <3>3. CASE key # frame.key
      <4>1. put.keyStates[key] = chunk.keyStates[key] /\ chunk.keyStates[key] \in KeyState
        BY <3>3, <1>2, <1>8
      <4>2. /\ chunk.keyStates[key].index < Len(chunk.keys)
            /\ chunk.keys[chunk.keyStates[key].index + 1] = key
        BY <2>1, <4>1 DEF ChunkSound
      <4>3. \A i \in 1..Len(chunk.keys) : keys[i] = chunk.keys[i] /\ Len(keys) >= Len(chunk.keys)
        BY <1>1, <1>2
      <4>5. Len(keys) \in Nat /\ Len(chunk.keys) \in Nat BY <1>2, <1>7
      <4>6. chunk.keyStates[key].index \in Nat /\ Len(chunk.keys) \in Nat
        BY <4>1, <1>2 DEF KeyState
      <4>4. chunk.keyStates[key].index + 1 \in 1..Len(chunk.keys)
        BY <4>2, <4>6
      <4>. HIDE DEF keys, put
      <4>. QED BY <4>1, <4>2, <4>3, <4>4, <4>5, <4>6, <1>8, SMTT(30)
    <3>. QED BY <3>1, <3>2, <3>3
  <2>. HIDE DEF put
  <2>. QED BY <2>1, <1>8 DEF ChunkSound
<1>11. /\ state.index \in Nat /\ state.lastRecord \in Nat
       /\ state.index < Len(put.keys) /\ put.keys[state.index + 1] = frame.key
  <2>1. put.keyStates[frame.key] = entry /\ entry.count # 0
    <3>. HIDE DEF state
    <3>. QED BY <1>1, <1>2, <1>4, <1>8 DEF KeyState
  <2>2. entry.index = state.index OBVIOUS
  <2>3. state.index \in Nat /\ state.lastRecord \in Nat
    <3>. HIDE DEF state
    <3>. QED BY <1>4 DEF KeyState
  <2>. HIDE DEF put, entry, state
  <2>. QED BY <1>1, <1>10, <2>1, <2>2, <2>3 DEF ChunkSound
<1>12. put.records[Len(put.records)] = record
  <2>. HIDE DEF put, record
  <2>. QED BY <1>2, <1>6, <1>8, AppendProperties
<1>13. \E index, previous \in Nat :
         /\ index < Len(put.keys) /\ put.keys[index + 1] = frame.key
         /\ put.records[Len(put.records)] =
              FrameRecord(Len(chunk.payload), index, previous, frame.dlc, frame.remote)
  <2>. HIDE DEF put, state
  <2>. QED BY <1>11, <1>12
<1>. QED BY <1>8, <1>9, <1>10, <1>13, Zenon

\* An event the capture is given has the fields a record stores.
LEMMA EventTyped ==
  ASSUME NEW event \in Event
  PROVE  /\ event = [kind |-> "event", bus |-> event.bus, event |-> event.event,
                     state |-> event.state]
         /\ event.bus \in Buses /\ event.bus \in Nat /\ event.bus < BusSpan
         /\ event.event \in Nat /\ event.event < KindSpan /\ event.state \in Nat
<1>1. event \in [kind : {"event"}, bus : Buses, event : 1..3, state : 0..4] BY DEF Event
<1>2. event.bus \in Buses /\ event.event \in 1..3 /\ event.state \in 0..4 BY <1>1
<1>3. event.bus \in 1..(BusSpan - 1) BY <1>2, BusesAssumption
<1>. QED BY <1>1, <1>2, <1>3, BusesAssumption

\* appendEvent keeps the chunk well formed.
LEMMA PutEventSound ==
  ASSUME NEW chunk \in Chunk, ChunkSound(chunk), NEW event \in Event
  PROVE  LET put == PutEvent(chunk, event)
         IN /\ put \in Chunk /\ ChunkSound(put)
            /\ put.sequence = chunk.sequence
            /\ Len(put.records) = Len(chunk.records) + 1
            /\ \E previous \in Nat :
                 put.records[Len(put.records)] =
                   EventRecord(event.bus, previous, event.event, event.state)
<1>. DEFINE known == chunk.eventStates[event.bus].count # 0
            state == IF known THEN chunk.eventStates[event.bus]
                     ELSE [lastRecord |-> NoCaptureRecord, count |-> 0]
            record == EventRecord(event.bus, state.lastRecord, event.event, event.state)
            entry == [lastRecord |-> Len(chunk.records), count |-> state.count + 1]
            put == PutEvent(chunk, event)
<1>1. /\ event.bus \in Buses /\ event.bus \in Nat
      /\ event.event \in Nat /\ event.state \in Nat
  BY EventTyped
<1>2. /\ chunk.records \in Seq(Record) /\ chunk.eventStates \in [Buses -> EventState]
  BY DEF Chunk
<1>3. put = [chunk EXCEPT !.records = Append(chunk.records, record),
                          !.eventStates = [chunk.eventStates EXCEPT ![event.bus] = entry]]
  BY DEF PutEvent, Chunk
<1>4. state \in EventState BY <1>1, <1>2, NoRecordAssumption DEF EventState
<1>5. entry \in EventState BY <1>2, <1>4 DEF EventState
<1>6. record \in Record
  <2>1. event.state * KindSpan \in Nat BY <1>1, BusesAssumption
  <2>2. (event.event + event.state * KindSpan) * BusSpan \in Nat BY <1>1, <2>1, BusesAssumption
  <2>3. state.lastRecord \in Nat BY <1>4 DEF EventState
  <2>. HIDE DEF state
  <2>. QED BY <1>1, <2>2, <2>3 DEF EventRecord, Record
<1>. HIDE DEF put, record, entry, state
<1>7. /\ put.records = Append(chunk.records, record)
      /\ put.eventStates = [chunk.eventStates EXCEPT ![event.bus] = entry]
  BY <1>3 DEF Chunk
<1>8. /\ put.recordCap = chunk.recordCap /\ put.payloadCap = chunk.payloadCap
      /\ put.sequence = chunk.sequence /\ put.keyStates = chunk.keyStates
      /\ put.keys = chunk.keys /\ put.payload = chunk.payload
  BY <1>3 DEF Chunk
<1>9. /\ put.records \in Seq(Record) /\ put.records # <<>>
      /\ Len(put.records) = Len(chunk.records) + 1 /\ put.records[Len(put.records)] = record
  BY <1>2, <1>6, <1>7, AppendProperties
<1>10. put \in Chunk
  <2>1. put.eventStates \in [Buses -> EventState] BY <1>2, <1>5, <1>7
  <2>. QED BY <1>3, <1>8, <1>9, <2>1 DEF Chunk
<1>11. ChunkSound(put) BY <1>8, <1>9 DEF ChunkSound
<1>12. state.lastRecord \in Nat BY <1>4 DEF EventState
<1>. QED BY <1>8, <1>9, <1>10, <1>11, <1>12 DEF record, put

\* What was put behind a sequence is read back from behind it.
LEMMA TailOfConcat ==
  ASSUME NEW S, NEW s \in Seq(S), NEW t \in Seq(S)
  PROVE  SubSeq(s \o t, Len(s) + 1, Len(s) + Len(t)) = t
<1>1. Len(s) \in Nat /\ Len(t) \in Nat BY LenProperties
<1>2. CASE Len(t) = 0
  <2>1. t = <<>> BY <1>2, EmptySeq
  <2>. QED BY <1>1, <1>2, <2>1, SubSeqEmpty
<1>3. CASE Len(t) # 0
  <2>1. /\ Len(s) + 1 \in Len(s) + 1 .. Len(s) + Len(t)
        /\ Len(s) + Len(t) \in Len(s) + 1 .. Len(s) + Len(t)
    BY <1>1, <1>3
  <2>2. SubSeq(s \o t, Len(s) + 1, Len(s) + Len(t))
          = SubSeq(t, (Len(s) + 1) - Len(s), (Len(s) + Len(t)) - Len(s))
    BY <2>1, SubSeqOfConcat2, Zenon
  <2>3. (Len(s) + 1) - Len(s) = 1 /\ (Len(s) + Len(t)) - Len(s) = Len(t) BY <1>1
  <2>. QED BY <2>2, <2>3, SubSeqFull
<1>. QED BY <1>2, <1>3

\* The frame just stored decodes to the frame that was appended.
LEMMA FrameDecodes ==
  ASSUME NEW chunk \in Chunk, ChunkSound(chunk), NEW frame \in FrameEvent,
         NEW store, NEW id, store[id] = PutFrame(chunk, frame)
  PROVE  FrameAt(store, View(store, id), Len(store[id].records) - 1) = frame
<1>. DEFINE put == PutFrame(chunk, frame)
<1>1. /\ put \in Chunk /\ Len(put.records) = Len(chunk.records) + 1
      /\ put.payload = chunk.payload \o frame.data
  BY PutFrameSound
<1>2. PICK index, previous \in Nat :
         /\ index < Len(put.keys) /\ put.keys[index + 1] = frame.key
         /\ put.records[Len(put.records)] =
              FrameRecord(Len(chunk.payload), index, previous, frame.dlc, frame.remote)
  BY PutFrameSound
<1>. HIDE DEF put
<1>3. /\ frame.key \in Keys /\ frame.dlc \in Nat /\ frame.remote \in BOOLEAN
      /\ frame.data \in Seq(Bytes) /\ Len(frame.data) = DataLength(frame.dlc, frame.remote)
      /\ Len(frame.data) \in Nat
  BY FrameTyped
<1>4. /\ chunk.payload \in Seq(Bytes) /\ chunk.records \in Seq(Record)
      /\ Len(chunk.payload) \in Nat /\ Len(chunk.records) \in Nat
  BY DEF Chunk
<1>5. Len(put.payload) = Len(chunk.payload) + Len(frame.data)
  <2>1. Len(chunk.payload \o frame.data) = Len(chunk.payload) + Len(frame.data)
    BY <1>3, <1>4, ConcatProperties
  <2>. QED BY <1>1, <2>1
<1>6. SubSeq(put.payload, Len(chunk.payload) + 1, Len(chunk.payload) + Len(frame.data)) = frame.data
  BY <1>1, <1>3, <1>4, TailOfConcat
<1>. DEFINE record == put.records[Len(put.records)]
<1>7. /\ record.word0 = Len(chunk.payload) /\ record.word1 = index
      /\ record.detail0 = frame.dlc /\ (record.detail1 = 1) = frame.remote
  BY <1>2, <1>3 DEF FrameRecord
<1>8. Len(put.records) - 1 + 1 = Len(put.records) /\ Len(put.records) - 1 < Len(put.records)
  BY <1>1, <1>4
<1>9. View(store, id) = [id |-> id, sequence |-> put.sequence, records |-> Len(put.records),
                        keys |-> Len(put.keys), payload |-> Len(put.payload)]
  BY DEF View, put
<1>10. DataLength(record.detail0, record.detail1 = 1) = Len(frame.data) BY <1>3, <1>7
<1>11. store[id] = put BY DEF put
<1>. HIDE DEF record
<1>12. FrameAt(store, View(store, id), Len(put.records) - 1) =
        [kind |-> "frame", key |-> put.keys[index + 1], dlc |-> frame.dlc,
         remote |-> frame.remote, data |-> frame.data]
  <2>. DEFINE view == View(store, id)
              at == Len(put.records) - 1
  <2>1. store[view.id] = put /\ put.records[at + 1] = record
    BY <1>8, <1>9, <1>11 DEF record
  <2>2. at < view.records /\ record.word1 < view.keys
        /\ record.word0 + Len(frame.data) <= view.payload
    BY <1>2, <1>3, <1>4, <1>5, <1>7, <1>8, <1>9
  <2>. HIDE DEF view, at
  <2>. QED BY <1>6, <1>7, <1>10, <2>1, <2>2 DEF FrameAt, at, view
<1>. QED BY <1>2, <1>11, <1>12, FrameTyped

\* The event just stored decodes to the event that was appended.
LEMMA EventDecodes ==
  ASSUME NEW chunk \in Chunk, ChunkSound(chunk), NEW event \in Event,
         NEW store, NEW id, store[id] = PutEvent(chunk, event)
  PROVE  EventAt(store, View(store, id), Len(store[id].records) - 1) = event
<1>. DEFINE put == PutEvent(chunk, event)
<1>1. PICK previous \in Nat :
        /\ put \in Chunk
        /\ put.records[Len(put.records)] =
             EventRecord(event.bus, previous, event.event, event.state)
  BY PutEventSound
<1>. DEFINE word1 == put.records[Len(put.records)].word1
            high == event.event + event.state * KindSpan
<1>2. word1 = event.bus + high * BusSpan BY <1>1 DEF EventRecord
<1>3. high \in Nat BY EventTyped, BusesAssumption
<1>4. high \div KindSpan = event.state /\ high % KindSpan = event.event
  BY EventTyped, BusesAssumption
<1>5. word1 \div BusSpan = high /\ word1 % BusSpan = event.bus
  <2>. HIDE DEF high, word1
  <2>. QED BY <1>2, <1>3, EventTyped, BusesAssumption
<1>6. EventData(put.records[Len(put.records)]) = event
  <2>. HIDE DEF high
  <2>. QED BY <1>4, <1>5, EventTyped DEF EventData
<1>7. put.records \in Seq(Record) BY <1>1 DEF Chunk
<1>8. Len(put.records) - 1 + 1 = Len(put.records) /\ Len(put.records) - 1 < Len(put.records)
  BY <1>7
<1>. QED BY <1>6, <1>8 DEF EventAt, View

-----------------------------------------------------------------------------
(* Rotation.                                                               *)

\* The active chunk is typed and sound.
LEMMA ActiveSound ==
  ASSUME TypeOK, CursorInv
  PROVE  /\ heap[active] \in Chunk /\ ChunkSound(heap[active])
         /\ heap[active].records \in Seq(Record) /\ heap[active].payload \in Seq(Bytes)
         /\ heap[active].sequence \in Nat /\ Len(heap[active].records) \in Nat
         /\ heap[active].recordCap \in Nat /\ heap[active].payloadCap \in Nat
<1>1. heap \in Seq(Chunk) /\ active \in DOMAIN heap BY DEF TypeOK
<1>2. heap[active] \in Chunk BY <1>1, ElementOfSeq, LenProperties
<1>3. ChunkSound(heap[active]) BY <1>1 DEF CursorInv, ChunksSound
<1>4. heap[active].records \in Seq(Record) BY <1>2 DEF Chunk
<1>. QED BY <1>2, <1>3, <1>4 DEF Chunk

\* A chunk that a frame of at most MaxDataLength bytes does not fit is not
\* empty, so rotation never seals an empty chunk.
LEMMA FullNotEmpty ==
  ASSUME TypeOK, CursorInv, NEW n \in 0..MaxDataLength, ~Fits(heap[active], n)
  PROVE  heap[active].records # <<>>
<1>1. SUFFICES ASSUME heap[active].records = <<>> PROVE FALSE OBVIOUS
<1>2. heap[active].payload = <<>> BY <1>1, ActiveSound DEF ChunkSound
<1>3. Len(heap[active].records) = 0 /\ Len(heap[active].payload) = 0 BY <1>1, <1>2
<1>4. heap[active].recordCap > 0 /\ heap[active].payloadCap >= n
  BY ActiveSound, CapacityAssumption, LengthAssumption DEF ChunkSound
<1>. QED BY <1>3, <1>4, ActiveSound, LengthAssumption DEF Fits

\* The active chunk after rotate, and the two ways it came about.
Rotated(r, base) ==
  /\ base = r.heap[r.active] /\ base \in Chunk /\ ChunkSound(base)
  /\ r.next \in Seq(Capacities) /\ Len(r.next) <= 1
  /\ r.allocation \in Seq(Capacities) /\ Len(r.allocation) <= 1
  /\ \/ /\ r.heap = heap /\ r.chunks = chunks /\ r.active = active /\ r.origin = origin
     \/ /\ r.heap = Append(heap, base) /\ r.chunks = Append(chunks, Len(heap) + 1)
        /\ r.active = Len(heap) + 1
        /\ r.origin = Append(origin, [generation |-> generation,
                                      base |-> Len(history[generation])])
        /\ base.sequence = heap[active].sequence + 1 /\ base.records = <<>>
        /\ heap[active].records # <<>>

\* After rotate the active chunk has room for a record and its payload.
LEMMA RotateSound ==
  ASSUME TypeOK, CursorInv, NEW n \in 0..MaxDataLength
  PROVE  Rotated(Rotate(n), Rotate(n).heap[Rotate(n).active])
<1>. DEFINE chunk == heap[active]
            r == Rotate(n)
            capacities == ReplacementCapacities(Len(chunk.records), Len(chunk.payload))
            room == IF next = <<>> THEN capacities ELSE next[1]
            fresh == [NewCaptureChunk(room.records, room.payload)
                        EXCEPT !.sequence = chunk.sequence + 1]
<1>1. next \in Seq(Capacities) /\ Len(next) <= 1 /\ allocation \in Seq(Capacities)
      /\ Len(allocation) <= 1 /\ heap \in Seq(Chunk) /\ active \in DOMAIN heap
  BY DEF TypeOK
<1>2. CASE Fits(chunk, n)
  <2>1. /\ r.heap = heap /\ r.chunks = chunks /\ r.active = active /\ r.origin = origin
        /\ r.next = next /\ r.allocation = allocation
    BY <1>2 DEF Rotate
  <2>. HIDE DEF r
  <2>2. Rotated(r, r.heap[r.active]) BY <1>1, <2>1, ActiveSound DEF Rotated
  <2>. QED BY <2>2 DEF r
<1>3. CASE ~Fits(chunk, n)
  <2>1. chunk.records # <<>> BY <1>3, FullNotEmpty
  <2>2. Len(chunk.records) \in Nat \ {0} /\ Len(chunk.payload) \in Nat
    BY <2>1, ActiveSound, EmptySeq
  <2>3. capacities \in Capacities BY <2>2, CapacitiesFloor
  <2>4. room \in Capacities
    <3>. HIDE DEF capacities
    <3>. QED BY <1>1, <2>3
  <2>5. chunk.sequence + 1 \in Nat BY ActiveSound
  <2>6. fresh \in Chunk /\ ChunkSound(fresh)
    <3>. HIDE DEF room, chunk
    <3>. QED BY <2>4, <2>5, NewChunkSound
  <2>7. fresh.sequence = chunk.sequence + 1 /\ fresh.records = <<>> BY DEF NewCaptureChunk
  <2>8. PrepareNext(capacities) \in Seq(Capacities) /\ Len(PrepareNext(capacities)) <= 1
    <3>. HIDE DEF capacities
    <3>. QED BY <1>1, <2>3 DEF PrepareNext
  <2>9. /\ r.heap = Append(heap, fresh) /\ r.chunks = Append(chunks, Len(heap) + 1)
        /\ r.active = Len(heap) + 1 /\ r.next = <<>> /\ r.allocation = PrepareNext(capacities)
        /\ r.origin = Append(origin, [generation |-> generation,
                                      base |-> Len(history[generation])])
    <3>. HIDE DEF chunk, capacities, fresh
    <3>. QED BY <1>3 DEF Rotate, chunk, capacities, fresh
  <2>. HIDE DEF r, fresh, capacities, room
  <2>10. r.heap[r.active] = fresh BY <1>1, <2>6, <2>9, AppendProperties
  <2>11. Rotated(r, fresh)
    BY <2>1, <2>6, <2>7, <2>8, <2>9, <2>10 DEF Rotated
  <2>. QED BY <2>10, <2>11 DEF r
<1>. QED BY <1>2, <1>3

-----------------------------------------------------------------------------
(* An append, seen as the heap it leaves.                                  *)

\* The chunks of a heap have numbers for sequences and lengths.
LEMMA ChunkTyped ==
  ASSUME NEW store \in Seq(Chunk)
  PROVE  /\ DOMAIN store = 1..Len(store) /\ Len(store) \in Nat
         /\ \A id \in DOMAIN store : /\ store[id] \in Chunk /\ store[id].sequence \in Nat
                                     /\ store[id].records \in Seq(Record)
                                     /\ Len(store[id].records) \in Nat
<1>1. ASSUME NEW id \in DOMAIN store
      PROVE  /\ store[id] \in Chunk /\ store[id].sequence \in Nat
             /\ store[id].records \in Seq(Record) /\ Len(store[id].records) \in Nat
  <2>1. store[id] \in Chunk OBVIOUS
  <2>2. store[id].records \in Seq(Record) BY <2>1 DEF Chunk
  <2>3. Len(store[id].records) \in Nat BY <2>2, LenProperties
  <2>4. store[id].sequence \in Nat BY <2>1 DEF Chunk
  <2>. QED BY <2>1, <2>2, <2>3, <2>4
<1>. QED BY <1>1, LenProperties

\* Every chunk has an origin, and the retained list names chunks.
LEMMA OriginTyped ==
  ASSUME TypeOK
  PROVE  /\ DOMAIN origin = DOMAIN heap
         /\ \A id \in DOMAIN heap : origin[id].base \in Nat /\ origin[id].generation \in Nat
         /\ DOMAIN chunks = 1..Len(chunks) /\ Len(chunks) \in Nat /\ Len(chunks) > 0
         /\ \A i \in 1..Len(chunks) : chunks[i] \in DOMAIN heap
<1>1. /\ origin \in Seq([generation : Nat, base : Nat]) /\ Len(origin) = Len(heap)
      /\ heap \in Seq(Chunk) /\ chunks \in Seq(DOMAIN heap) /\ chunks # <<>>
  BY DEF TypeOK
<1>2. DOMAIN origin = DOMAIN heap BY <1>1, LenProperties
<1>3. \A id \in DOMAIN heap : origin[id] \in [generation : Nat, base : Nat]
  BY <1>1, <1>2, ElementOfSeq, LenProperties
<1>4. \A id \in DOMAIN heap : origin[id].base \in Nat /\ origin[id].generation \in Nat
  BY <1>3
<1>5. DOMAIN chunks = 1..Len(chunks) /\ Len(chunks) \in Nat BY <1>1, LenProperties
<1>6. Len(chunks) # 0 BY <1>1, EmptySeq
<1>7. Len(chunks) > 0 BY <1>5, <1>6
<1>8. \A i \in 1..Len(chunks) : chunks[i] \in DOMAIN heap BY <1>1, ElementOfSeq
<1>. QED BY <1>2, <1>4, <1>5, <1>7, <1>8

\* The new storage holds C where the active chunk was, or in a chunk after it.
Grows(C) ==
  /\ C \in Chunk /\ ChunkSound(C)
  /\ UNCHANGED <<generation, pruneSeam, captureEpochs>>
  /\ \E entry \in Frames \cup Events :
       history' = [history EXCEPT ![generation] = Append(@, entry)]
  /\ \/ /\ heap' = [heap EXCEPT ![active] = C] /\ origin' = origin
        /\ chunks' = chunks /\ active' = active
        /\ C.sequence = heap[active].sequence
        /\ Len(C.records) = Len(heap[active].records) + 1
     \/ /\ heap' = Append(heap, C)
        /\ origin' = Append(origin, [generation |-> generation,
                                     base |-> Len(history[generation])])
        /\ chunks' = Append(chunks, Len(heap) + 1) /\ active' = Len(heap) + 1
        /\ C.sequence = heap[active].sequence + 1
        /\ Len(C.records) = 1
        /\ heap[active].records # <<>>

\* A store appends one record to the active chunk, fresh or not, and changes
\* no other chunk.
LEMMA StoreGrows ==
  ASSUME TypeOK, NEW r, NEW base, Rotated(r, base),
         NEW C \in Chunk, ChunkSound(C), C.sequence = base.sequence,
         Len(C.records) = Len(base.records) + 1,
         NEW entry \in Frames \cup Events, Store(r, C, entry)
  PROVE  /\ Grows(C) /\ heap'[active'] = C
         /\ next' \in Seq(Capacities) /\ Len(next') <= 1
         /\ allocation' \in Seq(Capacities) /\ Len(allocation') <= 1
<1>1. heap \in Seq(Chunk) /\ active \in DOMAIN heap BY DEF TypeOK
<1>2. /\ next' \in Seq(Capacities) /\ Len(next') <= 1
      /\ allocation' \in Seq(Capacities) /\ Len(allocation') <= 1
  BY DEF Store, Rotated
<1>3. /\ UNCHANGED <<generation, pruneSeam, captureEpochs>>
      /\ \E e \in Frames \cup Events : history' = [history EXCEPT ![generation] = Append(@, e)]
  BY DEF Store
<1>4. /\ heap' = [r.heap EXCEPT ![r.active] = C] /\ chunks' = r.chunks
      /\ active' = r.active /\ origin' = r.origin
  BY DEF Store
<1>5. CASE r.heap = heap /\ r.chunks = chunks /\ r.active = active /\ r.origin = origin
  <2>1. base = heap[active] BY <1>5 DEF Rotated
  <2>. QED BY <1>1, <1>2, <1>3, <1>4, <1>5, <2>1 DEF Grows
<1>6. CASE /\ r.heap = Append(heap, base) /\ r.chunks = Append(chunks, Len(heap) + 1)
           /\ r.active = Len(heap) + 1
           /\ r.origin = Append(origin, [generation |-> generation,
                                         base |-> Len(history[generation])])
           /\ base.sequence = heap[active].sequence + 1 /\ base.records = <<>>
           /\ heap[active].records # <<>>
  <2>1. base \in Chunk BY DEF Rotated
  <2>2. [Append(heap, base) EXCEPT ![Len(heap) + 1] = C] = Append(heap, C)
    <3>. DEFINE s == [Append(heap, base) EXCEPT ![Len(heap) + 1] = C]
                t == Append(heap, C)
    <3>1. /\ Append(heap, base) \in Seq(Chunk) /\ Len(Append(heap, base)) = Len(heap) + 1
          /\ \A i \in 1..Len(heap) : Append(heap, base)[i] = heap[i]
      BY <1>1, <2>1, AppendProperties
    <3>2. /\ t \in Seq(Chunk) /\ Len(t) = Len(heap) + 1 /\ t[Len(heap) + 1] = C
          /\ \A i \in 1..Len(heap) : t[i] = heap[i]
      BY <1>1, AppendProperties
    <3>3. Len(heap) \in Nat BY <1>1
    <3>4. /\ s \in Seq(Chunk) /\ Len(s) = Len(heap) + 1
          /\ \A i \in 1..(Len(heap) + 1) : s[i] = IF i = Len(heap) + 1 THEN C
                                                ELSE Append(heap, base)[i]
      <4>. DEFINE a == Append(heap, base)
      <4>. HIDE DEF a, t
      <4>1. a \in Seq(Chunk) /\ Len(a) = Len(heap) + 1 BY <3>1 DEF a
      <4>2. Len(heap) + 1 \in 1..Len(a) BY <3>3, <4>1
      <4>3. /\ [a EXCEPT ![Len(heap) + 1] = C] \in Seq(Chunk)
            /\ Len([a EXCEPT ![Len(heap) + 1] = C]) = Len(a)
            /\ \A i \in 1..Len(a) : [a EXCEPT ![Len(heap) + 1] = C][i] =
                                    IF i = Len(heap) + 1 THEN C ELSE a[i]
        BY <4>1, <4>2, ExceptSeq
      <4>. QED BY <4>1, <4>3, Zenon DEF a
    <3>. HIDE DEF s, t
    <3>5. \A i \in 1..Len(s) : s[i] = t[i] BY <3>1, <3>2, <3>3, <3>4
    <3>6. s = t BY <3>2, <3>4, <3>5, SeqEqual
    <3>. QED BY <3>6 DEF s, t
  <2>3. heap' = Append(heap, C) BY <1>4, <1>6, <2>2
  <2>4. heap'[active'] = C BY <1>1, <1>4, <1>6, <2>3
  <2>5. Len(C.records) = 1 /\ C.sequence = heap[active].sequence + 1 BY <1>6
  <2>6. /\ origin' = Append(origin, [generation |-> generation,
                                     base |-> Len(history[generation])])
        /\ chunks' = Append(chunks, Len(heap) + 1) /\ active' = Len(heap) + 1
    BY <1>4, <1>6
  <2>7. Grows(C) BY <1>3, <1>6, <2>3, <2>5, <2>6 DEF Grows
  <2>. QED BY <1>2, <2>4, <2>7
<1>. QED BY <1>5, <1>6 DEF Rotated

\* Chunks are never dropped from the heap, renamed or shortened.
HeapGrows ==
  \A id \in DOMAIN heap :
    /\ id \in DOMAIN heap' /\ origin'[id] = origin[id]
    /\ heap'[id].sequence = heap[id].sequence
    /\ Len(heap[id].records) \in Nat /\ Len(heap'[id].records) \in Nat
    /\ Len(heap[id].records) <= Len(heap'[id].records)

\* Appending a record keeps the types.
LEMMA GrowsTyped ==
  ASSUME TypeOK, CursorInv, NEW C, Grows(C)
  PROVE  /\ heap' \in Seq(Chunk) /\ active' \in DOMAIN heap'
         /\ chunks' \in Seq(DOMAIN heap') /\ chunks' # <<>>
         /\ origin' \in Seq([generation : Nat, base : Nat]) /\ Len(origin') = Len(heap')
         /\ DOMAIN history' = DOMAIN history /\ generation \in DOMAIN history
         /\ \A g \in DOMAIN history : history'[g] \in Seq(Frames \cup Events)
         /\ Len(history'[generation]) = Len(history[generation]) + 1
         /\ Len(history[generation]) \in Nat
<1>1. /\ heap \in Seq(Chunk) /\ active \in DOMAIN heap /\ chunks \in Seq(DOMAIN heap)
      /\ chunks # <<>> /\ generation \in Nat
      /\ origin \in Seq([generation : Nat, base : Nat]) /\ Len(origin) = Len(heap)
      /\ \A g \in DOMAIN history : history[g] \in Seq(Frames \cup Events)
  BY DEF TypeOK
<1>2. generation \in DOMAIN history BY DEF CursorInv, GenerationsOwned
<1>3. PICK entry \in Frames \cup Events :
        history' = [history EXCEPT ![generation] = Append(@, entry)]
  BY DEF Grows
<1>4. history[generation] \in Seq(Frames \cup Events) BY <1>1, <1>2
<1>5. /\ Append(history[generation], entry) \in Seq(Frames \cup Events)
      /\ Len(Append(history[generation], entry)) = Len(history[generation]) + 1
      /\ Len(history[generation]) \in Nat
  BY <1>4, AppendProperties, LenProperties
<1>6. /\ DOMAIN history' = DOMAIN history
      /\ history'[generation] = Append(history[generation], entry)
      /\ \A g \in DOMAIN history : g # generation => history'[g] = history[g]
  BY <1>2, <1>3
<1>7. \A g \in DOMAIN history : history'[g] \in Seq(Frames \cup Events)
  BY <1>1, <1>5, <1>6
<1>8. C \in Chunk BY DEF Grows
<1>9. CASE heap' = [heap EXCEPT ![active] = C] /\ origin' = origin
           /\ chunks' = chunks /\ active' = active
  <2>1. heap' \in Seq(Chunk) /\ Len(heap') = Len(heap) /\ DOMAIN heap' = DOMAIN heap
    BY <1>1, <1>8, <1>9
  <2>. QED BY <1>1, <1>2, <1>5, <1>6, <1>7, <1>9, <2>1
<1>10. CASE /\ heap' = Append(heap, C)
            /\ origin' = Append(origin, [generation |-> generation,
                                         base |-> Len(history[generation])])
            /\ chunks' = Append(chunks, Len(heap) + 1) /\ active' = Len(heap) + 1
  <2>1. heap' \in Seq(Chunk) /\ Len(heap') = Len(heap) + 1 BY <1>1, <1>8, <1>10
  <2>2. DOMAIN heap \subseteq DOMAIN heap' /\ Len(heap) + 1 \in DOMAIN heap'
    BY <1>1, <2>1, ChunkTyped, SMTT(30)
  <2>3. chunks \in Seq(DOMAIN heap') BY <1>1, <2>2, SeqMonotonic
  <2>4. chunks' \in Seq(DOMAIN heap') /\ chunks' # <<>>
    BY <1>10, <2>2, <2>3, AppendProperties
  <2>5. [generation |-> generation, base |-> Len(history[generation])]
          \in [generation : Nat, base : Nat]
    BY <1>1, <1>5
  <2>6. origin' \in Seq([generation : Nat, base : Nat]) /\ Len(origin') = Len(heap) + 1
    <3>. DEFINE o == [generation |-> generation, base |-> Len(history[generation])]
    <3>. HIDE DEF o
    <3>1. origin' = Append(origin, o) /\ o \in [generation : Nat, base : Nat]
      BY <1>10, <2>5 DEF o
    <3>. QED BY <1>1, <3>1, AppendProperties
  <2>. QED BY <1>2, <1>5, <1>6, <1>7, <1>10, <2>1, <2>2, <2>4, <2>6
<1>. QED BY <1>9, <1>10 DEF Grows

\* Appending a record only adds chunks and lengthens them.
LEMMA GrowsHeap ==
  ASSUME TypeOK, CursorInv, NEW C, Grows(C)
  PROVE  /\ HeapGrows /\ heap'[active'] = C
         /\ \A id \in DOMAIN heap : id # active' => heap'[id] = heap[id]
         /\ \A id \in DOMAIN heap' : id \in DOMAIN heap \/ id = active'
<1>1. /\ heap \in Seq(Chunk) /\ active \in DOMAIN heap
      /\ origin \in Seq([generation : Nat, base : Nat]) /\ Len(origin) = Len(heap)
  BY DEF TypeOK
<1>2. heap' \in Seq(Chunk) BY GrowsTyped
<1>3. C \in Chunk BY DEF Grows
<1>4. /\ DOMAIN heap = 1..Len(heap) /\ Len(heap) \in Nat
      /\ \A id \in DOMAIN heap : Len(heap[id].records) \in Nat
  BY <1>1, ChunkTyped
<1>5. /\ DOMAIN heap' = 1..Len(heap') /\ Len(heap') \in Nat
      /\ \A id \in DOMAIN heap' : Len(heap'[id].records) \in Nat
  BY <1>2, ChunkTyped
<1>6. CASE /\ heap' = [heap EXCEPT ![active] = C] /\ origin' = origin
           /\ chunks' = chunks /\ active' = active
           /\ C.sequence = heap[active].sequence
           /\ Len(C.records) = Len(heap[active].records) + 1
  BY <1>1, <1>4, <1>5, <1>6 DEF HeapGrows
<1>7. CASE /\ heap' = Append(heap, C)
           /\ origin' = Append(origin, [generation |-> generation,
                                        base |-> Len(history[generation])])
           /\ active' = Len(heap) + 1
  <2>1. /\ Len(heap') = Len(heap) + 1 /\ heap'[Len(heap) + 1] = C
        /\ \A i \in 1..Len(heap) : heap'[i] = heap[i]
    BY <1>1, <1>3, <1>7, AppendProperties
  <2>2. \A i \in 1..Len(origin) : origin'[i] = origin[i] BY <1>1, <1>7
  <2>3. ASSUME NEW id \in DOMAIN heap
        PROVE  id \in DOMAIN heap' /\ heap'[id] = heap[id] /\ origin'[id] = origin[id]
    BY <1>1, <1>4, <1>5, <2>1, <2>2
  <2>4. HeapGrows BY <1>4, <2>3 DEF HeapGrows
  <2>5. ASSUME NEW id \in DOMAIN heap' PROVE id \in DOMAIN heap \/ id = active'
    BY <1>4, <1>5, <1>7, <2>1
  <2>. QED BY <1>7, <2>1, <2>3, <2>4, <2>5
<1>. QED BY <1>6, <1>7 DEF Grows

\* The retained chunks are numbered consecutively.
LEMMA SequencesTyped ==
  ASSUME TypeOK, CursorInv
  PROVE  /\ \A id \in DOMAIN heap : heap[id].sequence \in Nat
         /\ chunks[1] \in DOMAIN heap /\ active \in DOMAIN heap
         /\ \A i \in 1..Len(chunks) : heap[chunks[i]].sequence = heap[chunks[1]].sequence + i - 1
         /\ heap[active].sequence = heap[chunks[1]].sequence + Len(chunks) - 1
         /\ Len(chunks) \in Nat /\ Len(chunks) > 0
<1>1. heap \in Seq(Chunk) /\ active \in DOMAIN heap BY DEF TypeOK
<1>2. \A id \in DOMAIN heap : heap[id].sequence \in Nat BY <1>1, ChunkTyped
<1>3. Len(chunks) \in Nat /\ Len(chunks) > 0 /\ DOMAIN chunks = 1..Len(chunks) BY OriginTyped
<1>4. 1 \in 1..Len(chunks) /\ Len(chunks) \in 1..Len(chunks) BY <1>3
<1>5. chunks[1] \in DOMAIN heap BY <1>4, OriginTyped
<1>6. /\ \A i \in 1..Len(chunks) : heap[chunks[i]].sequence = heap[chunks[1]].sequence + i - 1
      /\ active = chunks[Len(chunks)]
  BY <1>3 DEF CursorInv, RetainedInOrder
<1>. QED BY <1>1, <1>2, <1>3, <1>4, <1>5, <1>6

\* No chunk of the generation, retained or discarded, is newer than the active one.
LEMMA ActiveNewest ==
  ASSUME TypeOK, CursorInv, NEW id \in DOMAIN heap, origin[id].generation = generation
  PROVE  heap[id].sequence <= heap[active].sequence
<1>1. /\ heap[id].sequence \in Nat /\ heap[chunks[1]].sequence \in Nat
      /\ heap[active].sequence = heap[chunks[1]].sequence + Len(chunks) - 1
      /\ Len(chunks) \in Nat /\ Len(chunks) > 0
  BY SequencesTyped
<1>2. CASE \E i \in DOMAIN chunks : id = chunks[i]
  <2>1. PICK i \in 1..Len(chunks) : id = chunks[i] BY <1>2, OriginTyped
  <2>2. heap[id].sequence = heap[chunks[1]].sequence + i - 1 BY <2>1, SequencesTyped
  <2>. QED BY <1>1, <2>1, <2>2
<1>3. CASE heap[id].sequence + 1 = heap[chunks[1]].sequence BY <1>1, <1>3
<1>4. CASE heap[id].sequence + 1 < heap[chunks[1]].sequence BY <1>1, <1>4
<1>. QED BY <1>2, <1>3, <1>4, Zenon DEF CursorInv, DiscardedBehind

\* Appending a record keeps generations owned and chunks uniquely named.
LEMMA GrowsKeepsNames ==
  ASSUME TypeOK, CursorInv, NEW C, Grows(C)
  PROVE  GenerationsOwned' /\ ChunksNamed' /\ ChunksSound'
<1>7. /\ HeapGrows /\ heap'[active'] = C
      /\ \A id \in DOMAIN heap : id # active' => heap'[id] = heap[id]
      /\ \A id \in DOMAIN heap' : id \in DOMAIN heap \/ id = active'
      /\ DOMAIN history' = DOMAIN history
  BY GrowsTyped, GrowsHeap
<1>1. /\ heap \in Seq(Chunk) /\ active \in DOMAIN heap
      /\ origin \in Seq([generation : Nat, base : Nat]) /\ Len(origin) = Len(heap)
  BY DEF TypeOK
<1>2. DOMAIN heap = 1..Len(heap) /\ Len(heap) \in Nat BY <1>1, ChunkTyped
<1>3. origin'[active'].generation = generation
  <2>1. origin[active].generation = generation
    <3>1. Len(chunks) \in DOMAIN chunks /\ active = chunks[Len(chunks)]
      BY OriginTyped DEF CursorInv, RetainedInOrder
    <3>. QED BY <3>1 DEF CursorInv, RetainedInOrder
  <2>2. CASE active' = active
    BY <1>1, <1>7, <2>1, <2>2 DEF HeapGrows
  <2>3. CASE /\ origin' = Append(origin, [generation |-> generation,
                                          base |-> Len(history[generation])])
             /\ active' = Len(heap) + 1
    BY <1>1, <1>7, <2>3
  <2>. QED BY <2>2, <2>3 DEF Grows
<1>4. GenerationsOwned'
  <2>1. generation' = generation /\ captureEpochs' = captureEpochs BY DEF Grows
  <2>2. ASSUME NEW id \in DOMAIN heap' PROVE origin'[id].generation \in DOMAIN history
    BY <1>3, <1>7 DEF HeapGrows, CursorInv, GenerationsOwned
  <2>. QED BY <1>7, <2>1, <2>2 DEF CursorInv, GenerationsOwned
<1>5. ChunksSound'
  <2>1. ChunkSound(C) BY DEF Grows
  <2>2. ASSUME NEW id \in DOMAIN heap' PROVE ChunkSound(heap'[id])
    <3>1. CASE id = active' BY <1>7, <2>1, <3>1
    <3>2. CASE id # active' BY <1>7, <3>2 DEF CursorInv, ChunksSound
    <3>. QED BY <3>1, <3>2
  <2>. QED BY <2>2 DEF ChunksSound, ChunkSound
<1>6. ChunksNamed'
  <2>1. ASSUME NEW id \in DOMAIN heap, NEW other \in DOMAIN heap,
               origin'[id].generation = origin'[other].generation,
               heap'[id].sequence = heap'[other].sequence
        PROVE  id = other
    BY <1>7, <2>1 DEF HeapGrows, CursorInv, ChunksNamed
  <2>2. ASSUME active' \notin DOMAIN heap, NEW id \in DOMAIN heap,
               origin'[id].generation = generation, heap'[id].sequence = C.sequence
        PROVE  FALSE
    <3>1. C.sequence = heap[active].sequence + 1 BY <1>1, <2>2 DEF Grows
    <3>2. origin[id].generation = generation /\ heap[id].sequence = heap[active].sequence + 1
      BY <1>7, <2>2, <3>1 DEF HeapGrows
    <3>3. heap[active].sequence \in Nat BY SequencesTyped
    <3>4. heap[id].sequence <= heap[active].sequence BY <3>2, ActiveNewest
    <3>. QED BY <3>2, <3>3, <3>4
  <2>3. ASSUME NEW id \in DOMAIN heap', NEW other \in DOMAIN heap',
               origin'[id].generation = origin'[other].generation,
               heap'[id].sequence = heap'[other].sequence
        PROVE  id = other
    <3>1. CASE id \in DOMAIN heap /\ other \in DOMAIN heap BY <2>1, <2>3, <3>1
    <3>2. CASE id \notin DOMAIN heap
      <4>1. id = active' BY <1>7, <3>2
      <4>2. other \notin DOMAIN heap BY <1>3, <1>7, <2>2, <2>3, <3>2, <4>1
      <4>. QED BY <1>7, <4>1, <4>2
    <3>3. CASE other \notin DOMAIN heap
      <4>1. other = active' BY <1>7, <3>3
      <4>2. id \notin DOMAIN heap BY <1>3, <1>7, <2>2, <2>3, <3>3, <4>1
      <4>. QED BY <1>7, <4>1, <4>2
    <3>. QED BY <3>1, <3>2, <3>3
  <2>. QED BY <2>3 DEF ChunksNamed
<1>. QED BY <1>4, <1>5, <1>6

\* What RetainedInOrder says, by index.
LEMMA OrderFacts ==
  ASSUME TypeOK, CursorInv
  PROVE  /\ active = chunks[Len(chunks)] /\ EndBase(active) = Len(history[generation])
         /\ \A i \in 1..Len(chunks) :
              /\ origin[chunks[i]].generation = generation
              /\ heap[chunks[i]].sequence = heap[chunks[1]].sequence + i - 1
              /\ i < Len(chunks) => /\ heap[chunks[i]].records # <<>>
                                    /\ origin[chunks[i + 1]].base = EndBase(chunks[i])
                                    /\ chunks[i] # active
              /\ \A j \in 1..Len(chunks) : i < j => EndBase(chunks[i]) <= origin[chunks[j]].base
         /\ \A id \in DOMAIN heap : EndBase(id) \in Nat /\ origin[id].base <= EndBase(id)
<1>1. /\ active = chunks[Len(chunks)] /\ EndBase(active) = Len(history[generation])
      /\ \A i \in 1..Len(chunks) :
           /\ origin[chunks[i]].generation = generation
           /\ heap[chunks[i]].sequence = heap[chunks[1]].sequence + i - 1
           /\ i < Len(chunks) => /\ heap[chunks[i]].records # <<>>
                                 /\ origin[chunks[i + 1]].base = EndBase(chunks[i])
           /\ \A j \in 1..Len(chunks) : i < j => EndBase(chunks[i]) <= origin[chunks[j]].base
  BY OriginTyped DEF CursorInv, RetainedInOrder
<1>2. ASSUME NEW i \in 1..Len(chunks), i < Len(chunks) PROVE chunks[i] # active
  <2>1. /\ heap[chunks[i]].sequence = heap[chunks[1]].sequence + i - 1
        /\ heap[active].sequence = heap[chunks[1]].sequence + Len(chunks) - 1
        /\ heap[chunks[1]].sequence \in Nat /\ Len(chunks) \in Nat
    BY SequencesTyped
  <2>2. heap[chunks[i]].sequence # heap[active].sequence BY <1>2, <2>1
  <2>. QED BY <2>2
<1>3. ASSUME NEW id \in DOMAIN heap PROVE EndBase(id) \in Nat /\ origin[id].base <= EndBase(id)
  <2>1. heap \in Seq(Chunk) BY DEF TypeOK
  <2>2. origin[id].base \in Nat /\ Len(heap[id].records) \in Nat
    BY <2>1, OriginTyped, ChunkTyped
  <2>. QED BY <2>2 DEF EndBase
<1>. QED BY <1>1, <1>2, <1>3

\* What rotation and the append leave of the chunk list.
LEMMA GrowsList ==
  ASSUME TypeOK, CursorInv, NEW C, Grows(C)
  PROVE  /\ \A i \in 1..Len(chunks) : chunks'[i] = chunks[i]
         /\ \/ Len(chunks') = Len(chunks) /\ active' = active
               /\ heap[active].sequence = C.sequence
               /\ Len(C.records) = Len(heap[active].records) + 1
            \/ /\ Len(chunks') = Len(chunks) + 1 /\ active' = chunks'[Len(chunks) + 1]
               /\ active' \notin DOMAIN heap /\ heap[active].records # <<>>
               /\ C.sequence = heap[active].sequence + 1 /\ Len(C.records) = 1
               /\ origin'[active'] = [generation |-> generation,
                                      base |-> Len(history[generation])]
<1>1. /\ heap \in Seq(Chunk) /\ chunks \in Seq(DOMAIN heap)
      /\ origin \in Seq([generation : Nat, base : Nat]) /\ Len(origin) = Len(heap)
  BY DEF TypeOK
<1>2. DOMAIN heap = 1..Len(heap) /\ Len(heap) \in Nat BY <1>1, ChunkTyped
<1>3. CASE chunks' = chunks /\ active' = active /\ C.sequence = heap[active].sequence
           /\ Len(C.records) = Len(heap[active].records) + 1
  BY <1>3
<1>4. CASE /\ chunks' = Append(chunks, Len(heap) + 1) /\ active' = Len(heap) + 1
           /\ C.sequence = heap[active].sequence + 1 /\ Len(C.records) = 1
           /\ heap[active].records # <<>>
           /\ origin' = Append(origin, [generation |-> generation,
                                        base |-> Len(history[generation])])
  <2>1. /\ Len(chunks') = Len(chunks) + 1 /\ chunks'[Len(chunks) + 1] = Len(heap) + 1
        /\ \A i \in 1..Len(chunks) : chunks'[i] = chunks[i]
    BY <1>1, <1>4
  <2>2. origin'[Len(heap) + 1] = [generation |-> generation, base |-> Len(history[generation])]
    BY <1>1, <1>4
  <2>3. Len(heap) + 1 \notin DOMAIN heap BY <1>2
  <2>. QED BY <1>4, <2>1, <2>2, <2>3
<1>. QED BY <1>3, <1>4 DEF Grows

\* Appending a record keeps the retained chunks in order behind the seam.
LEMMA GrowsKeepsOrder ==
  ASSUME TypeOK, CursorInv, NEW C, Grows(C)
  PROVE  RetainedInOrder' /\ DiscardedBehind' /\ SeamNamed'
<1>. DEFINE n == Len(chunks)
            E(id) == origin'[id].base + Len(heap'[id].records)
<1>1. /\ HeapGrows /\ heap'[active'] = C
      /\ \A id \in DOMAIN heap : id # active' => heap'[id] = heap[id]
      /\ \A id \in DOMAIN heap' : id \in DOMAIN heap \/ id = active'
      /\ Len(history'[generation]) = Len(history[generation]) + 1
      /\ Len(history[generation]) \in Nat
  BY GrowsTyped, GrowsHeap
<1>2. /\ \A i \in 1..n : chunks[i] \in DOMAIN heap /\ chunks'[i] = chunks[i]
      /\ n \in Nat /\ n > 0
      /\ generation' = generation /\ pruneSeam' = pruneSeam
      /\ Len(chunks') \in Nat /\ DOMAIN chunks' = 1..Len(chunks') /\ Len(chunks') >= n
  <2>1. chunks' \in Seq(DOMAIN heap') BY GrowsTyped
  <2>2. n \in Nat /\ n > 0 BY OriginTyped
  <2>3. Len(chunks') = n \/ Len(chunks') = n + 1 BY GrowsList
  <2>4. Len(chunks') >= n BY <2>2, <2>3
  <2>. QED BY <2>1, <2>4, OriginTyped, GrowsList, LenProperties DEF Grows
<1>3. \A id \in DOMAIN heap : id # active' => E(id) = EndBase(id)
  BY <1>1 DEF EndBase, HeapGrows
<1>4. \A id \in DOMAIN heap : /\ origin'[id] = origin[id]
                             /\ heap'[id].sequence = heap[id].sequence
                             /\ EndBase(id) \in Nat
  BY <1>1, OrderFacts DEF HeapGrows
<1>5. E(active') = Len(history'[generation'])
  <2>1. CASE active' = active /\ Len(C.records) = Len(heap[active].records) + 1
    <3>1. active \in DOMAIN heap /\ EndBase(active) = Len(history[generation])
      BY OrderFacts, SequencesTyped
    <3>2. origin[active].base \in Nat /\ Len(heap[active].records) \in Nat
      BY <1>1, <3>1, OriginTyped DEF HeapGrows
    <3>3. E(active') = origin[active].base + (Len(heap[active].records) + 1)
      BY <1>1, <1>4, <2>1, <3>1
    <3>. QED BY <1>1, <1>2, <3>1, <3>2, <3>3, SMTT(30) DEF EndBase
  <2>2. CASE /\ Len(C.records) = 1
             /\ origin'[active'] = [generation |-> generation,
                                    base |-> Len(history[generation])]
    BY <1>1, <1>2, <2>2
  <2>. QED BY <2>1, <2>2, GrowsList
\* The chunks that were retained before keep their places.
<1>6. ASSUME NEW i \in 1..n
      PROVE  /\ origin'[chunks[i]].generation = generation
             /\ heap'[chunks[i]].sequence = heap'[chunks[1]].sequence + i - 1
             /\ i < n => /\ heap'[chunks[i]].records # <<>>
                         /\ origin'[chunks[i + 1]].base = E(chunks[i])
                         /\ chunks[i] # active' /\ E(chunks[i]) = EndBase(chunks[i])
             /\ \A j \in 1..n : i < j => E(chunks[i]) <= origin'[chunks[j]].base
  <2>1. 1 \in 1..n /\ chunks[1] \in DOMAIN heap /\ chunks[i] \in DOMAIN heap BY <1>2
  <2>2. /\ origin[chunks[i]].generation = generation
        /\ heap[chunks[i]].sequence = heap[chunks[1]].sequence + i - 1
        /\ i < n => /\ heap[chunks[i]].records # <<>>
                    /\ origin[chunks[i + 1]].base = EndBase(chunks[i])
                    /\ chunks[i] # active
        /\ \A j \in 1..n : i < j => EndBase(chunks[i]) <= origin[chunks[j]].base
    BY OrderFacts
  <2>3. i < n => chunks[i] # active' /\ i + 1 \in 1..n
    <3>1. i < n => i + 1 \in 1..n BY <1>2
    <3>2. active' = active \/ active' \notin DOMAIN heap BY GrowsList
    <3>. QED BY <2>1, <2>2, <3>1, <3>2
  <2>4. \A j \in 1..n : i < j => i < n BY <1>2
  <2>5. i < n => E(chunks[i]) = EndBase(chunks[i]) /\ heap'[chunks[i]] = heap[chunks[i]]
    BY <1>1, <1>3, <2>1, <2>3
  <2>6. i < n => chunks[i + 1] \in DOMAIN heap BY <1>2, <2>3
  <2>7. \A j \in 1..n : chunks[j] \in DOMAIN heap BY <1>2
  <2>. HIDE DEF n, E
  <2>. QED BY <1>4, <2>1, <2>2, <2>3, <2>4, <2>5, <2>6, <2>7
<1>7. ASSUME Len(chunks') = n, active' = active PROVE RetainedInOrder'
  <2>1. active' = chunks'[Len(chunks')] BY <1>2, <1>7, OrderFacts
  <2>2. ASSUME NEW i \in DOMAIN chunks'
        PROVE  /\ origin'[chunks'[i]].generation = generation'
               /\ heap'[chunks'[i]].sequence = heap'[chunks'[1]].sequence + i - 1
               /\ i < Len(chunks') => heap'[chunks'[i]].records # <<>>
               /\ i < Len(chunks') => origin'[chunks'[i + 1]].base = E(chunks'[i])
               /\ \A j \in DOMAIN chunks' : i < j => E(chunks'[i]) <= origin'[chunks'[j]].base
    <3>1. i \in 1..n /\ 1 \in 1..n /\ (i < n => i + 1 \in 1..n) BY <1>2, <1>7
    <3>2. /\ chunks'[i] = chunks[i] /\ chunks'[1] = chunks[1]
          /\ i < n => chunks'[i + 1] = chunks[i + 1]
          /\ \A j \in 1..n : chunks'[j] = chunks[j]
      BY <1>2, <3>1
    <3>. HIDE DEF n, E
    <3>. QED BY <1>2, <1>6, <1>7, <3>1, <3>2
  <2>. QED BY <1>5, <2>1, <2>2, Zenon DEF RetainedInOrder, EndBase
<1>8. ASSUME Len(chunks') = n + 1, active' = chunks'[n + 1], active' \notin DOMAIN heap,
             heap[active].records # <<>>, C.sequence = heap[active].sequence + 1,
             origin'[active'] = [generation |-> generation, base |-> Len(history[generation])]
      PROVE  RetainedInOrder'
  <2>1. active' = chunks'[Len(chunks')] BY <1>8
  <2>2. n \in 1..n /\ active = chunks[n] /\ active \in DOMAIN heap
        /\ heap[active].sequence = heap[chunks[1]].sequence + n - 1
        /\ EndBase(active) = Len(history[generation]) /\ heap[chunks[1]].sequence \in Nat
        /\ chunks[1] \in DOMAIN heap
    BY <1>2, OrderFacts, SequencesTyped
  <2>3. heap'[active] = heap[active] /\ E(active) = EndBase(active) BY <1>1, <1>3, <1>8, <2>2
  <2>4. heap'[active'].sequence = heap'[chunks[1]].sequence + n
    <3>1. heap'[chunks[1]].sequence = heap[chunks[1]].sequence BY <1>4, <2>2
    <3>2. heap'[active'].sequence = heap[chunks[1]].sequence + n - 1 + 1 BY <1>1, <1>8, <2>2
    <3>. HIDE DEF n
    <3>. QED BY <1>2, <2>2, <3>1, <3>2
  <2>5. ASSUME NEW i \in 1..n PROVE E(chunks[i]) <= Len(history[generation])
    <3>1. CASE i = n BY <2>2, <2>3, <3>1, <1>1
    <3>2. CASE i < n
      <4>1. EndBase(chunks[i]) <= origin[active].base BY <2>2, <3>2, OrderFacts
      <4>2. origin[active].base <= EndBase(active) /\ origin[active].base \in Nat
        BY <2>2, OrderFacts, OriginTyped
      <4>3. E(chunks[i]) = EndBase(chunks[i]) /\ EndBase(chunks[i]) \in Nat
        BY <1>2, <1>4, <1>6, <3>2
      <4>. HIDE DEF E
      <4>. QED BY <2>2, <4>1, <4>2, <4>3, <1>1
    <3>. QED BY <1>2, <3>1, <3>2
  <2>6. ASSUME NEW i \in DOMAIN chunks'
        PROVE  /\ origin'[chunks'[i]].generation = generation'
               /\ heap'[chunks'[i]].sequence = heap'[chunks'[1]].sequence + i - 1
               /\ i < Len(chunks') => heap'[chunks'[i]].records # <<>>
               /\ i < Len(chunks') => origin'[chunks'[i + 1]].base = E(chunks'[i])
               /\ \A j \in DOMAIN chunks' : i < j => E(chunks'[i]) <= origin'[chunks'[j]].base
    <3>1. chunks'[1] = chunks[1] BY <1>2
    <3>2. CASE i = n + 1
      <4>1. heap'[chunks[1]].sequence \in Nat BY <1>4, <2>2
      <4>. HIDE DEF E
      <4>. QED BY <1>2, <1>8, <2>4, <3>1, <3>2, <4>1
    <3>3. CASE i = n
      <4>1. chunks'[i] = active /\ chunks'[i + 1] = active' BY <1>2, <1>8, <2>2, <3>3
      <4>2. i \in 1..n BY <1>2, <3>3
      <4>3. origin'[active'].base = E(active) BY <1>8, <2>2, <2>3
      <4>4. \A j \in DOMAIN chunks' : i < j => chunks'[j] = active' BY <1>2, <1>8, <3>3
      <4>5. E(active) \in Nat BY <1>1, <2>2, <2>3
      <4>. HIDE DEF E, n
      <4>. QED BY <1>2, <1>6, <1>8, <2>2, <2>3, <3>1, <4>1, <4>2, <4>3, <4>4, <4>5
    <3>4. CASE i < n
      <4>1. i \in 1..n /\ i + 1 \in 1..n BY <1>2, <3>4
      <4>2. chunks'[i] = chunks[i] /\ chunks'[i + 1] = chunks[i + 1] BY <1>2, <4>1
      <4>3. ASSUME NEW j \in DOMAIN chunks', i < j
            PROVE  E(chunks[i]) <= origin'[chunks'[j]].base
        <5>1. CASE j \in 1..n BY <1>2, <1>6, <4>1, <4>3, <5>1
        <5>2. CASE j = n + 1 BY <1>8, <2>5, <4>1, <5>2
        <5>. QED BY <1>2, <1>8, <5>1, <5>2
      <4>. HIDE DEF E, n
      <4>. QED BY <1>2, <1>6, <3>1, <3>4, <4>1, <4>2, <4>3
    <3>. QED BY <1>2, <1>8, <3>2, <3>3, <3>4
  <2>. QED BY <1>5, <2>1, <2>6, Zenon DEF RetainedInOrder, EndBase
<1>9. RetainedInOrder' BY <1>7, <1>8, GrowsList
<1>10. 1 \in 1..n /\ chunks'[1] = chunks[1] /\ chunks[1] \in DOMAIN heap
       /\ Discarded' = Discarded
  BY <1>2, <1>4 DEF Discarded
\* The discarded chunks are not written to.
<1>11. ASSUME NEW id \in DOMAIN heap, heap[id].sequence + 1 <= heap[chunks[1]].sequence,
              origin[id].generation = generation
       PROVE  id # active'
  <2>1. /\ heap[id].sequence \in Nat /\ heap[chunks[1]].sequence \in Nat
        /\ heap[active].sequence = heap[chunks[1]].sequence + Len(chunks) - 1
    BY SequencesTyped
  <2>2. id # active BY <1>2, <1>11, <2>1
  <2>. QED BY <2>2, GrowsList
<1>12. DiscardedBehind'
  <2>1. ASSUME NEW id \in DOMAIN heap', origin'[id].generation = generation'
        PROVE  \/ \E i \in DOMAIN chunks' : id = chunks'[i]
               \/ heap'[id].sequence + 1 = heap'[chunks'[1]].sequence /\ E(id) = Discarded'
               \/ heap'[id].sequence + 1 < heap'[chunks'[1]].sequence /\ E(id) < Discarded'
    <3>1. CASE id = active'
      <4>1. Len(chunks') \in DOMAIN chunks' /\ active' = chunks'[Len(chunks')]
        BY <1>2, <1>9 DEF RetainedInOrder
      <4>. QED BY <3>1, <4>1
    <3>2. CASE id \in DOMAIN heap /\ id # active'
      <4>1. origin[id].generation = generation BY <1>2, <1>4, <2>1, <3>2
      <4>2. \/ \E i \in DOMAIN chunks : id = chunks[i]
            \/ heap[id].sequence + 1 = heap[chunks[1]].sequence /\ EndBase(id) = Discarded
            \/ heap[id].sequence + 1 < heap[chunks[1]].sequence /\ EndBase(id) < Discarded
        BY <3>2, <4>1, Zenon DEF CursorInv, DiscardedBehind
      <4>3. CASE \E i \in DOMAIN chunks : id = chunks[i]
        <5>1. PICK i \in 1..n : id = chunks[i] BY <4>3, OriginTyped
        <5>2. i \in DOMAIN chunks' BY <1>2
        <5>. QED BY <1>2, <5>1, <5>2
      <4>4. heap'[id].sequence = heap[id].sequence /\ E(id) = EndBase(id)
            /\ heap'[chunks'[1]].sequence = heap[chunks[1]].sequence
        BY <1>3, <1>4, <1>10, <3>2
      <4>. HIDE DEF E
      <4>. QED BY <1>10, <4>2, <4>3, <4>4, Zenon
    <3>. QED BY <1>1, <3>1, <3>2
  <2>. QED BY <2>1 DEF DiscardedBehind, EndBase
<1>13. SeamNamed'
  <2>1. heap'[chunks'[1]].sequence = heap[chunks[1]].sequence BY <1>4, <1>10
  <2>2. CASE heap[chunks[1]].sequence = 0
    BY <1>2, <2>1, <2>2 DEF CursorInv, SeamNamed
  <2>3. CASE heap[chunks[1]].sequence # 0
    <3>1. PICK id \in DOMAIN heap :
            /\ origin[id].generation = generation
            /\ heap[id].sequence + 1 = heap[chunks[1]].sequence
            /\ pruneSeam = [generation |-> generation, chunk |-> heap[id].sequence,
                            record |-> Len(heap[id].records) - 1]
      BY <2>3 DEF CursorInv, SeamNamed
    <3>2. heap[id].sequence + 1 <= heap[chunks[1]].sequence BY <1>10, <3>1, SequencesTyped
    <3>3. id # active' BY <1>11, <3>1, <3>2
    <3>4. heap'[id] = heap[id] /\ id \in DOMAIN heap' BY <1>1, <3>3 DEF HeapGrows
    <3>. QED BY <1>2, <1>4, <2>1, <2>3, <3>1, <3>4 DEF SeamNamed
  <2>. QED BY <2>2, <2>3
<1>. QED BY <1>9, <1>12, <1>13

-----------------------------------------------------------------------------
(* What is in circulation stays good while the heap grows.                 *)

\* A cursor or a snapshot in circulation stays good while the heap only grows.
LEMMA CirculationKept ==
  ASSUME TypeOK, HeapGrows, captureEpochs' \in Nat, captureEpochs <= captureEpochs',
         \A g \in DOMAIN history' : g \in DOMAIN history \/ g > captureEpochs
  PROVE  /\ \A c \in Cursor : Genuine(c) => Genuine(c)'
         /\ \A s \in CaptureSnapshot : SnapshotSound(s) => SnapshotSound(s)'
<1>1. ASSUME NEW c \in Cursor, Genuine(c) PROVE Genuine(c)'
  <2>1. CASE c = ZeroCursor BY <2>1 DEF Genuine
  <2>2. CASE \E id \in DOMAIN heap : /\ origin[id].generation = c.generation
                                    /\ heap[id].sequence = c.chunk
                                    /\ c.record < Len(heap[id].records)
    <3>1. PICK id \in DOMAIN heap : /\ origin[id].generation = c.generation
                                   /\ heap[id].sequence = c.chunk
                                   /\ c.record < Len(heap[id].records)
      BY <2>2
    <3>2. c.record \in Nat BY DEF Cursor
    <3>3. /\ id \in DOMAIN heap' /\ origin'[id].generation = c.generation
          /\ heap'[id].sequence = c.chunk /\ c.record < Len(heap'[id].records)
      BY <3>1, <3>2 DEF HeapGrows
    <3>. QED BY <3>3 DEF Genuine
  <2>3. CASE c.generation \in (1..captureEpochs) \ DOMAIN history
    <3>1. c.generation \in Nat /\ captureEpochs \in Nat BY DEF Cursor, TypeOK
    <3>2. c.generation \in (1..captureEpochs') \ DOMAIN history' BY <2>3, <3>1
    <3>. QED BY <3>2 DEF Genuine
  <2>. QED BY <1>1, <2>1, <2>2, <2>3 DEF Genuine
<1>2. ASSUME NEW s \in CaptureSnapshot, SnapshotSound(s) PROVE SnapshotSound(s)'
  <2>1. s.chunks \in Seq(Nat) /\ s.activeView.records \in Nat
    BY DEF CaptureSnapshot, CaptureView
  <2>2. Len(s.chunks) \in DOMAIN s.chunks /\ s.activeView.id \in DOMAIN heap
    <3>1. s.chunks # <<>> BY <1>2 DEF SnapshotSound
    <3>2. Len(s.chunks) \in DOMAIN s.chunks BY <2>1, <3>1
    <3>. QED BY <1>2, <3>2 DEF SnapshotSound
  <2>3. \A i \in DOMAIN s.chunks :
          s.chunks[i] \in DOMAIN heap' /\ origin'[s.chunks[i]].generation = s.generation
    BY <1>2 DEF SnapshotSound, HeapGrows
  <2>4. s.activeView.records <= Len(heap'[s.activeView.id].records)
    BY <1>2, <2>1, <2>2 DEF SnapshotSound, HeapGrows
  <2>5. s.activeView.sequence = heap'[s.activeView.id].sequence
    BY <1>2, <2>2 DEF SnapshotSound, HeapGrows
  <2>. QED BY <1>2, <2>3, <2>4, <2>5 DEF SnapshotSound
<1>. QED BY <1>1, <1>2

\* A call in progress holds a snapshot.
LEMMA CallTyped ==
  ASSUME TypeOK, NEW h \in Holders, call[h] # Idle
  PROVE  call[h].snapshot \in CaptureSnapshot
<1>1. call[h] \in CallType BY DEF TypeOK
<1>. QED BY <1>1 DEF CallType

\* A step that leaves the goroutines alone keeps what they hold good.
LEMMA HoldingKept ==
  ASSUME TypeOK, CursorInv, HeapGrows, captureEpochs' \in Nat, captureEpochs <= captureEpochs',
         \A g \in DOMAIN history' : g \in DOMAIN history \/ g > captureEpochs,
         cursor' = cursor, call' = call
  PROVE  /\ \A h \in Holders : Genuine(cursor[h])'
         /\ SnapshotsSound'
         /\ \A w \in WaiterIds : waiterHeap'[w].cursor = waiterHeap[w].cursor
                                => Genuine(waiterHeap[w].cursor)'
<1>1. ASSUME NEW h \in Holders PROVE Genuine(cursor[h])'
  <2>1. cursor[h] \in Cursor BY DEF TypeOK
  <2>2. Genuine(cursor[h]) BY DEF CursorInv, CursorsGenuine
  <2>. QED BY <2>1, <2>2, CirculationKept DEF Genuine
<1>2. ASSUME NEW h \in Holders, call[h] # Idle PROVE SnapshotSound(call[h].snapshot)'
  <2>1. SnapshotSound(call[h].snapshot) BY <1>2 DEF CursorInv, SnapshotsSound
  <2>2. call[h].snapshot \in CaptureSnapshot BY <1>2, CallTyped
  <2>. QED BY <2>1, <2>2, CirculationKept DEF SnapshotSound
<1>3. ASSUME NEW w \in WaiterIds, waiterHeap'[w].cursor = waiterHeap[w].cursor
      PROVE  Genuine(waiterHeap[w].cursor)'
  <2>1. waiterHeap[w].cursor \in Cursor BY DEF TypeOK, CaptureWaiter
  <2>2. Genuine(waiterHeap[w].cursor) BY DEF CursorInv, CursorsGenuine
  <2>. QED BY <1>3, <2>1, <2>2, CirculationKept DEF Genuine
<1>. QED BY <1>1, <1>2, <1>3 DEF SnapshotsSound

-----------------------------------------------------------------------------
(* One lemma per action: it keeps the types and the invariant.             *)

\* What both appends leave to prove: the indexes and the waiters.
LEMMA GrowsKeeps ==
  ASSUME TypeOK, CursorInv, NEW C, Grows(C), cursor' = cursor, call' = call,
         next' \in Seq(Capacities), Len(next') <= 1,
         allocation' \in Seq(Capacities), Len(allocation') <= 1,
         latest' \in [Keys -> FrameEvent \cup {None}],
         latestStates' \in [Buses -> Event \cup {None}],
         waiters' \in [Keys -> WaiterIds \cup {NoWaiter}],
         waiterHeap' \in [WaiterIds -> CaptureWaiter],
         \A w \in WaiterIds :
           \/ waiterHeap'[w].cursor = waiterHeap[w].cursor
           \/ waiterHeap'[w].cursor = [generation |-> generation, chunk |-> C.sequence,
                                       record |-> Len(C.records) - 1]
  PROVE  TypeOK' /\ CursorInv'
<1>1. generation' = generation /\ captureEpochs' = captureEpochs /\ pruneSeam' = pruneSeam
  BY DEF Grows
<1>2. TypeOK'
  <2>1. /\ heap' \in Seq(Chunk) /\ active' \in DOMAIN heap'
        /\ chunks' \in Seq(DOMAIN heap') /\ chunks' # <<>>
        /\ origin' \in Seq([generation : Nat, base : Nat]) /\ Len(origin') = Len(heap')
        /\ DOMAIN history' = DOMAIN history
        /\ \A g \in DOMAIN history : history'[g] \in Seq(Frames \cup Events)
    BY GrowsTyped
  <2>. QED BY <1>1, <2>1 DEF TypeOK
<1>3. GenerationsOwned' /\ ChunksNamed' /\ ChunksSound' BY GrowsKeepsNames
<1>4. RetainedInOrder' /\ DiscardedBehind' /\ SeamNamed' BY GrowsKeepsOrder
<1>5. HeapGrows /\ heap'[active'] = C BY GrowsHeap
<1>6. /\ captureEpochs' \in Nat /\ captureEpochs <= captureEpochs'
      /\ \A g \in DOMAIN history' : g \in DOMAIN history \/ g > captureEpochs
  <2>1. captureEpochs \in Nat BY DEF TypeOK
  <2>2. DOMAIN history' = DOMAIN history BY GrowsTyped
  <2>. QED BY <1>1, <2>1, <2>2
<1>7. /\ \A h \in Holders : Genuine(cursor[h])'
      /\ SnapshotsSound'
      /\ \A w \in WaiterIds : waiterHeap'[w].cursor = waiterHeap[w].cursor
                             => Genuine(waiterHeap[w].cursor)'
  BY <1>5, <1>6, HoldingKept
<1>8. ASSUME NEW w \in WaiterIds PROVE Genuine(waiterHeap[w].cursor)'
  <2>1. CASE waiterHeap'[w].cursor = waiterHeap[w].cursor BY <1>7, <2>1
  <2>2. CASE waiterHeap'[w].cursor = [generation |-> generation, chunk |-> C.sequence,
                                      record |-> Len(C.records) - 1]
    <3>1. active' \in DOMAIN heap' BY GrowsTyped
    <3>2. origin'[active'].generation = generation
      <4>1. Len(chunks') \in DOMAIN chunks'
        <5>1. chunks' \in Seq(DOMAIN heap') /\ chunks' # <<>> BY GrowsTyped
        <5>. QED BY <5>1, EmptySeq, LenProperties
      <4>. QED BY <1>1, <1>4, <4>1 DEF RetainedInOrder
    <3>3. Len(C.records) - 1 < Len(C.records)
      <4>1. heap' \in Seq(Chunk) BY GrowsTyped
      <4>2. Len(C.records) \in Nat BY <1>5, <3>1, <4>1, ChunkTyped
      <4>. QED BY <4>2
    <3>. QED BY <1>5, <2>2, <3>1, <3>2, <3>3 DEF Genuine
  <2>. QED BY <2>1, <2>2
<1>9. CursorsGenuine' BY <1>7, <1>8 DEF CursorsGenuine
<1>. QED BY <1>2, <1>3, <1>4, <1>7, <1>9 DEF CursorInv

\* appendFrame keeps the invariant: a rotation may happen, and waiters wake.
LEMMA AppendFrameKeeps ==
  ASSUME TypeOK, CursorInv, NEW frame \in Frames, AppendFrame(frame)
  PROVE  TypeOK' /\ CursorInv'
<1>. DEFINE r == Rotate(Len(frame.data))
            base == r.heap[r.active]
            C == PutFrame(base, frame)
            index == Len(C.records) - 1
            stored == FrameAt(heap', View(heap', r.active), index)
            at == [generation |-> generation, chunk |-> C.sequence, record |-> index]
<1>1. /\ Store(r, C, frame) /\ latest' = [latest EXCEPT ![frame.key] = stored]
      /\ WakeWaiters(frame.key, stored, at) /\ latestStates' = latestStates
  BY DEF AppendFrame
<1>2. frame \in FrameEvent /\ frame.key \in Keys /\ Len(frame.data) \in 0..MaxDataLength
  BY InputAssumption, FrameTyped
<1>3. Rotated(r, base) BY <1>2, RotateSound
<1>4. base \in Chunk /\ ChunkSound(base) BY <1>3 DEF Rotated
<1>. HIDE DEF r, base
<1>5. C \in Chunk /\ ChunkSound(C) /\ C.sequence = base.sequence
      /\ Len(C.records) = Len(base.records) + 1
  BY <1>2, <1>4, PutFrameSound
<1>. HIDE DEF C
<1>6. /\ Grows(C) /\ heap'[active'] = C
      /\ next' \in Seq(Capacities) /\ Len(next') <= 1
      /\ allocation' \in Seq(Capacities) /\ Len(allocation') <= 1
  BY <1>1, <1>3, <1>5, StoreGrows
<1>7. active' = r.active /\ cursor' = cursor /\ call' = call BY <1>1 DEF Store, holding
<1>8. stored = frame
  <2>1. heap'[active'] = PutFrame(base, frame) BY <1>6 DEF C
  <2>2. FrameAt(heap', View(heap', active'), Len(heap'[active'].records) - 1) = frame
    BY <1>2, <1>4, <2>1, FrameDecodes
  <2>. QED BY <1>6, <1>7, <2>2
<1>. HIDE DEF stored
<1>9. latest' \in [Keys -> FrameEvent \cup {None}] BY <1>1, <1>2, <1>8 DEF TypeOK
<1>10. at \in Cursor
  <2>1. base.records \in Seq(Record) /\ base.sequence \in Nat BY <1>4 DEF Chunk
  <2>2. C.sequence \in Nat /\ index \in Nat BY <1>5, <2>1
  <2>3. generation \in Nat BY DEF TypeOK
  <2>. QED BY <2>2, <2>3 DEF Cursor
<1>. HIDE DEF at
<1>11. /\ waiters' \in [Keys -> WaiterIds \cup {NoWaiter}]
       /\ waiterHeap' \in [WaiterIds -> CaptureWaiter]
       /\ \A w \in WaiterIds : \/ waiterHeap'[w].cursor = waiterHeap[w].cursor
                              \/ waiterHeap'[w].cursor = at
  <2>1. /\ waiters \in [Keys -> WaiterIds \cup {NoWaiter}]
        /\ waiterHeap \in [WaiterIds -> CaptureWaiter]
    BY DEF TypeOK
  <2>2. CASE waiters[frame.key] = NoWaiter
    BY <1>1, <2>1, <2>2 DEF WakeWaiters, waiting
  <2>3. CASE waiters[frame.key] # NoWaiter
    <3>. DEFINE v == waiters[frame.key]
                woken == [waiterHeap[v] EXCEPT !.ready = TRUE, !.event = stored, !.cursor = at]
    <3>1. /\ waiters' = [waiters EXCEPT ![frame.key] = NoWaiter]
          /\ waiterHeap' = [waiterHeap EXCEPT ![v] = woken]
      BY <1>1, <2>3 DEF WakeWaiters
    <3>2. v \in WaiterIds BY <1>2, <2>1, <2>3
    <3>3. woken \in CaptureWaiter
          /\ woken.cursor = at
      BY <1>2, <1>8, <1>10, <2>1, <3>2 DEF CaptureWaiter
    <3>. HIDE DEF v, woken
    <3>. QED BY <1>2, <2>1, <3>1, <3>2, <3>3
  <2>. QED BY <2>2, <2>3
<1>12. latestStates' \in [Buses -> Event \cup {None}] BY <1>1 DEF TypeOK
<1>. QED BY <1>6, <1>7, <1>9, <1>11, <1>12, GrowsKeeps DEF at

\* appendEvent keeps the invariant.
LEMMA AppendEventKeeps ==
  ASSUME TypeOK, CursorInv, NEW event \in Events, AppendEvent(event)
  PROVE  TypeOK' /\ CursorInv'
<1>. DEFINE r == Rotate(0)
            base == r.heap[r.active]
            C == PutEvent(base, event)
            stored == EventAt(heap', View(heap', r.active), Len(C.records) - 1)
<1>1. /\ Store(r, C, event) /\ latest' = latest /\ waiters' = waiters
      /\ waiterHeap' = waiterHeap
      /\ latestStates' = IF event.event = EventControllerState
                         THEN [latestStates EXCEPT ![event.bus] = stored] ELSE latestStates
  BY DEF AppendEvent, waiting
<1>2. event \in Event /\ event.bus \in Buses /\ 0 \in 0..MaxDataLength
  BY InputAssumption, LengthAssumption, EventTyped
<1>3. Rotated(r, base) BY <1>2, RotateSound
<1>4. base \in Chunk /\ ChunkSound(base) BY <1>3 DEF Rotated
<1>. HIDE DEF r, base
<1>5. C \in Chunk /\ ChunkSound(C) /\ C.sequence = base.sequence
      /\ Len(C.records) = Len(base.records) + 1
  BY <1>2, <1>4, PutEventSound
<1>. HIDE DEF C
<1>6. /\ Grows(C) /\ heap'[active'] = C
      /\ next' \in Seq(Capacities) /\ Len(next') <= 1
      /\ allocation' \in Seq(Capacities) /\ Len(allocation') <= 1
  BY <1>1, <1>3, <1>5, StoreGrows
<1>7. active' = r.active /\ cursor' = cursor /\ call' = call BY <1>1 DEF Store, holding
<1>8. stored = event
  <2>1. heap'[active'] = PutEvent(base, event) BY <1>6 DEF C
  <2>2. EventAt(heap', View(heap', active'), Len(heap'[active'].records) - 1) = event
    BY <1>2, <1>4, <2>1, EventDecodes
  <2>. QED BY <1>6, <1>7, <2>2
<1>. HIDE DEF stored
<1>9. latestStates' \in [Buses -> Event \cup {None}] BY <1>1, <1>2, <1>8 DEF TypeOK
<1>10. /\ latest' \in [Keys -> FrameEvent \cup {None}]
       /\ waiters' \in [Keys -> WaiterIds \cup {NoWaiter}]
       /\ waiterHeap' \in [WaiterIds -> CaptureWaiter]
  BY <1>1 DEF TypeOK
<1>. QED BY <1>1, <1>6, <1>7, <1>9, <1>10, GrowsKeeps

\* A step that leaves the storage alone keeps the storage's part of the invariant.
LEMMA StorageKept ==
  ASSUME TypeOK, CursorInv, captureEpochs' \in Nat, captureEpochs <= captureEpochs',
         UNCHANGED <<generation, chunks, active, heap, pruneSeam, origin, history>>
  PROVE  /\ GenerationsOwned' /\ ChunksNamed' /\ ChunksSound'
         /\ RetainedInOrder' /\ DiscardedBehind' /\ SeamNamed' /\ HeapGrows
<1>1. captureEpochs \in Nat /\ generation \in Nat /\ heap \in Seq(Chunk) BY DEF TypeOK
<1>2. GenerationsOwned'
  <2>1. DOMAIN history \subseteq 1..captureEpochs BY DEF TypeOK
  <2>2. \A g \in DOMAIN history : g <= captureEpochs' BY <1>1, <2>1
  <2>. QED BY <2>2 DEF CursorInv, GenerationsOwned
<1>3. ChunksNamed' BY DEF CursorInv, ChunksNamed
<1>4. ChunksSound' BY DEF CursorInv, ChunksSound, ChunkSound
<1>5. RetainedInOrder' BY DEF CursorInv, RetainedInOrder, EndBase
<1>6. DiscardedBehind' BY DEF CursorInv, DiscardedBehind, EndBase, Discarded
<1>7. SeamNamed' BY DEF CursorInv, SeamNamed
<1>8. HeapGrows BY <1>1, ChunkTyped DEF HeapGrows
<1>. QED BY <1>2, <1>3, <1>4, <1>5, <1>6, <1>7, <1>8

\* The allocating goroutine keeps the invariant.
LEMMA FinishAllocationKeeps ==
  ASSUME TypeOK, CursorInv, FinishAllocation
  PROVE  TypeOK' /\ CursorInv'
<1>1. UNCHANGED <<captureEpochs, generation, chunks, active, heap, length, pruneSeam, origin,
                  latest, latestStates, waiters, waiterHeap, cursor, call, history>>
  BY DEF FinishAllocation, indexes, waiting, holding
<1>2. captureEpochs \in Nat BY DEF TypeOK
<1>3. TypeOK'
  <2>1. /\ next' \in Seq(Capacities) /\ Len(next') <= 1
        /\ allocation' \in Seq(Capacities) /\ Len(allocation') <= 1
    BY DEF FinishAllocation, TypeOK
  <2>. QED BY <1>1, <2>1 DEF TypeOK
<1>4. /\ GenerationsOwned' /\ ChunksNamed' /\ ChunksSound'
      /\ RetainedInOrder' /\ DiscardedBehind' /\ SeamNamed' /\ HeapGrows
  BY <1>1, <1>2, StorageKept
<1>5. CursorsGenuine' BY <1>1 DEF CursorInv, CursorsGenuine, Genuine
<1>6. SnapshotsSound' BY <1>1 DEF CursorInv, SnapshotsSound, SnapshotSound
<1>. QED BY <1>3, <1>4, <1>5, <1>6 DEF CursorInv

\* Other captures of the process keep the invariant.
LEMMA OtherCaptureKeeps ==
  ASSUME TypeOK, CursorInv, OtherCapture
  PROVE  TypeOK' /\ CursorInv'
<1>1. /\ captureEpochs' = captureEpochs + 1
      /\ UNCHANGED <<generation, chunks, active, next, allocation, heap, length, pruneSeam, origin,
                     latest, latestStates, waiters, waiterHeap, cursor, call, history>>
  BY DEF OtherCapture, storage, indexes, waiting, holding
<1>2. captureEpochs \in Nat /\ captureEpochs' \in Nat /\ captureEpochs <= captureEpochs'
  BY <1>1 DEF TypeOK
<1>3. TypeOK'
  <2>1. DOMAIN history \subseteq 1..captureEpochs BY DEF TypeOK
  <2>2. DOMAIN history' \subseteq 1..captureEpochs' BY <1>1, <1>2, <2>1
  <2>. QED BY <1>1, <1>2, <2>2 DEF TypeOK
<1>4. /\ GenerationsOwned' /\ ChunksNamed' /\ ChunksSound'
      /\ RetainedInOrder' /\ DiscardedBehind' /\ SeamNamed' /\ HeapGrows
  BY <1>1, <1>2, StorageKept
<1>5. /\ \A h \in Holders : Genuine(cursor[h])'
      /\ SnapshotsSound'
      /\ \A w \in WaiterIds : waiterHeap'[w].cursor = waiterHeap[w].cursor
                             => Genuine(waiterHeap[w].cursor)'
  BY <1>1, <1>2, <1>4, HoldingKept
<1>6. CursorsGenuine' BY <1>1, <1>5 DEF CursorsGenuine
<1>. QED BY <1>3, <1>4, <1>5, <1>6 DEF CursorInv

\* Clear keeps the invariant: it opens a generation nobody has drawn.
LEMMA ClearKeeps ==
  ASSUME TypeOK, CursorInv, Clear
  PROVE  TypeOK' /\ CursorInv'
<1>. DEFINE room == IF next # <<>> THEN next[1]
                    ELSE [records |-> heap[active].recordCap, payload |-> heap[active].payloadCap]
            id == Len(heap) + 1
            epoch == captureEpochs + 1
            fresh == NewCaptureChunk(room.records, room.payload)
            o == [generation |-> epoch, base |-> 0]
<1>1. /\ captureEpochs' = epoch /\ generation' = epoch /\ heap' = Append(heap, fresh)
      /\ chunks' = <<id>> /\ active' = id /\ next' = <<>> /\ allocation' = PrepareNext(room)
      /\ latest' = [key \in Keys |-> None] /\ latestStates' = [bus \in Buses |-> None]
      /\ pruneSeam' = ZeroCursor /\ origin' = Append(origin, o)
      /\ history' = [g \in DOMAIN history \cup {epoch} |-> IF g = epoch THEN <<>> ELSE history[g]]
      /\ UNCHANGED <<waiters, waiterHeap, cursor, call>>
  BY DEF Clear, ClearIndexes, waiting, holding
<1>2. /\ heap \in Seq(Chunk) /\ active \in DOMAIN heap /\ captureEpochs \in Nat
      /\ next \in Seq(Capacities) /\ allocation \in Seq(Capacities) /\ Len(allocation) <= 1
      /\ origin \in Seq([generation : Nat, base : Nat]) /\ Len(origin) = Len(heap)
      /\ DOMAIN history \subseteq 1..captureEpochs
      /\ \A g \in DOMAIN history : history[g] \in Seq(Frames \cup Events)
  BY DEF TypeOK
<1>3. room \in Capacities
  <2>1. [records |-> heap[active].recordCap, payload |-> heap[active].payloadCap] \in Capacities
    BY ActiveSound DEF ChunkSound, Capacities
  <2>2. next # <<>> => next[1] \in Capacities BY <1>2
  <2>. QED BY <2>1, <2>2
<1>. HIDE DEF room
<1>4. fresh \in Chunk /\ ChunkSound(fresh) /\ fresh.sequence = 0 /\ fresh.records = <<>>
  BY <1>3, NewChunkSound
<1>. HIDE DEF fresh
<1>5. /\ heap' \in Seq(Chunk) /\ Len(heap') = Len(heap) + 1 /\ heap'[id] = fresh
      /\ \A i \in 1..Len(heap) : heap'[i] = heap[i]
  BY <1>1, <1>2, <1>4, AppendProperties
<1>6. /\ DOMAIN heap = 1..Len(heap) /\ Len(heap) \in Nat
      /\ \A i \in DOMAIN heap : Len(heap[i].records) \in Nat
  BY <1>2, ChunkTyped
<1>7. DOMAIN heap' = DOMAIN heap \cup {id} /\ id \notin DOMAIN heap /\ id \in DOMAIN heap'
  <2>1. DOMAIN heap' = 1..Len(heap') BY <1>5, ChunkTyped
  <2>. QED BY <1>5, <1>6, <2>1
<1>8. o \in [generation : Nat, base : Nat] /\ o.generation = epoch /\ o.base = 0 BY <1>2
<1>. HIDE DEF o
<1>9. /\ origin' \in Seq([generation : Nat, base : Nat]) /\ Len(origin') = Len(heap')
      /\ origin'[id] = o /\ \A i \in DOMAIN heap : origin'[i] = origin[i]
  <2>1. /\ origin' \in Seq([generation : Nat, base : Nat]) /\ Len(origin') = Len(origin) + 1
        /\ origin'[Len(origin) + 1] = o /\ \A i \in 1..Len(origin) : origin'[i] = origin[i]
    BY <1>1, <1>2, <1>8, AppendProperties
  <2>. QED BY <1>2, <1>5, <1>6, <2>1
<1>10. /\ epoch \in Nat /\ captureEpochs < epoch /\ epoch \notin DOMAIN history
       /\ \A g \in DOMAIN history : 1 <= g /\ g <= epoch /\ g # epoch
  BY <1>2
<1>. HIDE DEF epoch, id
<1>11. TypeOK'
  <2>1. allocation' \in Seq(Capacities) /\ Len(allocation') <= 1
    BY <1>1, <1>2, <1>3 DEF PrepareNext
  <2>2. latest' \in [Keys -> FrameEvent \cup {None}] /\ latestStates' \in [Buses -> Event \cup {None}]
    BY <1>1
  <2>3. DOMAIN history' = DOMAIN history \cup {epoch} BY <1>1
  <2>4. DOMAIN history' \subseteq 1..captureEpochs'
    BY <1>1, <1>2, <1>10, <2>3
  <2>5. \A g \in DOMAIN history' : history'[g] \in Seq(Frames \cup Events)
    BY <1>1, <1>2, <2>3
  <2>6. pruneSeam' \in Cursor BY <1>1 DEF ZeroCursor, Cursor
  <2>7. chunks' \in Seq(DOMAIN heap') /\ chunks' # <<>> /\ active' \in DOMAIN heap' BY <1>1, <1>7
  <2>8. next' \in Seq(Capacities) /\ Len(next') <= 1 BY <1>1
  <2>. QED BY <1>1, <1>5, <1>9, <1>10, <2>1, <2>2, <2>4, <2>5, <2>6, <2>7, <2>8 DEF TypeOK
<1>12. HeapGrows
  BY <1>5, <1>6, <1>7, <1>9 DEF HeapGrows
<1>13. \A i \in DOMAIN heap : origin'[i].generation \in DOMAIN history
  BY <1>9 DEF CursorInv, GenerationsOwned
<1>14. GenerationsOwned'
  <2>1. DOMAIN history' = DOMAIN history \cup {epoch} /\ 1 <= epoch /\ epoch <= epoch
    BY <1>1, <1>2, <1>10
  <2>2. ASSUME NEW g \in DOMAIN history' PROVE 1 <= g /\ g <= epoch BY <1>10, <2>1
  <2>3. ASSUME NEW i \in DOMAIN heap' PROVE origin'[i].generation \in DOMAIN history'
    BY <1>7, <1>8, <1>9, <1>13, <2>1
  <2>. QED BY <1>1, <2>1, <2>2, <2>3 DEF GenerationsOwned
<1>15. ChunksNamed'
  <2>1. ASSUME NEW i \in DOMAIN heap', NEW j \in DOMAIN heap',
               origin'[i].generation = origin'[j].generation,
               heap'[i].sequence = heap'[j].sequence
        PROVE  i = j
    <3>1. CASE i \in DOMAIN heap /\ j \in DOMAIN heap
      BY <1>5, <1>6, <1>9, <2>1, <3>1 DEF CursorInv, ChunksNamed
    <3>2. CASE i = id /\ j \in DOMAIN heap BY <1>8, <1>9, <1>10, <1>13, <2>1, <3>2
    <3>3. CASE j = id /\ i \in DOMAIN heap BY <1>8, <1>9, <1>10, <1>13, <2>1, <3>3
    <3>. QED BY <1>7, <3>1, <3>2, <3>3
  <2>. QED BY <2>1 DEF ChunksNamed
<1>16. ChunksSound'
  <2>1. ASSUME NEW i \in DOMAIN heap' PROVE ChunkSound(heap'[i])
    BY <1>4, <1>5, <1>6, <1>7 DEF CursorInv, ChunksSound
  <2>. QED BY <2>1 DEF ChunksSound, ChunkSound
<1>17. /\ Len(chunks') = 1 /\ chunks'[1] = id /\ DOMAIN chunks' = {1} BY <1>1
<1>18. origin'[id].base + Len(heap'[id].records) = 0 BY <1>4, <1>5, <1>8, <1>9
<1>19. RetainedInOrder'
  <2>1. history'[generation'] = <<>> BY <1>1
  <2>2. heap'[id].sequence = 0 BY <1>4, <1>5
  <2>3. ASSUME NEW i \in DOMAIN chunks'
        PROVE  /\ origin'[chunks'[i]].generation = generation'
               /\ heap'[chunks'[i]].sequence = heap'[chunks'[1]].sequence + i - 1
               /\ ~(i < Len(chunks'))
               /\ \A j \in DOMAIN chunks' : ~(i < j)
    <3>1. i = 1 /\ chunks'[i] = id BY <1>17
    <3>2. ~(i < Len(chunks')) /\ \A j \in DOMAIN chunks' : ~(i < j) BY <1>17, <3>1
    <3>3. heap'[chunks'[i]].sequence = heap'[chunks'[1]].sequence + i - 1
      BY <1>17, <2>2, <3>1
    <3>. QED BY <1>1, <1>8, <1>9, <3>1, <3>2, <3>3
  <2>4. active' = chunks'[Len(chunks')] BY <1>1, <1>17
  <2>5. origin'[active'].base + Len(heap'[active'].records) = Len(history'[generation'])
    BY <1>1, <1>18, <2>1
  <2>. QED BY <2>3, <2>4, <2>5, Zenon DEF RetainedInOrder, EndBase
<1>20. DiscardedBehind'
  <2>1. ASSUME NEW i \in DOMAIN heap', origin'[i].generation = generation' PROVE i = chunks'[1]
    BY <1>1, <1>7, <1>10, <1>13, <1>17, <2>1
  <2>. QED BY <1>17, <2>1 DEF DiscardedBehind
<1>21. SeamNamed' BY <1>1, <1>4, <1>5, <1>17 DEF SeamNamed
<1>22. /\ captureEpochs' \in Nat /\ captureEpochs <= captureEpochs'
       /\ \A g \in DOMAIN history' : g \in DOMAIN history \/ g > captureEpochs
  BY <1>1, <1>2, <1>10
<1>23. /\ \A h \in Holders : Genuine(cursor[h])'
       /\ SnapshotsSound'
       /\ \A w \in WaiterIds : waiterHeap'[w].cursor = waiterHeap[w].cursor
                              => Genuine(waiterHeap[w].cursor)'
  BY <1>1, <1>12, <1>22, HoldingKept
<1>24. CursorsGenuine' BY <1>1, <1>23 DEF CursorsGenuine
<1>. QED BY <1>11, <1>14, <1>15, <1>16, <1>19, <1>20, <1>21, <1>23, <1>24 DEF CursorInv


-----------------------------------------------------------------------------
(* Cursors.                                                                *)

\* The newest record of some views is the last record of the last filled one.
LEMMA NewestCursorIs ==
  ASSUME NEW c, NEW g, NEW views, NEW n \in Nat, DOMAIN views = 1..n,
         \A i \in 1..n : views[i].records \in Nat
  PROVE  \/ /\ NewestCursor(c, g, views) = c
            /\ \A i \in 1..n : views[i].records = 0
         \/ \E last \in 1..n :
              /\ views[last].records > 0
              /\ \A i \in 1..n : views[i].records > 0 => i <= last
              /\ NewestCursor(c, g, views) = [generation |-> g, chunk |-> views[last].sequence,
                                              record |-> views[last].records - 1]
<1>. DEFINE filled == { i \in DOMAIN views : views[i].records > 0 }
            last == CHOOSE i \in filled : \A j \in filled : j <= i
<1>1. CASE filled = {}
  <2>1. NewestCursor(c, g, views) = c BY <1>1 DEF NewestCursor
  <2>2. \A i \in 1..n : ~(views[i].records > 0) BY <1>1
  <2>. QED BY <2>1, <2>2
<1>2. CASE filled # {}
  <2>1. filled \in SUBSET (1..n) OBVIOUS
  <2>2. \E i \in filled : \A j \in filled : j <= i BY <1>2, <2>1, GreatestNatural
  <2>3. last \in filled /\ \A j \in filled : j <= last
    <3>. HIDE DEF filled
    <3>. QED BY <2>2
  <2>4. NewestCursor(c, g, views) = [generation |-> g, chunk |-> views[last].sequence,
                                     record |-> views[last].records - 1]
    BY <1>2 DEF NewestCursor
  <2>. HIDE DEF last
  <2>. QED BY <2>3, <2>4
<1>. QED BY <1>1, <1>2

\* Where locateCursor puts a cursor, and when it refuses.
LEMMA LocateIs ==
  ASSUME NEW store, NEW c \in Cursor, NEW g, NEW ids, NEW seam,
         store[ids[1]].sequence \in Nat, Len(ids) \in Nat \ {0}
  PROVE  LET at == LocateCursor(store, c, g, ids, seam)
             index == c.chunk - store[ids[1]].sequence
         IN /\ at.chunk \in 0..(Len(ids) - 1) /\ at.boundary \in Int /\ at.boundary >= -1
            /\ at.ok <=> \/ c = ZeroCursor
                         \/ c.generation = g /\ index >= 0 /\ index < Len(ids)
                         \/ c.generation = g /\ c = seam
            /\ at.ok \in BOOLEAN
            /\ at.ok => \/ c # ZeroCursor /\ c.generation = g /\ at.chunk = index /\ at.boundary = c.record
                        \/ at.chunk = 0 /\ at.boundary = -1
<1>1. c.chunk \in Nat /\ c.record \in Nat BY DEF Cursor
<1>. QED BY <1>1 DEF LocateCursor

\* locateCursor returns an index into the retained chunks and a boundary.
LEMMA LocateTyped ==
  ASSUME TypeOK, CursorInv, NEW h \in Holders
  PROVE  /\ Locate(cursor[h]).chunk \in 0..(Len(chunks) - 1)
         /\ Locate(cursor[h]).boundary \in Int /\ Locate(cursor[h]).boundary >= -1
<1>1. cursor[h] \in Cursor BY DEF TypeOK
<1>2. heap[chunks[1]].sequence \in Nat /\ Len(chunks) \in Nat \ {0} BY SequencesTyped
<1>. QED BY <1>1, <1>2, LocateIs DEF Locate

\* A set of placed cursors has an earliest one.
LEMMA EarliestIs ==
  ASSUME NEW placed, placed # {},
         \A p \in placed : p.chunk \in Nat /\ p.boundary \in Int /\ p.boundary >= -1
  PROVE  /\ Earliest(placed) \in placed
         /\ \A q \in placed : \/ Earliest(placed).chunk < q.chunk
                              \/ /\ Earliest(placed).chunk = q.chunk
                                 /\ Earliest(placed).boundary <= q.boundary
<1>. DEFINE C == { p.chunk : p \in placed }
<1>1. C \in SUBSET Nat /\ C # {} OBVIOUS
<1>2. PICK m \in C : \A k \in C : m <= k
  <2>. HIDE DEF C
  <2>. QED BY <1>1, LeastNatural
<1>. DEFINE B == { p.boundary + 1 : p \in { q \in placed : q.chunk = m } }
<1>3. B \in SUBSET Nat /\ B # {} BY <1>2
<1>4. PICK b \in B : \A k \in B : b <= k
  <2>. HIDE DEF B
  <2>. QED BY <1>3, LeastNatural
<1>5. PICK p \in placed : p.chunk = m /\ b = p.boundary + 1 BY <1>4
<1>6. ASSUME NEW q \in placed
      PROVE  p.chunk < q.chunk \/ (p.chunk = q.chunk /\ p.boundary <= q.boundary)
  <2>1. m <= q.chunk /\ m \in Nat BY <1>2
  <2>2. CASE q.chunk = m
    <3>1. q.boundary + 1 \in B BY <2>2
    <3>2. p.boundary + 1 <= q.boundary + 1 BY <1>4, <1>5, <3>1
    <3>. QED BY <1>5, <2>2, <3>2
  <2>. QED BY <1>5, <2>1, <2>2
<1>7. \E r \in placed : \A q \in placed :
        r.chunk < q.chunk \/ (r.chunk = q.chunk /\ r.boundary <= q.boundary)
  BY <1>6
<1>. QED BY <1>7, Zenon DEF Earliest

-----------------------------------------------------------------------------
(* Prune.                                                                  *)

\* Prune keeps at least the active chunk.
LEMMA DiscardableIs ==
  ASSUME TypeOK, CursorInv, NEW S \in SUBSET Holders, S # {}
  PROVE  Discardable(S) \in 0..(Len(chunks) - 1)
<1>. DEFINE placed == { Locate(cursor[h]) : h \in S }
            least == Earliest(placed)
<1>1. \A p \in placed : /\ p.chunk \in 0..(Len(chunks) - 1)
                        /\ p.boundary \in Int /\ p.boundary >= -1
  BY LocateTyped
<1>2. placed # {} /\ Len(chunks) \in Nat BY SequencesTyped
<1>3. least.chunk \in 0..(Len(chunks) - 1)
  <2>. HIDE DEF placed
  <2>1. \A p \in placed : p.chunk \in Nat /\ p.boundary \in Int /\ p.boundary >= -1
    BY <1>1, <1>2
  <2>2. least \in placed BY <1>2, <2>1, EarliestIs
  <2>. QED BY <1>1, <2>2
<1>4. Discardable(S) = IF /\ least.chunk < Len(chunks) - 1
                          /\ least.boundary = Len(heap[chunks[least.chunk + 1]].records) - 1
                       THEN least.chunk + 1 ELSE least.chunk
  BY DEF Discardable
<1>. HIDE DEF least
<1>. QED BY <1>2, <1>3, <1>4

\* The first d chunks discarded: the list and the seam that remain.
LEMMA PruneIs ==
  ASSUME TypeOK, CursorInv, NEW S \in SUBSET Holders, S # {}, Prune(S)
  PROVE  \E d \in 1..(Len(chunks) - 1) :
           /\ d = Discardable(S)
           /\ chunks' \in Seq(DOMAIN heap) /\ Len(chunks') = Len(chunks) - d
           /\ \A i \in 1..(Len(chunks) - d) : chunks'[i] = chunks[d + i]
           /\ pruneSeam' = [generation |-> generation, chunk |-> heap[chunks[d]].sequence,
                            record |-> Len(heap[chunks[d]].records) - 1]
           /\ Len(heap[chunks[d]].records) \in Nat \ {0}
<1>. DEFINE n == Len(chunks)
            d == Discardable(S)
            kept == SubSeq(chunks, 1, d)
            discarded == ViewsOf(heap, kept)
<1>1. n \in Nat /\ n > 0 BY SequencesTyped
<1>2. d \in 1..(n - 1)
  <2>1. d \in 0..(n - 1) BY DiscardableIs
  <2>2. d > 0 BY DEF Prune
  <2>. HIDE DEF d, n
  <2>. QED BY <1>1, <2>1, <2>2
<1>3. pruneSeam' = NewestCursor(pruneSeam, generation, discarded)
      /\ chunks' = SubSeq(chunks, d + 1, n)
  BY DEF Prune, SeamAfter
<1>. HIDE DEF d
<1>4. \A i \in 1..n : chunks[i] \in DOMAIN heap BY OriginTyped
<1>5. /\ chunks' \in Seq(DOMAIN heap) /\ Len(chunks') = n - d
      /\ \A i \in 1..(n - d) : chunks'[i] = chunks[d + i]
  <2>1. \A i \in (d + 1)..n : chunks[i] \in DOMAIN heap BY <1>1, <1>2, <1>4
  <2>2. d + 1 \in Int /\ n \in Int /\ d + 1 <= n /\ n - (d + 1) + 1 = n - d BY <1>1, <1>2
  <2>3. /\ SubSeq(chunks, d + 1, n) \in Seq(DOMAIN heap)
        /\ Len(SubSeq(chunks, d + 1, n)) = n - d
        /\ \A i \in 1..(n - d) : SubSeq(chunks, d + 1, n)[i] = chunks[d + 1 + i - 1]
    <3>. HIDE DEF n
    <3>. QED BY <2>1, <2>2, SubSeqProperties
  <2>4. \A i \in 1..(n - d) : d + 1 + i - 1 = d + i BY <1>1, <1>2
  <2>. HIDE DEF n
  <2>. QED BY <1>3, <2>3, <2>4
<1>6. /\ kept \in Seq(DOMAIN heap) /\ Len(kept) = d /\ \A i \in 1..d : kept[i] = chunks[i]
  <2>1. \A i \in 1..d : chunks[i] \in DOMAIN heap BY <1>1, <1>2, <1>4
  <2>2. d \in Int /\ 1 <= d /\ d - 1 + 1 = d BY <1>1, <1>2
  <2>3. /\ SubSeq(chunks, 1, d) \in Seq(DOMAIN heap) /\ Len(SubSeq(chunks, 1, d)) = d
        /\ \A i \in 1..d : SubSeq(chunks, 1, d)[i] = chunks[1 + i - 1]
    BY <2>1, <2>2, SubSeqProperties
  <2>4. \A i \in 1..d : 1 + i - 1 = i BY <2>2
  <2>. QED BY <2>3, <2>4
<1>. HIDE DEF kept
<1>7. /\ DOMAIN discarded = 1..d
      /\ \A i \in 1..d : /\ discarded[i].records = Len(heap[chunks[i]].records)
                         /\ discarded[i].sequence = heap[chunks[i]].sequence
  BY <1>6 DEF ViewsOf, View
<1>8. \A i \in 1..d : Len(heap[chunks[i]].records) \in Nat \ {0}
  <2>1. ASSUME NEW i \in 1..d PROVE Len(heap[chunks[i]].records) \in Nat \ {0}
    <3>1. i \in 1..n /\ i < n BY <1>1, <1>2
    <3>2. heap[chunks[i]].records # <<>> BY <3>1, OrderFacts
    <3>3. heap \in Seq(Chunk) BY DEF TypeOK
    <3>4. heap[chunks[i]].records \in Seq(Record) BY <1>4, <3>1, <3>3, ChunkTyped
    <3>. QED BY <3>2, <3>4, EmptySeq
  <2>. QED BY <2>1
<1>9. d \in 1..d /\ d \in Nat BY <1>2
<1>. HIDE DEF discarded
<1>10. pruneSeam' = [generation |-> generation, chunk |-> discarded[d].sequence,
                     record |-> discarded[d].records - 1]
  <2>1. \A i \in 1..d : discarded[i].records \in Nat /\ discarded[i].records > 0 BY <1>7, <1>8
  <2>4. DOMAIN discarded = 1..d /\ \A i \in 1..d : discarded[i].records \in Nat BY <1>7, <2>1
  <2>5. \/ \A i \in 1..d : discarded[i].records = 0
        \/ \E last \in 1..d :
             /\ \A i \in 1..d : discarded[i].records > 0 => i <= last
             /\ NewestCursor(pruneSeam, generation, discarded) =
                  [generation |-> generation, chunk |-> discarded[last].sequence,
                   record |-> discarded[last].records - 1]
    BY <1>9, <2>4, NewestCursorIs, ZenonT(30)
  <2>2. PICK last \in 1..d :
          /\ \A i \in 1..d : discarded[i].records > 0 => i <= last
          /\ pruneSeam' = [generation |-> generation, chunk |-> discarded[last].sequence,
                           record |-> discarded[last].records - 1]
    BY <1>3, <1>9, <2>1, <2>5
  <2>3. last = d BY <1>9, <2>1, <2>2
  <2>. QED BY <2>2, <2>3
<1>11. d = Discardable(S) BY DEF d
<1>. QED BY <1>2, <1>5, <1>7, <1>8, <1>9, <1>10, <1>11

\* Prune keeps the invariant: the seam moves to the last discarded record.
LEMMA PruneKeeps ==
  ASSUME TypeOK, CursorInv, NEW S \in SUBSET Holders, S # {}, Prune(S)
  PROVE  TypeOK' /\ CursorInv'
<1>. DEFINE n == Len(chunks)
<1>1. UNCHANGED <<captureEpochs, generation, active, next, allocation, heap, origin, latest,
                  latestStates, waiters, waiterHeap, cursor, call, history>>
  BY DEF Prune, indexes, waiting, holding
<1>2. PICK d \in 1..(n - 1) :
        /\ chunks' \in Seq(DOMAIN heap) /\ Len(chunks') = n - d
        /\ \A i \in 1..(n - d) : chunks'[i] = chunks[d + i]
        /\ pruneSeam' = [generation |-> generation, chunk |-> heap[chunks[d]].sequence,
                         record |-> Len(heap[chunks[d]].records) - 1]
        /\ Len(heap[chunks[d]].records) \in Nat \ {0}
  BY PruneIs
<1>3. /\ n \in Nat /\ DOMAIN chunks = 1..n /\ DOMAIN chunks' = 1..(n - d)
      /\ d \in 1..n /\ d + 1 \in 1..n /\ d < n /\ 1 \in 1..(n - d) /\ 1 \in 1..n
  <2>1. n \in Nat /\ DOMAIN chunks = 1..n BY OriginTyped
  <2>2. DOMAIN chunks' = 1..(n - d) BY <1>2, LenProperties
  <2>. HIDE DEF n
  <2>. QED BY <2>1, <2>2
<1>4. \A i \in 1..(n - d) : d + i \in 1..n /\ i \in 1..n BY <1>3
<1>5. \A i \in 1..n : chunks[i] \in DOMAIN heap BY OriginTyped
<1>6. /\ \A id \in DOMAIN heap : heap[id].sequence \in Nat /\ Len(heap[id].records) \in Nat
      /\ \A id \in DOMAIN heap : origin[id].base \in Nat /\ EndBase(id) \in Nat
  <2>1. heap \in Seq(Chunk) BY DEF TypeOK
  <2>. QED BY <2>1, ChunkTyped, OriginTyped, OrderFacts
<1>7. chunks'[1] = chunks[d + 1] BY <1>2, <1>3
<1>8. TypeOK'
  <2>1. chunks' # <<>>
    <3>1. Len(chunks') \in Nat \ {0} BY <1>2, <1>3
    <3>. QED BY <3>1
  <2>2. pruneSeam' \in Cursor
    <3>1. generation \in Nat BY DEF TypeOK
    <3>2. heap[chunks[d]].sequence \in Nat BY <1>3, <1>5, <1>6
    <3>3. Len(heap[chunks[d]].records) - 1 \in Nat BY <1>2
    <3>. QED BY <1>2, <3>1, <3>2, <3>3 DEF Cursor
  <2>. QED BY <1>1, <1>2, <2>1, <2>2 DEF TypeOK
<1>9. GenerationsOwned' /\ ChunksNamed' /\ ChunksSound'
  BY <1>1 DEF CursorInv, GenerationsOwned, ChunksNamed, ChunksSound, ChunkSound
<1>10. CursorsGenuine' /\ SnapshotsSound'
  BY <1>1 DEF CursorInv, CursorsGenuine, Genuine, SnapshotsSound, SnapshotSound
<1>11. RetainedInOrder'
  <2>1. active' = chunks'[Len(chunks')]
    <3>1. n - d \in 1..(n - d) /\ d + (n - d) = n BY <1>3
    <3>. QED BY <1>1, <1>2, <3>1, OrderFacts
  <2>2. origin'[active'].base + Len(heap'[active'].records) = Len(history'[generation'])
    BY <1>1, OrderFacts DEF EndBase
  <2>3. ASSUME NEW i \in DOMAIN chunks'
        PROVE  /\ origin'[chunks'[i]].generation = generation'
               /\ heap'[chunks'[i]].sequence = heap'[chunks'[1]].sequence + i - 1
               /\ i < Len(chunks') => heap'[chunks'[i]].records # <<>>
               /\ i < Len(chunks') =>
                    origin'[chunks'[i + 1]].base = origin'[chunks'[i]].base + Len(heap'[chunks'[i]].records)
               /\ \A j \in DOMAIN chunks' : i < j =>
                    origin'[chunks'[i]].base + Len(heap'[chunks'[i]].records) <= origin'[chunks'[j]].base
    <3>1. i \in 1..(n - d) /\ d + i \in 1..n BY <1>3, <1>4
    <3>2. chunks'[i] = chunks[d + i] BY <1>2, <3>1
    <3>3. /\ heap[chunks[d + i]].sequence = heap[chunks[1]].sequence + (d + i) - 1
          /\ heap[chunks[d + 1]].sequence = heap[chunks[1]].sequence + (d + 1) - 1
          /\ heap[chunks[1]].sequence \in Nat
      BY <1>3, <1>5, <1>6, <3>1, OrderFacts
    <3>4. heap[chunks[d + i]].sequence = heap[chunks[d + 1]].sequence + i - 1
      <4>1. PICK a, b, c : /\ a = heap[chunks[d + i]].sequence
                           /\ b = heap[chunks[d + 1]].sequence /\ c = heap[chunks[1]].sequence
        OBVIOUS
      <4>2. d \in Int /\ i \in Int BY <1>3, <3>1
      <4>3. a = c + (d + i) - 1 /\ b = c + (d + 1) - 1 /\ c \in Nat BY <3>3, <4>1
      <4>4. a = b + i - 1 BY ONLY <4>2, <4>3
      <4>. QED BY <4>1, <4>4
    <3>5. ASSUME i < Len(chunks')
          PROVE  /\ heap[chunks[d + i]].records # <<>> /\ chunks'[i + 1] = chunks[d + i + 1]
                 /\ origin[chunks[d + i + 1]].base = EndBase(chunks[d + i])
      <4>1. d + i < n /\ i + 1 \in 1..(n - d) /\ d + (i + 1) = d + i + 1
        <5>. HIDE DEF n
        <5>. QED BY <1>2, <1>3, <3>1, <3>5
      <4>2. chunks'[i + 1] = chunks[d + i + 1] BY <1>2, <4>1
      <4>. QED BY <3>1, <4>1, <4>2, OrderFacts
    <3>6. ASSUME NEW j \in DOMAIN chunks', i < j
          PROVE  chunks'[j] = chunks[d + j] /\ EndBase(chunks[d + i]) <= origin[chunks[d + j]].base
      <4>1. j \in 1..(n - d) /\ d + j \in 1..n BY <1>3, <1>4
      <4>2. d + i < d + j BY <1>3, <3>1, <3>6, <4>1
      <4>. QED BY <1>2, <3>1, <4>1, <4>2, OrderFacts
    <3>7. origin[chunks[d + i]].generation = generation BY <3>1, OrderFacts
    <3>. HIDE DEF n
    <3>. QED BY <1>1, <1>7, <3>2, <3>4, <3>5, <3>6, <3>7 DEF EndBase
  <2>. QED BY <2>1, <2>2, <2>3, Zenon DEF RetainedInOrder, EndBase
\* The chunks that were discarded, now or before, end before the first kept one.
<1>12. /\ EndBase(chunks[d]) = origin[chunks[d + 1]].base
       /\ origin[chunks[d]].base < EndBase(chunks[d])
       /\ heap[chunks[d]].sequence + 1 = heap[chunks[d + 1]].sequence
       /\ heap[chunks[d + 1]].sequence = heap[chunks[1]].sequence + d
  <2>1. /\ heap[chunks[d]].sequence = heap[chunks[1]].sequence + d - 1
        /\ heap[chunks[d + 1]].sequence = heap[chunks[1]].sequence + (d + 1) - 1
        /\ heap[chunks[1]].sequence \in Nat
    BY <1>3, <1>5, <1>6, OrderFacts
  <2>2. EndBase(chunks[d]) = origin[chunks[d + 1]].base BY <1>3, OrderFacts
  <2>3. origin[chunks[d]].base < EndBase(chunks[d])
    <3>1. origin[chunks[d]].base \in Nat /\ Len(heap[chunks[d]].records) \in Nat \ {0}
      BY <1>2, <1>3, <1>5, <1>6
    <3>. QED BY <3>1 DEF EndBase
  <2>4. d \in Nat BY <1>3
  <2>. HIDE DEF n
  <2>. QED BY <2>1, <2>2, <2>3, <2>4
<1>13. Discarded' = origin[chunks[d + 1]].base BY <1>1, <1>7 DEF Discarded
<1>14. DiscardedBehind'
  <2>1. ASSUME NEW id \in DOMAIN heap, origin[id].generation = generation
        PROVE  \/ \E i \in DOMAIN chunks' : id = chunks'[i]
               \/ heap[id].sequence + 1 = heap[chunks[d + 1]].sequence
                  /\ EndBase(id) = origin[chunks[d + 1]].base
               \/ heap[id].sequence + 1 < heap[chunks[d + 1]].sequence
                  /\ EndBase(id) < origin[chunks[d + 1]].base
    <3>1. CASE \E i \in DOMAIN chunks : id = chunks[i]
      <4>1. PICK i \in 1..n : id = chunks[i] BY <1>3, <3>1
      <4>2. CASE i = d BY <1>12, <4>1, <4>2
      <4>3. CASE i > d
        <5>1. i - d \in 1..(n - d) /\ d + (i - d) = i BY <1>3, <4>3
        <5>2. chunks'[i - d] = chunks[i] BY <1>2, <5>1
        <5>. QED BY <1>3, <4>1, <5>1, <5>2
      <4>4. CASE i < d
        <5>1. EndBase(chunks[i]) <= origin[chunks[d]].base BY <1>3, <4>4, OrderFacts
        <5>2. EndBase(id) < origin[chunks[d + 1]].base
          BY <1>3, <1>5, <1>6, <1>12, <4>1, <5>1
        <5>3. heap[id].sequence = heap[chunks[1]].sequence + i - 1
              /\ heap[chunks[1]].sequence \in Nat
          BY <1>3, <1>5, <1>6, <4>1, OrderFacts
        <5>4. heap[id].sequence + 1 < heap[chunks[d + 1]].sequence
          <6>. HIDE DEF n
          <6>. QED BY <1>3, <1>12, <4>4, <5>3
        <5>. QED BY <5>2, <5>4
      <4>. QED BY <1>3, <4>2, <4>3, <4>4
    <3>2. CASE heap[id].sequence + 1 <= heap[chunks[1]].sequence /\ EndBase(id) <= Discarded
      <4>1. /\ heap[id].sequence \in Nat /\ heap[chunks[1]].sequence \in Nat /\ d \in Nat /\ d > 0
            /\ EndBase(id) \in Nat
        BY <1>3, <1>5, <1>6
      <4>2. heap[id].sequence + 1 < heap[chunks[d + 1]].sequence
        <5>. HIDE DEF n
        <5>. QED BY <1>12, <3>2, <4>1
      <4>3. origin[chunks[1]].base <= origin[chunks[d]].base
        <5>1. CASE d = 1 BY <1>3, <1>5, <1>6, <5>1
        <5>2. CASE d > 1
          <6>1. EndBase(chunks[1]) <= origin[chunks[d]].base BY <1>3, <5>2, OrderFacts
          <6>2. origin[chunks[1]].base <= EndBase(chunks[1]) BY <1>3, <1>5, OrderFacts
          <6>. QED BY <1>3, <1>5, <1>6, <6>1, <6>2
        <5>. QED BY <4>1, <5>1, <5>2
      <4>4. EndBase(id) < origin[chunks[d + 1]].base
        <5>1. /\ origin[chunks[1]].base \in Nat /\ origin[chunks[d]].base \in Nat
              /\ EndBase(chunks[d]) \in Nat
          BY <1>3, <1>5, <1>6
        <5>2. EndBase(id) <= origin[chunks[1]].base BY <3>2 DEF Discarded
        <5>3. EndBase(id) < EndBase(chunks[d]) BY <1>12, <4>1, <4>3, <5>1, <5>2
        <5>. QED BY <1>12, <5>3
      <4>. QED BY <4>2, <4>4
    <3>3. \/ \E i \in DOMAIN chunks : id = chunks[i]
          \/ heap[id].sequence + 1 = heap[chunks[1]].sequence /\ EndBase(id) = Discarded
          \/ heap[id].sequence + 1 < heap[chunks[1]].sequence /\ EndBase(id) < Discarded
      BY <2>1, Zenon DEF CursorInv, DiscardedBehind
    <3>4. /\ heap[id].sequence \in Nat /\ heap[chunks[1]].sequence \in Nat
          /\ EndBase(id) \in Nat /\ Discarded \in Nat
      BY <1>3, <1>5, <1>6 DEF Discarded
    <3>5. \/ \E i \in DOMAIN chunks : id = chunks[i]
          \/ heap[id].sequence + 1 <= heap[chunks[1]].sequence /\ EndBase(id) <= Discarded
      BY <3>3, <3>4
    <3>. QED BY <3>1, <3>2, <3>5
  <2>. QED BY <1>1, <1>7, <1>13, <2>1 DEF DiscardedBehind, EndBase
<1>15. SeamNamed'
  <2>1. heap'[chunks'[1]].sequence # 0
    BY <1>1, <1>3, <1>5, <1>6, <1>7, <1>12
  <2>2. origin[chunks[d]].generation = generation /\ chunks[d] \in DOMAIN heap
    BY <1>3, <1>5, OrderFacts
  <2>. QED BY <1>1, <1>2, <1>7, <1>12, <2>1, <2>2 DEF SeamNamed
<1>. QED BY <1>8, <1>9, <1>10, <1>11, <1>14, <1>15 DEF CursorInv

-----------------------------------------------------------------------------
(* Views and the cursors they yield.                                       *)

\* A view that shows records of generation g and no more than there are.
ViewSound(view, g) ==
  /\ view.records \in Nat /\ view.sequence \in Nat
  /\ \E id \in DOMAIN heap : /\ origin[id].generation = g
                             /\ heap[id].sequence = view.sequence
                             /\ view.records <= Len(heap[id].records)

\* A record that a sound view shows has a genuine cursor.
LEMMA ViewRecordGenuine ==
  ASSUME TypeOK, NEW g \in Nat, NEW view, ViewSound(view, g), NEW n \in Nat, n < view.records
  PROVE  /\ [generation |-> g, chunk |-> view.sequence, record |-> n] \in Cursor
         /\ Genuine([generation |-> g, chunk |-> view.sequence, record |-> n])
<1>1. view.records \in Nat /\ view.sequence \in Nat BY DEF ViewSound
<1>2. PICK id \in DOMAIN heap : /\ origin[id].generation = g
                               /\ heap[id].sequence = view.sequence
                               /\ view.records <= Len(heap[id].records)
  BY DEF ViewSound
<1>3. heap \in Seq(Chunk) BY DEF TypeOK
<1>4. Len(heap[id].records) \in Nat BY <1>3, ChunkTyped
<1>5. n < Len(heap[id].records) BY <1>1, <1>2, <1>4
<1>. QED BY <1>1, <1>2, <1>5 DEF Cursor, Genuine

\* The newest cursor of sound views is genuine when the default is.
LEMMA NewestGenuine ==
  ASSUME TypeOK, NEW g \in Nat, NEW c \in Cursor, Genuine(c),
         NEW views, NEW n \in Nat, DOMAIN views = 1..n,
         \A i \in 1..n : ViewSound(views[i], g)
  PROVE  NewestCursor(c, g, views) \in Cursor /\ Genuine(NewestCursor(c, g, views))
<1>1. \A i \in 1..n : views[i].records \in Nat BY DEF ViewSound
<1>2. CASE NewestCursor(c, g, views) = c BY <1>2
<1>3. CASE \E last \in 1..n :
             /\ views[last].records > 0
             /\ NewestCursor(c, g, views) = [generation |-> g, chunk |-> views[last].sequence,
                                             record |-> views[last].records - 1]
  <2>1. PICK last \in 1..n :
          /\ views[last].records > 0
          /\ NewestCursor(c, g, views) = [generation |-> g, chunk |-> views[last].sequence,
                                          record |-> views[last].records - 1]
    BY <1>3
  <2>2. views[last].records - 1 \in Nat /\ views[last].records - 1 < views[last].records
    BY <1>1, <2>1
  <2>3. ViewSound(views[last], g) OBVIOUS
  <2>. QED BY <2>1, <2>2, <2>3, ViewRecordGenuine
<1>. QED BY <1>1, <1>2, <1>3, NewestCursorIs, ZenonT(30)

\* End returns a genuine cursor.
LEMMA EndGenuine ==
  ASSUME TypeOK, CursorInv
  PROVE  End \in Cursor /\ Genuine(End)
<1>. DEFINE views == ViewsOf(heap, chunks)
<1>1. generation \in Nat /\ heap \in Seq(Chunk) BY DEF TypeOK
<1>2. DOMAIN chunks = 1..Len(chunks) /\ Len(chunks) \in Nat
      /\ \A i \in 1..Len(chunks) : chunks[i] \in DOMAIN heap
  BY OriginTyped
<1>3. DOMAIN views = 1..Len(chunks) BY <1>2 DEF ViewsOf
<1>4. ASSUME NEW i \in 1..Len(chunks) PROVE ViewSound(views[i], generation)
  <2>1. /\ views[i].sequence = heap[chunks[i]].sequence
        /\ views[i].records = Len(heap[chunks[i]].records)
    BY <1>2 DEF ViewsOf, View
  <2>2. heap[chunks[i]].sequence \in Nat /\ Len(heap[chunks[i]].records) \in Nat
    BY <1>1, <1>2, ChunkTyped
  <2>3. origin[chunks[i]].generation = generation BY OrderFacts
  <2>4. Len(heap[chunks[i]].records) <= Len(heap[chunks[i]].records) BY <2>2
  <2>. HIDE DEF views
  <2>. QED BY <1>2, <2>1, <2>2, <2>3, <2>4 DEF ViewSound
<1>5. ZeroCursor \in Cursor /\ Genuine(ZeroCursor) BY DEF ZeroCursor, Cursor, Genuine
<1>. HIDE DEF views
<1>6. NewestCursor(ZeroCursor, generation, views) \in Cursor
      /\ Genuine(NewestCursor(ZeroCursor, generation, views))
  BY <1>1, <1>2, <1>3, <1>4, <1>5, NewestGenuine
<1>. QED BY <1>6 DEF End, views

\* The views a read takes of its snapshot, however late, are sound.
LEMMA SinceSound ==
  ASSUME TypeOK, NEW s \in CaptureSnapshot, SnapshotSound(s), NEW c \in Cursor
  PROVE  /\ ViewsSince(heap, s, c).skip \in Nat
         /\ ViewsSince(heap, s, c).next =
              NewestCursor(c, s.generation, ViewsSince(heap, s, c).views)
         /\ \E n \in Nat : /\ DOMAIN ViewsSince(heap, s, c).views = 1..n
                            /\ \A i \in 1..n : ViewSound(ViewsSince(heap, s, c).views[i], s.generation)
<1>. DEFINE n == Len(s.chunks)
            at == LocateCursor(heap, c, s.generation, s.chunks, s.pruneSeam)
            views == SnapshotViews(heap, s, at.chunk, n - 1)
<1>1. /\ s.chunks \in Seq(Nat) /\ s.chunks # <<>> /\ s.activeView \in CaptureView
      /\ s.activeView.records \in Nat /\ s.activeView.sequence \in Nat
  BY DEF CaptureSnapshot, CaptureView, SnapshotSound
<1>2. n \in Nat \ {0} /\ DOMAIN s.chunks = 1..n BY <1>1, EmptySeq, LenProperties
<1>3. \A i \in 1..n : s.chunks[i] \in DOMAIN heap /\ origin[s.chunks[i]].generation = s.generation
  BY <1>2 DEF SnapshotSound
<1>4. heap \in Seq(Chunk) BY DEF TypeOK
<1>5. heap[s.chunks[1]].sequence \in Nat
  <2>1. 1 \in 1..n BY <1>2
  <2>. QED BY <1>3, <1>4, <2>1, ChunkTyped
<1>6. at.chunk \in 0..(n - 1) /\ at.boundary \in Int /\ at.boundary >= -1
  BY <1>2, <1>5, LocateIs
<1>7. /\ ViewsSince(heap, s, c).skip = at.boundary + 1
      /\ ViewsSince(heap, s, c).next = NewestCursor(c, s.generation, views)
      /\ ViewsSince(heap, s, c).views = views
  BY DEF ViewsSince
<1>. HIDE DEF at
<1>8. DOMAIN views = 1..(n - 1 - at.chunk + 1) /\ n - 1 - at.chunk + 1 \in Nat
  BY <1>2, <1>6 DEF SnapshotViews
<1>9. ASSUME NEW i \in 1..(n - 1 - at.chunk + 1) PROVE ViewSound(views[i], s.generation)
  <2>1. at.chunk + i \in 1..n BY <1>2, <1>6
  <2>2. views[i] = IF at.chunk + i = n THEN s.activeView ELSE View(heap, s.chunks[at.chunk + i])
    BY <1>8 DEF SnapshotViews
  <2>3. CASE at.chunk + i = n
    <3>1. /\ s.activeView.id = s.chunks[n] /\ s.activeView.sequence = heap[s.chunks[n]].sequence
          /\ s.activeView.records <= Len(heap[s.chunks[n]].records)
      BY DEF SnapshotSound
    <3>2. s.chunks[n] \in DOMAIN heap /\ origin[s.chunks[n]].generation = s.generation
      BY <1>2, <1>3
    <3>3. views[i] = s.activeView BY <2>2, <2>3
    <3>. HIDE DEF n, views
    <3>. QED BY <1>1, <3>1, <3>2, <3>3 DEF ViewSound
  <2>4. CASE at.chunk + i # n
    <3>. DEFINE id == s.chunks[at.chunk + i]
    <3>1. id \in DOMAIN heap /\ origin[id].generation = s.generation BY <1>3, <2>1
    <3>. HIDE DEF id
    <3>2. heap[id].sequence \in Nat /\ Len(heap[id].records) \in Nat BY <1>4, <3>1, ChunkTyped
    <3>3. views[i] = View(heap, id) BY <2>2, <2>4 DEF id
    <3>4. views[i].sequence = heap[id].sequence /\ views[i].records = Len(heap[id].records)
      <4>. HIDE DEF views
      <4>. QED BY <3>3 DEF View
    <3>5. Len(heap[id].records) <= Len(heap[id].records) BY <3>2
    <3>. HIDE DEF views
    <3>. QED BY <3>1, <3>2, <3>4, <3>5 DEF ViewSound
  <2>. QED BY <2>3, <2>4
<1>10. at.boundary + 1 \in Nat BY <1>6
<1>. HIDE DEF views, n
<1>. QED BY <1>7, <1>8, <1>9, <1>10

\* The snapshot a call takes under the mutex.
LEMMA SnapshotTaken ==
  ASSUME TypeOK, CursorInv
  PROVE  Snapshot \in CaptureSnapshot /\ SnapshotSound(Snapshot)
<1>1. /\ heap[active] \in Chunk /\ heap[active].sequence \in Nat /\ active \in DOMAIN heap
      /\ Len(heap[active].records) \in Nat /\ DOMAIN heap = 1..Len(heap) /\ Len(heap) \in Nat
  <2>1. heap \in Seq(Chunk) /\ active \in DOMAIN heap BY DEF TypeOK
  <2>. QED BY <2>1, ActiveSound, ChunkTyped
<1>2. View(heap, active) \in CaptureView
  <2>1. heap[active].keys \in Seq(Keys) /\ heap[active].payload \in Seq(Bytes)
    BY <1>1 DEF Chunk
  <2>2. Len(heap[active].keys) \in Nat /\ Len(heap[active].payload) \in Nat
    BY <2>1, LenProperties
  <2>3. active \in Nat BY <1>1
  <2>. QED BY <1>1, <2>2, <2>3 DEF View, CaptureView
<1>3. chunks \in Seq(DOMAIN heap) /\ chunks # <<>> /\ generation \in Nat /\ pruneSeam \in Cursor
  BY DEF TypeOK
<1>4. chunks \in Seq(Nat)
  <2>1. DOMAIN heap \subseteq Nat BY <1>1
  <2>. QED BY <1>3, <2>1, SeqMonotonic
<1>5. Discarded \in Nat
  <2>1. chunks[1] \in DOMAIN heap BY SequencesTyped
  <2>. QED BY <2>1, OriginTyped DEF Discarded
<1>6. Len(history[generation]) \in Nat
  <2>1. generation \in DOMAIN history BY DEF CursorInv, GenerationsOwned
  <2>2. history[generation] \in Seq(Frames \cup Events) BY <2>1 DEF TypeOK
  <2>. QED BY <2>2, LenProperties
<1>7. heap[active].keyStates \in [Keys -> KeyState] /\ heap[active].eventStates \in [Buses -> EventState]
  BY <1>1 DEF Chunk
<1>8. Snapshot \in CaptureSnapshot
  BY <1>2, <1>3, <1>4, <1>5, <1>6, <1>7 DEF Snapshot, CaptureSnapshot
<1>9. SnapshotSound(Snapshot)
  <2>. DEFINE s == Snapshot
  <2>1. /\ s.chunks = chunks /\ s.generation = generation /\ s.activeView.id = active
        /\ s.activeView.sequence = heap[active].sequence
        /\ s.activeView.records = Len(heap[active].records)
    BY DEF Snapshot, View
  <2>2. /\ active = chunks[Len(chunks)] /\ DOMAIN chunks = 1..Len(chunks)
        /\ \A i \in 1..Len(chunks) : chunks[i] \in DOMAIN heap
                                     /\ origin[chunks[i]].generation = generation
    BY OrderFacts, OriginTyped
  <2>3. Len(heap[active].records) <= Len(heap[active].records) BY <1>1
  <2>. HIDE DEF s
  <2>4. SnapshotSound(s) BY <1>3, <2>1, <2>2, <2>3 DEF SnapshotSound
  <2>. QED BY <2>4 DEF s
<1>. QED BY <1>8, <1>9

-----------------------------------------------------------------------------
(* The steps of a goroutine that holds a cursor.                           *)

\* A step of a goroutine that changes no storage keeps the invariant if what
\* it leaves in circulation is good.
LEMMA HoldingChanges ==
  ASSUME TypeOK, CursorInv,
         UNCHANGED <<captureEpochs, storage, indexes, history>>,
         cursor' \in [Holders -> Cursor], call' \in [Holders -> CallType],
         waiters' \in [Keys -> WaiterIds \cup {NoWaiter}],
         waiterHeap' \in [WaiterIds -> CaptureWaiter],
         \A h \in Holders : Genuine(cursor'[h]),
         \A w \in WaiterIds : Genuine(waiterHeap'[w].cursor),
         \A h \in Holders : call'[h] # Idle => SnapshotSound(call'[h].snapshot)
  PROVE  TypeOK' /\ CursorInv'
<1>1. UNCHANGED <<captureEpochs, generation, chunks, active, next, allocation, heap, length,
                  pruneSeam, origin, latest, latestStates, history>>
  BY DEF storage, indexes
<1>2. captureEpochs' \in Nat /\ captureEpochs <= captureEpochs' BY <1>1 DEF TypeOK
<1>3. TypeOK' BY <1>1 DEF TypeOK
<1>4. /\ GenerationsOwned' /\ ChunksNamed' /\ ChunksSound'
      /\ RetainedInOrder' /\ DiscardedBehind' /\ SeamNamed'
  BY <1>1, <1>2, StorageKept
<1>5. CursorsGenuine' BY <1>1 DEF CursorsGenuine, Genuine
<1>6. SnapshotsSound' BY <1>1 DEF SnapshotsSound, SnapshotSound
<1>. QED BY <1>3, <1>4, <1>5, <1>6 DEF CursorInv

\* A goroutine may take up any genuine cursor.
LEMMA HoldKeeps ==
  ASSUME TypeOK, CursorInv, NEW h \in Holders, NEW c \in Cursor, Genuine(c), Hold(h, c)
  PROVE  TypeOK' /\ CursorInv'
<1>1. cursor' = [cursor EXCEPT ![h] = c]
      /\ UNCHANGED <<captureEpochs, storage, indexes, history, call, waiters, waiterHeap>>
  BY DEF Hold, waiting
<1>2. /\ cursor \in [Holders -> Cursor] /\ call \in [Holders -> CallType]
      /\ waiters \in [Keys -> WaiterIds \cup {NoWaiter}]
      /\ waiterHeap \in [WaiterIds -> CaptureWaiter]
  BY DEF TypeOK
<1>3. /\ \A g \in Holders : Genuine(cursor[g])
      /\ \A w \in WaiterIds : Genuine(waiterHeap[w].cursor)
      /\ \A g \in Holders : call[g] # Idle => SnapshotSound(call[g].snapshot)
  BY DEF CursorInv, CursorsGenuine, SnapshotsSound
<1>4. cursor' \in [Holders -> Cursor] /\ \A g \in Holders : Genuine(cursor'[g])
  BY <1>1, <1>2, <1>3
<1>. QED BY <1>1, <1>2, <1>3, <1>4, HoldingChanges

\* A goroutine takes End, the zero cursor or another capture's cursor.
LEMMA TakeKeeps ==
  ASSUME TypeOK, CursorInv, NEW h \in Holders, TakeEnd(h) \/ TakeZero(h) \/ TakeForeign(h)
  PROVE  TypeOK' /\ CursorInv'
<1>1. CASE TakeEnd(h) BY <1>1, EndGenuine, HoldKeeps DEF TakeEnd
<1>2. CASE TakeZero(h)
  <2>1. ZeroCursor \in Cursor /\ Genuine(ZeroCursor) BY DEF ZeroCursor, Cursor, Genuine
  <2>. QED BY <1>2, <2>1, HoldKeeps DEF TakeZero
<1>3. CASE TakeForeign(h)
  <2>1. PICK g \in 1..captureEpochs :
          g \notin DOMAIN history /\ Hold(h, [generation |-> g, chunk |-> 0, record |-> 0])
    BY <1>3 DEF TakeForeign
  <2>2. [generation |-> g, chunk |-> 0, record |-> 0] \in Cursor BY DEF Cursor
  <2>3. Genuine([generation |-> g, chunk |-> 0, record |-> 0]) BY <2>1 DEF Genuine
  <2>. QED BY <2>1, <2>2, <2>3, HoldKeeps
<1>. QED BY <1>1, <1>2, <1>3

\* A read takes its snapshot.
LEMMA BeginReadKeeps ==
  ASSUME TypeOK, CursorInv, NEW r \in Readers, BeginRead(r)
  PROVE  TypeOK' /\ CursorInv'
<1>. DEFINE new == [op |-> "read", snapshot |-> Snapshot]
<1>1. /\ call' = [call EXCEPT ![r] = new] /\ r \in Holders
      /\ UNCHANGED <<captureEpochs, storage, indexes, history, cursor, waiters, waiterHeap>>
  BY DEF BeginRead, waiting, Holders
<1>2. /\ cursor \in [Holders -> Cursor] /\ call \in [Holders -> CallType]
      /\ waiters \in [Keys -> WaiterIds \cup {NoWaiter}]
      /\ waiterHeap \in [WaiterIds -> CaptureWaiter]
  BY DEF TypeOK
<1>3. /\ \A g \in Holders : Genuine(cursor[g])
      /\ \A w \in WaiterIds : Genuine(waiterHeap[w].cursor)
      /\ \A g \in Holders : call[g] # Idle => SnapshotSound(call[g].snapshot)
  BY DEF CursorInv, CursorsGenuine, SnapshotsSound
<1>4. new \in CallType /\ SnapshotSound(new.snapshot) BY SnapshotTaken DEF CallType
<1>. HIDE DEF new
<1>5. /\ call' \in [Holders -> CallType]
      /\ \A g \in Holders : call'[g] # Idle => SnapshotSound(call'[g].snapshot)
  BY <1>1, <1>2, <1>3, <1>4
<1>. QED BY <1>1, <1>2, <1>3, <1>5, HoldingChanges

\* A read, however late, returns a genuine cursor.
LEMMA EndReadKeeps ==
  ASSUME TypeOK, CursorInv, NEW r \in Readers, EndRead(r)
  PROVE  TypeOK' /\ CursorInv'
<1>. DEFINE s == call[r].snapshot
            since == ViewsSince(heap, s, cursor[r])
<1>1. PICK c \in {since.next, cursor[r]} \cup RecordCursors(s.generation, since.views, since.skip) :
        cursor' = [cursor EXCEPT ![r] = c]
  BY DEF EndRead
<1>2. /\ call[r].op = "read" /\ call' = [call EXCEPT ![r] = Idle] /\ r \in Holders
      /\ UNCHANGED <<captureEpochs, storage, indexes, history, waiters, waiterHeap>>
  BY DEF EndRead, waiting, Holders
<1>3. /\ cursor \in [Holders -> Cursor] /\ call \in [Holders -> CallType]
      /\ waiters \in [Keys -> WaiterIds \cup {NoWaiter}]
      /\ waiterHeap \in [WaiterIds -> CaptureWaiter]
  BY DEF TypeOK
<1>4. /\ \A g \in Holders : Genuine(cursor[g])
      /\ \A w \in WaiterIds : Genuine(waiterHeap[w].cursor)
      /\ \A g \in Holders : call[g] # Idle => SnapshotSound(call[g].snapshot)
  BY DEF CursorInv, CursorsGenuine, SnapshotsSound
<1>5. s \in CaptureSnapshot /\ SnapshotSound(s) /\ s.generation \in Nat
  <2>1. call[r] # Idle BY <1>2 DEF Idle
  <2>2. s \in CaptureSnapshot BY <1>2, <2>1, CallTyped
  <2>. QED BY <1>2, <1>4, <2>1, <2>2 DEF CaptureSnapshot
<1>6. cursor[r] \in Cursor /\ Genuine(cursor[r]) BY <1>2, <1>3, <1>4
<1>7. /\ since.skip \in Nat /\ since.next = NewestCursor(cursor[r], s.generation, since.views)
      /\ \E n \in Nat : /\ DOMAIN since.views = 1..n
                         /\ \A i \in 1..n : ViewSound(since.views[i], s.generation)
  <2>. HIDE DEF s
  <2>. QED BY <1>5, <1>6, SinceSound
<1>8. PICK n \in Nat : /\ DOMAIN since.views = 1..n
                      /\ \A i \in 1..n : ViewSound(since.views[i], s.generation)
  BY <1>7
<1>. HIDE DEF since, s
<1>9. c \in Cursor /\ Genuine(c)
  <2>1. CASE c = since.next BY <1>5, <1>6, <1>7, <1>8, <2>1, NewestGenuine
  <2>2. CASE c = cursor[r] BY <1>6, <2>2
  <2>3. CASE c \in RecordCursors(s.generation, since.views, since.skip)
    <3>1. PICK i \in DOMAIN since.views :
            c \in { [generation |-> s.generation, chunk |-> since.views[i].sequence, record |-> m] :
                    m \in (IF i = 1 THEN since.skip ELSE 0)..(since.views[i].records - 1) }
      BY <2>3 DEF RecordCursors
    <3>2. PICK m \in (IF i = 1 THEN since.skip ELSE 0)..(since.views[i].records - 1) :
            c = [generation |-> s.generation, chunk |-> since.views[i].sequence, record |-> m]
      BY <3>1
    <3>3. ViewSound(since.views[i], s.generation) /\ since.views[i].records \in Nat
      BY <1>8 DEF ViewSound
    <3>4. m \in Nat /\ m < since.views[i].records BY <1>7, <3>2, <3>3
    <3>. QED BY <1>5, <3>2, <3>3, <3>4, ViewRecordGenuine
  <2>. QED BY <1>1, <2>1, <2>2, <2>3
<1>10. cursor' \in [Holders -> Cursor] /\ \A g \in Holders : Genuine(cursor'[g])
  BY <1>1, <1>2, <1>3, <1>4, <1>9
<1>11. /\ call' \in [Holders -> CallType]
       /\ \A g \in Holders : call'[g] # Idle => SnapshotSound(call'[g].snapshot)
  BY <1>2, <1>3, <1>4 DEF CallType
<1>. QED BY <1>2, <1>3, <1>4, <1>10, <1>11, HoldingChanges

-----------------------------------------------------------------------------
(* The steps of Next.                                                      *)

\* What a search finds is a record of the snapshot's generation.
LEMMA FindGenuine ==
  ASSUME TypeOK, NEW s \in CaptureSnapshot, SnapshotSound(s), NEW c \in Cursor, NEW key,
         FindNext(heap, s, key, c).found
  PROVE  FindNext(heap, s, key, c).cursor \in Cursor /\ Genuine(FindNext(heap, s, key, c).cursor)
<1>. DEFINE since == ViewsSince(heap, s, c)
            states == KeyStatesSince(heap, s, since, key)
            chain(i) == IF states[i].count = 0 THEN <<>>
                        ELSE Chain(heap, since.views[i], states[i].lastRecord,
                                   IF i = 1 THEN since.boundary ELSE -1)
            firsts == { hit \in [view : DOMAIN since.views, record : 0..NoCaptureRecord] :
                          /\ chain(hit.view) # <<>> /\ hit.record = Head(chain(hit.view))
                          /\ hit.record < since.views[hit.view].records }
            first == CHOOSE hit \in firsts : \A other \in firsts : hit.view <= other.view
            at == [generation |-> s.generation,
                   chunk |-> since.views[first.view].sequence, record |-> first.record]
<1>1. FindNext(heap, s, key, c) =
        IF firsts = {} THEN [found |-> FALSE]
        ELSE [found |-> TRUE, event |-> FrameAt(heap, since.views[first.view], first.record),
              cursor |-> at]
  BY Zenon DEF FindNext
<1>2. PICK n \in Nat : /\ DOMAIN since.views = 1..n
                      /\ \A i \in 1..n : ViewSound(since.views[i], s.generation)
  BY SinceSound
<1>3. \A hit \in firsts : /\ hit.view \in DOMAIN since.views /\ hit.record \in 0..NoCaptureRecord
                          /\ hit.record < since.views[hit.view].records
  <2>. HIDE DEF since, chain
  <2>. QED OBVIOUS
<1>. HIDE DEF firsts, since
<1>4. firsts # {} BY <1>1
<1>5. \E hit \in firsts : \A other \in firsts : hit.view <= other.view
  <2>. DEFINE V == { hit.view : hit \in firsts }
  <2>1. V \in SUBSET Nat /\ V # {} BY <1>2, <1>3, <1>4
  <2>2. PICK v \in V : \A k \in V : v <= k
    <3>. HIDE DEF V
    <3>. QED BY <2>1, LeastNatural
  <2>. QED BY <2>2
<1>6. first \in firsts BY <1>5, Zenon
<1>7. FindNext(heap, s, key, c).cursor = at BY <1>1, <1>4
<1>. HIDE DEF first
<1>8. ViewSound(since.views[first.view], s.generation) BY <1>2, <1>3, <1>6
<1>9. first.record \in Nat /\ first.record < since.views[first.view].records
  BY <1>3, <1>6, NoRecordAssumption
<1>10. s.generation \in Nat BY DEF CaptureSnapshot
<1>. QED BY <1>7, <1>8, <1>9, <1>10, ViewRecordGenuine

\* A call of Next holds a key and a waiter.
LEMMA NextTyped ==
  ASSUME TypeOK, NEW c \in Holders, call[c].op \in {"find", "wait"}
  PROVE  /\ call[c].key \in Keys /\ call[c].waiter \in WaiterIds
         /\ call[c].snapshot \in CaptureSnapshot /\ call[c] # Idle
         /\ call[c] = [op |-> call[c].op, key |-> call[c].key, waiter |-> call[c].waiter,
                       snapshot |-> call[c].snapshot]
<1>1. call[c] \in CallType BY DEF TypeOK
<1>. QED BY <1>1 DEF CallType, Idle

\* A waiter object nobody uses any more is as good as new.
LEMMA CollectedTyped ==
  ASSUME TypeOK, CursorInv, NEW c \in Holders, call[c].op \in {"find", "wait"},
         NEW objects \in [WaiterIds -> CaptureWaiter],
         \A w \in WaiterIds : Genuine(objects[w].cursor)
  PROVE  /\ Collected(c, objects) \in [WaiterIds -> CaptureWaiter]
         /\ \A w \in WaiterIds : Genuine(Collected(c, objects)[w].cursor)
<1>1. call[c].waiter \in WaiterIds BY NextTyped
<1>2. NewCaptureWaiter \in CaptureWaiter
  BY DEF NewCaptureWaiter, CaptureWaiter, Cursor, ZeroCursor
<1>3. Genuine(NewCaptureWaiter.cursor) BY DEF NewCaptureWaiter, Genuine
<1>. QED BY <1>1, <1>2, <1>3 DEF Collected

\* removeWaiter leaves the waiters typed and their cursors genuine.
LEMMA RemoveWaiterTyped ==
  ASSUME TypeOK, CursorInv, NEW c \in Holders, call[c].op \in {"find", "wait"}, RemoveWaiter(c)
  PROVE  /\ waiters' \in [Keys -> WaiterIds \cup {NoWaiter}]
         /\ waiterHeap' \in [WaiterIds -> CaptureWaiter]
         /\ \A w \in WaiterIds : Genuine(waiterHeap'[w].cursor)
<1>. DEFINE key == call[c].key
            mine == call[c].waiter
            objects == [waiterHeap EXCEPT ![mine].count = @ - 1]
<1>1. /\ waiters \in [Keys -> WaiterIds \cup {NoWaiter}]
      /\ waiterHeap \in [WaiterIds -> CaptureWaiter]
      /\ \A w \in WaiterIds : Genuine(waiterHeap[w].cursor)
  BY DEF TypeOK, CursorInv, CursorsGenuine
<1>2. key \in Keys /\ mine \in WaiterIds BY NextTyped
<1>3. /\ objects \in [WaiterIds -> CaptureWaiter]
      /\ \A w \in WaiterIds : objects[w].cursor = waiterHeap[w].cursor
  <2>. HIDE DEF mine
  <2>. QED BY <1>1, <1>2 DEF CaptureWaiter
<1>4. /\ waiterHeap' = Collected(c, waiterHeap) \/ waiterHeap' = Collected(c, objects)
      /\ waiters' = waiters \/ waiters' = [waiters EXCEPT ![key] = NoWaiter]
  BY DEF RemoveWaiter
<1>. HIDE DEF objects, key
<1>5. \A w \in WaiterIds : Genuine(objects[w].cursor) BY <1>1, <1>3
<1>6. waiters' \in [Keys -> WaiterIds \cup {NoWaiter}] BY <1>1, <1>2, <1>4
<1>. QED BY <1>1, <1>3, <1>4, <1>5, <1>6, CollectedTyped

\* A call of Next that returns a genuine cursor.
LEMMA ReturnKeeps ==
  ASSUME TypeOK, CursorInv, NEW c \in Holders, NEW at \in Cursor, Genuine(at), Return(c, at),
         waiters' \in [Keys -> WaiterIds \cup {NoWaiter}],
         waiterHeap' \in [WaiterIds -> CaptureWaiter],
         \A w \in WaiterIds : Genuine(waiterHeap'[w].cursor)
  PROVE  TypeOK' /\ CursorInv'
<1>1. /\ cursor' = [cursor EXCEPT ![c] = at] /\ call' = [call EXCEPT ![c] = Idle]
      /\ UNCHANGED <<captureEpochs, storage, indexes, history>>
  BY DEF Return
<1>2. /\ cursor \in [Holders -> Cursor] /\ call \in [Holders -> CallType]
      /\ \A g \in Holders : Genuine(cursor[g])
      /\ \A g \in Holders : call[g] # Idle => SnapshotSound(call[g].snapshot)
  BY DEF TypeOK, CursorInv, CursorsGenuine, SnapshotsSound
<1>3. cursor' \in [Holders -> Cursor] /\ \A g \in Holders : Genuine(cursor'[g]) BY <1>1, <1>2
<1>4. /\ call' \in [Holders -> CallType]
      /\ \A g \in Holders : call'[g] # Idle => SnapshotSound(call'[g].snapshot)
  BY <1>1, <1>2 DEF CallType
<1>. QED BY <1>1, <1>3, <1>4, HoldingChanges

\* Next registers its waiter and takes its snapshot.
LEMMA AddWaiterKeeps ==
  ASSUME TypeOK, CursorInv, NEW c \in Callers, NEW key \in Keys, AddWaiter(c, key)
  PROVE  TypeOK' /\ CursorInv'
<1>. DEFINE known == waiters[key] # NoWaiter
            Object(w) == IF known THEN [waiterHeap[w] EXCEPT !.count = @ + 1]
                         ELSE [NewCaptureWaiter EXCEPT !.count = 1]
            new(w) == [op |-> "find", key |-> key, waiter |-> w, snapshot |-> Snapshot]
<1>1. PICK w \in IF known THEN {waiters[key]}
                 ELSE { w \in UnusedWaiters : \A v \in UnusedWaiters : w <= v } :
        /\ waiters' = [waiters EXCEPT ![key] = w]
        /\ waiterHeap' = [waiterHeap EXCEPT ![w] = Object(w)]
        /\ call' = [call EXCEPT ![c] = new(w)]
  BY Zenon DEF AddWaiter
<1>2. c \in Holders /\ UNCHANGED <<captureEpochs, storage, indexes, cursor, history>>
  BY DEF AddWaiter, Holders
<1>3. /\ cursor \in [Holders -> Cursor] /\ call \in [Holders -> CallType]
      /\ waiters \in [Keys -> WaiterIds \cup {NoWaiter}]
      /\ waiterHeap \in [WaiterIds -> CaptureWaiter]
  BY DEF TypeOK
<1>4. /\ \A g \in Holders : Genuine(cursor[g])
      /\ \A v \in WaiterIds : Genuine(waiterHeap[v].cursor)
      /\ \A g \in Holders : call[g] # Idle => SnapshotSound(call[g].snapshot)
  BY DEF CursorInv, CursorsGenuine, SnapshotsSound
<1>5. w \in WaiterIds
  <2>1. CASE known BY <1>1, <1>3, <2>1
  <2>2. CASE ~known BY <1>1, <2>2 DEF UnusedWaiters
  <2>. QED BY <2>1, <2>2
<1>6. Object(w) \in CaptureWaiter /\ Genuine(Object(w).cursor)
  <2>1. CASE known
    <3>1. waiterHeap[w] \in CaptureWaiter /\ Genuine(waiterHeap[w].cursor) BY <1>3, <1>4, <1>5
    <3>2. Object(w) = [waiterHeap[w] EXCEPT !.count = @ + 1] BY <2>1
    <3>3. Object(w) \in CaptureWaiter /\ Object(w).cursor = waiterHeap[w].cursor
      <4>. HIDE DEF Object
      <4>. QED BY <3>1, <3>2 DEF CaptureWaiter
    <3>. QED BY <3>1, <3>3
  <2>2. CASE ~known
    <3>1. NewCaptureWaiter \in CaptureWaiter /\ NewCaptureWaiter.cursor = ZeroCursor
      BY DEF NewCaptureWaiter, CaptureWaiter, Cursor, ZeroCursor
    <3>2. /\ [NewCaptureWaiter EXCEPT !.count = 1] \in CaptureWaiter
          /\ [NewCaptureWaiter EXCEPT !.count = 1].cursor = ZeroCursor
      BY <3>1 DEF CaptureWaiter
    <3>. QED BY <2>2, <3>2 DEF Genuine
  <2>. QED BY <2>1, <2>2
<1>7. new(w) \in CallType /\ SnapshotSound(new(w).snapshot)
  BY <1>5, SnapshotTaken DEF CallType
<1>. HIDE DEF Object, new, known
<1>8. /\ call' \in [Holders -> CallType]
      /\ \A g \in Holders : call'[g] # Idle => SnapshotSound(call'[g].snapshot)
  BY <1>1, <1>2, <1>3, <1>4, <1>7
<1>9. /\ waiters' \in [Keys -> WaiterIds \cup {NoWaiter}]
      /\ waiterHeap' \in [WaiterIds -> CaptureWaiter]
      /\ \A v \in WaiterIds : Genuine(waiterHeap'[v].cursor)
  BY <1>1, <1>3, <1>4, <1>5, <1>6
<1>10. cursor' \in [Holders -> Cursor] /\ \A g \in Holders : Genuine(cursor'[g])
  BY <1>2, <1>3, <1>4
<1>. QED BY <1>2, <1>8, <1>9, <1>10, HoldingChanges

\* Next finds a frame in its snapshot.
LEMMA FindHitKeeps ==
  ASSUME TypeOK, CursorInv, NEW c \in Callers, FindHit(c)
  PROVE  TypeOK' /\ CursorInv'
<1>1. /\ c \in Holders /\ call[c].op \in {"find", "wait"} /\ Search(c).found
      /\ RemoveWaiter(c) /\ Return(c, Search(c).cursor)
  BY DEF FindHit, Holders
<1>2. call[c] # Idle /\ call[c].snapshot \in CaptureSnapshot BY <1>1, NextTyped
<1>3. SnapshotSound(call[c].snapshot) /\ cursor[c] \in Cursor
  BY <1>1, <1>2 DEF TypeOK, CursorInv, SnapshotsSound
<1>4. Search(c).cursor \in Cursor /\ Genuine(Search(c).cursor)
  BY <1>1, <1>2, <1>3, FindGenuine DEF Search
<1>. QED BY <1>1, <1>4, RemoveWaiterTyped, ReturnKeeps

\* Next goes on to wait.
LEMMA FindMissKeeps ==
  ASSUME TypeOK, CursorInv, NEW c \in Callers, FindMiss(c)
  PROVE  TypeOK' /\ CursorInv'
<1>. DEFINE new == [call[c] EXCEPT !.op = "wait"]
<1>1. /\ c \in Holders /\ call[c].op \in {"find", "wait"} /\ call' = [call EXCEPT ![c] = new]
      /\ UNCHANGED <<captureEpochs, storage, indexes, waiters, waiterHeap, cursor, history>>
  BY DEF FindMiss, Holders, waiting
<1>2. /\ call[c] # Idle /\ call[c].snapshot \in CaptureSnapshot
      /\ call[c].key \in Keys /\ call[c].waiter \in WaiterIds
      /\ call[c] = [op |-> call[c].op, key |-> call[c].key, waiter |-> call[c].waiter,
                    snapshot |-> call[c].snapshot]
  BY <1>1, NextTyped
<1>3. /\ cursor \in [Holders -> Cursor] /\ call \in [Holders -> CallType]
      /\ waiters \in [Keys -> WaiterIds \cup {NoWaiter}]
      /\ waiterHeap \in [WaiterIds -> CaptureWaiter]
  BY DEF TypeOK
<1>4. /\ \A g \in Holders : Genuine(cursor[g])
      /\ \A v \in WaiterIds : Genuine(waiterHeap[v].cursor)
      /\ \A g \in Holders : call[g] # Idle => SnapshotSound(call[g].snapshot)
  BY DEF CursorInv, CursorsGenuine, SnapshotsSound
<1>5. new = [op |-> "wait", key |-> call[c].key, waiter |-> call[c].waiter,
             snapshot |-> call[c].snapshot]
  BY <1>2
<1>6. new \in CallType /\ SnapshotSound(new.snapshot)
  <2>. HIDE DEF new
  <2>. QED BY <1>1, <1>2, <1>4, <1>5 DEF CallType
<1>. HIDE DEF new
<1>7. /\ call' \in [Holders -> CallType]
      /\ \A g \in Holders : call'[g] # Idle => SnapshotSound(call'[g].snapshot)
  BY <1>1, <1>3, <1>4, <1>6
<1>. QED BY <1>1, <1>3, <1>4, <1>7, HoldingChanges

\* Next returns what its waiter was woken with.
LEMMA WakeKeeps ==
  ASSUME TypeOK, CursorInv, NEW c \in Callers, Wake(c)
  PROVE  TypeOK' /\ CursorInv'
<1>1. /\ c \in Holders /\ call[c].op \in {"find", "wait"}
      /\ Return(c, waiterHeap[call[c].waiter].cursor)
      /\ waiterHeap' = Collected(c, waiterHeap) /\ waiters' = waiters
  BY DEF Wake, Holders
<1>2. /\ waiters \in [Keys -> WaiterIds \cup {NoWaiter}]
      /\ waiterHeap \in [WaiterIds -> CaptureWaiter]
      /\ \A w \in WaiterIds : Genuine(waiterHeap[w].cursor)
  BY DEF TypeOK, CursorInv, CursorsGenuine
<1>3. call[c].waiter \in WaiterIds BY <1>1, NextTyped
<1>4. waiterHeap[call[c].waiter].cursor \in Cursor /\ Genuine(waiterHeap[call[c].waiter].cursor)
  BY <1>2, <1>3 DEF CaptureWaiter
<1>. QED BY <1>1, <1>2, <1>4, CollectedTyped, ReturnKeeps

\* Next gives up.
LEMMA CancelKeeps ==
  ASSUME TypeOK, CursorInv, NEW c \in Callers, Cancel(c)
  PROVE  TypeOK' /\ CursorInv'
<1>1. /\ c \in Holders /\ call[c].op \in {"find", "wait"}
      /\ RemoveWaiter(c) /\ Return(c, cursor[c])
  BY DEF Cancel, Holders
<1>2. cursor[c] \in Cursor /\ Genuine(cursor[c])
  BY <1>1 DEF TypeOK, CursorInv, CursorsGenuine
<1>. QED BY <1>1, <1>2, RemoveWaiterTyped, ReturnKeeps

-----------------------------------------------------------------------------
(* The invariant.                                                          *)

\* A capture starts with one empty chunk and nothing in circulation.
LEMMA InitInv == Init => TypeOK /\ CursorInv
<1>. SUFFICES ASSUME Init PROVE TypeOK /\ CursorInv OBVIOUS
<1>. DEFINE room == [records |-> InitialRecords, payload |-> InitialPayload]
            fresh == NewCaptureChunk(InitialRecords, InitialPayload)
<1>1. /\ captureEpochs = 1 /\ generation = 1 /\ heap = <<fresh>> /\ chunks = <<1>> /\ active = 1
      /\ next = <<room>> /\ allocation = <<>> /\ pruneSeam = ZeroCursor
      /\ latest = [key \in Keys |-> None] /\ latestStates = [bus \in Buses |-> None]
      /\ waiters = [key \in Keys |-> NoWaiter]
      /\ waiterHeap = [w \in WaiterIds |-> NewCaptureWaiter]
      /\ cursor = [h \in Holders |-> ZeroCursor] /\ call = [h \in Holders |-> Idle]
      /\ history = [g \in {1} |-> <<>>] /\ origin = <<[generation |-> 1, base |-> 0]>>
  BY DEF Init
<1>2. room \in Capacities BY CapacityAssumption DEF Capacities
<1>3. fresh \in Chunk /\ ChunkSound(fresh) /\ fresh.sequence = 0 /\ fresh.records = <<>>
  <2>1. room.records = InitialRecords /\ room.payload = InitialPayload OBVIOUS
  <2>. HIDE DEF room
  <2>. QED BY <1>2, <2>1, NewChunkSound
<1>. HIDE DEF room, fresh
<1>4. /\ heap \in Seq(Chunk) /\ Len(heap) = 1 /\ DOMAIN heap = {1} /\ heap[1] = fresh
      /\ DOMAIN chunks = {1} /\ Len(chunks) = 1 /\ chunks[1] = 1 /\ chunks # <<>>
      /\ origin[1] = [generation |-> 1, base |-> 0] /\ Len(origin) = 1
      /\ origin \in Seq([generation : Nat, base : Nat])
      /\ DOMAIN history = {1} /\ history[1] = <<>> /\ Len(heap[1].records) = 0
  BY <1>1, <1>3
<1>5. ZeroCursor \in Cursor /\ Genuine(ZeroCursor) BY DEF ZeroCursor, Cursor, Genuine
<1>6. NewCaptureWaiter \in CaptureWaiter /\ NewCaptureWaiter.cursor = ZeroCursor
  BY <1>5 DEF NewCaptureWaiter, CaptureWaiter
<1>7. TypeOK
  <2>1. next \in Seq(Capacities) /\ Len(next) = 1 BY <1>1, <1>2
  <2>2. allocation \in Seq(Capacities) /\ Len(allocation) = 0 BY <1>1
  <2>3. chunks \in Seq(DOMAIN heap) BY <1>1, <1>4
  <2>4. /\ latest \in [Keys -> FrameEvent \cup {None}]
        /\ latestStates \in [Buses -> Event \cup {None}]
        /\ waiters \in [Keys -> WaiterIds \cup {NoWaiter}]
        /\ waiterHeap \in [WaiterIds -> CaptureWaiter]
        /\ cursor \in [Holders -> Cursor] /\ call \in [Holders -> CallType]
    BY <1>1, <1>5, <1>6 DEF CallType
  <2>. QED BY <1>1, <1>4, <1>5, <2>1, <2>2, <2>3, <2>4 DEF TypeOK
<1>8. GenerationsOwned /\ ChunksNamed /\ ChunksSound
  BY <1>1, <1>3, <1>4 DEF GenerationsOwned, ChunksNamed, ChunksSound
<1>9. RetainedInOrder
  BY <1>1, <1>3, <1>4 DEF RetainedInOrder, EndBase
<1>10. DiscardedBehind /\ SeamNamed
  BY <1>1, <1>3, <1>4 DEF DiscardedBehind, SeamNamed
<1>11. CursorsGenuine /\ SnapshotsSound
  BY <1>1, <1>5, <1>6 DEF CursorsGenuine, SnapshotsSound
<1>. QED BY <1>7, <1>8, <1>9, <1>10, <1>11 DEF CursorInv

\* Every step keeps the invariant.
LEMMA StepKeeps == TypeOK /\ CursorInv /\ [Next]_vars => TypeOK' /\ CursorInv'
<1>. SUFFICES ASSUME TypeOK, CursorInv, [Next]_vars PROVE TypeOK' /\ CursorInv' OBVIOUS
<1>1. ASSUME NEW frame \in Frames, AppendFrame(frame) PROVE TypeOK' /\ CursorInv'
  BY <1>1, AppendFrameKeeps
<1>2. ASSUME NEW event \in Events, AppendEvent(event) PROVE TypeOK' /\ CursorInv'
  BY <1>2, AppendEventKeeps
<1>3. CASE FinishAllocation BY <1>3, FinishAllocationKeeps
<1>4. CASE Clear BY <1>4, ClearKeeps
<1>5. ASSUME NEW S \in (SUBSET Holders) \ {{}}, Prune(S) PROVE TypeOK' /\ CursorInv'
  <2>1. S \in SUBSET Holders /\ S # {} OBVIOUS
  <2>. QED BY <1>5, <2>1, PruneKeeps
<1>6. CASE OtherCapture BY <1>6, OtherCaptureKeeps
<1>7. ASSUME NEW h \in Holders, TakeEnd(h) \/ TakeZero(h) \/ TakeForeign(h)
      PROVE  TypeOK' /\ CursorInv'
  BY <1>7, TakeKeeps
<1>8. ASSUME NEW r \in Readers, BeginRead(r) \/ EndRead(r) PROVE TypeOK' /\ CursorInv'
  BY <1>8, BeginReadKeeps, EndReadKeeps
<1>9. ASSUME NEW c \in Callers,
             \/ \E key \in Keys : AddWaiter(c, key)
             \/ FindHit(c) \/ FindMiss(c) \/ Wake(c) \/ Cancel(c)
      PROVE  TypeOK' /\ CursorInv'
  BY <1>9, AddWaiterKeeps, FindHitKeeps, FindMissKeeps, WakeKeeps, CancelKeeps
<1>10. CASE UNCHANGED vars
  <2>1. UNCHANGED <<captureEpochs, storage, indexes, history, waiters, waiterHeap, cursor, call>>
    BY <1>10 DEF vars, waiting, holding
  <2>2. /\ cursor \in [Holders -> Cursor] /\ call \in [Holders -> CallType]
        /\ waiters \in [Keys -> WaiterIds \cup {NoWaiter}]
        /\ waiterHeap \in [WaiterIds -> CaptureWaiter]
    BY DEF TypeOK
  <2>3. /\ \A g \in Holders : Genuine(cursor[g])
        /\ \A w \in WaiterIds : Genuine(waiterHeap[w].cursor)
        /\ \A g \in Holders : call[g] # Idle => SnapshotSound(call[g].snapshot)
    BY DEF CursorInv, CursorsGenuine, SnapshotsSound
  <2>. QED BY <2>1, <2>2, <2>3, HoldingChanges
<1>. QED
  BY <1>1, <1>2, <1>3, <1>4, <1>5, <1>6, <1>7, <1>8, <1>9, <1>10, Zenon DEF Next

-----------------------------------------------------------------------------
(* Placement.                                                              *)

\* The record of a genuine cursor that names a chunk of this capture is in it.
LEMMA NamedInside ==
  ASSUME TypeOK, CursorInv, NEW c \in Cursor, Genuine(c), c # ZeroCursor,
         NEW id \in DOMAIN heap, origin[id].generation = c.generation, heap[id].sequence = c.chunk
  PROVE  c.record < Len(heap[id].records)
<1>1. origin[id].generation \in DOMAIN history BY DEF CursorInv, GenerationsOwned
<1>2. PICK other \in DOMAIN heap : /\ origin[other].generation = c.generation
                                  /\ heap[other].sequence = c.chunk
                                  /\ c.record < Len(heap[other].records)
  BY <1>1 DEF Genuine
<1>3. other = id BY <1>2 DEF CursorInv, ChunksNamed
<1>. QED BY <1>2, <1>3

\* The seam, unless zero, is the last record of the last discarded chunk.
LEMMA SeamIs ==
  ASSUME TypeOK, CursorInv,
         NEW id \in DOMAIN heap, origin[id].generation = generation,
         heap[id].sequence + 1 = heap[chunks[1]].sequence
  PROVE  pruneSeam = [generation |-> generation, chunk |-> heap[id].sequence,
                      record |-> Len(heap[id].records) - 1]
<1>1. heap[id].sequence \in Nat /\ heap[chunks[1]].sequence # 0 BY SequencesTyped
<1>2. PICK other \in DOMAIN heap :
        /\ origin[other].generation = generation
        /\ heap[other].sequence + 1 = heap[chunks[1]].sequence
        /\ pruneSeam = [generation |-> generation, chunk |-> heap[other].sequence,
                        record |-> Len(heap[other].records) - 1]
  BY <1>1 DEF CursorInv, SeamNamed
<1>3. heap[other].sequence = heap[id].sequence
  <2>1. heap[other].sequence \in Nat /\ heap[id].sequence \in Nat BY SequencesTyped
  <2>. QED BY <1>2, <2>1
<1>4. other = id BY <1>2, <1>3 DEF CursorInv, ChunksNamed
<1>. QED BY <1>2, <1>4

\* Retained chunks start at or after the discarded boundary.
LEMMA RetainedAfter ==
  ASSUME TypeOK, CursorInv, NEW i \in 1..Len(chunks)
  PROVE  origin[chunks[i]].base \in Nat /\ Discarded \in Nat /\ Discarded <= origin[chunks[i]].base
<1>1. /\ 1 \in 1..Len(chunks) /\ chunks[1] \in DOMAIN heap /\ chunks[i] \in DOMAIN heap
      /\ origin[chunks[1]].base \in Nat /\ origin[chunks[i]].base \in Nat
  <2>1. 1 \in 1..Len(chunks) BY OriginTyped
  <2>. QED BY <2>1, OriginTyped
<1>2. CASE i = 1 BY <1>1, <1>2 DEF Discarded
<1>3. CASE i # 1
  <2>1. 1 < i BY <1>3
  <2>2. EndBase(chunks[1]) <= origin[chunks[i]].base BY <1>1, <2>1, OrderFacts
  <2>3. origin[chunks[1]].base <= EndBase(chunks[1]) /\ EndBase(chunks[1]) \in Nat
    BY <1>1, OrderFacts
  <2>. QED BY <1>1, <2>2, <2>3 DEF Discarded
<1>. QED BY <1>2, <1>3

\* The invariant makes locateCursor place exactly the cursors with no loss.
LEMMA PlacementHolds ==
  ASSUME TypeOK, CursorInv
  PROVE  CursorPlacement
<1>. SUFFICES ASSUME NEW h \in Holders
     PROVE  Locate(cursor[h]).ok <=>
              \/ cursor[h] = ZeroCursor
              \/ \E id \in NamedBy(cursor[h]) :
                   /\ origin[id].generation = generation
                   /\ origin[id].base + cursor[h].record + 1 >= Discarded
  BY DEF CursorPlacement
<1>. DEFINE c == cursor[h]
            n == Len(chunks)
            s == heap[chunks[1]].sequence
<1>1. /\ c \in Cursor /\ c.chunk \in Nat /\ c.record \in Nat /\ Genuine(c)
  BY DEF TypeOK, Cursor, CursorInv, CursorsGenuine
<1>2. s \in Nat /\ n \in Nat \ {0} /\ \A id \in DOMAIN heap : heap[id].sequence \in Nat
  BY SequencesTyped
<1>3. Locate(c).ok <=> \/ c = ZeroCursor
                       \/ c.generation = generation /\ c.chunk - s >= 0 /\ c.chunk - s < n
                       \/ c.generation = generation /\ c = pruneSeam
  BY <1>1, <1>2, LocateIs DEF Locate
<1>4. /\ \A id \in DOMAIN heap : /\ origin[id].base \in Nat /\ Len(heap[id].records) \in Nat
                                 /\ EndBase(id) = origin[id].base + Len(heap[id].records)
      /\ \A i \in 1..n : chunks[i] \in DOMAIN heap
  <2>1. heap \in Seq(Chunk) BY DEF TypeOK
  <2>. QED BY <2>1, ChunkTyped, OriginTyped DEF EndBase
<1>5. Discarded \in Nat
  <2>1. 1 \in 1..n BY <1>2
  <2>. QED BY <2>1, RetainedAfter
<1>6. ASSUME NEW i \in 1..n
      PROVE  heap[chunks[i]].sequence = s + i - 1 /\ origin[chunks[i]].generation = generation
  BY OrderFacts
<1>. HIDE DEF c, n, s
<1>7. ASSUME c.generation = generation, c.chunk - s >= 0, c.chunk - s < n
      PROVE  \E id \in NamedBy(c) : /\ origin[id].generation = generation
                                    /\ origin[id].base + c.record + 1 >= Discarded
  <2>. DEFINE i == c.chunk - s + 1
  <2>1. i \in 1..n /\ s + i - 1 = c.chunk BY <1>1, <1>2, <1>7
  <2>. HIDE DEF i
  <2>2. chunks[i] \in NamedBy(c) BY <1>4, <1>6, <1>7, <2>1 DEF NamedBy
  <2>3. origin[chunks[i]].base \in Nat /\ Discarded <= origin[chunks[i]].base
    BY <2>1, RetainedAfter DEF n
  <2>4. origin[chunks[i]].base + c.record + 1 >= Discarded BY <1>1, <1>5, <2>3
  <2>. QED BY <1>6, <2>1, <2>2, <2>4
<1>8. ASSUME c # ZeroCursor, c = pruneSeam
      PROVE  \E id \in NamedBy(c) : /\ origin[id].generation = generation
                                    /\ origin[id].base + c.record + 1 >= Discarded
  <2>1. PICK id \in DOMAIN heap :
          /\ origin[id].generation = generation
          /\ heap[id].sequence + 1 = heap[chunks[1]].sequence
          /\ pruneSeam = [generation |-> generation, chunk |-> heap[id].sequence,
                          record |-> Len(heap[id].records) - 1]
    BY <1>8 DEF CursorInv, SeamNamed
  <2>2. heap[id].sequence + 1 = s BY <2>1 DEF s
  <2>3. EndBase(id) = Discarded
    <3>1. ~ \E i \in DOMAIN chunks : id = chunks[i]
      <4>1. ASSUME NEW i \in 1..n, id = chunks[i] PROVE FALSE
        <5>1. heap[id].sequence = s + i - 1 BY <1>6, <4>1
        <5>. QED BY <1>2, <2>2, <5>1
      <4>2. DOMAIN chunks = 1..n BY OriginTyped DEF n
      <4>. QED BY <4>1, <4>2
    <3>2. ~(heap[id].sequence + 1 < s) BY <1>2, <2>2
    <3>. QED BY <2>1, <3>1, <3>2 DEF CursorInv, DiscardedBehind, s
  <2>4. id \in NamedBy(c) /\ c.record = Len(heap[id].records) - 1
    BY <1>8, <2>1 DEF NamedBy
  <2>5. origin[id].base + c.record + 1 >= Discarded BY <1>1, <1>4, <1>5, <2>3, <2>4
  <2>. QED BY <2>1, <2>4, <2>5
<1>9. ASSUME c # ZeroCursor, NEW id \in NamedBy(c), origin[id].generation = generation,
             origin[id].base + c.record + 1 >= Discarded
      PROVE  /\ c.generation = generation
             /\ (c.chunk - s >= 0 /\ c.chunk - s < n) \/ c = pruneSeam
  <2>1. /\ id \in DOMAIN heap /\ origin[id].generation = c.generation
        /\ heap[id].sequence = c.chunk
    BY DEF NamedBy
  <2>2. c.record < Len(heap[id].records) BY <1>1, <1>9, <2>1, NamedInside
  <2>3. CASE \E i \in DOMAIN chunks : id = chunks[i]
    <3>1. PICK i \in 1..n : id = chunks[i] BY <2>3, OriginTyped DEF n
    <3>2. c.chunk = s + i - 1 BY <1>6, <2>1, <3>1
    <3>3. c.chunk - s >= 0 /\ c.chunk - s < n BY <1>2, <3>2
    <3>. QED BY <1>9, <2>1, <3>3
  <2>4. CASE heap[id].sequence + 1 = s /\ EndBase(id) = Discarded
    <3>1. pruneSeam = [generation |-> generation, chunk |-> heap[id].sequence,
                       record |-> Len(heap[id].records) - 1]
      BY <1>9, <2>1, <2>4, SeamIs DEF s
    <3>2. EndBase(id) = origin[id].base + Len(heap[id].records) /\ EndBase(id) = Discarded
          /\ origin[id].base \in Nat /\ Len(heap[id].records) \in Nat
      BY <1>4, <2>1, <2>4
    <3>3. c.record = Len(heap[id].records) - 1
      BY <1>1, <1>9, <2>2, <3>2
    <3>4. c = [generation |-> generation, chunk |-> heap[id].sequence,
               record |-> Len(heap[id].records) - 1]
      BY <1>1, <1>9, <2>1, <3>3 DEF Cursor
    <3>. QED BY <1>9, <2>1, <3>1, <3>4
  <2>5. CASE EndBase(id) < Discarded
    <3>1. EndBase(id) = origin[id].base + Len(heap[id].records)
          /\ origin[id].base \in Nat /\ Len(heap[id].records) \in Nat
      BY <1>4, <2>1
    <3>. QED BY <1>1, <1>5, <1>9, <2>2, <2>5, <3>1
  <2>. QED BY <1>9, <2>1, <2>3, <2>4, <2>5 DEF CursorInv, DiscardedBehind, s
<1>. QED BY <1>3, <1>7, <1>8, <1>9 DEF c

-----------------------------------------------------------------------------
(* What Prune keeps.                                                       *)

\* A cursor that Prune was given is at or after the chunks it discards, or is
\* the last record of the last of them.
LEMMA DiscardBehind ==
  ASSUME TypeOK, CursorInv, NEW S \in SUBSET Holders, NEW h \in S, Prune(S)
  PROVE  LET d == Discardable(S)
             at == Locate(cursor[h])
         IN \/ at.chunk >= d
            \/ at.chunk = d - 1 /\ at.boundary >= Len(heap[chunks[d]].records) - 1
<1>. DEFINE placed == { Locate(cursor[g]) : g \in S }
            least == Earliest(placed)
            at == Locate(cursor[h])
            d == Discardable(S)
<1>1. \A p \in placed : p.chunk \in Nat /\ p.boundary \in Int /\ p.boundary >= -1
  <2>1. \A g \in S : /\ Locate(cursor[g]).chunk \in 0..(Len(chunks) - 1)
                     /\ Locate(cursor[g]).boundary \in Int /\ Locate(cursor[g]).boundary >= -1
    BY LocateTyped
  <2>2. Len(chunks) \in Nat BY SequencesTyped
  <2>3. \A g \in S : Locate(cursor[g]).chunk \in Nat BY <2>1, <2>2
  <2>. QED BY <2>1, <2>3
<1>2. at \in placed /\ placed # {} OBVIOUS
<1>3. d = IF /\ least.chunk < Len(chunks) - 1
             /\ least.boundary = Len(heap[chunks[least.chunk + 1]].records) - 1
          THEN least.chunk + 1 ELSE least.chunk
  BY DEF Discardable
<1>. HIDE DEF placed, at, d
<1>4. /\ least \in placed
      /\ least.chunk < at.chunk \/ (least.chunk = at.chunk /\ least.boundary <= at.boundary)
  BY <1>1, <1>2, EarliestIs
<1>5. /\ least.chunk \in Nat /\ least.boundary \in Int /\ at.chunk \in Nat /\ at.boundary \in Int
  BY <1>1, <1>2, <1>4
<1>. HIDE DEF least
<1>6. CASE d = least.chunk
  <2>1. at.chunk >= d BY <1>4, <1>5, <1>6
  <2>. QED BY <2>1 DEF at, d
<1>7. CASE d = least.chunk + 1 /\ least.boundary = Len(heap[chunks[least.chunk + 1]].records) - 1
  <2>1. CASE least.chunk < at.chunk
    <3>1. at.chunk >= d BY <1>5, <1>7, <2>1
    <3>. QED BY <3>1 DEF at, d
  <2>2. CASE least.chunk = at.chunk /\ least.boundary <= at.boundary
    <3>1. least.boundary = Len(heap[chunks[d]].records) - 1 BY <1>7
    <3>2. Len(heap[chunks[d]].records) - 1 \in Int BY <1>5, <3>1
    <3>3. at.chunk = d - 1 BY <1>5, <1>7, <2>2
    <3>4. at.boundary >= Len(heap[chunks[d]].records) - 1 BY <1>5, <2>2, <3>1, <3>2
    <3>. QED BY <3>3, <3>4 DEF at, d
  <2>. QED BY <1>4, <2>1, <2>2
<1>. QED BY <1>3, <1>6, <1>7

\* Every cursor that Prune was given places after it.
LEMMA PruneKeepsPlaced ==
  ASSUME TypeOK, CursorInv, NEW S \in SUBSET Holders, NEW h \in S, Prune(S)
  PROVE  (Locate(cursor[h]).ok)'
<1>. DEFINE n == Len(chunks)
            s == heap[chunks[1]].sequence
            c == cursor[h]
            at == Locate(c)
<1>1. /\ UNCHANGED <<generation, heap, cursor>> /\ at.ok
  BY DEF Prune, holding
<1>2. PICK d \in 1..(n - 1) :
        /\ d = Discardable(S) /\ chunks' \in Seq(DOMAIN heap) /\ Len(chunks') = n - d
        /\ \A i \in 1..(n - d) : chunks'[i] = chunks[d + i]
        /\ pruneSeam' = [generation |-> generation, chunk |-> heap[chunks[d]].sequence,
                         record |-> Len(heap[chunks[d]].records) - 1]
        /\ Len(heap[chunks[d]].records) \in Nat \ {0}
  <2>1. S # {} OBVIOUS
  <2>. QED BY <2>1, PruneIs
<1>3. /\ c \in Cursor /\ c.generation \in Nat /\ c.chunk \in Nat /\ c.record \in Nat /\ Genuine(c)
  BY DEF TypeOK, Cursor, CursorInv, CursorsGenuine
<1>4. s \in Nat /\ n \in Nat \ {0} BY SequencesTyped
<1>5. /\ at.chunk \in 0..(n - 1)
      /\ \/ c # ZeroCursor /\ c.generation = generation /\ at.chunk = c.chunk - s
            /\ at.boundary = c.record
         \/ at.chunk = 0 /\ at.boundary = -1
  BY <1>1, <1>3, <1>4, LocateIs DEF Locate
<1>6. \/ at.chunk >= d
      \/ at.chunk = d - 1 /\ at.boundary >= Len(heap[chunks[d]].records) - 1
  BY <1>2, DiscardBehind
<1>7. /\ heap[chunks[d]].sequence = s + d - 1 /\ heap[chunks[d + 1]].sequence = s + d
      /\ origin[chunks[d]].generation = generation /\ chunks[d] \in DOMAIN heap
  <2>1. d \in 1..n /\ d + 1 \in 1..n BY <1>4
  <2>2. /\ heap[chunks[d]].sequence = s + d - 1 /\ heap[chunks[d + 1]].sequence = s + (d + 1) - 1
        /\ origin[chunks[d]].generation = generation /\ chunks[d] \in DOMAIN heap
    BY <2>1, OrderFacts, OriginTyped
  <2>3. s + (d + 1) - 1 = s + d BY <1>4
  <2>. QED BY <2>2, <2>3
<1>8. chunks'[1] = chunks[d + 1]
  <2>1. 1 \in 1..(n - d) BY <1>4
  <2>. QED BY <1>2, <2>1
<1>9. (Locate(cursor[h]).ok)' <=>
        \/ c = ZeroCursor
        \/ c.generation = generation /\ c.chunk - (s + d) >= 0 /\ c.chunk - (s + d) < n - d
        \/ c.generation = generation /\ c = pruneSeam'
  <2>1. heap[chunks'[1]].sequence = s + d /\ s + d \in Nat BY <1>4, <1>7, <1>8
  <2>2. Len(chunks') = n - d /\ n - d \in Nat \ {0} BY <1>2, <1>4
  <2>3. (Locate(cursor[h]).ok)' = LocateCursor(heap, c, generation, chunks', pruneSeam').ok
    BY <1>1 DEF Locate
  <2>. HIDE DEF c, s, n
  <2>. QED BY <1>3, <2>1, <2>2, <2>3, LocateIs
<1>. HIDE DEF at, c, s, n
<1>10. CASE at.chunk = 0 /\ at.boundary = -1 BY <1>2, <1>6, <1>10
<1>11. CASE c # ZeroCursor /\ c.generation = generation /\ at.chunk = c.chunk - s
            /\ at.boundary = c.record
  <2>1. CASE at.chunk >= d
    <3>1. c.chunk - (s + d) >= 0 /\ c.chunk - (s + d) < n - d
      BY <1>3, <1>4, <1>5, <1>11, <2>1
    <3>. QED BY <1>9, <1>11, <3>1
  <2>2. CASE at.chunk = d - 1 /\ at.boundary >= Len(heap[chunks[d]].records) - 1
    <3>1. c.chunk = heap[chunks[d]].sequence BY <1>3, <1>4, <1>7, <1>11, <2>2
    <3>2. c.record < Len(heap[chunks[d]].records)
      BY <1>3, <1>7, <1>11, <3>1, NamedInside
    <3>3. c.record = Len(heap[chunks[d]].records) - 1
      <4>1. c.record >= Len(heap[chunks[d]].records) - 1 BY <1>11, <2>2
      <4>2. Len(heap[chunks[d]].records) \in Nat /\ c.record \in Nat BY <1>2, <1>3
      <4>. QED BY <3>2, <4>1, <4>2
    <3>4. c = pruneSeam' BY <1>2, <1>3, <1>11, <3>1, <3>3 DEF Cursor
    <3>. QED BY <1>9, <1>11, <3>4
  <2>. QED BY <1>6, <2>1, <2>2
<1>. QED BY <1>5, <1>10, <1>11

-----------------------------------------------------------------------------
(* Waiters.                                                                *)

Waits(c) == call[c].op \in {"find", "wait"}

\* What WaiterAccounting says of keys and callers, one by one.
LEMMA WaiterFacts ==
  ASSUME TypeOK, WaiterAccounting
  PROVE  /\ \A key \in Keys : waiters[key] # NoWaiter =>
              /\ waiters[key] \in WaiterIds /\ ~waiterHeap[waiters[key]].ready
              /\ Pending(waiters[key]) # {}
              /\ waiterHeap[waiters[key]].count = Cardinality(Pending(waiters[key]))
              /\ \A c \in Pending(waiters[key]) : call[c].key = key
         /\ \A key, other \in Keys : waiters[key] # NoWaiter /\ waiters[key] = waiters[other] => key = other
         /\ \A c \in Callers : Waits(c) =>
              waiterHeap[call[c].waiter].ready \/ waiters[call[c].key] = call[c].waiter
         /\ \A w : IsFiniteSet(Pending(w))
         /\ NoWaiter \notin WaiterIds
<1>1. \A key \in Keys : waiters[key] # NoWaiter =>
         /\ waiters[key] \in WaiterIds /\ ~waiterHeap[waiters[key]].ready
         /\ Pending(waiters[key]) # {}
         /\ waiterHeap[waiters[key]].count = Cardinality(Pending(waiters[key]))
         /\ \A c \in Pending(waiters[key]) : call[c].key = key
  <2>1. waiters \in [Keys -> WaiterIds \cup {NoWaiter}] BY DEF TypeOK
  <2>. QED BY <2>1 DEF WaiterAccounting
<1>2. ASSUME NEW key \in Keys, NEW other \in Keys, waiters[key] # NoWaiter, waiters[key] = waiters[other]
      PROVE  key = other
  <2>1. PICK c \in Pending(waiters[key]) : TRUE BY <1>1, <1>2
  <2>. QED BY <1>1, <1>2, <2>1
<1>3. ASSUME NEW c \in Callers, Waits(c), ~waiterHeap[call[c].waiter].ready
      PROVE  waiters[call[c].key] = call[c].waiter
  <2>1. call[c].waiter \in WaiterIds BY <1>3, NextTyped DEF Waits, Holders
  <2>2. c \in Pending(call[c].waiter) BY <1>3 DEF Pending, Waits
  <2>3. PICK key \in Keys : waiters[key] = call[c].waiter
    BY <1>3, <2>1, <2>2 DEF WaiterAccounting
  <2>4. waiters[key] # NoWaiter BY <2>1, <2>3 DEF WaiterIds, NoWaiter
  <2>. QED BY <1>1, <2>2, <2>3, <2>4
<1>4. ASSUME NEW w PROVE IsFiniteSet(Pending(w))
  BY HoldersAssumption, FS_Subset DEF Pending
<1>5. NoWaiter \notin WaiterIds BY DEF NoWaiter, WaiterIds
<1>. QED BY <1>1, <1>2, <1>3, <1>4, <1>5

\* A step that moves no caller between waiters and touches no waiter.
LEMMA WaitersKept ==
  ASSUME WaiterAccounting, UNCHANGED waiting,
         \A c \in Callers : Waits(c)' = Waits(c)
           /\ (Waits(c) => call'[c].waiter = call[c].waiter /\ call'[c].key = call[c].key)
  PROVE  WaiterAccounting'
<1>1. waiters' = waiters /\ waiterHeap' = waiterHeap BY DEF waiting
<1>2. \A w : Pending(w)' = Pending(w) BY DEF Pending, Waits
<1>3. \A w : \A c \in Pending(w) : call'[c].key = call[c].key BY DEF Pending, Waits
<1>. QED BY <1>1, <1>2, <1>3 DEF WaiterAccounting

\* WaiterAccounting after a step, one key and one waiter at a time.
LEMMA Accounted ==
  ASSUME \A key \in Keys : \A w : w = waiters'[key] /\ w # NoWaiter =>
           /\ ~waiterHeap'[w].ready /\ Pending(w)' # {}
           /\ waiterHeap'[w].count = Cardinality(Pending(w)')
           /\ \A c \in Pending(w)' : call'[c].key = key,
         \A w \in WaiterIds : Pending(w)' # {} =>
           waiterHeap'[w].ready \/ \E key \in Keys : waiters'[key] = w
  PROVE  WaiterAccounting'
<1>1. ASSUME NEW key \in Keys, waiters'[key] # NoWaiter
      PROVE  /\ ~waiterHeap'[waiters'[key]].ready
             /\ Pending(waiters[key])' # {}
             /\ waiterHeap'[waiters'[key]].count = Cardinality(Pending(waiters[key])')
             /\ \A c \in Pending(waiters[key])' : call'[c].key = key
  <2>. PICK w : w = waiters'[key] OBVIOUS
  <2>1. Pending(waiters[key])' = Pending(w)' BY DEF Pending
  <2>. QED BY <1>1, <2>1
<1>. QED BY <1>1 DEF WaiterAccounting

\* appendFrame wakes everyone who waits for its key, and drops their waiter.
LEMMA WokenAccounted ==
  ASSUME TypeOK, WaiterAccounting, NEW key \in Keys, NEW event, NEW at,
         WakeWaiters(key, event, at), call' = call
  PROVE  WaiterAccounting'
<1>1. CASE waiters[key] = NoWaiter
  <2>1. UNCHANGED waiting BY <1>1 DEF WakeWaiters
  <2>. QED BY <2>1, WaitersKept DEF Waits
<1>2. CASE waiters[key] # NoWaiter
  <2>. PICK w : w = waiters[key] OBVIOUS
  <2>1. w \in WaiterIds /\ \A k \in Keys : waiters[k] = w => k = key BY <1>2, WaiterFacts
  <2>2. /\ waiters \in [Keys -> WaiterIds \cup {NoWaiter}] /\ waiterHeap \in [WaiterIds -> CaptureWaiter]
    BY DEF TypeOK
  <2>3. /\ waiters' = [waiters EXCEPT ![key] = NoWaiter]
        /\ waiterHeap' = [waiterHeap EXCEPT ![w] = [@ EXCEPT !.ready = TRUE, !.event = event, !.cursor = at]]
    BY <1>2 DEF WakeWaiters
  <2>4. waiterHeap'[w].ready /\ \A v \in WaiterIds : v # w => waiterHeap'[v] = waiterHeap[v]
    <3>1. waiterHeap'[w] = [waiterHeap[w] EXCEPT !.ready = TRUE, !.event = event, !.cursor = at]
      BY <2>1, <2>2, <2>3
    <3>2. waiterHeap[w] \in CaptureWaiter BY <2>1, <2>2
    <3>3. waiterHeap'[w].ready BY <3>1, <3>2 DEF CaptureWaiter
    <3>. QED BY <2>1, <2>2, <2>3, <3>3
  <2>5. waiters'[key] = NoWaiter /\ \A k \in Keys : k # key => waiters'[k] = waiters[k] BY <2>2, <2>3
  <2>6. \A v : Pending(v)' = Pending(v) BY DEF Pending
  <2>7. ASSUME NEW k \in Keys, NEW v, v = waiters'[k], v # NoWaiter
        PROVE  /\ ~waiterHeap'[v].ready /\ Pending(v)' # {}
               /\ waiterHeap'[v].count = Cardinality(Pending(v)')
               /\ \A c \in Pending(v)' : call'[c].key = k
    <3>1. k # key /\ v = waiters[k] BY <2>5, <2>7
    <3>2. v \in WaiterIds /\ v # w BY <2>1, <2>7, <3>1, WaiterFacts
    <3>3. /\ ~waiterHeap[v].ready /\ Pending(v) # {}
          /\ waiterHeap[v].count = Cardinality(Pending(v))
          /\ \A c \in Pending(v) : call[c].key = k
      BY <2>7, <3>1, WaiterFacts
    <3>. QED BY <2>4, <2>6, <3>2, <3>3
  <2>8. ASSUME NEW v \in WaiterIds, Pending(v) # {}
        PROVE  waiterHeap'[v].ready \/ \E k \in Keys : waiters'[k] = v
    <3>1. CASE v = w BY <2>4, <3>1
    <3>2. CASE v # w BY <2>4, <2>5, <2>8, <3>2 DEF WaiterAccounting
    <3>. QED BY <3>1, <3>2
  <2>. QED BY <2>6, <2>7, <2>8, Accounted
<1>. QED BY <1>1, <1>2

\* addWaiter counts its caller, under the key's waiter or a new one.
LEMMA AddedAccounted ==
  ASSUME TypeOK, WaiterAccounting, NEW c \in Callers, NEW key \in Keys, AddWaiter(c, key)
  PROVE  WaiterAccounting'
<1>. DEFINE known == waiters[key] # NoWaiter
            Object(w) == IF known THEN [waiterHeap[w] EXCEPT !.count = @ + 1]
                         ELSE [NewCaptureWaiter EXCEPT !.count = 1]
<1>1. PICK w \in IF known THEN {waiters[key]}
                 ELSE { w \in UnusedWaiters : \A v \in UnusedWaiters : w <= v } :
        /\ waiters' = [waiters EXCEPT ![key] = w]
        /\ waiterHeap' = [waiterHeap EXCEPT ![w] = Object(w)]
        /\ call' = [call EXCEPT ![c] =
             [op |-> "find", key |-> key, waiter |-> w, snapshot |-> Snapshot]]
  BY Zenon DEF AddWaiter
<1>2. /\ waiters \in [Keys -> WaiterIds \cup {NoWaiter}] /\ waiterHeap \in [WaiterIds -> CaptureWaiter]
      /\ call \in [Holders -> CallType] /\ c \in Holders /\ call[c] = Idle
  BY DEF TypeOK, Holders, AddWaiter
<1>3. ~Waits(c) BY <1>2 DEF Idle, Waits
<1>4. w \in WaiterIds /\ \A k \in Keys : waiters[k] = w => k = key
  <2>1. CASE known BY <1>1, <2>1, WaiterFacts
  <2>2. CASE ~known
    <3>1. w \in UnusedWaiters BY <1>1, <2>2
    <3>. QED BY <3>1 DEF UnusedWaiters
  <2>. QED BY <2>1, <2>2
<1>5. ~known => Pending(w) = {}
  <2>. SUFFICES ASSUME ~known, NEW d \in Pending(w) PROVE FALSE OBVIOUS
  <2>1. w \in UnusedWaiters BY <1>1
  <2>2. d \in Callers /\ Waits(d) /\ call[d].waiter = w BY DEF Pending, Waits
  <2>3. call[d] # Idle BY <2>2 DEF Waits, Idle
  <2>. QED BY <2>1, <2>2, <2>3 DEF UnusedWaiters
<1>6. /\ \A d \in Callers : d # c => call'[d] = call[d]
      /\ call'[c] = [op |-> "find", key |-> key, waiter |-> w, snapshot |-> Snapshot]
  <2>1. Callers \subseteq Holders BY DEF Holders
  <2>. QED BY <1>1, <1>2, <2>1
<1>7. Pending(w)' = Pending(w) \cup {c} /\ c \notin Pending(w)
  BY <1>3, <1>6 DEF Pending, Waits
<1>8. \A v : v # w => Pending(v)' = Pending(v)
  BY <1>3, <1>6 DEF Pending, Waits
<1>9. waiters'[key] = w /\ \A k \in Keys : k # key => waiters'[k] = waiters[k] BY <1>1, <1>2, <1>4
<1>10. \A v \in WaiterIds : v # w => waiterHeap'[v] = waiterHeap[v] BY <1>1, <1>2, <1>4
<1>11. /\ ~waiterHeap'[w].ready /\ waiterHeap'[w].count = Cardinality(Pending(w)) + 1
       /\ \A d \in Pending(w) : call[d].key = key
  <2>1. waiterHeap'[w] = Object(w) BY <1>1, <1>2, <1>4
  <2>2. CASE known
    <3>1. /\ ~waiterHeap[w].ready /\ waiterHeap[w].count = Cardinality(Pending(w))
          /\ \A d \in Pending(w) : call[d].key = key
      BY <1>1, <2>2, WaiterFacts
    <3>2. waiterHeap[w] \in CaptureWaiter BY <1>2, <1>4
    <3>3. waiterHeap'[w] = [waiterHeap[w] EXCEPT !.count = waiterHeap[w].count + 1] BY <2>1, <2>2
    <3>4. waiterHeap'[w].ready = waiterHeap[w].ready /\ waiterHeap'[w].count = waiterHeap[w].count + 1
      BY <3>2, <3>3 DEF CaptureWaiter
    <3>. QED BY <3>1, <3>4
  <2>3. CASE ~known
    <3>1. Pending(w) = {} /\ Cardinality(Pending(w)) = 0 BY <1>5, <2>3, FS_EmptySet
    <3>2. waiterHeap'[w] = [count |-> 1, ready |-> FALSE, event |-> None, cursor |-> ZeroCursor]
      BY <2>1, <2>3 DEF NewCaptureWaiter
    <3>. QED BY <3>1, <3>2
  <2>. QED BY <2>2, <2>3
<1>12. Cardinality(Pending(w)') = Cardinality(Pending(w)) + 1
  <2>1. IsFiniteSet(Pending(w)) BY WaiterFacts
  <2>. QED BY <1>7, <2>1, FS_AddElement
<1>13. ASSUME NEW k \in Keys, NEW v, v = waiters'[k], v # NoWaiter
       PROVE  /\ ~waiterHeap'[v].ready /\ Pending(v)' # {}
              /\ waiterHeap'[v].count = Cardinality(Pending(v)')
              /\ \A d \in Pending(v)' : call'[d].key = k
  <2>1. CASE k = key
    <3>1. v = w BY <1>9, <1>13, <2>1
    <3>2. \A d \in Pending(w)' : call'[d].key = key BY <1>6, <1>7, <1>11 DEF Pending
    <3>. QED BY <1>7, <1>11, <1>12, <2>1, <3>1, <3>2
  <2>2. CASE k # key
    <3>1. v = waiters[k] /\ v # w BY <1>4, <1>9, <1>13, <2>2
    <3>2. /\ v \in WaiterIds /\ ~waiterHeap[v].ready /\ Pending(v) # {}
          /\ waiterHeap[v].count = Cardinality(Pending(v))
          /\ \A d \in Pending(v) : call[d].key = k
      BY <1>13, <3>1, WaiterFacts
    <3>3. c \notin Pending(v) /\ Pending(v) \subseteq Callers BY <1>3 DEF Pending, Waits
    <3>4. \A d \in Pending(v) : call'[d].key = k BY <1>6, <3>2, <3>3
    <3>. QED BY <1>8, <1>10, <3>1, <3>2, <3>4
  <2>. QED BY <2>1, <2>2
<1>14. ASSUME NEW v \in WaiterIds, Pending(v)' # {}
       PROVE  waiterHeap'[v].ready \/ \E k \in Keys : waiters'[k] = v
  <2>1. CASE v = w BY <1>9, <2>1
  <2>2. CASE v # w
    <3>1. waiterHeap[v].ready \/ \E k \in Keys : waiters[k] = v
      BY <1>8, <1>14, <2>2 DEF WaiterAccounting
    <3>2. ASSUME waiters[key] = v PROVE FALSE
      <4>1. v # NoWaiter BY WaiterFacts
      <4>. QED BY <1>1, <2>2, <3>2, <4>1
    <3>. QED BY <1>9, <1>10, <2>2, <3>1, <3>2
  <2>. QED BY <2>1, <2>2
<1>. QED BY <1>13, <1>14, Accounted

\* A caller that leaves: removeWaiter counts it out, and the last one takes
\* the waiter with it.
LEMMA LeavesAccounted ==
  ASSUME TypeOK, WaiterAccounting, NEW c \in Callers, Waits(c), RemoveWaiter(c),
         call' = [call EXCEPT ![c] = Idle]
  PROVE  WaiterAccounting'
<1>. PICK w, key : w = call[c].waiter /\ key = call[c].key OBVIOUS
<1>. DEFINE objects == [waiterHeap EXCEPT ![w].count = @ - 1]
<1>1. /\ waiters \in [Keys -> WaiterIds \cup {NoWaiter}] /\ waiterHeap \in [WaiterIds -> CaptureWaiter]
      /\ call \in [Holders -> CallType] /\ c \in Holders
  BY DEF TypeOK, Holders
<1>2. w \in WaiterIds /\ key \in Keys BY <1>1, NextTyped DEF Waits
<1>3. call'[c] = Idle /\ \A d \in Callers : d # c => call'[d] = call[d]
  <2>1. Callers \subseteq Holders BY DEF Holders
  <2>. QED BY <1>1, <2>1
<1>4. c \in Pending(w) /\ Pending(w)' = Pending(w) \ {c}
  BY <1>3 DEF Pending, Waits, Idle
<1>5. \A v : v # w => Pending(v)' = Pending(v)
  BY <1>3 DEF Pending, Idle
<1>6. IsFiniteSet(Pending(w)) BY WaiterFacts
<1>7. \A v : \A d \in Pending(v)' : d \in Pending(v) /\ call'[d] = call[d]
  BY <1>3 DEF Pending, Idle
<1>8. /\ \A v \in WaiterIds : v # w => waiterHeap'[v] = waiterHeap[v]
      /\ Pending(w) # {c} => waiterHeap'[w] = IF waiters[key] = w THEN objects[w] ELSE waiterHeap[w]
  <2>1. /\ waiters[key] # w => waiterHeap' = Collected(c, waiterHeap)
        /\ waiters[key] = w => waiterHeap' = Collected(c, objects)
    BY DEF RemoveWaiter
  <2>2. objects \in [WaiterIds -> CaptureWaiter] /\ \A v \in WaiterIds : v # w => objects[v] = waiterHeap[v]
    BY <1>1, <1>2 DEF CaptureWaiter
  <2>. HIDE DEF objects
  <2>. QED BY <1>1, <1>2, <2>1, <2>2 DEF Collected
<1>9. Pending(w) = {c} => Pending(w)' = {} BY <1>4
<1>10. CASE waiters[key] # w
  <2>1. waiters' = waiters BY <1>10 DEF RemoveWaiter
  <2>2. waiterHeap[w].ready BY <1>10, WaiterFacts
  <2>3. ASSUME NEW k \in Keys, NEW v, v = waiters'[k], v # NoWaiter
        PROVE  /\ ~waiterHeap'[v].ready /\ Pending(v)' # {}
               /\ waiterHeap'[v].count = Cardinality(Pending(v)')
               /\ \A d \in Pending(v)' : call'[d].key = k
    <3>1. /\ v \in WaiterIds /\ ~waiterHeap[v].ready /\ Pending(v) # {}
          /\ waiterHeap[v].count = Cardinality(Pending(v))
          /\ \A d \in Pending(v) : call[d].key = k
      BY <2>1, <2>3, WaiterFacts
    <3>2. v # w BY <2>2, <3>1
    <3>. QED BY <1>5, <1>7, <1>8, <3>1, <3>2
  <2>4. ASSUME NEW v \in WaiterIds, Pending(v)' # {}
        PROVE  waiterHeap'[v].ready \/ \E k \in Keys : waiters'[k] = v
    <3>1. CASE v = w BY <1>8, <1>9, <1>10, <2>2, <2>4, <3>1
    <3>2. CASE v # w BY <1>5, <1>8, <2>1, <2>4, <3>2 DEF WaiterAccounting
    <3>. QED BY <3>1, <3>2
  <2>. QED BY <2>3, <2>4, Accounted
<1>11. CASE waiters[key] = w
  <2>1. /\ ~waiterHeap[w].ready /\ waiterHeap[w].count = Cardinality(Pending(w))
        /\ \A d \in Pending(w) : call[d].key = key
        /\ \A k \in Keys : waiters[k] = w => k = key
    BY <1>2, <1>11, WaiterFacts
  <2>2. objects[w].count = waiterHeap[w].count - 1 /\ objects[w].ready = waiterHeap[w].ready
    <3>1. objects[w] = [waiterHeap[w] EXCEPT !.count = waiterHeap[w].count - 1] BY <1>1, <1>2
    <3>2. waiterHeap[w] \in CaptureWaiter BY <1>1, <1>2
    <3>. HIDE DEF objects
    <3>. QED BY <3>1, <3>2 DEF CaptureWaiter
  <2>3. objects[w].count = Cardinality(Pending(w)')
    BY <1>4, <1>6, <2>1, <2>2, FS_RemoveElement
  <2>4. objects[w].count = 0 <=> Pending(w)' = {}
    BY <1>4, <1>6, <2>3, FS_RemoveElement, FS_EmptySet
  <2>5. waiters' = IF objects[w].count = 0 THEN [waiters EXCEPT ![key] = NoWaiter] ELSE waiters
    BY <1>11 DEF RemoveWaiter
  <2>. HIDE DEF objects
  <2>6. /\ \A k \in Keys : k # key => waiters'[k] = waiters[k]
        /\ waiters'[key] = IF Pending(w)' = {} THEN NoWaiter ELSE w
    BY <1>1, <1>2, <1>11, <2>4, <2>5
  <2>7. Pending(w)' # {} => waiterHeap'[w] = objects[w] BY <1>8, <1>9, <1>11
  <2>8. ASSUME NEW k \in Keys, NEW v, v = waiters'[k], v # NoWaiter
        PROVE  /\ ~waiterHeap'[v].ready /\ Pending(v)' # {}
               /\ waiterHeap'[v].count = Cardinality(Pending(v)')
               /\ \A d \in Pending(v)' : call'[d].key = k
    <3>1. CASE k = key
      <4>1. v = w /\ Pending(w)' # {} BY <2>6, <2>8, <3>1
      <4>. QED BY <1>7, <2>1, <2>2, <2>3, <2>7, <3>1, <4>1
    <3>2. CASE k # key
      <4>1. v = waiters[k] /\ v # w BY <2>1, <2>6, <2>8, <3>2
      <4>2. /\ v \in WaiterIds /\ ~waiterHeap[v].ready /\ Pending(v) # {}
            /\ waiterHeap[v].count = Cardinality(Pending(v))
            /\ \A d \in Pending(v) : call[d].key = k
        BY <2>8, <4>1, WaiterFacts
      <4>. QED BY <1>5, <1>7, <1>8, <4>1, <4>2
    <3>. QED BY <3>1, <3>2
  <2>9. ASSUME NEW v \in WaiterIds, Pending(v)' # {}
        PROVE  waiterHeap'[v].ready \/ \E k \in Keys : waiters'[k] = v
    <3>1. CASE v = w BY <1>2, <2>6, <2>9, <3>1
    <3>2. CASE v # w
      <4>1. waiterHeap[v].ready \/ \E k \in Keys : waiters[k] = v
        BY <1>5, <2>9, <3>2 DEF WaiterAccounting
      <4>2. \A k \in Keys : waiters[k] = v => k # key BY <1>11, <3>2
      <4>. QED BY <1>8, <2>6, <3>2, <4>1, <4>2
    <3>. QED BY <3>1, <3>2
  <2>. QED BY <2>8, <2>9, Accounted
<1>. QED BY <1>10, <1>11

\* No call of Next is in progress and no waiter registered at the start.
LEMMA InitAccounted == Init => WaiterAccounting
<1>. SUFFICES ASSUME Init PROVE WaiterAccounting OBVIOUS
<1>1. \A key \in Keys : waiters[key] = NoWaiter BY DEF Init
<1>2. \A w : Pending(w) = {}
  <2>1. \A c \in Callers : call[c] = Idle BY DEF Init, Holders
  <2>. QED BY <2>1 DEF Pending, Idle
<1>. QED BY <1>1, <1>2 DEF WaiterAccounting

\* A step of a reader, or of a goroutine between calls, moves no caller.
LEMMA OthersAccounted ==
  ASSUME TypeOK, WaiterAccounting, UNCHANGED waiting,
         \/ call' = call
         \/ \E r \in Readers : call' = [call EXCEPT ![r] = call'[r]]
         \/ \E c \in Callers : call[c].op = "find" /\ call' = [call EXCEPT ![c].op = "wait"]
  PROVE  WaiterAccounting'
<1>0. call \in [Holders -> CallType] /\ Callers \subseteq Holders BY DEF TypeOK, Holders
<1>1. CASE call' = call BY <1>1, WaitersKept DEF Waits
<1>2. ASSUME NEW r \in Readers, call' = [call EXCEPT ![r] = call'[r]] PROVE WaiterAccounting'
  <2>1. \A c \in Callers : c # r BY HoldersAssumption
  <2>2. \A c \in Callers : call'[c] = call[c] BY <1>0, <1>2, <2>1
  <2>. QED BY <2>2, WaitersKept DEF Waits
<1>3. ASSUME NEW c \in Callers, call[c].op = "find", call' = [call EXCEPT ![c].op = "wait"]
      PROVE  WaiterAccounting'
  <2>1. /\ call[c] = [op |-> call[c].op, key |-> call[c].key, waiter |-> call[c].waiter,
                      snapshot |-> call[c].snapshot]
    BY <1>0, <1>3, NextTyped
  <2>2. call'[c] = [call[c] EXCEPT !.op = "wait"] BY <1>0, <1>3
  <2>3. call'[c].op = "wait" /\ call'[c].waiter = call[c].waiter /\ call'[c].key = call[c].key
    BY <2>1, <2>2
  <2>4. \A d \in Callers : d # c => call'[d] = call[d] BY <1>0, <1>3
  <2>. QED BY <1>3, <2>3, <2>4, WaitersKept DEF Waits
<1>. QED BY <1>1, <1>2, <1>3

\* Every step keeps the accounting.
LEMMA StepAccounted == TypeOK /\ WaiterAccounting /\ [Next]_vars => WaiterAccounting'
<1>. SUFFICES ASSUME TypeOK, WaiterAccounting, [Next]_vars PROVE WaiterAccounting' OBVIOUS
<1>1. ASSUME NEW frame \in Frames, AppendFrame(frame) PROVE WaiterAccounting'
  <2>1. frame.key \in Keys BY InputAssumption, FrameTyped
  <2>2. call' = call /\ \E event, at : WakeWaiters(frame.key, event, at)
    BY <1>1 DEF AppendFrame, Store, holding
  <2>. QED BY <2>1, <2>2, WokenAccounted
<1>2. ASSUME NEW event \in Events, AppendEvent(event) PROVE WaiterAccounting'
  <2>1. call' = call /\ UNCHANGED waiting BY <1>2 DEF AppendEvent, Store, holding
  <2>. QED BY <2>1, OthersAccounted
<1>3. ASSUME \/ FinishAllocation \/ Clear \/ OtherCapture
             \/ \E S \in (SUBSET Holders) \ {{}} : Prune(S)
             \/ \E h \in Holders : TakeEnd(h) \/ TakeZero(h) \/ TakeForeign(h)
             \/ UNCHANGED vars
      PROVE  WaiterAccounting'
  <2>1. call' = call /\ UNCHANGED waiting
    BY <1>3 DEF FinishAllocation, Clear, OtherCapture, Prune, TakeEnd, TakeZero, TakeForeign, Hold,
                holding, vars
  <2>. QED BY <2>1, OthersAccounted
<1>4. ASSUME NEW r \in Readers, BeginRead(r) \/ EndRead(r) PROVE WaiterAccounting'
  <2>0. r \in Holders /\ call \in [Holders -> CallType] BY DEF Holders, TypeOK
  <2>1. UNCHANGED waiting /\ \E new : call' = [call EXCEPT ![r] = new]
    BY <1>4 DEF BeginRead, EndRead
  <2>2. call' = [call EXCEPT ![r] = call'[r]] BY <2>0, <2>1
  <2>. QED BY <2>1, <2>2, OthersAccounted
<1>5. ASSUME NEW c \in Callers, NEW key \in Keys, AddWaiter(c, key) PROVE WaiterAccounting'
  BY <1>5, AddedAccounted
<1>6. ASSUME NEW c \in Callers, FindHit(c) \/ Cancel(c) PROVE WaiterAccounting'
  <2>1. Waits(c) /\ RemoveWaiter(c) /\ call' = [call EXCEPT ![c] = Idle]
    BY <1>6 DEF FindHit, Cancel, Return, Waits
  <2>. QED BY <2>1, LeavesAccounted
<1>7. ASSUME NEW c \in Callers, FindMiss(c) PROVE WaiterAccounting'
  <2>1. UNCHANGED waiting /\ call[c].op = "find" /\ call' = [call EXCEPT ![c].op = "wait"]
    BY <1>7 DEF FindMiss
  <2>. QED BY <2>1, OthersAccounted
<1>8. ASSUME NEW c \in Callers, Wake(c) PROVE WaiterAccounting'
  <2>1. /\ Waits(c) /\ waiterHeap[call[c].waiter].ready /\ call' = [call EXCEPT ![c] = Idle]
        /\ waiterHeap' = Collected(c, waiterHeap) /\ UNCHANGED waiters
    BY <1>8 DEF Wake, Return, Waits
  <2>2. waiters[call[c].key] # call[c].waiter
    <3>1. call[c].key \in Keys /\ call[c].waiter \in WaiterIds BY <2>1, NextTyped DEF Waits, Holders
    <3>2. call[c].waiter # NoWaiter BY <3>1, WaiterFacts
    <3>. QED BY <2>1, <3>1, <3>2, WaiterFacts
  <2>3. RemoveWaiter(c) BY <2>1, <2>2 DEF RemoveWaiter
  <2>. QED BY <2>1, <2>3, LeavesAccounted
<1>. QED BY <1>1, <1>2, <1>3, <1>4, <1>5, <1>6, <1>7, <1>8, Zenon DEF Next

-----------------------------------------------------------------------------
(* What is decoded.                                                        *)

\* Chunk c is chunk b with more put behind its records, keys and payload.
Extends(c, b) ==
  /\ Len(b.records) <= Len(c.records) /\ \A i \in 1..Len(b.records) : c.records[i] = b.records[i]
  /\ Len(b.keys) <= Len(c.keys) /\ \A i \in 1..Len(b.keys) : c.keys[i] = b.keys[i]
  /\ Len(b.payload) <= Len(c.payload) /\ \A i \in 1..Len(b.payload) : c.payload[i] = b.payload[i]

\* A view claims no more than its chunk holds.
Inside(view, chunk) ==
  /\ view.records \in Nat /\ view.keys \in Nat /\ view.payload \in Nat
  /\ view.records <= Len(chunk.records)
  /\ view.keys <= Len(chunk.keys) /\ view.payload <= Len(chunk.payload)

\* A later view of the chunk that view sees.
Widens(wider, view) ==
  /\ wider.id = view.id
  /\ view.records <= wider.records /\ view.keys <= wider.keys /\ view.payload <= wider.payload

\* The first n elements decide what is cut out of them.
LEMMA SameCut ==
  ASSUME NEW S, NEW s \in Seq(S), NEW t \in Seq(S), Len(s) <= Len(t),
         \A i \in 1..Len(s) : t[i] = s[i], NEW m \in Nat, NEW n \in Nat, m + n <= Len(s)
  PROVE  SubSeq(t, m + 1, m + n) = SubSeq(s, m + 1, m + n)
<1>1. Len(s) \in Nat /\ Len(t) \in Nat BY LenProperties
<1>2. \A i \in m + 1 .. m + n : i \in 1..Len(s) /\ i \in 1..Len(t) BY <1>1
<1>3. CASE n = 0
  <2>1. m + 1 \in Int /\ m + n \in Int /\ m + n < m + 1 BY <1>3
  <2>. QED BY <2>1, SubSeqEmpty
<1>4. CASE n # 0
  <2>. DEFINE a == SubSeq(s, m + 1, m + n)
              b == SubSeq(t, m + 1, m + n)
  <2>1. m + 1 \in Int /\ m + n \in Int /\ m + 1 <= m + n /\ m + n - (m + 1) + 1 = n BY <1>4
  <2>2. \A i \in m + 1 .. m + n : s[i] \in S /\ t[i] \in S BY <1>2, ElementOfSeq
  <2>3. /\ a \in Seq(S) /\ Len(a) = n /\ \A i \in 1..n : a[i] = s[m + 1 + i - 1]
    BY <2>1, <2>2, SubSeqProperties
  <2>4. /\ b \in Seq(S) /\ Len(b) = n /\ \A i \in 1..n : b[i] = t[m + 1 + i - 1]
    BY <2>1, <2>2, SubSeqProperties
  <2>5. \A i \in 1..n : t[m + 1 + i - 1] = s[m + 1 + i - 1] BY <1>2
  <2>6. \A i \in 1..Len(a) : a[i] = b[i] BY <2>3, <2>4, <2>5
  <2>. HIDE DEF a, b
  <2>7. a = b BY <2>3, <2>4, <2>6, SeqEqual
  <2>. QED BY <2>7 DEF a, b
<1>. QED BY <1>3, <1>4

\* What an entry decodes to does not change when its chunk grows, through the
\* same view or a later one.
LEMMA EntryKept ==
  ASSUME NEW store, NEW later, NEW view, NEW wider, Widens(wider, view),
         store[view.id] \in Chunk, later[view.id] \in Chunk,
         Extends(later[view.id], store[view.id]),
         Inside(view, store[view.id]), Inside(wider, later[view.id]),
         NEW n \in 0..(view.records - 1), EntryAt(store, view, n) \in FrameEvent \cup Event
  PROVE  EntryAt(later, wider, n) = EntryAt(store, view, n)
<1>1. PICK b, c, records, keys, payload :
        /\ b = store[view.id] /\ c = later[view.id]
        /\ records = Len(b.records) /\ keys = Len(b.keys) /\ payload = Len(b.payload)
  OBVIOUS
<1>2. PICK vr, vk, vp, wr, wk, wp :
        /\ vr = view.records /\ vk = view.keys /\ vp = view.payload
        /\ wr = wider.records /\ wk = wider.keys /\ wp = wider.payload
  OBVIOUS
<1>3. b \in Chunk /\ c \in Chunk /\ Extends(c, b) BY <1>1
<1>4. /\ b.records \in Seq(Record) /\ b.keys \in Seq(Keys) /\ b.payload \in Seq(Bytes)
      /\ c.payload \in Seq(Bytes)
      /\ records \in Nat /\ keys \in Nat /\ payload \in Nat
  BY <1>1, <1>3, LenProperties DEF Chunk
<1>5. /\ vr \in Nat /\ vk \in Nat /\ vp \in Nat /\ wr \in Nat /\ wk \in Nat /\ wp \in Nat
      /\ vr <= records /\ vk <= keys /\ vp <= payload
      /\ vr <= wr /\ vk <= wk /\ vp <= wp
  BY <1>1, <1>2 DEF Inside, Widens
<1>6. n \in Nat /\ n < vr
  <2>1. n \in 0..(vr - 1) BY <1>2
  <2>. QED BY <1>5, <2>1
<1>7. n < wr /\ n + 1 \in 1..records
  <2>1. n < wr BY <1>5, <1>6
  <2>2. n + 1 \in Nat /\ 1 <= n + 1 /\ n + 1 <= records BY <1>4, <1>5, <1>6
  <2>. QED BY <1>4, <2>1, <2>2
<1>8. PICK record, offset, index :
        record = b.records[n + 1] /\ offset = record.word0 /\ index = record.word1
  OBVIOUS
<1>9. record = c.records[n + 1] /\ record \in Record
  BY <1>1, <1>3, <1>4, <1>7, <1>8, ElementOfSeq DEF Extends
<1>10. offset \in Nat /\ index \in Nat BY <1>8, <1>9 DEF Record
<1>11. /\ store[view.id].records[n + 1] = record /\ later[wider.id].records[n + 1] = record
       /\ n < view.records /\ n < wider.records
  BY <1>1, <1>2, <1>6, <1>7, <1>8, <1>9 DEF Widens
<1>12. CASE record.kind # "frame"
  <2>1. EntryAt(store, view, n) = EventData(record) BY <1>11, <1>12 DEF EntryAt, EventAt
  <2>2. EntryAt(later, wider, n) = EventData(record) BY <1>11, <1>12 DEF EntryAt, EventAt
  <2>. QED BY <2>1, <2>2
<1>13. CASE record.kind = "frame"
  <2>. DEFINE remote == record.detail1 = 1
              size == DataLength(record.detail0, remote)
  <2>0. PICK width : width = size OBVIOUS
  <2>. DEFINE Frame(chunk) == [kind |-> "frame", key |-> chunk.keys[index + 1],
                               dlc |-> record.detail0, remote |-> remote,
                               data |-> SubSeq(chunk.payload, offset + 1, offset + width)]
  <2>1. EntryAt(store, view, n) =
          IF index < vk /\ offset + width <= vp THEN Frame(b) ELSE Panic
    BY <1>1, <1>2, <1>8, <1>11, <1>13, <2>0 DEF EntryAt, FrameAt
  <2>2. EntryAt(later, wider, n) =
          IF index < wk /\ offset + width <= wp THEN Frame(c) ELSE Panic
    BY <1>1, <1>2, <1>8, <1>11, <1>13, <2>0 DEF Widens, EntryAt, FrameAt
  <2>3. Panic \notin FrameEvent \cup Event
    <3>1. \A f \in FrameEvent : f.kind = "frame" BY FrameTyped
    <3>2. \A e \in Event : e.kind = "event" BY EventTyped
    <3>. QED BY <3>1, <3>2 DEF Panic
  <2>4. index < vk /\ offset + width <= vp BY <2>1, <2>3
  <2>5. EntryAt(store, view, n) = Frame(b) BY <2>1, <2>4
  <2>6. width \in Nat
    <3>1. Frame(b) \in FrameEvent
      <4>1. Frame(b).kind = "frame" OBVIOUS
      <4>2. \A e \in Event : e.kind = "event" BY EventTyped
      <4>. HIDE DEF Frame
      <4>. QED BY <2>5, <4>1, <4>2
    <3>2. Frame(b).dlc \in DOMAIN DLCLength BY <3>1 DEF FrameEvent
    <3>3. record.detail0 \in DOMAIN DLCLength BY <3>2
    <3>. QED BY <2>0, <3>3, LengthAssumption DEF DataLength
  <2>. HIDE DEF size
  <2>7. index < wk /\ offset + width <= wp BY <1>5, <1>10, <2>4, <2>6
  <2>8. index + 1 \in 1..keys /\ offset + width <= payload BY <1>4, <1>5, <1>10, <2>4, <2>6
  <2>9. c.keys[index + 1] = b.keys[index + 1] BY <1>1, <1>3, <2>8 DEF Extends
  <2>10. SubSeq(c.payload, offset + 1, offset + width) = SubSeq(b.payload, offset + 1, offset + width)
    <3>1. Len(b.payload) <= Len(c.payload) /\ \A i \in 1..Len(b.payload) : c.payload[i] = b.payload[i]
      BY <1>3 DEF Extends
    <3>2. offset + width <= Len(b.payload) BY <1>1, <2>8
    <3>. QED BY <1>4, <1>10, <2>6, <3>1, <3>2, SameCut
  <2>11. Frame(c) = Frame(b) BY <2>9, <2>10
  <2>. HIDE DEF Frame
  <2>. QED BY <2>2, <2>5, <2>7, <2>11
<1>. QED BY <1>12, <1>13

\* appendFrame and appendEvent only put something behind what the chunk holds.
LEMMA PutsExtend ==
  ASSUME NEW chunk \in Chunk
  PROVE  /\ Extends(chunk, chunk)
         /\ \A frame \in FrameEvent : Extends(PutFrame(chunk, frame), chunk)
         /\ \A event \in Event : Extends(PutEvent(chunk, event), chunk)
<1>1. /\ chunk.records \in Seq(Record) /\ chunk.keys \in Seq(Keys) /\ chunk.payload \in Seq(Bytes)
      /\ Len(chunk.records) \in Nat /\ Len(chunk.keys) \in Nat /\ Len(chunk.payload) \in Nat
  BY LenProperties DEF Chunk
<1>2. Extends(chunk, chunk) BY <1>1 DEF Extends
<1>3. ASSUME NEW c, NEW k, NEW d \in Seq(Bytes), NEW r, k \in Keys,
             c.records = Append(chunk.records, r),
             c.keys = chunk.keys \/ c.keys = Append(chunk.keys, k),
             c.payload = chunk.payload \/ c.payload = chunk.payload \o d
      PROVE  Extends(c, chunk)
  <2>1. /\ Len(chunk.records) <= Len(c.records)
        /\ \A i \in 1..Len(chunk.records) : c.records[i] = chunk.records[i]
    BY <1>1, <1>3
  <2>2. /\ Len(chunk.keys) <= Len(c.keys)
        /\ \A i \in 1..Len(chunk.keys) : c.keys[i] = chunk.keys[i]
    <3>1. CASE c.keys = chunk.keys BY <1>1, <3>1
    <3>2. CASE c.keys = Append(chunk.keys, k) BY <1>1, <1>3, <3>2, AppendProperties
    <3>. QED BY <1>3, <3>1, <3>2
  <2>3. /\ Len(chunk.payload) <= Len(c.payload)
        /\ \A i \in 1..Len(chunk.payload) : c.payload[i] = chunk.payload[i]
    BY <1>1, <1>3
  <2>. QED BY <2>1, <2>2, <2>3 DEF Extends
<1>4. ASSUME NEW frame \in FrameEvent PROVE Extends(PutFrame(chunk, frame), chunk)
  <2>1. frame.key \in Keys /\ frame.data \in Seq(Bytes) BY FrameTyped
  <2>. PICK c : c = PutFrame(chunk, frame) OBVIOUS
  <2>2. /\ \E r : c.records = Append(chunk.records, r)
        /\ c.keys = chunk.keys \/ c.keys = Append(chunk.keys, frame.key)
        /\ c.payload = chunk.payload \o frame.data
    BY DEF PutFrame, Chunk
  <2>. QED BY <1>3, <2>1, <2>2
<1>5. ASSUME NEW event \in Event PROVE Extends(PutEvent(chunk, event), chunk)
  <2>. PICK c : c = PutEvent(chunk, event) OBVIOUS
  <2>2. (\E r : c.records = Append(chunk.records, r)) /\ c.keys = chunk.keys /\ c.payload = chunk.payload
    BY DEF PutEvent, Chunk
  <2>. QED BY <1>1, <2>2 DEF Extends
<1>. QED BY <1>2, <1>4, <1>5

-----------------------------------------------------------------------------
(* What a step leaves of the storage and of its history.                   *)

\* Chunks are never dropped from the heap, and only extended.
HeapExtends ==
  \A id \in DOMAIN heap :
    id \in DOMAIN heap' /\ origin'[id] = origin[id] /\ Extends(heap'[id], heap[id])

\* Neither are histories.
HistoryExtends ==
  \A g \in DOMAIN history :
    /\ g \in DOMAIN history' /\ Len(history[g]) <= Len(history'[g])
    /\ \A i \in 1..Len(history[g]) : history'[g][i] = history[g][i]

\* Everything appended is an entry.
LEMMA HistoryTyped ==
  ASSUME TypeOK, NEW g \in DOMAIN history
  PROVE  /\ DOMAIN history[g] = 1..Len(history[g]) /\ Len(history[g]) \in Nat
         /\ \A i \in DOMAIN history[g] : history[g][i] \in FrameEvent \cup Event
<1>1. history[g] \in Seq(Frames \cup Events) BY DEF TypeOK
<1>2. \A i \in DOMAIN history[g] : history[g][i] \in Frames \cup Events
  BY <1>1, ElementOfSeq, LenProperties
<1>. QED BY <1>1, <1>2, InputAssumption, LenProperties

\* The records a view covers decode to the same entries through a later view
\* of the grown chunk.
LEMMA DecodesKept ==
  ASSUME TypeOK, GenerationsOwned, heap' \in Seq(Chunk), HeapExtends, HistoryExtends,
         TypeOK', NEW view, NEW wider, Widens(wider, view), view.id \in DOMAIN heap,
         Inside(view, heap[view.id]), Inside(wider, heap'[view.id]),
         Decodes(view), NEW n \in 0..(view.records - 1)
  PROVE  /\ origin'[view.id].base + n + 1 \in DOMAIN history'[origin'[view.id].generation]
         /\ EntryAt(heap', wider, n)
              = history'[origin'[view.id].generation][origin'[view.id].base + n + 1]
<1>0. PICK id, g, at : id = view.id /\ g = origin[id].generation /\ at = origin[id].base + n + 1
  OBVIOUS
<1>1. /\ id \in DOMAIN heap' /\ origin'[id] = origin[id] /\ Extends(heap'[id], heap[id])
  BY <1>0 DEF HeapExtends
<1>2. g \in DOMAIN history BY <1>0 DEF GenerationsOwned
<1>3. at \in DOMAIN history[g] /\ EntryAt(heap, view, n) = history[g][at] BY <1>0 DEF Decodes
<1>4. /\ DOMAIN history[g] = 1..Len(history[g]) /\ Len(history[g]) \in Nat
      /\ history[g][at] \in FrameEvent \cup Event
  BY <1>2, <1>3, HistoryTyped
<1>5. heap[id] \in Chunk /\ heap'[id] \in Chunk
  BY <1>0, <1>1, ElementOfSeq, LenProperties DEF TypeOK
<1>6. EntryAt(heap', wider, n) = EntryAt(heap, view, n)
  <2>0. PICK store, later : store = heap /\ later = heap' OBVIOUS
  <2>1. /\ store[view.id] \in Chunk /\ later[view.id] \in Chunk
        /\ Extends(later[view.id], store[view.id])
        /\ Inside(view, store[view.id]) /\ Inside(wider, later[view.id])
        /\ EntryAt(store, view, n) \in FrameEvent \cup Event
    BY <1>0, <1>1, <1>3, <1>4, <1>5, <2>0
  <2>2. Widens(wider, view) /\ n \in 0..(view.records - 1) OBVIOUS
  <2>3. EntryAt(later, wider, n) = EntryAt(store, view, n) BY ONLY <2>1, <2>2, EntryKept
  <2>. QED BY <2>0, <2>3
<1>7. at \in DOMAIN history'[g] /\ history'[g][at] = history[g][at]
  <2>1. /\ g \in DOMAIN history' /\ Len(history[g]) <= Len(history'[g])
        /\ \A i \in 1..Len(history[g]) : history'[g][i] = history[g][i]
    BY <1>2 DEF HistoryExtends
  <2>2. history'[g] \in Seq(Frames \cup Events) BY <2>1 DEF TypeOK
  <2>3. DOMAIN history'[g] = 1..Len(history'[g]) /\ Len(history'[g]) \in Nat
    BY <2>2, LenProperties
  <2>0. PICK l, m : l = Len(history[g]) /\ m = Len(history'[g]) OBVIOUS
  <2>4. l \in Nat /\ m \in Nat /\ l <= m /\ at \in 1..l BY <1>3, <1>4, <2>0, <2>1, <2>3
  <2>5. at \in 1..m BY <2>4
  <2>. QED BY <1>3, <1>4, <2>0, <2>1, <2>3, <2>4, <2>5
<1>. QED BY <1>0, <1>1, <1>3, <1>6, <1>7

\* A view that the storage outgrew decodes as before.
LEMMA ViewKept ==
  ASSUME TypeOK, TypeOK', GenerationsOwned, HeapExtends, HistoryExtends,
         NEW view, view.id \in DOMAIN heap, Inside(view, heap[view.id]), Decodes(view)
  PROVE  Decodes(view)' /\ Inside(view, heap[view.id])'
<1>1. heap \in Seq(Chunk) /\ heap' \in Seq(Chunk) BY DEF TypeOK
<1>2. view.id \in DOMAIN heap' /\ Extends(heap'[view.id], heap[view.id]) BY DEF HeapExtends
<1>3. PICK b, c : b = heap[view.id] /\ c = heap'[view.id] OBVIOUS
<1>4. b \in Chunk /\ c \in Chunk BY <1>1, <1>2, <1>3, ElementOfSeq, LenProperties
<1>5. /\ Len(b.records) \in Nat /\ Len(b.keys) \in Nat /\ Len(b.payload) \in Nat
      /\ Len(c.records) \in Nat /\ Len(c.keys) \in Nat /\ Len(c.payload) \in Nat
  BY <1>4, LenProperties DEF Chunk
<1>6. Inside(view, c)
  <2>1. Inside(view, b) /\ Extends(c, b) BY <1>2, <1>3
  <2>2. /\ view.records \in Nat /\ view.keys \in Nat /\ view.payload \in Nat
        /\ view.records <= Len(b.records) /\ view.keys <= Len(b.keys)
        /\ view.payload <= Len(b.payload)
    BY <2>1 DEF Inside
  <2>3. /\ Len(b.records) <= Len(c.records) /\ Len(b.keys) <= Len(c.keys)
        /\ Len(b.payload) <= Len(c.payload)
    BY <2>1 DEF Extends
  <2>4. view.records <= Len(c.records) BY ONLY <1>5, <2>2, <2>3
  <2>5. view.keys <= Len(c.keys) BY ONLY <1>5, <2>2, <2>3
  <2>6. view.payload <= Len(c.payload) BY ONLY <1>5, <2>2, <2>3
  <2>. QED BY <2>2, <2>4, <2>5, <2>6 DEF Inside
<1>7. Inside(view, heap'[view.id]) BY <1>3, <1>6
<1>8. Widens(view, view)
  <2>1. Inside(view, b) BY <1>3
  <2>. QED BY ONLY <2>1 DEF Widens, Inside
<1>9. \A n \in 0..(view.records - 1) :
        /\ origin'[view.id].base + n + 1 \in DOMAIN history'[origin'[view.id].generation]
        /\ EntryAt(heap', view, n)
             = history'[origin'[view.id].generation][origin'[view.id].base + n + 1]
  BY <1>1, <1>7, <1>8, DecodesKept
<1>. QED BY <1>7, <1>9 DEF Decodes

\* A view of a whole chunk is inside it.
LEMMA ViewInside ==
  ASSUME NEW store \in Seq(Chunk), NEW id \in DOMAIN store
  PROVE  /\ View(store, id).id = id /\ View(store, id).records = Len(store[id].records)
         /\ Inside(View(store, id), store[id])
         /\ \A later \in Seq(Chunk) : id \in DOMAIN later /\ Extends(later[id], store[id])
              => Widens(View(later, id), View(store, id))
<1>1. \A c \in Chunk : Len(c.records) \in Nat /\ Len(c.keys) \in Nat /\ Len(c.payload) \in Nat
  <2>1. ASSUME NEW c \in Chunk PROVE c.records \in Seq(Record) /\ c.keys \in Seq(Keys) /\ c.payload \in Seq(Bytes)
    BY DEF Chunk
  <2>. QED BY <2>1, LenProperties
<1>2. store[id] \in Chunk OBVIOUS
<1>3. Inside(View(store, id), store[id]) BY <1>1, <1>2 DEF Inside, View
<1>4. ASSUME NEW later \in Seq(Chunk), id \in DOMAIN later, Extends(later[id], store[id])
      PROVE  Widens(View(later, id), View(store, id))
  BY <1>4 DEF Widens, View, Extends
<1>. QED BY <1>3, <1>4 DEF View

-----------------------------------------------------------------------------
(* An append keeps everything decoding.                                    *)

\* What the new record leaves to prove of the others: nothing else changed.
LEMMA GrowsFaithful ==
  ASSUME TypeOK, CursorInv, TypeOK', CursorInv', HeapExtends, HistoryExtends, RecordsFaithful,
         NEW C, Grows(C), NEW entry,
         history' = [history EXCEPT ![generation] = Append(@, entry)],
         EntryAt(heap', View(heap', active'), Len(C.records) - 1) = entry
  PROVE  RecordsFaithful'
<1>1. /\ heap \in Seq(Chunk) /\ heap' \in Seq(Chunk) /\ active' \in DOMAIN heap' BY DEF TypeOK
<1>2. /\ heap'[active'] = C
      /\ \A id \in DOMAIN heap' : id \in DOMAIN heap \/ id = active'
  BY GrowsHeap
<1>3. GenerationsOwned BY DEF CursorInv
\* What an old chunk held before.
<1>4. ASSUME NEW id \in DOMAIN heap, NEW n \in 0..(Len(heap[id].records) - 1)
      PROVE  /\ origin'[id].base + n + 1 \in DOMAIN history'[origin'[id].generation]
             /\ EntryAt(heap', View(heap', id), n)
                  = history'[origin'[id].generation][origin'[id].base + n + 1]
  <2>1. id \in DOMAIN heap' /\ Extends(heap'[id], heap[id]) BY DEF HeapExtends
  <2>2. PICK v, w : v = View(heap, id) /\ w = View(heap', id) OBVIOUS
  <2>3. /\ v.id = id /\ v.records = Len(heap[id].records) /\ Inside(v, heap[id])
        /\ Inside(w, heap'[id]) /\ Widens(w, v)
    BY <1>1, <2>1, <2>2, ViewInside
  <2>4. Decodes(v) BY <2>2 DEF RecordsFaithful
  <2>. QED BY <1>1, <1>3, <2>2, <2>3, <2>4, DecodesKept
\* The new record.
<1>5. PICK n : n = Len(C.records) - 1 OBVIOUS
<1>6. /\ origin'[active'].base + n + 1 \in DOMAIN history'[origin'[active'].generation]
      /\ EntryAt(heap', View(heap', active'), n)
           = history'[origin'[active'].generation][origin'[active'].base + n + 1]
  <2>1. /\ origin'[active'].base + Len(heap'[active'].records) = Len(history'[generation'])
        /\ origin'[active'].generation = generation'
    <3>1. Len(chunks') \in DOMAIN chunks'
      <4>1. chunks' \in Seq(DOMAIN heap') /\ chunks' # <<>> BY DEF TypeOK
      <4>. QED BY <4>1, EmptySeq, LenProperties
    <3>2. RetainedInOrder' BY DEF CursorInv
    <3>. QED BY <3>1, <3>2 DEF RetainedInOrder, EndBase
  <2>2. generation' = generation /\ generation \in DOMAIN history
    BY <1>3 DEF Grows, GenerationsOwned
  <2>3. history[generation] \in Seq(Frames \cup Events) BY <2>2 DEF TypeOK
  <2>4. history'[generation] = Append(history[generation], entry) BY <2>2
  <2>5. PICK log : log = history[generation] OBVIOUS
  <2>6. /\ Len(Append(log, entry)) = Len(log) + 1 /\ Len(log) \in Nat
        /\ Len(log) + 1 \in DOMAIN Append(log, entry) /\ Append(log, entry)[Len(log) + 1] = entry
    BY <2>3, <2>5
  <2>7. origin'[active'].base + n + 1 = Len(log) + 1
    <3>1. Len(C.records) \in Nat BY <1>1, <1>2, ChunkTyped
    <3>2. origin'[active'].base \in Nat
      <4>1. origin' \in Seq([generation : Nat, base : Nat]) /\ Len(origin') = Len(heap')
        BY DEF TypeOK
      <4>2. origin'[active'] \in [generation : Nat, base : Nat]
        BY <1>1, <4>1, ElementOfSeq, LenProperties
      <4>. QED BY <4>2
    <3>. QED BY <1>2, <1>5, <2>1, <2>2, <2>4, <2>5, <2>6, <3>1, <3>2
  <2>. QED BY <1>5, <2>1, <2>2, <2>4, <2>5, <2>6, <2>7
<1>7. ASSUME NEW id \in DOMAIN heap' PROVE Decodes(View(heap, id))'
  <2>1. PICK w : w = View(heap', id) OBVIOUS
  <2>2. w.id = id /\ w.records = Len(heap'[id].records) BY <1>1, <2>1, ViewInside
  <2>3. ASSUME NEW k \in 0..(w.records - 1)
        PROVE  /\ origin'[id].base + k + 1 \in DOMAIN history'[origin'[id].generation]
               /\ EntryAt(heap', w, k)
                    = history'[origin'[id].generation][origin'[id].base + k + 1]
    <3>1. CASE id \in DOMAIN heap /\ k \in 0..(Len(heap[id].records) - 1)
      BY <1>4, <2>1, <3>1
    <3>2. CASE ~(id \in DOMAIN heap /\ k \in 0..(Len(heap[id].records) - 1))
      <4>1. id = active' /\ k = n
        <5>1. Len(heap'[id].records) \in Nat BY <1>1, ChunkTyped
        <5>2. k \in Nat /\ k <= Len(heap'[id].records) - 1 BY <2>2, <2>3, <5>1
        <5>3. CASE id \notin DOMAIN heap
          <6>1. id = active' BY <1>2, <5>3
          <6>2. Len(C.records) = 1
            <7>1. active \in DOMAIN heap BY DEF TypeOK
            <7>. QED BY <5>3, <6>1, <7>1 DEF Grows
          <6>3. Len(heap'[id].records) = 1 /\ n = 0 BY <1>2, <1>5, <6>1, <6>2
          <6>4. k = 0 BY <5>2, <6>3
          <6>. QED BY <6>1, <6>3, <6>4
        <5>4. CASE id \in DOMAIN heap
          <6>1. Len(heap[id].records) \in Nat BY <1>1, <5>4, ChunkTyped
          <6>2. k > Len(heap[id].records) - 1 BY <3>2, <5>2, <5>4, <6>1
          <6>3. id = active'
            <7>1. id # active' => heap'[id] = heap[id] BY <5>4, GrowsHeap
            <7>. QED BY <5>2, <6>1, <6>2, <7>1
          <6>4. Len(C.records) = Len(heap[id].records) + 1
            BY <5>4, <6>3, GrowsList
          <6>. QED BY <1>2, <1>5, <5>2, <6>1, <6>2, <6>3, <6>4
        <5>. QED BY <5>3, <5>4
      <4>. QED BY <1>6, <2>1, <4>1
    <3>. QED BY <3>1, <3>2
  <2>4. Decodes(w)' BY <2>2, <2>3 DEF Decodes
  <2>. QED BY <2>1, <2>4 DEF Decodes
<1>. QED BY <1>7 DEF RecordsFaithful

\* An append of entry as RecordsFaithful and LatestExact see it.
Appends(entry) ==
  \E C : /\ Grows(C) /\ (active' \in DOMAIN heap => Extends(C, heap[active']))
         /\ history' = [history EXCEPT ![generation] = Append(@, entry)]
         /\ EntryAt(heap', View(heap', active'), Len(C.records) - 1) = entry

\* appendFrame appends its frame, and remembers it as the latest of its key.
LEMMA FrameAppends ==
  ASSUME TypeOK, CursorInv, NEW frame \in Frames, AppendFrame(frame)
  PROVE  /\ Appends(frame) /\ call' = call /\ latestStates' = latestStates
         /\ latest' = [latest EXCEPT ![frame.key] = frame]
<1>. DEFINE r == Rotate(Len(frame.data))
            base == r.heap[r.active]
            C == PutFrame(base, frame)
            stored == FrameAt(heap', View(heap', r.active), Len(C.records) - 1)
<1>1. /\ Store(r, C, frame) /\ latest' = [latest EXCEPT ![frame.key] = stored]
      /\ latestStates' = latestStates
  BY DEF AppendFrame
<1>2. frame \in FrameEvent /\ Len(frame.data) \in 0..MaxDataLength BY InputAssumption, FrameTyped
<1>3. Rotated(r, base) BY <1>2, RotateSound
<1>4. base \in Chunk /\ ChunkSound(base) BY <1>3 DEF Rotated
<1>. HIDE DEF r, base
<1>5. /\ C \in Chunk /\ ChunkSound(C) /\ C.sequence = base.sequence
      /\ Len(C.records) = Len(base.records) + 1 /\ Len(C.records) \in Nat
      /\ C.records[Len(C.records)].kind = "frame"
  <2>1. /\ C \in Chunk /\ ChunkSound(C) /\ C.sequence = base.sequence
        /\ Len(C.records) = Len(base.records) + 1
    BY <1>2, <1>4, PutFrameSound
  <2>2. PICK index, previous \in Nat :
          C.records[Len(C.records)] =
            FrameRecord(Len(base.payload), index, previous, frame.dlc, frame.remote)
    BY <1>2, <1>4, PutFrameSound
  <2>3. C.records[Len(C.records)].kind = "frame" BY <2>2 DEF FrameRecord
  <2>. HIDE DEF C
  <2>4. C.records \in Seq(Record) BY <2>1 DEF Chunk
  <2>. QED BY <2>1, <2>3, <2>4
<1>6. Extends(C, base) BY <1>2, <1>4, PutsExtend
<1>7. PutFrame(base, frame) = C OBVIOUS
<1>. HIDE DEF C
<1>8. Grows(C) /\ heap'[active'] = C BY <1>1, <1>3, <1>5, StoreGrows
<1>9. /\ active' = r.active /\ call' = call
      /\ history' = [history EXCEPT ![generation] = Append(@, frame)]
  BY <1>1 DEF Store, holding
<1>10. stored = frame
  <2>1. heap'[active'] = PutFrame(base, frame) BY <1>7, <1>8
  <2>2. FrameAt(heap', View(heap', active'), Len(heap'[active'].records) - 1) = frame
    BY <1>2, <1>4, <2>1, FrameDecodes
  <2>. QED BY <1>8, <1>9, <2>2
<1>11. EntryAt(heap', View(heap', active'), Len(C.records) - 1) = frame
  <2>1. View(heap', active').id = active' BY DEF View
  <2>2. Len(C.records) - 1 + 1 = Len(C.records) BY <1>5
  <2>3. heap'[View(heap', active').id].records[Len(C.records) - 1 + 1].kind = "frame"
    BY <1>5, <1>8, <2>1, <2>2
  <2>. QED BY <1>9, <1>10, <2>3 DEF EntryAt
<1>12. active' \in DOMAIN heap => Extends(C, heap[active'])
  <2>1. CASE r.heap = heap BY <1>3, <1>6, <1>9, <2>1 DEF Rotated
  <2>2. CASE r.active = Len(heap) + 1
    <3>1. heap \in Seq(Chunk) BY DEF TypeOK
    <3>. QED BY <1>9, <2>2, <3>1
  <2>. QED BY <1>3, <2>1, <2>2 DEF Rotated
<1>. QED BY <1>1, <1>8, <1>9, <1>10, <1>11, <1>12 DEF Appends

\* appendEvent appends its event, and remembers a controller state.
LEMMA EventAppends ==
  ASSUME TypeOK, CursorInv, NEW event \in Events, AppendEvent(event)
  PROVE  /\ Appends(event) /\ call' = call /\ latest' = latest
         /\ latestStates' = IF event.event = EventControllerState
                            THEN [latestStates EXCEPT ![event.bus] = event] ELSE latestStates
<1>. DEFINE r == Rotate(0)
            base == r.heap[r.active]
            C == PutEvent(base, event)
            stored == EventAt(heap', View(heap', r.active), Len(C.records) - 1)
<1>1. /\ Store(r, C, event) /\ latest' = latest
      /\ latestStates' = IF event.event = EventControllerState
                         THEN [latestStates EXCEPT ![event.bus] = stored] ELSE latestStates
  BY DEF AppendEvent
<1>2. event \in Event /\ 0 \in 0..MaxDataLength BY InputAssumption, LengthAssumption
<1>3. Rotated(r, base) BY <1>2, RotateSound
<1>4. base \in Chunk /\ ChunkSound(base) BY <1>3 DEF Rotated
<1>. HIDE DEF r, base
<1>5. /\ C \in Chunk /\ ChunkSound(C) /\ C.sequence = base.sequence
      /\ Len(C.records) = Len(base.records) + 1 /\ Len(C.records) \in Nat
      /\ C.records[Len(C.records)].kind = "event"
  <2>1. /\ C \in Chunk /\ ChunkSound(C) /\ C.sequence = base.sequence
        /\ Len(C.records) = Len(base.records) + 1
    BY <1>2, <1>4, PutEventSound
  <2>2. PICK previous \in Nat :
          C.records[Len(C.records)] = EventRecord(event.bus, previous, event.event, event.state)
    BY <1>2, <1>4, PutEventSound
  <2>3. C.records[Len(C.records)].kind = "event" BY <2>2 DEF EventRecord
  <2>. HIDE DEF C
  <2>4. C.records \in Seq(Record) BY <2>1 DEF Chunk
  <2>. QED BY <2>1, <2>3, <2>4
<1>6. Extends(C, base) BY <1>2, <1>4, PutsExtend
<1>7. PutEvent(base, event) = C OBVIOUS
<1>. HIDE DEF C
<1>8. Grows(C) /\ heap'[active'] = C BY <1>1, <1>3, <1>5, StoreGrows
<1>9. /\ active' = r.active /\ call' = call
      /\ history' = [history EXCEPT ![generation] = Append(@, event)]
  BY <1>1 DEF Store, holding
<1>10. stored = event
  <2>1. heap'[active'] = PutEvent(base, event) BY <1>7, <1>8
  <2>2. EventAt(heap', View(heap', active'), Len(heap'[active'].records) - 1) = event
    BY <1>2, <1>4, <2>1, EventDecodes
  <2>. QED BY <1>8, <1>9, <2>2
<1>11. EntryAt(heap', View(heap', active'), Len(C.records) - 1) = event
  <2>1. View(heap', active').id = active' BY DEF View
  <2>2. Len(C.records) - 1 + 1 = Len(C.records) BY <1>5
  <2>3. heap'[View(heap', active').id].records[Len(C.records) - 1 + 1].kind = "event"
    BY <1>5, <1>8, <2>1, <2>2
  <2>. QED BY <1>9, <1>10, <2>3 DEF EntryAt
<1>12. active' \in DOMAIN heap => Extends(C, heap[active'])
  <2>1. CASE r.heap = heap BY <1>3, <1>6, <1>9, <2>1 DEF Rotated
  <2>2. CASE r.active = Len(heap) + 1
    <3>1. heap \in Seq(Chunk) BY DEF TypeOK
    <3>. QED BY <1>9, <2>2, <3>1
  <2>. QED BY <1>3, <2>1, <2>2 DEF Rotated
<1>. QED BY <1>1, <1>8, <1>9, <1>10, <1>11, <1>12 DEF Appends

\* An append extends the heap and the history of its generation.
LEMMA AppendsExtend ==
  ASSUME TypeOK, CursorInv, NEW entry, Appends(entry)
  PROVE  HeapExtends /\ HistoryExtends
<1>1. PICK C : /\ Grows(C) /\ (active' \in DOMAIN heap => Extends(C, heap[active']))
               /\ history' = [history EXCEPT ![generation] = Append(@, entry)]
  BY DEF Appends
<1>2. ASSUME NEW id \in DOMAIN heap
      PROVE  id \in DOMAIN heap' /\ origin'[id] = origin[id] /\ Extends(heap'[id], heap[id])
  <2>1. id \in DOMAIN heap' /\ origin'[id] = origin[id] BY <1>1, GrowsHeap DEF HeapGrows
  <2>2. PICK b, c : b = heap[id] /\ c = heap'[id] OBVIOUS
  <2>3. CASE id = active'
    <3>1. c = C /\ Extends(C, b) BY <1>1, <2>2, <2>3, GrowsHeap
    <3>. QED BY <2>1, <2>2, <3>1
  <2>4. CASE id # active'
    <3>1. c = b BY <1>1, <2>2, <2>4, GrowsHeap
    <3>2. b \in Chunk BY <2>2, ElementOfSeq, LenProperties DEF TypeOK
    <3>3. Extends(c, b) BY <3>1, <3>2, PutsExtend
    <3>. QED BY <2>1, <2>2, <3>3
  <2>. QED BY <2>3, <2>4
<1>3. ASSUME NEW g \in DOMAIN history
      PROVE  /\ g \in DOMAIN history' /\ Len(history[g]) <= Len(history'[g])
             /\ \A i \in 1..Len(history[g]) : history'[g][i] = history[g][i]
  <2>1. PICK log : log = history[g] OBVIOUS
  <2>2. log \in Seq(Frames \cup Events) BY <2>1 DEF TypeOK
  <2>3. g \in DOMAIN history' /\ (history'[g] = log \/ history'[g] = Append(log, entry))
    BY <1>1, <2>1
  <2>4. /\ Len(log) <= Len(log) /\ Len(log) <= Len(Append(log, entry))
        /\ \A i \in 1..Len(log) : Append(log, entry)[i] = log[i]
    BY <2>2
  <2>. QED BY <2>1, <2>3, <2>4
<1>. QED BY <1>2, <1>3 DEF HeapExtends, HistoryExtends

-----------------------------------------------------------------------------
(* The latest entries.                                                     *)

\* After an append the last hit is the new entry, or the one it was.
LEMMA LastAppended ==
  ASSUME NEW S, NEW log \in Seq(S), NEW entry, NEW hits \in SUBSET DOMAIN log
  PROVE  /\ LastOf(Append(log, entry), hits) = LastOf(log, hits)
         /\ LastOf(Append(log, entry), hits \cup {Len(log) + 1}) = entry
<1>1. /\ Len(log) \in Nat /\ DOMAIN log = 1..Len(log)
      /\ Append(log, entry)[Len(log) + 1] = entry
      /\ \A i \in 1..Len(log) : Append(log, entry)[i] = log[i]
  BY LenProperties
<1>2. ASSUME hits # {} PROVE Max(hits) \in 1..Len(log)
  <2>1. PICK m \in hits : \A k \in hits : k <= m BY <1>1, <1>2, GreatestNatural
  <2>2. \A k \in hits : m >= k BY <1>1, <2>1
  <2>3. Max(hits) \in hits BY <2>1, <2>2, Zenon DEF Max
  <2>. QED BY <1>1, <2>3
<1>3. LastOf(Append(log, entry), hits) = LastOf(log, hits) BY <1>1, <1>2 DEF LastOf
<1>4. Max(hits \cup {Len(log) + 1}) = Len(log) + 1
  <2>. DEFINE all == hits \cup {Len(log) + 1}
              Top(x) == x \in all /\ \A y \in all : x >= y
  <2>1. Top(Len(log) + 1) BY <1>1
  <2>2. ASSUME NEW x, Top(x) PROVE x = Len(log) + 1
    <3>1. x >= Len(log) + 1 BY <2>2
    <3>2. x \in 1..Len(log) \/ x = Len(log) + 1 BY <1>1, <2>2
    <3>. QED BY <1>1, <3>1, <3>2
  <2>3. Max(all) = CHOOSE x : Top(x)
    <3>1. Max(all) = CHOOSE x \in all : \A y \in all : x >= y BY DEF Max
    <3>. QED BY <3>1
  <2>. HIDE DEF Top
  <2>4. Top(CHOOSE x : Top(x)) BY <2>1
  <2>. QED BY <2>2, <2>3, <2>4
<1>. QED BY <1>1, <1>3, <1>4 DEF LastOf

\* appendFrame and appendEvent keep the latest entries exact.
LEMMA FrameLatest ==
  ASSUME TypeOK, CursorInv, LatestExact, NEW frame \in Frames, Appends(frame),
         latest' = [latest EXCEPT ![frame.key] = frame], latestStates' = latestStates
  PROVE  LatestExact'
<1>1. /\ generation' = generation /\ generation \in DOMAIN history
      /\ history' = [history EXCEPT ![generation] = Append(@, frame)]
  BY DEF Appends, Grows, CursorInv, GenerationsOwned
<1>2. PICK log, later : log = history[generation] /\ later = Append(log, frame) OBVIOUS
<1>3. history'[generation'] = later /\ log \in Seq(Frames \cup Events) BY <1>1, <1>2 DEF TypeOK
<1>4. /\ DOMAIN log = 1..Len(log) /\ Len(log) \in Nat
      /\ DOMAIN later = DOMAIN log \cup {Len(log) + 1} /\ later[Len(log) + 1] = frame
      /\ \A i \in DOMAIN log : later[i] = log[i]
  BY <1>2, <1>3
<1>5. \A hits \in SUBSET DOMAIN log :
        /\ LastOf(later, hits) = LastOf(log, hits)
        /\ LastOf(later, hits \cup {Len(log) + 1}) = frame
  <2>1. ASSUME NEW hits \in SUBSET DOMAIN log
        PROVE  /\ LastOf(Append(log, frame), hits) = LastOf(log, hits)
               /\ LastOf(Append(log, frame), hits \cup {Len(log) + 1}) = frame
    BY <1>3, LastAppended
  <2>. QED BY <1>2, <2>1
<1>6. frame.kind = "frame" /\ frame.key \in Keys BY InputAssumption, FrameTyped
<1>7. latest \in [Keys -> FrameEvent \cup {None}] BY DEF TypeOK
<1>8. ASSUME NEW key \in Keys
      PROVE  latest'[key] = LastOf(later, FramesIn(later, key))
  <2>. DEFINE hits == FramesIn(log, key)
              found == FramesIn(later, key)
  <2>1. hits \in SUBSET DOMAIN log BY DEF FramesIn
  <2>2. latest[key] = LastOf(log, hits) BY <1>2 DEF LatestExact
  <2>3. key = frame.key => found = hits \cup {Len(log) + 1} BY <1>4, <1>6 DEF FramesIn
  <2>4. key # frame.key => found = hits BY <1>4 DEF FramesIn
  <2>5. latest'[key] = IF key = frame.key THEN frame ELSE latest[key] BY <1>6, <1>7
  <2>. HIDE DEF hits, found
  <2>6. latest'[key] = LastOf(later, found) BY <1>5, <2>1, <2>2, <2>3, <2>4, <2>5, Zenon
  <2>. QED BY <2>6 DEF found
<1>9. ASSUME NEW bus \in Buses
      PROVE  latestStates'[bus] = LastOf(later, StatesIn(later, bus))
  <2>. DEFINE hits == StatesIn(log, bus)
              found == StatesIn(later, bus)
  <2>1. hits \in SUBSET DOMAIN log BY DEF StatesIn
  <2>2. latestStates[bus] = LastOf(log, hits) BY <1>2 DEF LatestExact
  <2>3. found = hits BY <1>4, <1>6 DEF StatesIn
  <2>. HIDE DEF hits, found
  <2>4. latestStates'[bus] = LastOf(later, found) BY <1>5, <2>1, <2>2, <2>3, Zenon
  <2>. QED BY <2>4 DEF found
<1>. QED BY <1>3, <1>8, <1>9 DEF LatestExact

\* ...with the controller state remembered by its bus.
LEMMA EventLatest ==
  ASSUME TypeOK, CursorInv, LatestExact, NEW event \in Events, Appends(event), latest' = latest,
         latestStates' = IF event.event = EventControllerState
                         THEN [latestStates EXCEPT ![event.bus] = event] ELSE latestStates
  PROVE  LatestExact'
<1>1. /\ generation' = generation /\ generation \in DOMAIN history
      /\ history' = [history EXCEPT ![generation] = Append(@, event)]
  BY DEF Appends, Grows, CursorInv, GenerationsOwned
<1>2. PICK log, later : log = history[generation] /\ later = Append(log, event) OBVIOUS
<1>3. history'[generation'] = later /\ log \in Seq(Frames \cup Events) BY <1>1, <1>2 DEF TypeOK
<1>4. /\ DOMAIN log = 1..Len(log) /\ Len(log) \in Nat
      /\ DOMAIN later = DOMAIN log \cup {Len(log) + 1} /\ later[Len(log) + 1] = event
      /\ \A i \in DOMAIN log : later[i] = log[i]
  BY <1>2, <1>3
<1>5. \A hits \in SUBSET DOMAIN log :
        /\ LastOf(later, hits) = LastOf(log, hits)
        /\ LastOf(later, hits \cup {Len(log) + 1}) = event
  <2>1. ASSUME NEW hits \in SUBSET DOMAIN log
        PROVE  /\ LastOf(Append(log, event), hits) = LastOf(log, hits)
               /\ LastOf(Append(log, event), hits \cup {Len(log) + 1}) = event
    BY <1>3, LastAppended
  <2>. QED BY <1>2, <2>1
<1>6. event.kind = "event" /\ event.bus \in Buses BY InputAssumption, EventTyped
<1>7. latestStates \in [Buses -> Event \cup {None}] BY DEF TypeOK
<1>8. ASSUME NEW key \in Keys
      PROVE  latest'[key] = LastOf(later, FramesIn(later, key))
  <2>. DEFINE hits == FramesIn(log, key)
              found == FramesIn(later, key)
  <2>1. hits \in SUBSET DOMAIN log BY DEF FramesIn
  <2>2. latest[key] = LastOf(log, hits) BY <1>2 DEF LatestExact
  <2>3. found = hits BY <1>4, <1>6 DEF FramesIn
  <2>. HIDE DEF hits, found
  <2>4. latest'[key] = LastOf(later, found) BY <1>5, <2>1, <2>2, <2>3, Zenon
  <2>. QED BY <2>4 DEF found
<1>9. ASSUME NEW bus \in Buses
      PROVE  latestStates'[bus] = LastOf(later, StatesIn(later, bus))
  <2>. DEFINE hits == StatesIn(log, bus)
              found == StatesIn(later, bus)
              mine == event.bus = bus /\ event.event = EventControllerState
  <2>1. hits \in SUBSET DOMAIN log BY DEF StatesIn
  <2>2. latestStates[bus] = LastOf(log, hits) BY <1>2 DEF LatestExact
  <2>3. mine => found = hits \cup {Len(log) + 1} BY <1>4, <1>6 DEF StatesIn
  <2>4. ~mine => found = hits BY <1>4 DEF StatesIn
  <2>5. latestStates'[bus] = IF mine THEN event ELSE latestStates[bus] BY <1>6, <1>7
  <2>. HIDE DEF hits, found, mine
  <2>6. latestStates'[bus] = LastOf(later, found)
    BY <1>5, <2>1, <2>2, <2>3, <2>4, <2>5, Zenon
  <2>. QED BY <2>6 DEF found
<1>. QED BY <1>3, <1>8, <1>9 DEF LatestExact

-----------------------------------------------------------------------------
(* One invariant for what is stored, viewed and remembered.                *)

\* A snapshot's view claims no more than its chunk holds.
SnapshotsInside ==
  \A h \in Holders : call[h] # Idle =>
    Inside(call[h].snapshot.activeView, heap[call[h].snapshot.activeView.id])

FaithInv == RecordsFaithful /\ SnapshotsFaithful /\ SnapshotsInside /\ LatestExact

\* The chunk of a snapshot's view is in the heap.
LEMMA SnapshotChunk ==
  ASSUME TypeOK, CursorInv, NEW h \in Holders, call[h] # Idle
  PROVE  call[h].snapshot.activeView.id \in DOMAIN heap
<1>1. PICK s : s = call[h].snapshot OBVIOUS
<1>2. s \in CaptureSnapshot /\ SnapshotSound(s) BY <1>1, CallTyped DEF CursorInv, SnapshotsSound
<1>3. s.chunks \in Seq(Nat) /\ s.chunks # <<>> BY <1>2 DEF CaptureSnapshot, SnapshotSound
<1>4. Len(s.chunks) \in DOMAIN s.chunks BY <1>3
<1>. QED BY <1>1, <1>2, <1>4 DEF SnapshotSound

\* Whoever holds a snapshot while the storage grows still decodes it.
LEMMA SnapshotsKept ==
  ASSUME TypeOK, CursorInv, TypeOK', HeapExtends, HistoryExtends, call' = call,
         SnapshotsFaithful, SnapshotsInside
  PROVE  SnapshotsFaithful' /\ SnapshotsInside'
<1>1. ASSUME NEW h \in Holders, call'[h] # Idle
      PROVE  /\ Decodes(call[h].snapshot.activeView)'
             /\ Inside(call[h].snapshot.activeView, heap[call[h].snapshot.activeView.id])'
  <2>1. PICK v : v = call[h].snapshot.activeView OBVIOUS
  <2>2. call[h] # Idle BY <1>1
  <2>3. v.id \in DOMAIN heap BY <2>1, <2>2, SnapshotChunk
  <2>4. Decodes(v) /\ Inside(v, heap[v.id])
    BY <2>1, <2>2 DEF SnapshotsFaithful, SnapshotsInside
  <2>5. GenerationsOwned BY DEF CursorInv
  <2>6. Decodes(v)' /\ Inside(v, heap[v.id])' BY <2>3, <2>4, <2>5, ViewKept
  <2>7. call'[h].snapshot.activeView = v BY <2>1
  <2>. QED BY <2>6, <2>7 DEF Decodes
<1>. QED BY <1>1 DEF SnapshotsFaithful, SnapshotsInside

\* appendFrame and appendEvent.
LEMMA AppendsFaithful ==
  ASSUME TypeOK, CursorInv, TypeOK', CursorInv', FaithInv, NEW entry, Appends(entry),
         call' = call, LatestExact'
  PROVE  FaithInv'
<1>1. HeapExtends /\ HistoryExtends BY AppendsExtend
<1>2. SnapshotsFaithful' /\ SnapshotsInside' BY <1>1, SnapshotsKept DEF FaithInv
<1>3. PICK C : /\ Grows(C) /\ history' = [history EXCEPT ![generation] = Append(@, entry)]
               /\ EntryAt(heap', View(heap', active'), Len(C.records) - 1) = entry
  BY DEF Appends
<1>4. RecordsFaithful' BY <1>1, <1>3, GrowsFaithful DEF FaithInv
<1>. QED BY <1>2, <1>4 DEF FaithInv

\* Clear keeps every chunk there is, and opens an empty one.
LEMMA ClearFaithful ==
  ASSUME TypeOK, CursorInv, TypeOK', FaithInv, Clear
  PROVE  FaithInv'
<1>1. PICK fresh, epoch, o :
        /\ heap' = Append(heap, fresh) /\ fresh.records = <<>> /\ origin' = Append(origin, o)
        /\ epoch = captureEpochs + 1 /\ generation' = epoch
        /\ history' = [g \in DOMAIN history \cup {epoch} |-> IF g = epoch THEN <<>> ELSE history[g]]
        /\ latest' = [key \in Keys |-> None] /\ latestStates' = [bus \in Buses |-> None]
        /\ call' = call
  <2>1. \A a, b : NewCaptureChunk(a, b).records = <<>> BY DEF NewCaptureChunk
  <2>2. /\ \E a, b : heap' = Append(heap, NewCaptureChunk(a, b))
        /\ generation' = captureEpochs + 1
        /\ \E o : origin' = Append(origin, o)
        /\ history' = [g \in DOMAIN history \cup {captureEpochs + 1} |->
                         IF g = captureEpochs + 1 THEN <<>> ELSE history[g]]
        /\ latest' = [key \in Keys |-> None] /\ latestStates' = [bus \in Buses |-> None]
        /\ call' = call
    BY DEF Clear, ClearIndexes, holding
  <2>. QED BY <2>1, <2>2
<1>2. /\ heap \in Seq(Chunk) /\ heap' \in Seq(Chunk) /\ Len(origin) = Len(heap)
      /\ origin \in Seq([generation : Nat, base : Nat])
      /\ DOMAIN history \subseteq 1..captureEpochs /\ captureEpochs \in Nat
  BY DEF TypeOK
<1>3. /\ DOMAIN heap = 1..Len(heap) /\ Len(heap) \in Nat /\ DOMAIN heap' = 1..(Len(heap) + 1)
      /\ heap'[Len(heap) + 1] = fresh
      /\ \A i \in 1..Len(heap) : heap'[i] = heap[i] /\ origin'[i] = origin[i]
  BY <1>1, <1>2
<1>4. HeapExtends
  <2>1. ASSUME NEW id \in DOMAIN heap
        PROVE  id \in DOMAIN heap' /\ origin'[id] = origin[id] /\ Extends(heap'[id], heap[id])
    <3>1. PICK b, c : b = heap[id] /\ c = heap'[id] OBVIOUS
    <3>2. id \in DOMAIN heap' /\ origin'[id] = origin[id] /\ c = b BY <1>3, <3>1
    <3>3. b \in Chunk BY <1>2, <3>1
    <3>4. Extends(c, b) BY <3>2, <3>3, PutsExtend
    <3>. QED BY <3>1, <3>2, <3>4
  <2>. QED BY <2>1 DEF HeapExtends
<1>5. \A g \in DOMAIN history : g \in DOMAIN history' /\ history'[g] = history[g]
  BY <1>1, <1>2
<1>6. HistoryExtends
  <2>1. \A g \in DOMAIN history : Len(history[g]) \in Nat BY HistoryTyped
  <2>. QED BY <1>5, <2>1 DEF HistoryExtends
<1>7. SnapshotsFaithful' /\ SnapshotsInside' BY <1>1, <1>4, <1>6, SnapshotsKept DEF FaithInv
<1>8. ASSUME NEW id \in DOMAIN heap' PROVE Decodes(View(heap, id))'
  <2>1. PICK w : w = View(heap', id) OBVIOUS
  <2>2. CASE id = Len(heap) + 1
    <3>1. w.records = 0 BY <1>1, <1>3, <2>1, <2>2 DEF View
    <3>2. Decodes(w)' BY <3>1 DEF Decodes
    <3>. QED BY <2>1, <3>2 DEF Decodes
  <2>3. CASE id # Len(heap) + 1
    <3>1. id \in DOMAIN heap BY <1>3, <2>3
    <3>2. w = View(heap, id) BY <1>3, <2>1, <3>1 DEF View
    <3>3. w.id = id /\ Inside(w, heap[id]) BY <1>2, <3>1, <3>2, ViewInside
    <3>4. Decodes(w) BY <3>1, <3>2 DEF FaithInv, RecordsFaithful
    <3>5. Decodes(w)' BY <1>4, <1>6, <3>1, <3>3, <3>4, ViewKept DEF CursorInv
    <3>. QED BY <2>1, <3>5 DEF Decodes
  <2>. QED BY <2>2, <2>3
<1>9. LatestExact'
  <2>1. history'[generation'] = <<>> BY <1>1
  <2>2. \A key : LastOf(<<>>, FramesIn(<<>>, key)) = None BY DEF LastOf, FramesIn
  <2>3. \A bus : LastOf(<<>>, StatesIn(<<>>, bus)) = None BY DEF LastOf, StatesIn
  <2>. QED BY <1>1, <2>1, <2>2, <2>3 DEF LatestExact
<1>. QED BY <1>7, <1>8, <1>9 DEF FaithInv, RecordsFaithful

\* Every other step leaves the storage alone; a call that begins views it.
LEMMA CallsFaithful ==
  ASSUME TypeOK, CursorInv, FaithInv,
         UNCHANGED <<heap, origin, history, generation, latest, latestStates>>,
         \A h \in Holders :
           \/ call'[h] = Idle
           \/ call[h] # Idle /\ call'[h].snapshot = call[h].snapshot
           \/ call'[h].snapshot.activeView = View(heap, active)
  PROVE  FaithInv'
<1>1. RecordsFaithful' BY DEF FaithInv, RecordsFaithful, Decodes
<1>2. LatestExact' BY DEF FaithInv, LatestExact
<1>3. ASSUME NEW h \in Holders, call'[h] # Idle
      PROVE  /\ Decodes(call[h].snapshot.activeView)'
             /\ Inside(call[h].snapshot.activeView, heap[call[h].snapshot.activeView.id])'
  <2>1. PICK v : v = call'[h].snapshot.activeView OBVIOUS
  <2>2. Decodes(v) /\ Inside(v, heap[v.id])
    <3>1. CASE call[h] # Idle /\ call'[h].snapshot = call[h].snapshot
      BY <2>1, <3>1 DEF FaithInv, SnapshotsFaithful, SnapshotsInside
    <3>2. CASE v = View(heap, active)
      <4>1. heap \in Seq(Chunk) /\ active \in DOMAIN heap BY DEF TypeOK
      <4>2. v.id = active /\ Inside(v, heap[active]) BY <3>2, <4>1, ViewInside
      <4>3. Decodes(v) BY <3>2, <4>1 DEF FaithInv, RecordsFaithful
      <4>. QED BY <4>2, <4>3
    <3>. QED BY <1>3, <2>1, <3>1, <3>2
  <2>3. Decodes(v)' /\ Inside(v, heap[v.id])' BY <2>2 DEF Decodes
  <2>. QED BY <2>1, <2>3 DEF Decodes
<1>. QED BY <1>1, <1>2, <1>3 DEF FaithInv, SnapshotsFaithful, SnapshotsInside

\* The first chunk is empty and nobody reads.
LEMMA InitFaithful == Init => FaithInv
<1>. SUFFICES ASSUME Init PROVE FaithInv OBVIOUS
<1>1. ASSUME NEW id \in DOMAIN heap PROVE Decodes(View(heap, id))
  <2>1. heap[id].records = <<>> BY DEF Init, NewCaptureChunk
  <2>2. View(heap, id).records = 0 BY <2>1 DEF View
  <2>. QED BY <2>2 DEF Decodes
<1>2. LatestExact
  <2>1. history[generation] = <<>> BY DEF Init
  <2>2. \A key : LastOf(<<>>, FramesIn(<<>>, key)) = None BY DEF LastOf, FramesIn
  <2>3. \A bus : LastOf(<<>>, StatesIn(<<>>, bus)) = None BY DEF LastOf, StatesIn
  <2>4. latest = [key \in Keys |-> None] /\ latestStates = [bus \in Buses |-> None] BY DEF Init
  <2>. QED BY <2>1, <2>2, <2>3, <2>4 DEF LatestExact
<1>3. \A h \in Holders : call[h] = Idle BY DEF Init
<1>. QED BY <1>1, <1>2, <1>3 DEF FaithInv, RecordsFaithful, SnapshotsFaithful, SnapshotsInside

\* Every step keeps what is stored, viewed and remembered faithful.
LEMMA StepFaithful == TypeOK /\ CursorInv /\ FaithInv /\ [Next]_vars => FaithInv'
<1>. SUFFICES ASSUME TypeOK, CursorInv, FaithInv, [Next]_vars PROVE FaithInv' OBVIOUS
<1>0. TypeOK' /\ CursorInv' BY StepKeeps
<1>1. ASSUME NEW frame \in Frames, AppendFrame(frame) PROVE FaithInv'
  <2>1. /\ Appends(frame) /\ call' = call /\ latestStates' = latestStates
        /\ latest' = [latest EXCEPT ![frame.key] = frame]
    BY <1>1, FrameAppends
  <2>2. LatestExact' BY <2>1, FrameLatest DEF FaithInv
  <2>. QED BY <1>0, <2>1, <2>2, AppendsFaithful
<1>2. ASSUME NEW event \in Events, AppendEvent(event) PROVE FaithInv'
  <2>1. /\ Appends(event) /\ call' = call /\ latest' = latest
        /\ latestStates' = IF event.event = EventControllerState
                           THEN [latestStates EXCEPT ![event.bus] = event] ELSE latestStates
    BY <1>2, EventAppends
  <2>2. LatestExact' BY <2>1, EventLatest DEF FaithInv
  <2>. QED BY <1>0, <2>1, <2>2, AppendsFaithful
<1>3. CASE Clear BY <1>0, <1>3, ClearFaithful
<1>4. call \in [Holders -> CallType] /\ Readers \subseteq Holders /\ Callers \subseteq Holders
  BY DEF TypeOK, Holders
<1>5. ASSUME \/ FinishAllocation \/ OtherCapture
             \/ \E S \in (SUBSET Holders) \ {{}} : Prune(S)
             \/ \E h \in Holders : TakeEnd(h) \/ TakeZero(h) \/ TakeForeign(h)
             \/ UNCHANGED vars
      PROVE  FaithInv'
  <2>1. UNCHANGED <<heap, origin, history, generation, latest, latestStates, call>>
    BY <1>5 DEF FinishAllocation, OtherCapture, Prune, TakeEnd, TakeZero, TakeForeign, Hold,
                storage, indexes, holding, vars
  <2>. QED BY <2>1, CallsFaithful
<1>6. ASSUME NEW r \in Readers, BeginRead(r) \/ EndRead(r) PROVE FaithInv'
  <2>1. /\ UNCHANGED <<heap, origin, history, generation, latest, latestStates>>
        /\ \/ call' = [call EXCEPT ![r] = [op |-> "read", snapshot |-> Snapshot]]
           \/ call' = [call EXCEPT ![r] = Idle]
    BY <1>6 DEF BeginRead, EndRead, storage, indexes
  <2>2. Snapshot.activeView = View(heap, active) BY DEF Snapshot
  <2>3. ASSUME NEW h \in Holders
        PROVE  \/ call'[h] = Idle
               \/ call[h] # Idle /\ call'[h].snapshot = call[h].snapshot
               \/ call'[h].snapshot.activeView = View(heap, active)
    <3>1. CASE h = r BY <1>4, <2>1, <2>2, <3>1
    <3>2. CASE h # r BY <1>4, <2>1, <3>2
    <3>. QED BY <3>1, <3>2
  <2>. QED BY <2>1, <2>3, CallsFaithful
<1>7. ASSUME NEW c \in Callers,
             \/ \E key \in Keys : AddWaiter(c, key)
             \/ FindHit(c) \/ FindMiss(c) \/ Wake(c) \/ Cancel(c)
      PROVE  FaithInv'
  <2>1. /\ UNCHANGED <<heap, origin, history, generation, latest, latestStates>>
        /\ \/ \E key, w : call' = [call EXCEPT ![c] =
                [op |-> "find", key |-> key, waiter |-> w, snapshot |-> Snapshot]]
           \/ call' = [call EXCEPT ![c] = Idle]
           \/ call[c].op = "find" /\ call' = [call EXCEPT ![c].op = "wait"]
    BY <1>7 DEF AddWaiter, FindHit, FindMiss, Wake, Cancel, Return, storage, indexes
  <2>2. Snapshot.activeView = View(heap, active) BY DEF Snapshot
  <2>3. ASSUME NEW h \in Holders
        PROVE  \/ call'[h] = Idle
               \/ call[h] # Idle /\ call'[h].snapshot = call[h].snapshot
               \/ call'[h].snapshot.activeView = View(heap, active)
    <3>1. CASE h = c
      <4>1. CASE \E key, w : call' = [call EXCEPT ![c] =
                  [op |-> "find", key |-> key, waiter |-> w, snapshot |-> Snapshot]]
        BY <1>4, <2>2, <3>1, <4>1
      <4>2. CASE call' = [call EXCEPT ![c] = Idle] BY <1>4, <3>1, <4>2
      <4>3. CASE call[c].op = "find" /\ call' = [call EXCEPT ![c].op = "wait"]
        <5>1. call'[c] = [call[c] EXCEPT !.op = "wait"] BY <1>4, <4>3
        <5>2. call[c] = [op |-> call[c].op, key |-> call[c].key, waiter |-> call[c].waiter,
                         snapshot |-> call[c].snapshot]
          BY <1>4, <4>3, NextTyped
        <5>3. call'[c].snapshot = call[c].snapshot BY <5>1, <5>2
        <5>4. call[c] # Idle BY <4>3 DEF Idle
        <5>. QED BY <3>1, <5>3, <5>4
      <4>. QED BY <2>1, <4>1, <4>2, <4>3
    <3>2. CASE h # c BY <1>4, <2>1, <3>2
    <3>. QED BY <3>1, <3>2
  <2>. QED BY <2>1, <2>3, CallsFaithful
<1>. QED BY <1>1, <1>2, <1>3, <1>5, <1>6, <1>7, Zenon DEF Next

-----------------------------------------------------------------------------
(* Links.                                                                  *)

\* The newest of the records up to n and the record n is n.
LEMMA NewestAppended ==
  ASSUME NEW n \in Nat, NEW mine \in SUBSET (0..(n - 1))
  PROVE  /\ NewestOf(mine \cup {n}) = n
         /\ { m \in mine \cup {n} : m < n } = mine
         /\ \A k \in mine : { m \in mine \cup {n} : m < k } = { m \in mine : m < k }
         /\ n \notin mine /\ IsFiniteSet(mine) /\ Cardinality(mine \cup {n}) = Cardinality(mine) + 1
<1>. DEFINE all == mine \cup {n}
            Top(x) == x \in all /\ \A y \in all : x >= y
<1>1. Max(all) = n
  <2>1. Top(n) OBVIOUS
  <2>2. \A x : Top(x) => x = n OBVIOUS
  <2>3. Max(all) = CHOOSE x : Top(x) BY Zenon DEF Max
  <2>. HIDE DEF Top
  <2>4. Top(CHOOSE x : Top(x)) BY <2>1, Zenon
  <2>. QED BY <2>2, <2>3, <2>4
<1>2. NewestOf(all) = n BY <1>1 DEF NewestOf
<1>3. n \notin mine OBVIOUS
<1>4. IsFiniteSet(mine)
  <2>1. IsFiniteSet(0..(n - 1)) BY FS_Interval
  <2>. QED BY <2>1, FS_Subset
<1>5. Cardinality(all) = Cardinality(mine) + 1 BY <1>3, <1>4, FS_AddElement
<1>6. { m \in all : m < n } = mine
  <2>1. (\A m \in mine : m < n) /\ ~(n < n) OBVIOUS
  <2>. QED BY <2>1
<1>7. \A k \in mine : { m \in all : m < k } = { m \in mine : m < k } OBVIOUS
<1>. QED BY <1>2, <1>3, <1>4, <1>5, <1>6, <1>7

\* A chunk that got one more record n.
OneMore(c, p, n) ==
  /\ n \in Nat /\ Len(c.records) = n /\ Len(p.records) = n + 1
  /\ \A i \in 1..n : p.records[i] = c.records[i]

\* The links of the others are not touched.
LEMMA ThreadsKept ==
  ASSUME NEW c, NEW p, NEW n, OneMore(c, p, n), NEW state, NEW mine \in SUBSET (0..(n - 1)),
         Threads(c, state, mine)
  PROVE  Threads(p, state, mine)
<1>1. \A k \in mine : k + 1 \in 1..n BY DEF OneMore
<1>. QED BY <1>1 DEF Threads, OneMore

\* The new record is linked behind the newest of its own, and counted.
LEMMA ThreadsAppended ==
  ASSUME NEW c, NEW p, NEW n, OneMore(c, p, n), NEW state, NEW mine \in SUBSET (0..(n - 1)),
         Threads(c, state, mine), NEW grown,
         p.records[n + 1].previous = (IF state.count # 0 THEN state.lastRecord ELSE NoCaptureRecord),
         grown.lastRecord = n,
         grown.count = (IF state.count # 0 THEN state.count ELSE 0) + 1
  PROVE  Threads(p, grown, mine \cup {n})
<1>1. n \in Nat BY DEF OneMore
<1>2. /\ NewestOf(mine \cup {n}) = n
      /\ { m \in mine \cup {n} : m < n } = mine
      /\ \A k \in mine : { m \in mine \cup {n} : m < k } = { m \in mine : m < k }
      /\ n \notin mine /\ IsFiniteSet(mine) /\ Cardinality(mine \cup {n}) = Cardinality(mine) + 1
  BY <1>1, NewestAppended
<1>3. Cardinality(mine) \in Nat /\ (Cardinality(mine) = 0 <=> mine = {})
  BY <1>2, FS_CardinalityType, FS_EmptySet
<1>4. /\ state.count = Cardinality(mine)
      /\ mine # {} => state.lastRecord = NewestOf(mine)
      /\ \A k \in mine : c.records[k + 1].previous = NewestOf({ m \in mine : m < k })
  BY DEF Threads
<1>5. grown.count = Cardinality(mine \cup {n}) BY <1>2, <1>3, <1>4
<1>6. p.records[n + 1].previous = NewestOf(mine)
  <2>1. CASE mine = {} BY <1>3, <1>4, <2>1 DEF NewestOf
  <2>2. CASE mine # {} BY <1>3, <1>4, <2>2
  <2>. QED BY <2>1, <2>2
<1>7. ASSUME NEW k \in mine \cup {n}
      PROVE  p.records[k + 1].previous = NewestOf({ m \in mine \cup {n} : m < k })
  <2>1. CASE k = n BY <1>2, <1>6, <2>1
  <2>2. CASE k \in mine
    <3>1. k + 1 \in 1..n BY <1>1, <2>2
    <3>2. p.records[k + 1] = c.records[k + 1] BY <3>1 DEF OneMore
    <3>. QED BY <1>2, <1>4, <2>2, <3>2
  <2>. QED BY <2>1, <2>2
<1>. QED BY <1>2, <1>5, <1>7 DEF Threads

\* The key index of a frame record names a key of the chunk.
KeysNamed(chunk) ==
  \A i \in 1..Len(chunk.records) :
    chunk.records[i].kind = "frame" => chunk.records[i].word1 + 1 \in 1..Len(chunk.keys)

\* A new chunk has no records to link.
LEMMA NewChunkLinked ==
  ASSUME NEW chunk, chunk.records = <<>>,
         chunk.keyStates = [key \in Keys |-> NoKeyState],
         chunk.eventStates = [bus \in Buses |-> NoEventState]
  PROVE  Linked(chunk) /\ KeysNamed(chunk)
<1>1. Len(chunk.records) = 0 OBVIOUS
<1>2. 0..(Len(chunk.records) - 1) = {} /\ 1..Len(chunk.records) = {} BY <1>1
<1>3. \A key : FramesOf(chunk, key) = {} BY <1>2 DEF FramesOf
<1>4. \A bus : EventsOf(chunk, bus) = {} BY <1>2 DEF EventsOf
<1>5. Cardinality({}) = 0 BY FS_EmptySet
<1>6. \A state : state.count = 0 => Threads(chunk, state, {}) BY <1>5 DEF Threads
<1>7. /\ \A key \in Keys : chunk.keyStates[key].count = 0
      /\ \A bus \in Buses : chunk.eventStates[bus].count = 0
  BY DEF NoKeyState, NoEventState
<1>. QED BY <1>2, <1>3, <1>4, <1>6, <1>7 DEF Linked, KeysNamed

\* appendFrame's record joins those of its key.
LEMMA PutFrameLinked ==
  ASSUME NEW chunk \in Chunk, ChunkSound(chunk), NEW frame \in FrameEvent,
         Linked(chunk), KeysNamed(chunk)
  PROVE  LET put == PutFrame(chunk, frame) IN Linked(put) /\ KeysNamed(put)
<1>. DEFINE put == PutFrame(chunk, frame)
            old == chunk.keyStates[frame.key]
            n == Len(chunk.records)
<1>1. /\ chunk.records \in Seq(Record) /\ n \in Nat /\ chunk.keys \in Seq(Keys)
      /\ Len(chunk.keys) \in Nat
      /\ frame.key \in Keys /\ chunk.keyStates \in [Keys -> KeyState]
  BY FrameTyped DEF Chunk
<1>2. /\ put \in Chunk /\ Len(put.records) = n + 1
      /\ \E index, previous \in Nat :
           /\ index < Len(put.keys) /\ put.keys[index + 1] = frame.key
           /\ put.records[Len(put.records)] =
                FrameRecord(Len(chunk.payload), index, previous, frame.dlc, frame.remote)
  BY PutFrameSound
<1>3. /\ put.records[n + 1].previous = (IF old.count # 0 THEN old.lastRecord ELSE NoCaptureRecord)
      /\ put.eventStates = chunk.eventStates
      /\ \A key \in Keys : key # frame.key => put.keyStates[key] = chunk.keyStates[key]
      /\ put.keyStates[frame.key].lastRecord = n
      /\ put.keyStates[frame.key].count = (IF old.count # 0 THEN old.count ELSE 0) + 1
  BY <1>1 DEF PutFrame, FrameRecord, Chunk
<1>4. Extends(put, chunk) BY PutsExtend
<1>. HIDE DEF put
<1>5. OneMore(chunk, put, n) BY <1>1, <1>2, <1>4 DEF OneMore, Extends
<1>6. PICK index \in Nat :
        /\ index < Len(put.keys) /\ put.keys[index + 1] = frame.key
        /\ put.records[n + 1].kind = "frame" /\ put.records[n + 1].word1 = index
  BY <1>2 DEF FrameRecord
<1>7. /\ put.keys \in Seq(Keys) /\ Len(put.keys) \in Nat /\ Len(chunk.keys) <= Len(put.keys)
      /\ \A i \in 1..Len(chunk.keys) : put.keys[i] = chunk.keys[i]
  BY <1>2, <1>4 DEF Extends, Chunk
<1>8. KeysNamed(put)
  <2>1. ASSUME NEW i \in 1..(n + 1), put.records[i].kind = "frame"
        PROVE  put.records[i].word1 + 1 \in 1..Len(put.keys)
    <3>1. CASE i = n + 1 BY <1>6, <1>7, <3>1
    <3>2. CASE i \in 1..n
      <4>1. put.records[i] = chunk.records[i] BY <1>5, <3>2 DEF OneMore
      <4>2. chunk.records[i].word1 + 1 \in 1..Len(chunk.keys)
        BY <2>1, <3>2, <4>1 DEF KeysNamed
      <4>. QED BY <1>1, <1>7, <4>1, <4>2
    <3>. QED BY <1>1, <3>1, <3>2
  <2>. QED BY <1>2, <2>1 DEF KeysNamed
<1>9. ASSUME NEW key \in Keys, NEW k \in 0..(n - 1)
      PROVE  k \in FramesOf(put, key) <=> k \in FramesOf(chunk, key)
  <2>1. k + 1 \in 1..n /\ k \in 0..((n + 1) - 1) BY <1>1
  <2>2. put.records[k + 1] = chunk.records[k + 1] BY <1>5, <2>1 DEF OneMore
  <2>3. chunk.records[k + 1].kind = "frame"
          => put.keys[chunk.records[k + 1].word1 + 1] = chunk.keys[chunk.records[k + 1].word1 + 1]
    BY <1>7, <2>1 DEF KeysNamed
  <2>. QED BY <1>2, <2>1, <2>2, <2>3 DEF FramesOf
<1>10. ASSUME NEW key \in Keys
       PROVE  n \in FramesOf(put, key) <=> key = frame.key
  <2>1. n \in 0..(Len(put.records) - 1) BY <1>1, <1>2
  <2>2. n \in FramesOf(put, key) <=>
          put.records[n + 1].kind = "frame" /\ put.keys[put.records[n + 1].word1 + 1] = key
    BY <2>1 DEF FramesOf
  <2>. QED BY <1>6, <2>2
<1>11. ASSUME NEW key \in Keys
       PROVE  /\ FramesOf(chunk, key) \in SUBSET (0..(n - 1))
              /\ FramesOf(put, key) \in SUBSET (0..(n - 1) \cup {n})
  <2>1. 0..((n + 1) - 1) = 0..(n - 1) \cup {n} BY <1>1
  <2>. QED BY <1>2, <2>1 DEF FramesOf
<1>12. ASSUME NEW key \in Keys
       PROVE  Threads(put, put.keyStates[key], FramesOf(put, key))
  <2>1. PICK mine, grown : mine = FramesOf(chunk, key) /\ grown = FramesOf(put, key) OBVIOUS
  <2>2. mine \in SUBSET (0..(n - 1)) BY <1>11, <2>1
  <2>3. Threads(chunk, chunk.keyStates[key], mine) BY <2>1 DEF Linked
  <2>4. CASE key = frame.key
    <3>1. grown = mine \cup {n} BY <1>9, <1>10, <1>11, <2>1, <2>4
    <3>2. Threads(put, put.keyStates[key], mine \cup {n})
      BY <1>3, <1>5, <2>2, <2>3, <2>4, ThreadsAppended
    <3>. QED BY <2>1, <3>1, <3>2
  <2>5. CASE key # frame.key
    <3>1. grown = mine BY <1>9, <1>10, <1>11, <2>1, <2>5
    <3>2. Threads(put, chunk.keyStates[key], mine) BY <1>5, <2>2, <2>3, ThreadsKept
    <3>. QED BY <1>3, <2>1, <2>5, <3>1, <3>2
  <2>. QED BY <2>4, <2>5
<1>13. ASSUME NEW bus \in Buses
       PROVE  Threads(put, put.eventStates[bus], EventsOf(put, bus))
  <2>1. PICK mine : mine = EventsOf(chunk, bus) OBVIOUS
  <2>2. mine \in SUBSET (0..(n - 1)) BY <2>1 DEF EventsOf
  <2>3. EventsOf(put, bus) = mine
    <3>1. \A k \in 0..(n - 1) : put.records[k + 1] = chunk.records[k + 1]
      <4>1. \A k \in 0..(n - 1) : k + 1 \in 1..n BY <1>1
      <4>. QED BY <1>5, <4>1 DEF OneMore
    <3>2. put.records[n + 1].kind # "event" BY <1>6
    <3>3. 0..((n + 1) - 1) = 0..(n - 1) \cup {n} BY <1>1
    <3>. QED BY <1>2, <2>1, <3>1, <3>2, <3>3 DEF EventsOf
  <2>4. Threads(chunk, chunk.eventStates[bus], mine) BY <2>1 DEF Linked
  <2>5. Threads(put, chunk.eventStates[bus], mine) BY <1>5, <2>2, <2>4, ThreadsKept
  <2>. QED BY <1>3, <2>3, <2>5
<1>14. Linked(put) BY <1>12, <1>13 DEF Linked
<1>. QED BY <1>8, <1>14 DEF put

\* appendEvent's record joins those of its bus.
LEMMA PutEventLinked ==
  ASSUME NEW chunk \in Chunk, ChunkSound(chunk), NEW event \in Event,
         Linked(chunk), KeysNamed(chunk)
  PROVE  LET put == PutEvent(chunk, event) IN Linked(put) /\ KeysNamed(put)
<1>. DEFINE put == PutEvent(chunk, event)
            old == chunk.eventStates[event.bus]
            n == Len(chunk.records)
<1>1. /\ chunk.records \in Seq(Record) /\ n \in Nat
      /\ event.bus \in Buses /\ chunk.eventStates \in [Buses -> EventState]
  BY EventTyped DEF Chunk
<1>2. /\ put \in Chunk /\ Len(put.records) = n + 1
      /\ \E previous \in Nat :
           put.records[Len(put.records)] =
             EventRecord(event.bus, previous, event.event, event.state)
  BY PutEventSound
<1>3. /\ put.records[n + 1].previous = (IF old.count # 0 THEN old.lastRecord ELSE NoCaptureRecord)
      /\ put.keyStates = chunk.keyStates /\ put.keys = chunk.keys
      /\ \A bus \in Buses : bus # event.bus => put.eventStates[bus] = chunk.eventStates[bus]
      /\ put.eventStates[event.bus].lastRecord = n
      /\ put.eventStates[event.bus].count = (IF old.count # 0 THEN old.count ELSE 0) + 1
  BY <1>1 DEF PutEvent, EventRecord, Chunk
<1>4. Extends(put, chunk) BY PutsExtend
<1>5. EventData(put.records[n + 1]) = event
  <2>1. \E store : store[1] = put
    <3>1. [i \in {1} |-> put][1] = put OBVIOUS
    <3>. QED BY <3>1
  <2>2. PICK store : store[1] = put BY <2>1
  <2>3. EventAt(store, View(store, 1), Len(store[1].records) - 1) = event
    BY <2>2, EventDecodes
  <2>4. View(store, 1).id = 1 /\ View(store, 1).records = n + 1
    BY <1>2, <2>2 DEF View
  <2>5. n < n + 1 /\ (n + 1) - 1 = n BY <1>1
  <2>. HIDE DEF put
  <2>. QED BY <1>2, <2>2, <2>3, <2>4, <2>5 DEF EventAt
<1>. HIDE DEF put
<1>6. OneMore(chunk, put, n) BY <1>1, <1>2, <1>4 DEF OneMore, Extends
<1>7. put.records[n + 1].kind = "event" BY <1>2 DEF EventRecord
<1>8. \A k \in 0..(n - 1) : put.records[k + 1] = chunk.records[k + 1]
  <2>1. \A k \in 0..(n - 1) : k + 1 \in 1..n BY <1>1
  <2>. QED BY <1>6, <2>1 DEF OneMore
<1>9. 0..((n + 1) - 1) = 0..(n - 1) \cup {n} BY <1>1
<1>10. KeysNamed(put)
  <2>1. ASSUME NEW i \in 1..(n + 1), put.records[i].kind = "frame"
        PROVE  put.records[i].word1 + 1 \in 1..Len(chunk.keys)
    <3>1. i \in 1..n BY <1>1, <1>7, <2>1
    <3>2. put.records[i] = chunk.records[i] BY <1>6, <3>1 DEF OneMore
    <3>. QED BY <2>1, <3>1, <3>2 DEF KeysNamed
  <2>. QED BY <1>2, <1>3, <2>1 DEF KeysNamed
<1>11. ASSUME NEW key \in Keys
       PROVE  Threads(put, put.keyStates[key], FramesOf(put, key))
  <2>1. PICK mine : mine = FramesOf(chunk, key) OBVIOUS
  <2>2. mine \in SUBSET (0..(n - 1)) BY <2>1 DEF FramesOf
  <2>3. FramesOf(put, key) = mine
    BY <1>2, <1>3, <1>7, <1>8, <1>9, <2>1 DEF FramesOf
  <2>4. Threads(chunk, chunk.keyStates[key], mine) BY <2>1 DEF Linked
  <2>5. Threads(put, chunk.keyStates[key], mine) BY <1>6, <2>2, <2>4, ThreadsKept
  <2>. QED BY <1>3, <2>3, <2>5
<1>12. ASSUME NEW bus \in Buses
       PROVE  Threads(put, put.eventStates[bus], EventsOf(put, bus))
  <2>1. PICK mine, grown : mine = EventsOf(chunk, bus) /\ grown = EventsOf(put, bus) OBVIOUS
  <2>2. mine \in SUBSET (0..(n - 1)) BY <2>1 DEF EventsOf
  <2>3. Threads(chunk, chunk.eventStates[bus], mine) BY <2>1 DEF Linked
  <2>4. CASE bus = event.bus
    <3>1. grown = mine \cup {n}
      BY <1>2, <1>5, <1>7, <1>8, <1>9, <2>1, <2>4 DEF EventsOf
    <3>2. Threads(put, put.eventStates[bus], mine \cup {n})
      BY <1>3, <1>6, <2>2, <2>3, <2>4, ThreadsAppended
    <3>. QED BY <2>1, <3>1, <3>2
  <2>5. CASE bus # event.bus
    <3>1. grown = mine
      BY <1>2, <1>5, <1>7, <1>8, <1>9, <2>1, <2>5 DEF EventsOf
    <3>2. Threads(put, chunk.eventStates[bus], mine) BY <1>6, <2>2, <2>3, ThreadsKept
    <3>. QED BY <1>3, <2>1, <2>5, <3>1, <3>2
  <2>. QED BY <2>4, <2>5
<1>13. Linked(put) BY <1>11, <1>12 DEF Linked
<1>. QED BY <1>10, <1>13 DEF put

-----------------------------------------------------------------------------
(* The number of records that Prune discards.                              *)

\* f sums the records of the views of seq over each set of places up to k.
Sums(f, seq, k) ==
  f = [s \in SUBSET (1..k) |-> IF s = {} THEN 0 ELSE f[s \ {Max(s)}] + seq[Max(s)].records]

\* The last place of a set up to k that has k.
LEMMA MaxIs ==
  ASSUME NEW k \in Nat, NEW s \in SUBSET (1..k), k \in s
  PROVE  Max(s) = k
<1>. DEFINE Top(x) == x \in s /\ \A y \in s : x >= y
<1>1. Top(k) OBVIOUS
<1>2. \A x : Top(x) => x = k OBVIOUS
<1>3. Max(s) = CHOOSE x : Top(x) BY Zenon DEF Max
<1>. HIDE DEF Top
<1>4. Top(CHOOSE x : Top(x)) BY <1>1, Zenon
<1>. QED BY <1>2, <1>3, <1>4

\* There is such a sum: one more place adds the records of its view.
LEMMA SumsExist ==
  ASSUME NEW n \in Nat, NEW seq
  PROVE  \E f : Sums(f, seq, n)
<1>. DEFINE Bad == { k \in Nat : ~ \E f : Sums(f, seq, k) }
<1>1. ASSUME NEW k \in Nat, k \in Bad, \A j \in Bad : k <= j PROVE FALSE
  <2>1. CASE k = 0
    <3>. DEFINE f == [s \in SUBSET (1..k) |-> 0]
    <3>1. \A s \in SUBSET (1..k) : s = {} BY <2>1
    <3>2. Sums(f, seq, k) BY <3>1 DEF Sums
    <3>. QED BY <1>1, <3>2
  <2>2. CASE k # 0
    <3>1. k - 1 \in Nat /\ ~(k <= k - 1) BY <2>2
    <3>2. k - 1 \notin Bad BY <1>1, <3>1
    <3>3. PICK f : Sums(f, seq, k - 1) BY <3>1, <3>2
    <3>. DEFINE g == [s \in SUBSET (1..k) |->
                        IF k \in s THEN f[s \ {k}] + seq[k].records ELSE f[s]]
                Value(h, s) == IF s = {} THEN 0 ELSE h[s \ {Max(s)}] + seq[Max(s)].records
    <3>. HIDE DEF Bad
    <3>4. f = [s \in SUBSET (1..(k - 1)) |-> Value(f, s)] BY <3>3 DEF Sums
    <3>5. \A s \in SUBSET (1..k) : k \notin s => s \in SUBSET (1..(k - 1)) BY <2>2
    <3>6. \A s \in SUBSET (1..k) : s # {} => Max(s) \in s
      <4>1. ASSUME NEW s \in SUBSET (1..k), s # {} PROVE Max(s) \in s
        <5>1. PICK m \in s : \A y \in s : y <= m BY <4>1, GreatestNatural
        <5>2. \A y \in s : m >= y BY <5>1
        <5>. QED BY <5>1, <5>2, Zenon DEF Max
      <4>. QED BY <4>1
    <3>7. ASSUME NEW s \in SUBSET (1..k) PROVE g[s] = Value(g, s)
      <4>1. CASE k \in s
        <5>1. Max(s) = k /\ s # {} BY <4>1, MaxIs
        <5>2. s \ {k} \in SUBSET (1..k) /\ k \notin s \ {k} OBVIOUS
        <5>3. g[s \ {k}] = f[s \ {k}] /\ g[s] = f[s \ {k}] + seq[k].records BY <4>1, <5>2
        <5>. HIDE DEF g
        <5>. QED BY <5>1, <5>3
      <4>2. CASE k \notin s
        <5>1. g[s] = f[s] /\ s \in SUBSET (1..(k - 1)) BY <3>5, <4>2
        <5>2. f[s] = Value(f, s) BY <3>4, <5>1
        <5>3. CASE s = {} BY <5>1, <5>2, <5>3
        <5>4. CASE s # {}
          <6>1. s \ {Max(s)} \in SUBSET (1..k) /\ k \notin s \ {Max(s)} BY <4>2
          <6>2. g[s \ {Max(s)}] = f[s \ {Max(s)}] BY <6>1
          <6>. HIDE DEF g
          <6>. QED BY <5>1, <5>2, <5>4, <6>2
        <5>. QED BY <5>3, <5>4
      <4>. QED BY <4>1, <4>2
    <3>8. g = [s \in SUBSET (1..k) |-> g[s]] OBVIOUS
    <3>9. Sums(g, seq, k)
      <4>. HIDE DEF g
      <4>. QED BY <3>7, <3>8 DEF Sums
    <3>. QED BY <1>1, <3>9 DEF Bad
  <2>. QED BY <2>1, <2>2
<1>2. Bad = {}
  <2>1. Bad \in SUBSET Nat OBVIOUS
  <2>2. ASSUME Bad # {} PROVE FALSE
    <3>1. PICK m \in Bad : \A j \in Bad : m <= j BY <2>1, <2>2, LeastNatural
    <3>. QED BY <1>1, <2>1, <3>1
  <2>. QED BY <2>2
<1>. QED BY <1>2

\* Views that follow each other from b[0] on end at b[n], so that the sum over
\* all of them is the difference.
LEMMA SumIs ==
  ASSUME NEW n \in Nat, NEW seq, NEW b \in [0..n -> Int], DOMAIN seq = 1..n,
         \A i \in 1..n : b[i] = b[i - 1] + seq[i].records /\ seq[i].records \in Int
  PROVE  FoldLeft(LAMBDA m, v : m + v.records, 0, seq) = b[n] - b[0]
<1>1. PICK f : /\ f = (CHOOSE g : g = [s \in SUBSET DOMAIN seq |->
                         IF s = {} THEN 0 ELSE g[s \ {Max(s)}] + seq[Max(s)].records])
               /\ FoldLeft(LAMBDA m, v : m + v.records, 0, seq) = f[DOMAIN seq]
  BY DEF FoldLeft, MapThenFoldSet
<1>2. f = CHOOSE g : Sums(g, seq, n) BY <1>1 DEF Sums
<1>3. Sums(f, seq, n) BY <1>2, SumsExist
<1>. DEFINE Bad == { k \in 0..n : f[1..k] # b[k] - b[0] }
<1>4. ASSUME NEW k \in Bad, \A j \in Bad : k <= j PROVE FALSE
  <2>1. k \in 0..n /\ f[1..k] # b[k] - b[0] OBVIOUS
  <2>2. CASE k = 0
    <3>1. 1..k = {} BY <2>2
    <3>2. f[1..k] = 0 BY <1>3, <3>1 DEF Sums
    <3>3. b[0] \in Int BY <2>2
    <3>. QED BY <2>1, <2>2, <3>2, <3>3
  <2>3. CASE k # 0
    <3>1. k - 1 \in 0..n /\ k \in 1..n /\ ~(k <= k - 1) BY <2>1, <2>3
    <3>2. f[1..(k - 1)] = b[k - 1] - b[0] BY <1>4, <3>1
    <3>3. /\ k \in Nat /\ k \in 1..k /\ 1..k \in SUBSET (1..n)
          /\ (1..k) \ {k} = 1..(k - 1)
      <4>. HIDE DEF Bad
      <4>1. k \in Nat /\ 1 <= k /\ k <= n BY <3>1
      <4>2. k \in 1..k BY <4>1
      <4>3. \A i \in 1..k : i \in 1..n BY <4>1
      <4>4. \A i \in 1..k : i # k => i \in 1..(k - 1) BY <4>1
      <4>5. \A i \in 1..(k - 1) : i \in 1..k /\ i # k BY <4>1
      <4>6. (1..k) \ {k} = 1..(k - 1) BY <4>4, <4>5
      <4>. QED BY <4>1, <4>2, <4>3, <4>6
    <3>4. Max(1..k) = k /\ 1..k # {} BY <3>3, MaxIs
    <3>5. f[1..k] = f[1..(k - 1)] + seq[k].records
      <4>1. PICK s : s = 1..k OBVIOUS
      <4>2. f[s] = IF s = {} THEN 0 ELSE f[s \ {Max(s)}] + seq[Max(s)].records
        BY <1>3, <3>3, <4>1 DEF Sums
      <4>. QED BY <3>3, <3>4, <4>1, <4>2
    <3>6. b[k] = b[k - 1] + seq[k].records /\ seq[k].records \in Int BY <3>1
    <3>7. b[k - 1] \in Int /\ b[0] \in Int BY <3>1
    <3>. HIDE DEF Bad
    <3>. QED BY <2>1, <3>2, <3>5, <3>6, <3>7
  <2>. QED BY <2>2, <2>3
<1>5. Bad = {}
  <2>1. Bad \in SUBSET Nat OBVIOUS
  <2>2. ASSUME Bad # {} PROVE FALSE
    <3>1. PICK m \in Bad : \A j \in Bad : m <= j BY <2>1, <2>2, LeastNatural
    <3>. HIDE DEF Bad
    <3>. QED BY <1>4, <3>1
  <2>. QED BY <2>2
<1>6. n \in 0..n OBVIOUS
<1>7. f[1..n] = b[n] - b[0] BY <1>5, <1>6
<1>. QED BY <1>1, <1>7

\* Prune takes from Len what it discards.
LEMMA PruneKeepsLength ==
  ASSUME TypeOK, CursorInv, LengthExact, NEW S \in SUBSET Holders, S # {}, Prune(S)
  PROVE  LengthExact'
<1>. DEFINE n == Len(chunks)
            kept(d) == SubSeq(chunks, 1, d)
            base(i) == origin[chunks[i]].base
            sum(d) == FoldLeft(LAMBDA m, v : m + v.records, 0, ViewsOf(heap, kept(d)))
<1>1. /\ UNCHANGED <<generation, heap, origin, history>>
      /\ length' = length - sum(Discardable(S))
  BY DEF Prune
<1>2. PICK d \in 1..(n - 1) : /\ d = Discardable(S) /\ Len(chunks') = n - d
                              /\ \A i \in 1..(n - d) : chunks'[i] = chunks[d + i]
  BY PruneIs
<1>3. n \in Nat /\ n > 0 BY SequencesTyped
<1>4. \A i \in 1..n : /\ chunks[i] \in DOMAIN heap /\ base(i) \in Nat
                       /\ Len(heap[chunks[i]].records) \in Nat
  <2>1. \A i \in 1..n : chunks[i] \in DOMAIN heap /\ base(i) \in Nat BY OriginTyped
  <2>2. heap \in Seq(Chunk) BY DEF TypeOK
  <2>. QED BY <2>1, <2>2, ChunkTyped
<1>5. \A i \in 1..(n - 1) : base(i + 1) = base(i) + Len(heap[chunks[i]].records)
  <2>1. DOMAIN chunks = 1..n BY LenProperties DEF TypeOK
  <2>2. \A i \in 1..(n - 1) : i \in 1..n /\ i < n BY <1>3
  <2>3. RetainedInOrder BY DEF CursorInv
  <2>. QED BY <2>1, <2>2, <2>3 DEF RetainedInOrder, EndBase
<1>6. kept(d) \in Seq(DOMAIN heap) /\ Len(kept(d)) = d /\ \A i \in 1..d : kept(d)[i] = chunks[i]
  <2>1. \A i \in 1..d : chunks[i] \in DOMAIN heap BY <1>2, <1>3, <1>4
  <2>2. d \in Int /\ 1 <= d /\ d - 1 + 1 = d BY <1>2, <1>3
  <2>3. /\ SubSeq(chunks, 1, d) \in Seq(DOMAIN heap) /\ Len(SubSeq(chunks, 1, d)) = d
        /\ \A i \in 1..d : SubSeq(chunks, 1, d)[i] = chunks[1 + i - 1]
    BY <2>1, <2>2, SubSeqProperties
  <2>4. \A i \in 1..d : 1 + i - 1 = i BY <2>2
  <2>. QED BY <2>3, <2>4
<1>. HIDE DEF kept
<1>7. PICK views : views = ViewsOf(heap, kept(d)) OBVIOUS
<1>8. DOMAIN views = 1..d /\ \A i \in 1..d : views[i].records = Len(heap[chunks[i]].records)
  BY <1>6, <1>7 DEF ViewsOf, View
<1>9. PICK b : b = [i \in 0..d |-> base(i + 1)] OBVIOUS
<1>10. \A i \in 0..d : i + 1 \in 1..n BY <1>2, <1>3
<1>11. b \in [0..d -> Int]
  <2>1. \A i \in 0..d : base(i + 1) \in Int BY <1>4, <1>10
  <2>. QED BY <1>9, <2>1
<1>12. ASSUME NEW i \in 1..d
       PROVE  b[i] = b[i - 1] + views[i].records /\ views[i].records \in Int
  <2>1. i \in 1..(n - 1) /\ i \in 0..d /\ i - 1 \in 0..d /\ (i - 1) + 1 = i /\ i \in 1..n
    BY <1>2, <1>3
  <2>2. b[i] = base(i + 1) /\ b[i - 1] = base(i) BY <1>9, <2>1
  <2>3. base(i + 1) = base(i) + Len(heap[chunks[i]].records) BY <1>5, <2>1
  <2>4. views[i].records = Len(heap[chunks[i]].records) /\ views[i].records \in Nat
    BY <1>4, <1>8, <2>1
  <2>. HIDE DEF base
  <2>. QED BY <2>2, <2>3, <2>4
<1>13. FoldLeft(LAMBDA m, v : m + v.records, 0, views) = b[d] - b[0]
  <2>1. d \in Nat BY <1>2, <1>3
  <2>. QED BY <1>8, <1>11, <1>12, <2>1, SumIs
<1>14. length' = length - (base(d + 1) - base(1))
  <2>1. b[d] = base(d + 1) /\ b[0] = base(1)
    <3>1. d \in 0..d /\ 0 \in 0..d /\ 0 + 1 = 1 BY <1>2, <1>3
    <3>. QED BY <1>9, <3>1
  <2>2. sum(d) = b[d] - b[0] BY <1>7, <1>13
  <2>. HIDE DEF sum, base
  <2>. QED BY <1>1, <1>2, <2>1, <2>2
<1>15. Discarded = base(1) /\ Discarded' = base(d + 1)
  <2>1. 1 \in 1..(n - d) BY <1>2, <1>3
  <2>. QED BY <1>1, <1>2, <2>1 DEF Discarded
<1>16. Len(history[generation]) \in Nat
  <2>1. GenerationsOwned BY DEF CursorInv
  <2>. QED BY <2>1, HistoryTyped DEF GenerationsOwned
<1>17. base(1) \in Nat /\ base(d + 1) \in Nat
  <2>1. 1 \in 1..n /\ d + 1 \in 1..n BY <1>2, <1>3
  <2>. QED BY <1>4, <2>1
<1>. HIDE DEF base
<1>18. PICK l, p, q : l = Len(history[generation]) /\ p = base(1) /\ q = base(d + 1) OBVIOUS
<1>19. length = l - p /\ l \in Nat /\ p \in Nat /\ q \in Nat
  BY <1>15, <1>16, <1>17, <1>18 DEF LengthExact
<1>20. length' = length - (q - p) BY <1>14, <1>18
<1>21. length' = l - q BY ONLY <1>19, <1>20
<1>22. Len(history[generation])' = l BY <1>1, <1>18
<1>. QED BY <1>15, <1>18, <1>21, <1>22 DEF LengthExact

\* An append counts.
LEMMA AppendKeepsLength ==
  ASSUME TypeOK, CursorInv, LengthExact, NEW C, Grows(C), length' = length + 1
  PROVE  LengthExact'
<1>1. PICK entry : history' = [history EXCEPT ![generation] = Append(@, entry)] BY DEF Grows
<1>2. generation' = generation /\ generation \in DOMAIN history
  BY DEF Grows, CursorInv, GenerationsOwned
<1>3. PICK log : log = history[generation] OBVIOUS
<1>4. log \in Seq(Frames \cup Events) BY <1>2, <1>3 DEF TypeOK
<1>5. history'[generation'] = Append(log, entry) BY <1>1, <1>2, <1>3
<1>6. Len(Append(log, entry)) = Len(log) + 1 /\ Len(log) \in Nat BY <1>4
<1>7. Discarded' = Discarded /\ Discarded \in Nat
  <2>1. 1 \in 1..Len(chunks)
    <3>1. Len(chunks) \in Nat /\ Len(chunks) > 0 BY SequencesTyped
    <3>. QED BY <3>1
  <2>2. /\ chunks[1] \in DOMAIN heap /\ origin[chunks[1]].base \in Nat BY <2>1, OriginTyped
  <2>3. chunks'[1] = chunks[1] BY <2>1, GrowsList
  <2>4. origin'[chunks[1]] = origin[chunks[1]] BY <2>2, GrowsHeap DEF HeapGrows
  <2>. QED BY <2>2, <2>3, <2>4 DEF Discarded
<1>8. PICK l, p : l = Len(log) /\ p = Discarded OBVIOUS
<1>9. length = l - p /\ l \in Nat /\ p \in Nat BY <1>3, <1>6, <1>7, <1>8 DEF LengthExact
<1>10. length + 1 = (l + 1) - p BY ONLY <1>9
<1>11. Len(history[generation])' = l + 1 BY <1>5, <1>6, <1>8
<1>. QED BY <1>7, <1>8, <1>10, <1>11 DEF LengthExact

-----------------------------------------------------------------------------
(* One invariant for the links and the length.                             *)

LinkInv == (\A id \in DOMAIN heap : Linked(heap[id]) /\ KeysNamed(heap[id])) /\ LengthExact

\* rotate leaves the active chunk, or opens one that has nothing to link.
LEMMA RotateLinked ==
  ASSUME TypeOK, CursorInv, LinkInv, NEW n \in 0..MaxDataLength
  PROVE  LET base == Rotate(n).heap[Rotate(n).active] IN Linked(base) /\ KeysNamed(base)
<1>. DEFINE r == Rotate(n)
            base == r.heap[r.active]
<1>1. heap \in Seq(Chunk) /\ active \in DOMAIN heap BY DEF TypeOK
<1>2. ASSUME Fits(heap[active], n) PROVE Linked(base) /\ KeysNamed(base)
  <2>1. r.heap = heap /\ r.active = active BY <1>2 DEF Rotate
  <2>. HIDE DEF r
  <2>. QED BY <1>1, <2>1 DEF LinkInv
<1>3. ASSUME ~Fits(heap[active], n) PROVE Linked(base) /\ KeysNamed(base)
  <2>1. PICK a, b : LET fresh == [NewCaptureChunk(a, b) EXCEPT !.sequence = heap[active].sequence + 1]
                    IN r.heap = Append(heap, fresh) /\ r.active = Len(heap) + 1
    BY <1>3 DEF Rotate
  <2>2. PICK fresh : /\ fresh = [NewCaptureChunk(a, b) EXCEPT !.sequence = heap[active].sequence + 1]
                     /\ r.heap = Append(heap, fresh) /\ r.active = Len(heap) + 1
    BY <2>1
  <2>3. /\ fresh.records = <<>> /\ fresh.keyStates = [key \in Keys |-> NoKeyState]
        /\ fresh.eventStates = [bus \in Buses |-> NoEventState]
    BY <2>2 DEF NewCaptureChunk
  <2>. HIDE DEF r
  <2>4. base = fresh BY <1>1, <2>2
  <2>5. Linked(fresh) /\ KeysNamed(fresh) BY <2>3, NewChunkLinked
  <2>. QED BY <2>4, <2>5
<1>. QED BY <1>2, <1>3

\* Store keeps every other chunk.
LEMMA StoreLinked ==
  ASSUME TypeOK, CursorInv, LinkInv, NEW C, Grows(C),
         heap'[active'] = C, Linked(C), KeysNamed(C), length' = length + 1
  PROVE  LinkInv'
<1>1. LengthExact' BY AppendKeepsLength DEF LinkInv
<1>2. ASSUME NEW id \in DOMAIN heap' PROVE Linked(heap'[id]) /\ KeysNamed(heap'[id])
  <2>1. CASE id = active' BY <2>1
  <2>2. CASE id # active'
    <3>1. id \in DOMAIN heap /\ heap'[id] = heap[id] BY <2>2, GrowsHeap
    <3>. QED BY <3>1 DEF LinkInv
  <2>. QED BY <2>1, <2>2
<1>3. (\A id \in DOMAIN heap : Linked(heap[id]) /\ KeysNamed(heap[id]))'
  BY <1>2 DEF Linked, Threads, FramesOf, EventsOf, KeysNamed
<1>. QED BY <1>1, <1>3 DEF LinkInv

\* appendFrame.
LEMMA FrameLinked ==
  ASSUME TypeOK, CursorInv, LinkInv, NEW frame \in Frames, AppendFrame(frame)
  PROVE  LinkInv'
<1>. DEFINE r == Rotate(Len(frame.data))
            base == r.heap[r.active]
            C == PutFrame(base, frame)
<1>1. Store(r, C, frame) BY DEF AppendFrame
<1>2. frame \in FrameEvent /\ Len(frame.data) \in 0..MaxDataLength BY InputAssumption, FrameTyped
<1>3. Rotated(r, base) BY <1>2, RotateSound
<1>4. Linked(base) /\ KeysNamed(base) BY <1>2, RotateLinked
<1>. HIDE DEF r, base
<1>5. base \in Chunk /\ ChunkSound(base) BY <1>3 DEF Rotated
<1>6. /\ C \in Chunk /\ ChunkSound(C) /\ C.sequence = base.sequence
      /\ Len(C.records) = Len(base.records) + 1
  BY <1>2, <1>5, PutFrameSound
<1>7. Linked(C) /\ KeysNamed(C) BY <1>2, <1>4, <1>5, PutFrameLinked
<1>. HIDE DEF C
<1>8. Grows(C) /\ heap'[active'] = C BY <1>1, <1>3, <1>6, StoreGrows
<1>9. length' = length + 1 BY <1>1 DEF Store
<1>. QED BY <1>7, <1>8, <1>9, StoreLinked

\* appendEvent.
LEMMA EventLinked ==
  ASSUME TypeOK, CursorInv, LinkInv, NEW event \in Events, AppendEvent(event)
  PROVE  LinkInv'
<1>. DEFINE r == Rotate(0)
            base == r.heap[r.active]
            C == PutEvent(base, event)
<1>1. Store(r, C, event) BY DEF AppendEvent
<1>2. event \in Event /\ 0 \in 0..MaxDataLength BY InputAssumption, LengthAssumption
<1>3. Rotated(r, base) BY <1>2, RotateSound
<1>4. Linked(base) /\ KeysNamed(base) BY <1>2, RotateLinked
<1>. HIDE DEF r, base
<1>5. base \in Chunk /\ ChunkSound(base) BY <1>3 DEF Rotated
<1>6. /\ C \in Chunk /\ ChunkSound(C) /\ C.sequence = base.sequence
      /\ Len(C.records) = Len(base.records) + 1
  BY <1>2, <1>5, PutEventSound
<1>7. Linked(C) /\ KeysNamed(C) BY <1>2, <1>4, <1>5, PutEventLinked
<1>. HIDE DEF C
<1>8. Grows(C) /\ heap'[active'] = C BY <1>1, <1>3, <1>6, StoreGrows
<1>9. length' = length + 1 BY <1>1 DEF Store
<1>. QED BY <1>7, <1>8, <1>9, StoreLinked

\* Clear opens a chunk that has nothing to link, and counts from zero.
LEMMA ClearLinked ==
  ASSUME TypeOK, LinkInv, Clear
  PROVE  LinkInv'
<1>1. PICK a, b :
        /\ heap' = Append(heap, NewCaptureChunk(a, b)) /\ chunks' = <<Len(heap) + 1>>
        /\ length' = 0 /\ generation' = captureEpochs + 1
        /\ origin' = Append(origin, [generation |-> captureEpochs + 1, base |-> 0])
        /\ history' = [g \in DOMAIN history \cup {captureEpochs + 1} |->
                         IF g = captureEpochs + 1 THEN <<>> ELSE history[g]]
  BY DEF Clear
<1>2. PICK fresh : fresh = NewCaptureChunk(a, b) OBVIOUS
<1>3. /\ fresh.records = <<>> /\ fresh.keyStates = [key \in Keys |-> NoKeyState]
      /\ fresh.eventStates = [bus \in Buses |-> NoEventState]
  BY <1>2 DEF NewCaptureChunk
<1>4. Linked(fresh) /\ KeysNamed(fresh) BY <1>3, NewChunkLinked
<1>5. heap \in Seq(Chunk) /\ origin \in Seq([generation : Nat, base : Nat]) /\ Len(origin) = Len(heap)
  BY DEF TypeOK
<1>6. ASSUME NEW id \in DOMAIN heap' PROVE Linked(heap'[id]) /\ KeysNamed(heap'[id])
  <2>1. heap'[id] = fresh \/ (id \in DOMAIN heap /\ heap'[id] = heap[id])
    BY <1>1, <1>2, <1>5
  <2>. QED BY <1>4, <2>1 DEF LinkInv
<1>7. (\A id \in DOMAIN heap : Linked(heap[id]) /\ KeysNamed(heap[id]))'
  BY <1>6 DEF Linked, Threads, FramesOf, EventsOf, KeysNamed
<1>8. LengthExact'
  <2>1. Discarded' = 0 BY <1>1, <1>5 DEF Discarded
  <2>2. history'[generation'] = <<>> BY <1>1
  <2>. QED BY <1>1, <2>1, <2>2 DEF LengthExact
<1>. QED BY <1>7, <1>8 DEF LinkInv

\* The first chunk has nothing to link.
LEMMA InitLinked == Init => LinkInv
<1>. SUFFICES ASSUME Init PROVE LinkInv OBVIOUS
<1>1. heap = <<NewCaptureChunk(InitialRecords, InitialPayload)>> BY DEF Init
<1>2. PICK fresh : fresh = NewCaptureChunk(InitialRecords, InitialPayload) OBVIOUS
<1>3. /\ fresh.records = <<>> /\ fresh.keyStates = [key \in Keys |-> NoKeyState]
      /\ fresh.eventStates = [bus \in Buses |-> NoEventState]
  BY <1>2 DEF NewCaptureChunk
<1>4. Linked(fresh) /\ KeysNamed(fresh) BY <1>3, NewChunkLinked
<1>5. \A id \in DOMAIN heap : heap[id] = fresh BY <1>1, <1>2
<1>6. LengthExact
  <2>1. Discarded = 0 BY DEF Init, Discarded
  <2>2. history[generation] = <<>> /\ length = 0 BY DEF Init
  <2>. QED BY <2>1, <2>2 DEF LengthExact
<1>. QED BY <1>4, <1>5, <1>6 DEF LinkInv

\* The steps that leave the storage alone.
LEMMA LinksStay ==
  ASSUME LinkInv, heap' = heap
  PROVE  (\A id \in DOMAIN heap : Linked(heap[id]) /\ KeysNamed(heap[id]))'
<1>1. \A id \in DOMAIN heap' : Linked(heap'[id]) /\ KeysNamed(heap'[id]) BY DEF LinkInv
<1>. QED BY <1>1 DEF Linked, Threads, FramesOf, EventsOf, KeysNamed

\* Every step keeps every record linked and counted.
LEMMA StepLinked == TypeOK /\ CursorInv /\ LinkInv /\ [Next]_vars => LinkInv'
<1>. SUFFICES ASSUME TypeOK, CursorInv, LinkInv, [Next]_vars PROVE LinkInv' OBVIOUS
<1>1. ASSUME NEW frame \in Frames, AppendFrame(frame) PROVE LinkInv' BY <1>1, FrameLinked
<1>2. ASSUME NEW event \in Events, AppendEvent(event) PROVE LinkInv' BY <1>2, EventLinked
<1>3. CASE Clear BY <1>3, ClearLinked
<1>4. ASSUME NEW S \in (SUBSET Holders) \ {{}}, Prune(S) PROVE LinkInv'
  <2>1. LengthExact' BY <1>4, PruneKeepsLength DEF LinkInv
  <2>2. heap' = heap BY <1>4 DEF Prune
  <2>. QED BY <2>1, <2>2, LinksStay DEF LinkInv
<1>5. ASSUME \/ FinishAllocation \/ OtherCapture
             \/ \E h \in Holders : TakeEnd(h) \/ TakeZero(h) \/ TakeForeign(h)
             \/ \E r \in Readers : BeginRead(r) \/ EndRead(r)
             \/ \E c \in Callers : (\E key \in Keys : AddWaiter(c, key))
                                   \/ FindHit(c) \/ FindMiss(c) \/ Wake(c) \/ Cancel(c)
             \/ UNCHANGED vars
      PROVE  LinkInv'
  <2>1. UNCHANGED <<heap, origin, history, generation, chunks, length>>
    BY <1>5 DEF FinishAllocation, OtherCapture, TakeEnd, TakeZero, TakeForeign, Hold, BeginRead,
                EndRead, AddWaiter, FindHit, FindMiss, Wake, Cancel, Return, storage, vars
  <2>2. LengthExact' BY <2>1 DEF LinkInv, LengthExact, Discarded
  <2>. QED BY <2>1, <2>2, LinksStay DEF LinkInv
<1>. QED BY <1>1, <1>2, <1>3, <1>4, <1>5, Zenon DEF Next

-----------------------------------------------------------------------------
(* Theorems.                                                               *)

\* Every variable of the capture has its type in every reachable state; no
\* chunk is ever planned below the minimum capacities, so rotate always finds
\* room for a frame.
THEOREM Types == Spec => []TypeOK
<1>1. TypeOK /\ CursorInv /\ [Next]_vars => (TypeOK /\ CursorInv)' BY StepKeeps
<1>. QED BY <1>1, InitInv, PTL DEF Spec

\* The chunks of a generation, the prune seam, and every cursor and snapshot in
\* circulation stay in the order CursorInv states, for any number of
\* goroutines, appends, clears and prunes.
THEOREM CursorInvariant == Spec => []CursorInv
<1>1. TypeOK /\ CursorInv /\ [Next]_vars => (TypeOK /\ CursorInv)' BY StepKeeps
<1>. QED BY <1>1, InitInv, PTL DEF Spec

\* locateCursor places a cursor exactly when no record after it was lost to
\* Clear or Prune, and it is not another capture's.
THEOREM Placement == Spec => []CursorPlacement
<1>1. TypeOK /\ CursorInv /\ [Next]_vars => (TypeOK /\ CursorInv)' BY StepKeeps
<1>2. TypeOK /\ CursorInv => CursorPlacement BY PlacementHolds
<1>. QED BY <1>1, <1>2, InitInv, PTL DEF Spec

\* Prune, whatever cursors it is given, leaves each of them placed: nothing
\* after any of them is discarded.
THEOREM PruneKeeping == Spec => PruneKeepsCursors
<1>1. TypeOK /\ CursorInv /\ [Next]_vars => (TypeOK /\ CursorInv)' BY StepKeeps
<1>2. TypeOK /\ CursorInv =>
        \A S \in (SUBSET Holders) \ {{}} : Prune(S) => \A h \in S : Locate(cursor[h]).ok'
  BY PruneKeepsPlaced
<1>3. TypeOK /\ CursorInv =>
        [\A S \in (SUBSET Holders) \ {{}} :
           Prune(S) => \A h \in S : Locate(cursor[h]).ok']_vars
  BY <1>2
<1>. QED BY <1>1, <1>3, InitInv, PTL DEF Spec, PruneKeepsCursors

\* Whatever appends, cancellations and returns do in between, a registered
\* waiter is not yet ready and counts exactly the calls of Next that share
\* it, all for its key, and a call whose waiter is no longer registered has
\* been woken (addWaiter, removeWaiter, appendFrame's wakeup).
THEOREM WaitersAccounted == Spec => []WaiterAccounting
<1>1. TypeOK /\ CursorInv /\ [Next]_vars => (TypeOK /\ CursorInv)' BY StepKeeps
<1>. QED BY <1>1, StepAccounted, InitInv, InitAccounted, PTL DEF Spec

\* Through every rotation, clear and prune, each chunk decodes to exactly the
\* frames and events that appendFrame and appendEvent put in it, in order.
THEOREM RecordsAlwaysFaithful == Spec => []RecordsFaithful
<1>1. TypeOK /\ CursorInv /\ [Next]_vars => (TypeOK /\ CursorInv)' BY StepKeeps
<1>2. FaithInv => RecordsFaithful BY DEF FaithInv
<1>. QED BY <1>1, <1>2, StepFaithful, InitInv, InitFaithful, PTL DEF Spec

\* A reader that goes on after releasing the mutex decodes through its view of
\* the active chunk what was appended to it, whatever was put in it since.
THEOREM SnapshotsAlwaysFaithful == Spec => []SnapshotsFaithful
<1>1. TypeOK /\ CursorInv /\ [Next]_vars => (TypeOK /\ CursorInv)' BY StepKeeps
<1>2. FaithInv => SnapshotsFaithful BY DEF FaithInv
<1>. QED BY <1>1, <1>2, StepFaithful, InitInv, InitFaithful, PTL DEF Spec

\* Latest and LatestControllerState hold the last frame of each key and the
\* last controller state of each bus since Clear, pruned or not.
THEOREM LatestAlwaysExact == Spec => []LatestExact
<1>1. TypeOK /\ CursorInv /\ [Next]_vars => (TypeOK /\ CursorInv)' BY StepKeeps
<1>2. FaithInv => LatestExact BY DEF FaithInv
<1>. QED BY <1>1, <1>2, StepFaithful, InitInv, InitFaithful, PTL DEF Spec

\* What is stored, linked, remembered and counted is the history of appends:
\* each chunk decodes to what was appended to it, the links of each key and bus
\* thread exactly its own records, the latest entries are the last of the
\* generation, and Len and the retained chunks cover what was neither pruned
\* nor cleared (rotate, appendFrame, appendEvent, Clear, Prune).
THEOREM HistoryAlwaysExact == Spec => []HistoryExact
<1>1. TypeOK /\ CursorInv /\ [Next]_vars => (TypeOK /\ CursorInv)' BY StepKeeps
<1>2. TypeOK /\ CursorInv /\ FaithInv /\ LinkInv => HistoryExact
  <2>. SUFFICES ASSUME TypeOK, CursorInv, FaithInv, LinkInv PROVE HistoryExact OBVIOUS
  <2>1. RecordsFaithful /\ LatestExact BY DEF FaithInv
  <2>2. LinksFaithful BY DEF LinkInv, LinksFaithful
  <2>3. RetainedExact
    <3>1. RetainedInOrder BY DEF CursorInv
    <3>2. DOMAIN chunks = 1..Len(chunks) /\ Len(chunks) \in Nat BY LenProperties DEF TypeOK
    <3>3. \A i \in 1..(Len(chunks) - 1) : i \in DOMAIN chunks /\ i < Len(chunks) BY <3>2
    <3>. QED BY <3>1, <3>3 DEF RetainedInOrder, RetainedExact, EndBase, LinkInv
  <2>. QED BY <2>1, <2>2, <2>3 DEF HistoryExact
<1>. QED BY <1>1, <1>2, StepFaithful, StepLinked, InitInv, InitFaithful, InitLinked, PTL DEF Spec

=============================================================================
