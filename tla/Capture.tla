------------------------------- MODULE Capture -------------------------------
(***************************************************************************)
(* gocan's Capture (capture.go, capture_range.go): appends, chunk rotation *)
(* with background allocation, Clear, Prune, snapshot reads and Next with  *)
(* its shared waiters.  Each action is one critical section of capture.mu, *)
(* or the work a reader does on its snapshot after releasing it.           *)
(***************************************************************************)
EXTENDS CaptureStorage, FiniteSets

CONSTANTS
  Frames,      \* the frame events appended, valid as FrameEvent.Validate wants
  Events,      \* the non-frame events appended
  Readers,     \* goroutines that use the Since, Between and Write reads
  Callers,     \* goroutines that use Next
  MaxAppends,  \* bound: appends over the capture's life
  MaxEpochs    \* bound: values drawn from the process-wide epoch counter

ASSUME InputAssumption == Frames \subseteq FrameEvent /\ Events \subseteq Event
ASSUME HoldersAssumption == IsFiniteSet(Callers) /\ Readers \cap Callers = {}
ASSUME BoundsAssumption == MaxAppends \in Nat /\ MaxEpochs \in Nat

Holders == Readers \cup Callers

VARIABLES
  captureEpochs,  \* the process-wide counter captureEpochs
  generation, chunks, active, next, latest, latestStates, length, pruneSeam,
  \* next is <<>> for nil; an unused chunk is known by its capacities
  allocation,     \* allocatingNext, with the capacities its goroutine was given
  heap,           \* every captureChunk that was ever active
  waiters,        \* the map from key to waiter
  waiterHeap,     \* the captureWaiter objects
  cursor,         \* the cursor each goroutine holds
  call,           \* the capture call each goroutine is in
  history,        \* history: per generation of this capture, what was appended
  origin          \* history: per chunk, its generation and the appends before it

storage == <<generation, chunks, active, next, allocation, heap, length, pruneSeam, origin>>
indexes == <<latest, latestStates>>
waiting == <<waiters, waiterHeap>>
holding == <<cursor, call>>
vars == <<captureEpochs, storage, indexes, waiting, holding, history>>

-----------------------------------------------------------------------------
Idle == [op |-> "idle"]
None == [kind |-> "none"]  \* no entry: absent from a map, or a zero value
NoWaiter == 0               \* a nil *captureWaiter
WaiterIds == 1..Cardinality(Callers)
NewCaptureWaiter == [count |-> 0, ready |-> FALSE, event |-> None, cursor |-> ZeroCursor]

Appended == FoldSet(LAMBDA g, n : n + Len(history[g]), 0, DOMAIN history)

\* The number of records of this generation that Prune has discarded.
Discarded == origin[chunks[1]].base

Locate(c) == LocateCursor(heap, c, generation, chunks, pruneSeam)

\* What a read copies while it holds the mutex.  opened and length are
\* history: the positions the retained records had at that moment.
Snapshot ==
  [generation |-> generation, chunks |-> chunks, activeView |-> View(heap, active),
   keyStates |-> heap[active].keyStates, eventStates |-> heap[active].eventStates,
   pruneSeam |-> pruneSeam, opened |-> Discarded, length |-> Len(history[generation])]

Init ==
  /\ captureEpochs = 1 /\ generation = 1
  /\ heap = <<NewCaptureChunk(InitialRecords, InitialPayload)>>
  /\ chunks = <<1>> /\ active = 1
  /\ next = <<[records |-> InitialRecords, payload |-> InitialPayload]>>
  /\ allocation = <<>>
  /\ latest = [key \in Keys |-> None] /\ latestStates = [bus \in Buses |-> None]
  /\ length = 0 /\ pruneSeam = ZeroCursor
  /\ waiters = [key \in Keys |-> NoWaiter]
  /\ waiterHeap = [w \in WaiterIds |-> NewCaptureWaiter]
  /\ cursor = [h \in Holders |-> ZeroCursor]
  /\ call = [h \in Holders |-> Idle]
  /\ history = [g \in {1} |-> <<>>]
  /\ origin = <<[generation |-> 1, base |-> 0]>>

-----------------------------------------------------------------------------
(* Appends.                                                                *)

\* prepareNextLocked, called with next = nil: start the allocating goroutine
\* unless one is already running.
PrepareNext(capacities) == IF allocation = <<>> THEN <<capacities>> ELSE allocation

\* rotate: the storage with an active chunk that has room for one record and
\* payloadLength bytes.
Rotate(payloadLength) ==
  LET chunk      == heap[active]
      capacities == ReplacementCapacities(Len(chunk.records), Len(chunk.payload))
      room       == IF next = <<>> THEN capacities ELSE next[1]
      fresh      == [NewCaptureChunk(room.records, room.payload)
                       EXCEPT !.sequence = chunk.sequence + 1]
      id         == Len(heap) + 1
  IN IF Fits(chunk, payloadLength)
     THEN [heap |-> heap, chunks |-> chunks, active |-> active, next |-> next,
           allocation |-> allocation, origin |-> origin]
     ELSE [heap       |-> Append(heap, fresh),
           chunks     |-> Append(chunks, id),
           active     |-> id,
           next       |-> <<>>,
           allocation |-> PrepareNext(capacities),
           origin     |-> Append(origin, [generation |-> generation,
                                          base |-> Len(history[generation])])]

\* The common part of appendFrame and appendEvent: store chunk, the active
\* chunk with the new record, and count it.
Store(rotated, chunk, entry) ==
  /\ Appended < MaxAppends
  /\ heap' = [rotated.heap EXCEPT ![rotated.active] = chunk]
  /\ chunks' = rotated.chunks /\ active' = rotated.active /\ next' = rotated.next
  /\ allocation' = rotated.allocation /\ origin' = rotated.origin
  /\ length' = length + 1
  /\ history' = [history EXCEPT ![generation] = Append(@, entry)]
  /\ UNCHANGED <<generation, pruneSeam, captureEpochs, holding>>

\* Mutant of WakeWaiters: the waiter is dropped but not woken.
DropWaiters(key, event, at) ==
  waiters' = [waiters EXCEPT ![key] = NoWaiter] /\ UNCHANGED waiterHeap

WakeWaiters(key, event, at) ==
  IF waiters[key] = NoWaiter THEN UNCHANGED waiting
  ELSE /\ waiters' = [waiters EXCEPT ![key] = NoWaiter]
       /\ waiterHeap' = [waiterHeap EXCEPT
            ![waiters[key]] = [@ EXCEPT !.ready = TRUE, !.event = event, !.cursor = at]]

AppendFrame(frame) ==
  LET rotated == Rotate(Len(frame.data))
      chunk   == PutFrame(rotated.heap[rotated.active], frame)
      index   == Len(chunk.records) - 1
      stored  == FrameAt(heap', View(heap', rotated.active), index)
  IN /\ Store(rotated, chunk, frame)
     /\ latest' = [latest EXCEPT ![frame.key] = stored]
     /\ WakeWaiters(frame.key, stored,
          [generation |-> generation, chunk |-> chunk.sequence, record |-> index])
     /\ UNCHANGED latestStates

AppendEvent(event) ==
  LET rotated == Rotate(0)
      chunk   == PutEvent(rotated.heap[rotated.active], event)
      stored  == EventAt(heap', View(heap', rotated.active), Len(chunk.records) - 1)
  IN /\ Store(rotated, chunk, event)
     /\ latestStates' = IF event.event = EventControllerState
                        THEN [latestStates EXCEPT ![event.bus] = stored] ELSE latestStates
     /\ UNCHANGED <<latest, waiting>>

\* The goroutine of prepareNextLocked takes the mutex.
FinishAllocation ==
  /\ allocation # <<>>
  /\ next' = IF next = <<>> THEN allocation ELSE next
  /\ allocation' = <<>>
  /\ UNCHANGED <<captureEpochs, generation, chunks, active, heap, length, pruneSeam,
                 origin, indexes, waiting, holding, history>>

-----------------------------------------------------------------------------
(* Retention.                                                              *)

\* Mutant of ClearIndexes: the last controller states survive.
ClearLatestOnly == latest' = [key \in Keys |-> None] /\ UNCHANGED latestStates

ClearIndexes == latest' = [key \in Keys |-> None] /\ latestStates' = [bus \in Buses |-> None]

Clear ==
  LET room  == IF next # <<>> THEN next[1]
               ELSE [records |-> heap[active].recordCap, payload |-> heap[active].payloadCap]
      id    == Len(heap) + 1
      epoch == captureEpochs + 1
  IN /\ captureEpochs < MaxEpochs
     /\ captureEpochs' = epoch /\ generation' = epoch
     /\ heap' = Append(heap, NewCaptureChunk(room.records, room.payload))
     /\ chunks' = <<id>> /\ active' = id /\ next' = <<>>
     /\ allocation' = PrepareNext(room)
     /\ ClearIndexes
     /\ length' = 0 /\ pruneSeam' = ZeroCursor
     /\ origin' = Append(origin, [generation |-> epoch, base |-> 0])
     /\ history' = [g \in DOMAIN history \cup {epoch} |-> IF g = epoch THEN <<>> ELSE history[g]]
     /\ UNCHANGED <<waiting, holding>>

\* Mutant of Earliest: the last cursor decides.
Furthest(placed) ==
  CHOOSE p \in placed : \A q \in placed :
    q.chunk < p.chunk \/ (p.chunk = q.chunk /\ q.boundary <= p.boundary)

Earliest(placed) ==
  CHOOSE p \in placed : \A q \in placed :
    p.chunk < q.chunk \/ (p.chunk = q.chunk /\ p.boundary <= q.boundary)

\* The number of leading chunks that Prune may discard for the cursors of S:
\* those before the earliest cursor, and its own when it is the last record
\* of a sealed chunk.
Discardable(S) ==
  LET least == Earliest({ Locate(cursor[h]) : h \in S })
  IN IF /\ least.chunk < Len(chunks) - 1
        /\ least.boundary = Len(heap[chunks[least.chunk + 1]].records) - 1
     THEN least.chunk + 1 ELSE least.chunk

\* Mutant of SeamAfter: the boundary's cursor is not kept.
SeamLost(discarded) == pruneSeam

\* The cursor of the last discarded record.
SeamAfter(discarded) == NewestCursor(pruneSeam, generation, discarded)

\* A cursor that does not place makes Prune fail and discard nothing.
Prune(S) ==
  LET discard   == Discardable(S)
      discarded == ViewsOf(heap, SubSeq(chunks, 1, discard))
  IN /\ \A h \in S : Locate(cursor[h]).ok
     /\ discard > 0
     /\ pruneSeam' = SeamAfter(discarded)
     /\ length' = length - FoldLeft(LAMBDA n, v : n + v.records, 0, discarded)
     /\ chunks' = SubSeq(chunks, discard + 1, Len(chunks))
     /\ UNCHANGED <<captureEpochs, generation, active, next, allocation, heap, origin,
                    indexes, waiting, holding, history>>

\* Another Capture of the process is created or cleared.
OtherCapture ==
  /\ captureEpochs < MaxEpochs
  /\ captureEpochs' = captureEpochs + 1
  /\ UNCHANGED <<storage, indexes, waiting, holding, history>>

-----------------------------------------------------------------------------
(* Where a goroutine's cursor comes from, besides the calls below.         *)

End == NewestCursor(ZeroCursor, generation, ViewsOf(heap, chunks))

Hold(h, c) ==
  /\ call[h] = Idle
  /\ cursor' = [cursor EXCEPT ![h] = c]
  /\ UNCHANGED <<captureEpochs, storage, indexes, waiting, call, history>>

TakeEnd(h) == Hold(h, End)
TakeZero(h) == Hold(h, ZeroCursor)

\* A cursor of another Capture, which drew its generation from the same counter.
TakeForeign(h) ==
  \E g \in 1..captureEpochs :
    /\ g \notin DOMAIN history
    /\ Hold(h, [generation |-> g, chunk |-> 0, record |-> 0])

-----------------------------------------------------------------------------
(* Reads.  BeginRead is the part under the read lock, EndRead the rest.    *)
(* A cursor that does not place ends the call with it unchanged.           *)

BeginRead(r) ==
  /\ call[r] = Idle
  /\ Locate(cursor[r]).ok
  /\ call' = [call EXCEPT ![r] = [op |-> "read", snapshot |-> Snapshot]]
  /\ UNCHANGED <<captureEpochs, storage, indexes, waiting, cursor, history>>

\* The read returns the newest cursor of its views.  A WriteRecordsSince whose
\* writer fails returns the cursor of the last record that was written, or
\* the cursor it was given.
EndRead(r) ==
  LET since == ViewsSince(heap, call[r].snapshot, cursor[r])
  IN /\ call[r].op = "read"
     /\ \E c \in {since.next, cursor[r]} \cup
                 RecordCursors(call[r].snapshot.generation, since.views, since.skip) :
          cursor' = [cursor EXCEPT ![r] = c]
     /\ call' = [call EXCEPT ![r] = Idle]
     /\ UNCHANGED <<captureEpochs, storage, indexes, waiting, history>>

-----------------------------------------------------------------------------
(* Next.                                                                   *)

\* Objects nobody refers to.  There is always one for a call that registers.
UnusedWaiters ==
  WaiterIds \ ({ waiters[k] : k \in Keys }
               \cup { call[d].waiter : d \in { d \in Callers : call[d] # Idle } })

\* addWaiter: snapshot and registration in one critical section.
AddWaiter(c, key) ==
  LET known == waiters[key] # NoWaiter
  IN /\ call[c] = Idle
     /\ Locate(cursor[c]).ok
     /\ \E w \in IF known THEN {waiters[key]}
                 ELSE { w \in UnusedWaiters : \A v \in UnusedWaiters : w <= v } :
          /\ waiters' = [waiters EXCEPT ![key] = w]
          /\ waiterHeap' = [waiterHeap EXCEPT ![w] =
               IF known THEN [waiterHeap[w] EXCEPT !.count = @ + 1]
               ELSE [NewCaptureWaiter EXCEPT !.count = 1]]
          /\ call' = [call EXCEPT ![c] =
               [op |-> "find", key |-> key, waiter |-> w, snapshot |-> Snapshot]]
     /\ UNCHANGED <<captureEpochs, storage, indexes, cursor, history>>

Pending(w) == { c \in Callers : call[c].op \in {"find", "wait"} /\ call[c].waiter = w }

\* A waiter object that only c still refers to is garbage once c returns.
Collected(c, objects) ==
  IF Pending(call[c].waiter) = {c}
  THEN [objects EXCEPT ![call[c].waiter] = NewCaptureWaiter] ELSE objects

\* removeWaiter: nothing to do once the waiter was woken, even if another
\* waiter has taken its place under the key.
RemoveWaiter(c) ==
  LET key     == call[c].key
      w       == call[c].waiter
      objects == [waiterHeap EXCEPT ![w].count = @ - 1]
  IN IF waiters[key] # w
     THEN /\ waiterHeap' = Collected(c, waiterHeap)
          /\ UNCHANGED waiters
     ELSE /\ waiterHeap' = Collected(c, objects)
          /\ waiters' = IF objects[w].count = 0
                        THEN [waiters EXCEPT ![key] = NoWaiter] ELSE waiters

Search(c) == FindNext(heap, call[c].snapshot, call[c].key, cursor[c])

Return(c, at) ==
  /\ cursor' = [cursor EXCEPT ![c] = at]
  /\ call' = [call EXCEPT ![c] = Idle]
  /\ UNCHANGED <<captureEpochs, storage, indexes, history>>

FindHit(c) ==
  /\ call[c].op = "find" /\ Search(c).found
  /\ RemoveWaiter(c)
  /\ Return(c, Search(c).cursor)

FindMiss(c) ==
  /\ call[c].op = "find" /\ ~Search(c).found
  /\ call' = [call EXCEPT ![c].op = "wait"]
  /\ UNCHANGED <<captureEpochs, storage, indexes, waiting, cursor, history>>

Wake(c) ==
  /\ call[c].op = "wait" /\ waiterHeap[call[c].waiter].ready
  /\ Return(c, waiterHeap[call[c].waiter].cursor)
  /\ waiterHeap' = Collected(c, waiterHeap)
  /\ UNCHANGED waiters

\* The context ends.  select may pick this branch although ready is closed.
Cancel(c) ==
  /\ call[c].op = "wait"
  /\ RemoveWaiter(c)
  /\ Return(c, cursor[c])

-----------------------------------------------------------------------------
Next ==
  \/ \E frame \in Frames : AppendFrame(frame)
  \/ \E event \in Events : AppendEvent(event)
  \/ FinishAllocation
  \/ Clear
  \/ \E S \in (SUBSET Holders) \ {{}} : Prune(S)
  \/ OtherCapture
  \/ \E h \in Holders : TakeEnd(h) \/ TakeZero(h) \/ TakeForeign(h)
  \/ \E r \in Readers : BeginRead(r) \/ EndRead(r)
  \/ \E c \in Callers : \/ \E key \in Keys : AddWaiter(c, key)
                        \/ FindHit(c) \/ FindMiss(c) \/ Wake(c) \/ Cancel(c)

Spec == Init /\ [][Next]_vars

\* A goroutine that can run does: a search, a loop over a finite snapshot that
\* can always go on, ends, and a closed ready channel releases the select.
\* Nothing obliges anyone to append, cancel or prune.
Fairness == \A c \in Callers : []<>(call[c].op # "find") /\ WF_vars(Wake(c))

FairSpec == Spec /\ Fairness

-----------------------------------------------------------------------------
(* Types.                                                                  *)

KeyState == [index : Nat, lastRecord : Nat, count : Nat]
EventState == [lastRecord : Nat, count : Nat]

Cursor == [generation : Nat, chunk : Nat, record : Nat]

Record == [kind : {"frame", "event"}, word0 : Nat, word1 : Nat, previous : Nat,
           detail0 : Nat, detail1 : Nat]

Chunk ==
  [sequence : Nat, keys : Seq(Keys), records : Seq(Record), payload : Seq(Bytes),
   keyStates : [Keys -> KeyState],
   eventStates : [Buses -> EventState],
   recordCap : Nat, payloadCap : Nat]

Capacities == { c \in [records : Nat, payload : Nat] :
                c.records >= MinRecords /\ c.payload >= MinPayload }

CaptureWaiter == [count : Int, ready : BOOLEAN, event : FrameEvent \cup {None}, cursor : Cursor]

CaptureView == [id : Nat, sequence : Nat, records : Nat, keys : Nat, payload : Nat]

CaptureSnapshot ==
  [generation : Nat, chunks : Seq(Nat), activeView : CaptureView,
   keyStates : [Keys -> KeyState],
   eventStates : [Buses -> EventState],
   pruneSeam : Cursor, opened : Nat, length : Nat]

CallType ==
  {Idle} \cup [op : {"read"}, snapshot : CaptureSnapshot]
         \cup [op : {"find", "wait"}, key : Keys, waiter : WaiterIds, snapshot : CaptureSnapshot]

\* Every variable has its type.  Whatever traffic ReplacementCapacities has
\* seen, a chunk is never planned below the minimum capacities; Latest,
\* LatestControllerState and a woken Next never hold an entry that is not one.
TypeOK ==
  /\ captureEpochs \in Nat /\ generation \in Nat
  /\ heap \in Seq(Chunk)
  /\ chunks \in Seq(DOMAIN heap) /\ chunks # <<>>
  /\ active \in DOMAIN heap
  /\ next \in Seq(Capacities) /\ Len(next) <= 1
  /\ allocation \in Seq(Capacities) /\ Len(allocation) <= 1
  /\ latest \in [Keys -> FrameEvent \cup {None}]
  /\ latestStates \in [Buses -> Event \cup {None}]
  /\ pruneSeam \in Cursor
  /\ waiters \in [Keys -> WaiterIds \cup {NoWaiter}]
  /\ waiterHeap \in [WaiterIds -> CaptureWaiter]
  /\ cursor \in [Holders -> Cursor]
  /\ call \in [Holders -> CallType]
  /\ DOMAIN history \subseteq 1..captureEpochs
  /\ \A g \in DOMAIN history : history[g] \in Seq(Frames \cup Events)
  /\ origin \in Seq([generation : Nat, base : Nat]) /\ Len(origin) = Len(heap)

-----------------------------------------------------------------------------
(* What the storage holds, against the history of appends.  The chunk of a *)
(* discarded or cleared generation stays in the heap: a reader may still   *)
(* hold it, so the claims are about every chunk that was ever active.      *)

\* Every record that a view covers decodes, through that view, to what was
\* appended to its place.
Decodes(view) ==
  LET log  == history[origin[view.id].generation]
      base == origin[view.id].base
  IN \A n \in 0..(view.records - 1) :
       base + n + 1 \in DOMAIN log /\ EntryAt(heap, view, n) = log[base + n + 1]

\* Every chunk decodes to exactly the frames and events appended to it, in order.
RecordsFaithful == \A id \in DOMAIN heap : Decodes(View(heap, id))

\* The record indices in chunk of a key's frames and of a bus's events.
FramesOf(chunk, key) ==
  { n \in 0..(Len(chunk.records) - 1) :
      LET record == chunk.records[n + 1]
      IN record.kind = "frame" /\ chunk.keys[record.word1 + 1] = key }
EventsOf(chunk, bus) ==
  { n \in 0..(Len(chunk.records) - 1) :
      LET record == chunk.records[n + 1]
      IN record.kind = "event" /\ EventData(record).bus = bus }

\* The newest of the records mine.
NewestOf(mine) == IF mine = {} THEN NoCaptureRecord ELSE Max(mine)

\* state counts the records mine and its links thread them: it names the newest,
\* and the previous link of each names the one before.
Threads(chunk, state, mine) ==
  /\ state.count = Cardinality(mine)
  /\ mine # {} => state.lastRecord = NewestOf(mine)
  /\ \A n \in mine : chunk.records[n + 1].previous = NewestOf({ m \in mine : m < n })

\* The links of each key and each bus thread exactly its own records, with
\* their count.
Linked(chunk) ==
  /\ \A key \in Keys : Threads(chunk, chunk.keyStates[key], FramesOf(chunk, key))
  /\ \A bus \in Buses : Threads(chunk, chunk.eventStates[bus], EventsOf(chunk, bus))

LinksFaithful == \A id \in DOMAIN heap : Linked(heap[id])

\* The last of the entries of log at the places hits, if there is one.
LastOf(log, hits) == IF hits = {} THEN None ELSE log[Max(hits)]

\* The places of a key's frames and of a bus's controller states in log.
FramesIn(log, key) == { i \in DOMAIN log : log[i].kind = "frame" /\ log[i].key = key }
StatesIn(log, bus) ==
  { i \in DOMAIN log :
      log[i].kind = "event" /\ log[i].bus = bus /\ log[i].event = EventControllerState }

\* Latest and LatestControllerState agree with the history, pruned or not.
LatestExact ==
  LET log == history[generation]
  IN /\ \A key \in Keys : latest[key] = LastOf(log, FramesIn(log, key))
     /\ \A bus \in Buses : latestStates[bus] = LastOf(log, StatesIn(log, bus))

\* Len counts the appends that are not discarded.
LengthExact == length = Len(history[generation]) - Discarded

\* rotate, Clear and Prune lose nothing and duplicate nothing: the retained
\* chunks hold consecutive runs of the appends up to the newest, and Len
\* counts them.
RetainedExact ==
  LET log == history[generation]
  IN /\ \A i \in 1..(Len(chunks) - 1) :
          origin[chunks[i + 1]].base = origin[chunks[i]].base + Len(heap[chunks[i]].records)
     /\ origin[active].base + Len(heap[active].records) = Len(log)
     /\ LengthExact

\* The storage holds the history: each chunk what was appended to it, and the
\* retained chunks together what was neither pruned nor cleared.
HistoryExact == RecordsFaithful /\ LinksFaithful /\ LatestExact /\ RetainedExact

-----------------------------------------------------------------------------
(* Cursors.                                                                *)

\* The chunks a cursor of this capture can name.
NamedBy(c) ==
  { id \in DOMAIN heap : origin[id].generation = c.generation /\ heap[id].sequence = c.chunk }

\* The number of appends of its generation up to and including a cursor's record.
Position(c) ==
  IF NamedBy(c) = {} THEN 0
  ELSE origin[CHOOSE id \in NamedBy(c) : TRUE].base + c.record + 1

\* locateCursor places exactly the cursors after which nothing was lost: the
\* zero cursor, and those of the current generation at or after the last
\* record Prune discarded.  A cursor of another Capture, of a generation that
\* Clear ended, or before the discarded boundary is refused.
CursorPlacement ==
  \A h \in Holders :
    LET c == cursor[h]
    IN Locate(c).ok <=>
         \/ c = ZeroCursor
         \/ \E id \in NamedBy(c) :
              /\ origin[id].generation = generation
              /\ origin[id].base + c.record + 1 >= Discarded

\* Prune never discards a record after a cursor it was given: they all still
\* place, so their holders continue without loss.
PruneKeepsCursors ==
  [][\A S \in (SUBSET Holders) \ {{}} :
       Prune(S) => \A h \in S : Locate(cursor[h]).ok']_vars

-----------------------------------------------------------------------------
(* Why cursors place: the parts of the inductive invariant.                *)

EndBase(id) == origin[id].base + Len(heap[id].records)

\* Generations come from the process-wide counter and are never drawn twice.
GenerationsOwned ==
  /\ generation \in DOMAIN history
  /\ \A g \in DOMAIN history : 1 <= g /\ g <= generation /\ g <= captureEpochs
  /\ \A id \in DOMAIN heap : origin[id].generation \in DOMAIN history

\* A generation and a sequence number name one chunk.
ChunksNamed ==
  \A id, other \in DOMAIN heap :
    /\ origin[id].generation = origin[other].generation
    /\ heap[id].sequence = heap[other].sequence
    => id = other

\* A chunk is as roomy as any frame needs, holds no payload without a record,
\* and its key table answers for the keys it has seen.
ChunkSound(chunk) ==
  /\ chunk.recordCap >= MinRecords /\ chunk.payloadCap >= MinPayload
  /\ chunk.records = <<>> => chunk.payload = <<>>
  /\ \A key \in Keys : chunk.keyStates[key].count # 0 =>
       /\ chunk.keyStates[key].index < Len(chunk.keys)
       /\ chunk.keys[chunk.keyStates[key].index + 1] = key

ChunksSound == \A id \in DOMAIN heap : ChunkSound(heap[id])

\* The retained chunks are consecutive in sequence and in append order, and
\* only the active one, the last, may be empty.
RetainedInOrder ==
  /\ active = chunks[Len(chunks)]
  /\ \A i \in DOMAIN chunks :
       /\ origin[chunks[i]].generation = generation
       /\ heap[chunks[i]].sequence = heap[chunks[1]].sequence + i - 1
       /\ i < Len(chunks) => heap[chunks[i]].records # <<>>
       /\ i < Len(chunks) => origin[chunks[i + 1]].base = EndBase(chunks[i])
       /\ \A j \in DOMAIN chunks : i < j => EndBase(chunks[i]) <= origin[chunks[j]].base
  /\ EndBase(active) = Len(history[generation])

\* Every other chunk of the generation was discarded and ends before the
\* retained ones; only the last of them ends where they begin.
DiscardedBehind ==
  \A id \in DOMAIN heap : origin[id].generation = generation =>
    \/ \E i \in DOMAIN chunks : id = chunks[i]
    \/ heap[id].sequence + 1 = heap[chunks[1]].sequence /\ EndBase(id) = Discarded
    \/ heap[id].sequence + 1 < heap[chunks[1]].sequence /\ EndBase(id) < Discarded

\* The seam is the cursor of the last discarded record.
SeamNamed ==
  IF heap[chunks[1]].sequence = 0 THEN pruneSeam = ZeroCursor
  ELSE \E id \in DOMAIN heap :
         /\ origin[id].generation = generation
         /\ heap[id].sequence + 1 = heap[chunks[1]].sequence
         /\ pruneSeam = [generation |-> generation, chunk |-> heap[id].sequence,
                         record |-> Len(heap[id].records) - 1]

\* A cursor in circulation is zero, names a record of this capture, or carries
\* a generation that another capture drew.
Genuine(c) ==
  \/ c = ZeroCursor
  \/ \E id \in DOMAIN heap : /\ origin[id].generation = c.generation
                            /\ heap[id].sequence = c.chunk
                            /\ c.record < Len(heap[id].records)
  \/ c.generation \in (1..captureEpochs) \ DOMAIN history

CursorsGenuine ==
  /\ \A h \in Holders : Genuine(cursor[h])
  /\ \A w \in WaiterIds : Genuine(waiterHeap[w].cursor)

\* A snapshot lists chunks of its own generation and a view of the last one
\* that the chunk has since only outgrown.
SnapshotSound(s) ==
  /\ s.chunks # <<>>
  /\ \A i \in DOMAIN s.chunks :
       s.chunks[i] \in DOMAIN heap /\ origin[s.chunks[i]].generation = s.generation
  /\ s.activeView.id = s.chunks[Len(s.chunks)]
  /\ s.activeView.sequence = heap[s.activeView.id].sequence
  /\ s.activeView.records <= Len(heap[s.activeView.id].records)

SnapshotsSound == \A h \in Holders : call[h] # Idle => SnapshotSound(call[h].snapshot)

\* The inductive invariant behind CursorPlacement: the order of the chunks of
\* the current generation, retained or not, the seam between them, and what
\* every cursor and every snapshot in circulation may name.
CursorInv ==
  /\ GenerationsOwned /\ ChunksNamed /\ ChunksSound
  /\ RetainedInOrder /\ DiscardedBehind /\ SeamNamed
  /\ CursorsGenuine /\ SnapshotsSound

-----------------------------------------------------------------------------
(* Reads in flight.                                                        *)

\* The appends that a read with snapshot s returns from position p on.
After(s, p) == SubSeq(history[s.generation], p + 1, s.length)

StartOf(s, c) == IF c = ZeroCursor THEN s.opened ELSE Position(c)

\* However many appends, rotations, prunes and clears happen between a read's
\* critical section and its end, every Since read returns exactly the records
\* that followed its cursor at call time, and the cursor of the newest of them.
SinceExact ==
  \A r \in Readers : call[r].op = "read" =>
    LET s     == call[r].snapshot
        c     == cursor[r]
        want  == After(s, StartOf(s, c))
        since == ViewsSince(heap, s, c)
    IN /\ SinceRead(heap, s, c, AnyRecord) = want
       /\ SinceRead(heap, s, c, IsFrame) = SelectSeq(want, LAMBDA e : e.kind = "frame")
       /\ SinceRead(heap, s, c, IsEvent) = SelectSeq(want, LAMBDA e : e.kind = "event")
       /\ \A key \in Keys : SeriesSince(heap, s, key, c) =
            SelectSeq(want, LAMBDA e : e.kind = "frame" /\ e.key = key)
       /\ \A bus \in Buses : BusEventsSince(heap, s, bus, c) =
            SelectSeq(want, LAMBDA e : e.kind = "event" /\ e.bus = bus)
       /\ IF s.length = 0 THEN since.next = ZeroCursor
          ELSE since.next.generation = s.generation /\ Position(since.next) = s.length

\* The Between reads return exactly the records in (start, end], and refuse
\* an end that precedes the start, was discarded, or lies beyond the snapshot.
BetweenExact ==
  \A r \in Readers : call[r].op = "read" =>
    \A h \in Holders :
      LET s    == call[r].snapshot
          from == StartOf(s, cursor[r])
          end  == cursor[h]
          to   == StartOf(s, end)
          ok   == /\ end = ZeroCursor \/ (end.generation = s.generation /\ NamedBy(end) # {})
                  /\ from <= to /\ to <= s.length
          Want(Test(_)) == SelectSeq(SubSeq(history[s.generation], from + 1, to), Test)
          Got(Wanted(_, _)) == BetweenRead(heap, s, cursor[r], end, Wanted)
      IN /\ ViewsBetween(heap, s, cursor[r], end).ok <=> ok
         /\ ok => /\ Got(AnyRecord) = Want(LAMBDA e : TRUE)
                  /\ Got(IsFrame) = Want(LAMBDA e : e.kind = "frame")
                  /\ Got(IsEvent) = Want(LAMBDA e : e.kind = "event")
                  /\ \A key \in Keys :
                       Got(LAMBDA v, record : record.kind = "frame"
                             /\ heap[v.id].keys[record.word1 + 1] = key)
                       = Want(LAMBDA e : e.kind = "frame" /\ e.key = key)
                  /\ \A bus \in Buses :
                       Got(LAMBDA v, record : record.kind = "event"
                             /\ EventData(record).bus = bus)
                       = Want(LAMBDA e : e.kind = "event" /\ e.bus = bus)

\* A snapshot's view of the chunk that was active decodes to what was appended
\* to it, whatever has been put in that chunk since.
SnapshotsFaithful == \A h \in Holders : call[h] # Idle => Decodes(call[h].snapshot.activeView)

\* A read in flight, open or bounded, answers for the moment it was called.
ReadsExact == SnapshotsFaithful /\ SinceExact /\ BetweenExact

-----------------------------------------------------------------------------
(* Next.                                                                   *)

\* The waiter map leaks nothing and forgets nobody: a registered waiter is
\* not ready, belongs to one key and counts exactly the calls that share it,
\* and a call whose waiter is no longer registered has been woken.
WaiterAccounting ==
  /\ \A key \in Keys : waiters[key] # NoWaiter =>
       LET w == waiters[key]
       IN /\ ~waiterHeap[w].ready
          /\ Pending(w) # {}
          /\ waiterHeap[w].count = Cardinality(Pending(w))
          /\ \A c \in Pending(w) : call[c].key = key
  /\ \A w \in WaiterIds : Pending(w) # {} =>
       waiterHeap[w].ready \/ \E key \in Keys : waiters[key] = w

\* The appends that may answer call c, as pairs <<generation, position>>: the
\* frames of its key after its cursor, in its own or a later generation.
Candidates(c) ==
  LET s == call[c].snapshot
  IN { p \in UNION { {g} \X DOMAIN history[g] : g \in DOMAIN history } :
         /\ history[p[1]][p[2]].kind = "frame" /\ history[p[1]][p[2]].key = call[c].key
         /\ p[1] > s.generation \/ (p[1] = s.generation /\ p[2] > StartOf(s, cursor[c])) }

\* The first of them in append order.
FirstOf(candidates) ==
  CHOOSE p \in candidates : \A q \in candidates :
    p[1] < q[1] \/ (p[1] = q[1] /\ p[2] <= q[2])

\* A pending Next returns the first frame of its key after its cursor: from
\* its snapshot if it is there, and otherwise from its waiter, which is ready
\* exactly when such a frame was appended since, even in a later generation.
NextExact ==
  \A c \in Callers : call[c] # Idle =>
    LET found   == Search(c)
        waiter  == waiterHeap[call[c].waiter]
        p       == FirstOf(Candidates(c))
        Is(hit) == /\ hit.event = history[p[1]][p[2]]
                   /\ hit.cursor.generation = p[1] /\ Position(hit.cursor) = p[2]
    IN IF Candidates(c) = {} THEN ~found.found /\ ~waiter.ready
       ELSE IF found.found THEN Is(found) ELSE waiter.ready /\ Is(waiter)

\* Whoever waits is counted, and whoever is answered is answered right.
CallersServed == WaiterAccounting /\ NextExact

\* No wakeup is lost: a Next for which a frame exists returns, whatever
\* Clear, Prune, cancellations of calls sharing its waiter and further appends
\* do in the meantime.
NextReturns ==
  \A c \in Callers : (call[c] # Idle /\ Candidates(c) # {}) ~> call[c] = Idle

-----------------------------------------------------------------------------
(* The capture implements CaptureLog.                                      *)

AbstractPosition(c) == [era |-> c.generation, at |-> Position(c)]

AbstractCall(h) ==
  CASE call[h] = Idle -> call[h]
    [] call[h].op = "read" ->
         [op |-> "read", era |-> call[h].snapshot.generation,
          from |-> StartOf(call[h].snapshot, cursor[h]),
          answer |-> After(call[h].snapshot, StartOf(call[h].snapshot, cursor[h]))]
    [] OTHER ->
         LET candidates == Candidates(h)
         IN [op |-> "next", key |-> call[h].key,
             answer |-> { [entry |-> history[p[1]][p[2]], era |-> p[1], at |-> p[2]] :
                          p \in IF candidates = {} THEN {} ELSE {FirstOf(candidates)} }]

Log == INSTANCE CaptureLog WITH
         Entries <- Frames \cup Events, Eras <- 1..MaxEpochs,
         era <- generation, log <- history[generation],
         discarded <- Discarded, position <- [h \in Holders |-> AbstractPosition(cursor[h])],
         pending <- [h \in Holders |-> AbstractCall(h)]

\* Every step of the chunked capture is a step of the plain log or invisible.
\* In particular a read goes on from the cursor of a prefix of its answer, Next
\* from the first matching frame after its cursor, Prune keeps what its cursors
\* need, and Clear, Prune and rotation never disturb a call in flight.
ImplementsLog == Log!LogSpec
=============================================================================
