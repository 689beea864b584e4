-------------------------- MODULE ChunkCapacities --------------------------
(***************************************************************************)
(* How a Capture sizes its chunks, in the machine arithmetic of the build. *)
(* A full chunk is replaced by one with capacities computed from what it   *)
(* held (rotate, replacementCapacities); a goroutine allocates the chunk   *)
(* after that in advance (prepareNextLocked).  Capture does the same with  *)
(* unbounded integers.                                                     *)
(***************************************************************************)
EXTENDS Integers

CONSTANTS Width,             \* bits of an int: 32 on the 386
          InitialRecords, InitialPayload, MinRecords, MinPayload,
          Lengths            \* payload lengths; events and remote frames have 0

VARIABLES active,       \* the chunk appended to: what it holds and its capacities
          next,         \* capacities of the chunk allocated in advance, or NoChunk
          allocating,   \* what the allocating goroutine is to deliver, or NoChunk
          replaced      \* history: what the last full chunk held, and what for it

vars == <<active, next, allocating, replaced>>

NoChunk == [records |-> 0, payload |-> 0]
Panic == [records |-> -1, payload |-> -1]
InitialCapacities == [records |-> InitialRecords, payload |-> InitialPayload]
NewChunk(capacities) == [records |-> 0, payload |-> 0, capacity |-> capacities]

Init ==
  /\ active = NewChunk(InitialCapacities) /\ next = InitialCapacities
  /\ allocating = NoChunk /\ replaced = [records |-> 0, payload |-> 0, by |-> NoChunk]

\* The value of n in an int, and Go's quotient, which rounds towards zero.
Wrapped(n) == ((n + 2 ^ (Width - 1)) % 2 ^ Width) - 2 ^ (Width - 1)
Quotient(n, d) == IF n < 0 THEN -((-n) \div d) ELSE n \div d
Largest(m, n) == IF m < n THEN n ELSE m

ReplacementCapacities(records, payload) ==
  LET byPayload == Wrapped(payload * InitialRecords)
      byRecords == Wrapped(records * InitialPayload)
  IN IF byPayload < byRecords
     THEN [records |-> Largest(InitialRecords, MinRecords),
           payload |-> Largest(Quotient(byPayload, records), MinPayload)]
     ELSE IF payload = 0 THEN Panic
     ELSE [records |-> Largest(Quotient(byRecords, payload), MinRecords),
           payload |-> Largest(InitialPayload, MinPayload)]

Fits(length) ==
  /\ active.records < active.capacity.records
  /\ active.payload + length <= active.capacity.payload

Put(chunk, length) == [chunk EXCEPT !.records = @ + 1, !.payload = @ + length]

\* An append of a record to the active chunk, or to the one that replaces it.
AppendRecord(length) ==
  /\ replaced.by # Panic
  /\ IF Fits(length) THEN active' = Put(active, length) /\ UNCHANGED <<next, allocating, replaced>>
     ELSE LET r == ReplacementCapacities(active.records, active.payload) IN
       /\ replaced' = [records |-> active.records, payload |-> active.payload, by |-> r]
       /\ IF r = Panic THEN UNCHANGED <<active, next, allocating>>
          ELSE /\ active' = Put(NewChunk(IF next = NoChunk THEN r ELSE next), length)
               /\ next' = NoChunk
               /\ allocating' = IF allocating = NoChunk THEN r ELSE allocating

\* The allocating goroutine delivers.
Allocated ==
  /\ allocating # NoChunk
  /\ next' = (IF next = NoChunk THEN allocating ELSE next) /\ allocating' = NoChunk
  /\ UNCHANGED <<active, replaced>>

Next == Allocated \/ \E length \in Lengths : AppendRecord(length)

Spec == Init /\ [][Next]_vars

-----------------------------------------------------------------------------
\* The capacity c of one dimension keeps the ratio of what a full chunk held of
\* it, n, to what it held of the other, of which the new chunk holds total.
Scaled(c, n, total, other, floor) ==
  \/ c = floor /\ n * total < (c + 1) * other
  \/ c > floor /\ c * other <= n * total /\ n * total < (c + 1) * other

\* What replacementCapacities says of itself (capture.go): it preserves the full
\* chunk's ratio of records to payload, scales its fuller dimension to the
\* initial capacity and floors the other at the minimum.
RatioPreserved ==
  replaced.records > 0 =>
    \/ /\ replaced.by.payload = InitialPayload
       /\ Scaled(replaced.by.records, replaced.records, InitialPayload, replaced.payload, MinRecords)
    \/ /\ replaced.by.records = InitialRecords
       /\ Scaled(replaced.by.payload, replaced.payload, InitialRecords, replaced.records, MinPayload)
=============================================================================
