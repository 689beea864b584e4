------------------------ MODULE NativeDriversProofs ------------------------
(***************************************************************************)
(* Proofs about the native drivers, in three parts.  Handles: every        *)
(* handle, reference, subscription and device hold is given back once,     *)
(* whatever fails and whoever stops the bus; native calls find their       *)
(* channel open; a removal is never missed; and the Vector driver stays    *)
(* closed after a failed close.  Sends: Send returns nil exactly when the  *)
(* native driver took the frame and the capture has it, and a frame is     *)
(* recorded as transmitted before any answer to it.  Reports: the packets  *)
(* between the network and the capture carry on with what was delivered,   *)
(* so that no reception is skipped; nothing follows the record that ends a *)
(* bus; and polled states are recorded as changes.                         *)
(***************************************************************************)
EXTENDS NativeInvariants, SequenceTheorems, FiniteSetTheorems, TLAPS

-----------------------------------------------------------------------------
(* Updates of the variables, and their types.                              *)

\* A bus gets a new record.
LEMMA BusUpdate ==
  ASSUME Typed, NEW b \in Buses, NEW r \in BusRecords, bus' = [bus EXCEPT ![b] = r]
  PROVE  bus' \in [Buses -> BusRecords] /\ bus'[b] = r /\ OnlyBus(b)
  BY DEF Typed, OnlyBus

\* A bus has a record.
LEMMA BusTyped ==
  ASSUME Typed, NEW b \in Buses
  PROVE  /\ bus[b] \in BusRecords /\ bus[b].queue \in Seq(Packets) /\ bus[b].items \in Seq(Packets)
         /\ bus[b].loop \in Places /\ bus[b].opener \in Openers /\ bus[b].held \subseteq Handles
         /\ bus[b].ioMu \in Senders \union {None, "loop"} /\ bus[b].generation \in Nat
         /\ bus[b].watcher \in Watcher /\ bus[b].teardown \in Watcher
         /\ bus[b].failure \in Errors \union {None} /\ bus[b].controller \in States
         /\ bus[b].known \in Values /\ bus[b].delivered \in Seq(Values)
  BY DEF Typed, BusRecords

\* One more fault is spent.
LEMMA FaultSpent ==
  ASSUME Typed, left.faults > 0, left' = [left EXCEPT !.faults = @ - 1]
  PROVE  left' \in Lefts
<1>1. left.faults \in Nat /\ left \in Lefts BY DEF Typed, Lefts
<1>2. left.faults - 1 \in Nat BY <1>1
<1>. QED BY <1>1, <1>2 DEF Lefts

LEMMA StopEffect ==
  ASSUME Typed, NEW b \in Buses, NEW e \in Errors \union {None}, Stop(b, e)
  PROVE  StopsOnly(b) /\ Stopping(b)'
<1>. DEFINE l == [lifecycle[b] EXCEPT !.stop = TRUE, !.err = IF @ = None THEN e ELSE @]
<1>1. lifecycle[b] \in Lifecycles /\ lifecycle \in [Buses -> Lifecycles] BY DEF Typed
<1>2. l \in Lifecycles /\ l.stop /\ l.done = lifecycle[b].done BY Zenon, <1>1 DEF Lifecycles
<1>3. lifecycle' = [lifecycle EXCEPT ![b] = l] BY <1>1 DEF Stop, StoppedWith
<1>. HIDE DEF l
<1>. QED BY <1>1, <1>2, <1>3 DEF StopsOnly, Stopping

LEMMA NoStop ==
  ASSUME Typed, NEW b \in Buses, UNCHANGED lifecycle
  PROVE  StopsOnly(b)
  BY DEF Typed, StopsOnly

\* The errors that end a bus.
LEMMA DecodeErrors ==
  ASSUME NEW b \in Buses, NEW p \in Packets
  PROVE  \A o \in {SocketDecode(b, p), PcanDecode(b, p), VectorDecode(b, p), NixnetDecode(b, p)} :
           o.terminal \in Errors \union {None} /\ o.error \in Errors \union {None}
<1>2. Ends(p.of) \in Errors \union {None} BY DEF Ends, Errors
<1>3. \A events, terminal, error :
        /\ Observed(events, terminal, error).terminal = terminal
        /\ Observed(events, terminal, error).error = error
  BY DEF Observed
<1>. USE <1>2, <1>3
<1>4. SocketDecode(b, p).terminal \in Errors \union {None} /\ SocketDecode(b, p).error \in Errors \union {None}
  <2>1. /\ SocketErrors(b, p).terminal \in {"overrun", Ends(p.of)}
        /\ SocketErrors(b, p).error = None
    <3>. DEFINE error == IF p.kind \in {"error", "error overflow"} THEN <<Event(b, "error", None)>> ELSE <<>>
                state == IF p.of = None THEN <<>> ELSE StateEvents(b, p.of)
    <3>1. SocketErrors(b, p) = IF p.kind \in {"overflow", "error overflow"}
            THEN Observed(error \o state \o <<Event(b, "overrun", None)>>, "overrun", None)
            ELSE Observed(error \o state, Ends(p.of), None)
      BY DEF SocketErrors
    <3>. HIDE DEF error, state
    <3>2. \/ SocketErrors(b, p) = Observed(error \o state \o <<Event(b, "overrun", None)>>, "overrun", None)
          \/ SocketErrors(b, p) = Observed(error \o state, Ends(p.of), None)
      BY ONLY <3>1, Zenon
    <3>. QED BY ONLY <3>2 DEF Observed
  <2>. QED BY <2>1 DEF SocketDecode, Frame, Overrun, Undecoded, Errors
<1>5. PcanDecode(b, p).terminal \in Errors \union {None} /\ PcanDecode(b, p).error \in Errors \union {None}
  BY DEF PcanDecode, Frame, Overrun, Undecoded, Errors
<1>6. VectorDecode(b, p).terminal \in Errors \union {None} /\ VectorDecode(b, p).error \in Errors \union {None}
  BY DEF VectorDecode, Frame, Overrun, Undecoded, Errors
<1>7. NixnetDecode(b, p).terminal \in Errors \union {None} /\ NixnetDecode(b, p).error \in Errors \union {None}
  <2>. DEFINE error == IF p.of = "init" THEN "invalid" ELSE Ends(p.of)
  <2>1. NixnetState(b, p.of).terminal = None /\ NixnetState(b, p.of).error = error
    BY DEF NixnetState
  <2>2. \A events : [NixnetState(b, p.of) EXCEPT !.events = events].terminal = None
                    /\ [NixnetState(b, p.of) EXCEPT !.events = events].error = error
    BY <2>1 DEF NixnetState, Observed
  <2>3. error \in Errors \union {None} BY DEF Errors
  <2>. HIDE DEF error
  <2>. QED BY <2>1, <2>2, <2>3 DEF NixnetDecode, Frame, Overrun, Undecoded, Errors
<1>. QED BY <1>4, <1>5, <1>6, <1>7

-----------------------------------------------------------------------------
(* The receive goroutine keeps what Open acquired.                         *)

\* The goroutine goes on to another place, where it needs no packet.
LEMMA Goes ==
  ASSUME Typed, NEW b \in Buses, NEW place \in Running \ {"apply", "publish"}, LoopLock(b),
         bus[b].loop \in Running \ {"apply"}, bus' = GoTo(b, place), StopsOnly(b), left' \in Lefts,
         place = "finish" => Stopping(b)', place = "receive" => bus[b].queue # <<>>,
         UNCHANGED <<scenario, call, monitor, watchers>>
  PROVE  LoopMoves(b)
<1>. DEFINE r == [bus[b] EXCEPT !.loop = place]
<1>1. bus[b] \in BusRecords BY BusTyped
<1>2. /\ r \in BusRecords /\ r.loop = place /\ r.ioMu = bus[b].ioMu /\ r.queue = bus[b].queue
      /\ r.opener = bus[b].opener /\ r.held = bus[b].held /\ r.generation = bus[b].generation
      /\ r.watcher = bus[b].watcher /\ r.teardown = bus[b].teardown /\ r.stale = bus[b].stale
  BY Zenon, <1>1 DEF BusRecords, Places
<1>3. bus' = [bus EXCEPT ![b] = r] BY Zenon DEF GoTo, Set
<1>. HIDE DEF r
<1>4. bus'[b] = r /\ bus' \in [Buses -> BusRecords] /\ OnlyBus(b) BY Zenon, <1>2, <1>3, BusUpdate
<1>. QED BY <1>2, <1>4 DEF LoopMoves, KeepsHandles, ItemsOK, LoopLock

\* A native fault of the loop.
LEMMA LoopFaultStops ==
  ASSUME Typed, NEW b \in Buses, NEW e \in Errors, LoopLock(b), bus[b].loop \in Running \ {"apply"},
         LoopFault(b), LoopStops(b, e), UNCHANGED <<scenario, call, monitor, watchers>>
  PROVE  LoopMoves(b)
<1>1. left' \in Lefts BY FaultSpent DEF LoopFault
<1>2. StopsOnly(b) /\ Stopping(b)' BY StopEffect DEF LoopStops
<1>3. bus' = GoTo(b, "finish") BY DEF LoopStops
<1>4. "finish" \in Running \ {"apply", "publish"} BY DEF Running
<1>. QED BY <1>1, <1>2, <1>3, <1>4, Goes

LEMMA SocketWaitEffect ==
  ASSUME Typed, NEW b \in Buses, LoopLock(b), SocketWait(b)
  PROVE  LoopMoves(b)
<1>1. UNCHANGED <<scenario, call, monitor, watchers>> BY DEF SocketWait, monitorVars
<1>2. bus[b].loop \in Running \ {"apply"} BY DEF SocketWait, Running
<1>3. left \in Lefts BY DEF Typed
<1>4. {"finish", "receive"} \subseteq Running \ {"apply", "publish"} /\ "io" \in Errors
  BY DEF Running, Errors
<1>5. CASE Stopping(b) /\ bus' = GoTo(b, "finish") /\ UNCHANGED <<lifecycle, left>>
  <2>1. Stopping(b)' BY <1>5 DEF Stopping
  <2>. QED BY <1>1, <1>2, <1>3, <1>4, <1>5, <2>1, NoStop, Goes
<1>6. CASE bus[b].queue # <<>> /\ bus' = GoTo(b, "receive") /\ UNCHANGED <<lifecycle, left>>
  BY <1>1, <1>2, <1>3, <1>4, <1>6, NoStop, Goes
<1>7. CASE LoopFault(b) /\ LoopStops(b, "io")
  BY <1>1, <1>2, <1>4, <1>7, LoopFaultStops
<1>. QED BY <1>5, <1>6, <1>7 DEF SocketWait

LEMMA WindowsWaitEffect ==
  ASSUME Typed, NEW b \in Buses, LoopLock(b), WindowsWait(b)
  PROVE  LoopMoves(b)
<1>1. UNCHANGED <<scenario, call, monitor, watchers>> BY DEF WindowsWait, monitorVars
<1>2. bus[b].loop \in Running \ {"apply"} BY DEF WindowsWait, Running
<1>3. left \in Lefts BY DEF Typed
<1>4. {"finish", "request"} \subseteq Running \ {"apply", "publish"} /\ "io" \in Errors
  BY DEF Running, Errors
<1>5. CASE Stopping(b) /\ bus' = GoTo(b, "finish") /\ UNCHANGED <<lifecycle, left>>
  <2>1. Stopping(b)' BY <1>5 DEF Stopping
  <2>. QED BY <1>1, <1>2, <1>3, <1>4, <1>5, <2>1, NoStop, Goes
<1>6. CASE bus' = GoTo(b, "request") /\ UNCHANGED <<lifecycle, left>>
  BY <1>1, <1>2, <1>3, <1>4, <1>6, NoStop, Goes
<1>7. CASE bus' = [bus EXCEPT ![b].signal = FALSE, ![b].loop = "drain"] /\ UNCHANGED <<lifecycle, left>>
  <2>. DEFINE r == [bus[b] EXCEPT !.signal = FALSE, !.loop = "drain"]
  <2>1. bus[b] \in BusRecords BY BusTyped
  <2>2. /\ r \in BusRecords /\ r.loop = "drain" /\ r.ioMu = bus[b].ioMu
        /\ r.opener = bus[b].opener /\ r.held = bus[b].held /\ r.generation = bus[b].generation
        /\ r.watcher = bus[b].watcher /\ r.teardown = bus[b].teardown /\ r.stale = bus[b].stale
    BY Zenon, <2>1 DEF BusRecords, Places, Running
  <2>3. bus' = [bus EXCEPT ![b] = r] BY Zenon, <1>7
  <2>. HIDE DEF r
  <2>4. bus'[b] = r /\ bus' \in [Buses -> BusRecords] /\ OnlyBus(b) BY Zenon, <2>2, <2>3, BusUpdate
  <2>5. StopsOnly(b) /\ left' \in Lefts BY <1>3, <1>7, NoStop
  <2>. QED BY <1>1, <1>2, <2>2, <2>4, <2>5 DEF LoopMoves, KeepsHandles, ItemsOK, LoopLock, Running
<1>8. CASE LoopFault(b) /\ LoopStops(b, "io")
  BY <1>1, <1>2, <1>4, <1>8, LoopFaultStops
<1>. QED BY Zenon, <1>5, <1>6, <1>7, <1>8 DEF WindowsWait

\* One packet is taken from the queue, under ioMu.
LEMMA TakesOne ==
  ASSUME Typed, NEW b \in Buses, bus[b].queue # <<>>, bus[b].ioMu = None, bus[b].loop \in Running,
         bus' = [bus EXCEPT ![b].ioMu = "loop", ![b].loop = "apply",
                            ![b].items = <<Head(bus[b].queue)>>, ![b].queue = Tail(@)],
         UNCHANGED <<scenario, left, lifecycle, call, log, monitorVars>>
  PROVE  LoopMoves(b)
<1>. DEFINE items == <<Head(bus[b].queue)>>
            queue == Tail(bus[b].queue)
            r == [bus[b] EXCEPT !.ioMu = "loop", !.loop = "apply", !.items = items, !.queue = queue]
<1>1. bus[b] \in BusRecords /\ bus[b].queue \in Seq(Packets) BY BusTyped
<1>2. items \in Seq(Packets) /\ queue \in Seq(Packets) /\ items # <<>> BY <1>1, HeadTailProperties
<1>3. bus' = [bus EXCEPT ![b] = r] BY Zenon
<1>. HIDE DEF items, queue
<1>4. /\ r \in BusRecords /\ r.loop = "apply" /\ r.ioMu = "loop" /\ r.items = items
      /\ r.opener = bus[b].opener /\ r.held = bus[b].held /\ r.generation = bus[b].generation
      /\ r.watcher = bus[b].watcher /\ r.teardown = bus[b].teardown /\ r.stale = bus[b].stale
  BY Zenon, <1>1, <1>2 DEF BusRecords, Places, Running
<1>. HIDE DEF r
<1>5. bus'[b] = r /\ bus' \in [Buses -> BusRecords] /\ OnlyBus(b) BY Zenon, <1>3, <1>4, BusUpdate
<1>6. StopsOnly(b) /\ left' \in Lefts BY NoStop DEF Typed
<1>. QED BY <1>2, <1>4, <1>5, <1>6 DEF LoopMoves, KeepsHandles, ItemsOK, LoopLock, Running, monitorVars

LEMMA SocketReceiveEffect ==
  ASSUME Typed, NEW b \in Buses, LoopLock(b), ItemsOK(b), SocketReceive(b)
  PROVE  LoopMoves(b)
<1>1. bus[b].queue # <<>> BY DEF SocketReceive, ItemsOK
<1>2. CASE Stopping(b)
  <2>1. bus' = GoTo(b, "finish") /\ Stopping(b)' BY <1>2 DEF SocketReceive, Stopping
  <2>2. left' \in Lefts /\ StopsOnly(b) BY NoStop DEF SocketReceive, Typed
  <2>3. "finish" \in Running \ {"apply", "publish"} /\ bus[b].loop \in Running \ {"apply"}
    BY DEF Running, SocketReceive
  <2>. QED BY <2>1, <2>2, <2>3, Goes DEF SocketReceive, monitorVars
<1>3. CASE ~Stopping(b)
  <2>1. bus[b].loop \in Running BY DEF SocketReceive, Running
  <2>. QED BY Zenon, <1>1, <1>3, <2>1, TakesOne DEF SocketReceive
<1>. QED BY <1>2, <1>3

LEMMA WindowsReceiveEffect ==
  ASSUME Typed, NEW b \in Buses, LoopLock(b), WindowsReceive(b)
  PROVE  LoopMoves(b)
<1>1. bus[b].loop \in Running \ {"apply"} /\ "wait" \in Running \ {"apply", "publish"}
  BY DEF WindowsReceive, Running
<1>2. CASE Stopping(b) \/ bus[b].queue = <<>>
  <2>1. bus' = GoTo(b, "wait") BY <1>2 DEF WindowsReceive
  <2>2. left' \in Lefts /\ StopsOnly(b) BY NoStop DEF WindowsReceive, Typed
  <2>. QED BY <1>1, <2>1, <2>2, Goes DEF WindowsReceive, monitorVars
<1>3. CASE ~(Stopping(b) \/ bus[b].queue = <<>>)
  BY Zenon, <1>1, <1>3, TakesOne DEF WindowsReceive
<1>. QED BY <1>2, <1>3

\* The record of a bus whose goroutine has applied a packet.
LEMMA AppliedRecord ==
  ASSUME Typed, NEW b \in Buses, NEW known \in Values
  PROVE  /\ Ready(b, known) \in [Buses -> BusRecords]
         /\ Ready(b, known)[b].ioMu = None /\ Ready(b, known)[b].items = <<>>
         /\ Ready(b, known)[b].opener = bus[b].opener /\ Ready(b, known)[b].held = bus[b].held
         /\ Ready(b, known)[b].generation = bus[b].generation /\ Ready(b, known)[b].watcher = bus[b].watcher
         /\ Ready(b, known)[b].teardown = bus[b].teardown /\ Ready(b, known)[b].stale = bus[b].stale
         /\ Ready(b, known)[b].due = bus[b].due /\ Ready(b, known)[b].queue = bus[b].queue
         /\ Ready(b, known)[b].controller = bus[b].controller
         /\ \A other \in Buses : other # b => Ready(b, known)[other] = bus[other]
<1>. DEFINE r == [bus[b] EXCEPT !.ioMu = None, !.items = <<>>, !.known = known]
<1>0. <<>> \in Seq(Packets) BY EmptySeq
<1>1. bus[b] \in BusRecords /\ bus \in [Buses -> BusRecords] BY DEF Typed
<1>2. /\ r \in BusRecords /\ r.ioMu = None /\ r.items = <<>>
      /\ r.opener = bus[b].opener /\ r.held = bus[b].held /\ r.generation = bus[b].generation
      /\ r.watcher = bus[b].watcher /\ r.teardown = bus[b].teardown /\ r.stale = bus[b].stale
      /\ r.due = bus[b].due /\ r.queue = bus[b].queue /\ r.controller = bus[b].controller
  BY Zenon, <1>0, <1>1 DEF BusRecords
<1>3. Ready(b, known) = [bus EXCEPT ![b] = r] BY Zenon DEF Ready
<1>. HIDE DEF r
<1>4. Ready(b, known)[b] = r /\ Ready(b, known) \in [Buses -> BusRecords] BY <1>1, <1>2, <1>3
<1>5. \A other \in Buses : other # b => Ready(b, known)[other] = bus[other] BY <1>1, <1>3
<1>. QED BY <1>2, <1>4, <1>5

\* A packet was applied: ioMu is free, and the goroutine goes on.
LEMMA Applied ==
  ASSUME Typed, NEW b \in Buses, bus[b].loop = "apply", LoopLock(b), StopsOnly(b),
         bus' \in [Buses -> BusRecords], OnlyBus(b), KeepsHandles(b),
         bus'[b].loop \in {"wait", "drain", "failed"}, bus'[b].ioMu = None,
         left' \in Lefts, UNCHANGED <<scenario, call, monitor, watchers>>
  PROVE  LoopMoves(b)
<1>1. bus'[b].loop \in Running \ {"apply", "finish", "publish", "receive"} /\ "apply" \in Running
  BY DEF Running
<1>2. None # "loop" BY NativeAssumption
<1>. QED BY <1>1, <1>2 DEF LoopMoves, ItemsOK, LoopLock

\* The packet that is applied.
LEMMA FirstItem ==
  ASSUME Typed, NEW b \in Buses, ItemsOK(b), bus[b].loop = "apply"
  PROVE  /\ Head(bus[b].items) \in Packets /\ Tail(bus[b].items) \in Seq(Packets)
         /\ Known(b, Head(bus[b].items)) \in Values
<1>1. bus[b].items \in Seq(Packets) /\ bus[b].items # <<>> BY BusTyped DEF ItemsOK
<1>2. Head(bus[b].items) \in Packets /\ Tail(bus[b].items) \in Seq(Packets) BY <1>1, HeadTailProperties
<1>3. Head(bus[b].items).of \in Values /\ bus[b].known \in Values BY <1>2, BusTyped DEF Packets
<1>. QED BY <1>2, <1>3 DEF Known

LEMMA AppliedPlace ==
  ASSUME Typed, NEW b \in Buses, NEW known \in Values, NEW place \in {"wait", "drain", "failed"},
         GoesOn(b, Ready(b, known), place)
  PROVE  /\ bus' \in [Buses -> BusRecords] /\ OnlyBus(b) /\ KeepsHandles(b)
         /\ bus'[b].loop = place /\ bus'[b].ioMu = None
<1>. DEFINE ready == Ready(b, known)
<1>1. /\ ready \in [Buses -> BusRecords]
      /\ ready[b].ioMu = None
      /\ ready[b].opener = bus[b].opener /\ ready[b].held = bus[b].held
      /\ ready[b].generation = bus[b].generation /\ ready[b].watcher = bus[b].watcher
      /\ ready[b].teardown = bus[b].teardown /\ ready[b].stale = bus[b].stale
      /\ \A other \in Buses : other # b => ready[other] = bus[other]
  BY AppliedRecord
<1>2. ready[b] \in BusRecords /\ place \in Places BY <1>1 DEF Places, Running
<1>3. SUFFICES ASSUME NEW r \in BusRecords, bus' = [ready EXCEPT ![b] = r], r.loop = place,
                      r.ioMu = ready[b].ioMu, r.opener = ready[b].opener, r.held = ready[b].held,
                      r.generation = ready[b].generation, r.watcher = ready[b].watcher,
                      r.teardown = ready[b].teardown, r.stale = ready[b].stale
               PROVE  /\ bus' \in [Buses -> BusRecords] /\ OnlyBus(b) /\ KeepsHandles(b)
                      /\ bus'[b].loop = place /\ bus'[b].ioMu = None
  <2>1. CASE bus' = [ready EXCEPT ![b].loop = place]
    <3>. DEFINE r == [ready[b] EXCEPT !.loop = place]
    <3>1. /\ r \in BusRecords /\ r.loop = place /\ r.ioMu = ready[b].ioMu /\ r.opener = ready[b].opener
          /\ r.held = ready[b].held /\ r.generation = ready[b].generation
          /\ r.watcher = ready[b].watcher /\ r.teardown = ready[b].teardown /\ r.stale = ready[b].stale
      BY Zenon, <1>2 DEF BusRecords
    <3>2. bus' = [ready EXCEPT ![b] = r] BY <2>1
    <3>. QED BY Zenon, <1>3, <3>1, <3>2
  <2>2. ASSUME NEW failure \in Errors \union {None},
               bus' = [ready EXCEPT ![b].loop = place, ![b].failure = failure]
        PROVE  \E r \in BusRecords : /\ bus' = [ready EXCEPT ![b] = r] /\ r.loop = place /\ r.ioMu = ready[b].ioMu
                 /\ r.opener = ready[b].opener
                 /\ r.held = ready[b].held /\ r.generation = ready[b].generation
                 /\ r.watcher = ready[b].watcher /\ r.teardown = ready[b].teardown /\ r.stale = ready[b].stale
    <3>. DEFINE r == [ready[b] EXCEPT !.loop = place, !.failure = failure]
    <3>1. /\ r \in BusRecords /\ r.loop = place /\ r.ioMu = ready[b].ioMu /\ r.opener = ready[b].opener
          /\ r.held = ready[b].held /\ r.generation = ready[b].generation
          /\ r.watcher = ready[b].watcher /\ r.teardown = ready[b].teardown /\ r.stale = ready[b].stale
      BY Zenon, <1>2 DEF BusRecords
    <3>2. bus' = [ready EXCEPT ![b] = r] BY Zenon, <2>2
    <3>. HIDE DEF r
    <3>. QED BY Zenon, <3>1, <3>2
  <2>3. ASSUME NEW due \in BOOLEAN, NEW queue \in Seq(Packets),
               bus' = [ready EXCEPT ![b].loop = place, ![b].due = due, ![b].queue = queue]
        PROVE  \E r \in BusRecords : /\ bus' = [ready EXCEPT ![b] = r] /\ r.loop = place /\ r.ioMu = ready[b].ioMu
                 /\ r.opener = ready[b].opener
                 /\ r.held = ready[b].held /\ r.generation = ready[b].generation
                 /\ r.watcher = ready[b].watcher /\ r.teardown = ready[b].teardown /\ r.stale = ready[b].stale
    <3>. DEFINE r == [ready[b] EXCEPT !.loop = place, !.due = due, !.queue = queue]
    <3>1. /\ r \in BusRecords /\ r.loop = place /\ r.ioMu = ready[b].ioMu /\ r.opener = ready[b].opener
          /\ r.held = ready[b].held /\ r.generation = ready[b].generation
          /\ r.watcher = ready[b].watcher /\ r.teardown = ready[b].teardown /\ r.stale = ready[b].stale
      BY Zenon, <1>2 DEF BusRecords
    <3>2. bus' = [ready EXCEPT ![b] = r] BY Zenon, <2>3
    <3>. HIDE DEF r
    <3>. QED BY Zenon, <3>1, <3>2
  <2>. QED BY Zenon, <1>3, <2>1, <2>2, <2>3 DEF GoesOn
<1>4. bus'[b] = r /\ bus' \in [Buses -> BusRecords] BY <1>1, <1>3
<1>5. OnlyBus(b) BY <1>1, <1>3 DEF OnlyBus
<1>. QED BY <1>1, <1>3, <1>4, <1>5 DEF KeepsHandles

LEMMA SocketApplyEffect ==
  ASSUME Typed, NEW b \in Buses, LoopLock(b), ItemsOK(b), SocketApply(b)
  PROVE  LoopMoves(b)
<1>. DEFINE p == Head(bus[b].items)
            o == SocketDecode(b, p)
            e == IF ~Fits(o.events) THEN "capture"
                 ELSE IF o.terminal # None THEN o.terminal ELSE o.error
            known == Known(b, p)
            r == [bus[b] EXCEPT !.ioMu = None, !.loop = "wait", !.items = <<>>, !.known = known]
<1>1. bus[b].loop = "apply" /\ bus[b] \in BusRecords BY BusTyped DEF SocketApply
<1>2. p \in Packets /\ known \in Values BY <1>1, FirstItem
<1>3. o.terminal \in Errors \union {None} /\ o.error \in Errors \union {None} BY <1>2, DecodeErrors
<1>4. e \in Errors \union {None} BY <1>3 DEF Errors
<1>5. IF e = None THEN UNCHANGED lifecycle ELSE Stop(b, e) BY DEF SocketApply
<1>6. bus' = [bus EXCEPT ![b] = r] BY Zenon DEF SocketApply
<1>. HIDE DEF e, o, known, p
<1>7. StopsOnly(b) BY <1>4, <1>5, StopEffect, NoStop
<1>8. <<>> \in Seq(Packets) BY EmptySeq
<1>9. /\ r \in BusRecords /\ r.loop = "wait" /\ r.ioMu = None
      /\ r.opener = bus[b].opener /\ r.held = bus[b].held /\ r.generation = bus[b].generation
      /\ r.watcher = bus[b].watcher /\ r.teardown = bus[b].teardown /\ r.stale = bus[b].stale
  BY Zenon, <1>1, <1>2, <1>8 DEF BusRecords, Places, Running
<1>. HIDE DEF r
<1>10. bus'[b] = r /\ bus' \in [Buses -> BusRecords] /\ OnlyBus(b) BY Zenon, <1>6, <1>9, BusUpdate
<1>11. left' \in Lefts /\ UNCHANGED <<scenario, call, monitor, watchers>>
  BY DEF SocketApply, monitorVars, Typed
<1>. QED BY <1>1, <1>7, <1>9, <1>10, <1>11, Applied DEF KeepsHandles

\* The three outcomes of a packet for PCAN and Vector.
LEMMA OutcomeEffect ==
  ASSUME Typed, NEW b \in Buses, LoopLock(b), bus[b].loop = "apply", NEW known \in Values,
         NEW place \in {"wait", "drain", "failed"}, GoesOn(b, Ready(b, known), place),
         \/ UNCHANGED lifecycle
         \/ \E e \in Errors : Stop(b, e),
         left' \in Lefts, UNCHANGED <<scenario, call, monitor, watchers>>
  PROVE  LoopMoves(b)
<1>1. StopsOnly(b) BY StopEffect, NoStop
<1>2. /\ bus' \in [Buses -> BusRecords] /\ OnlyBus(b) /\ KeepsHandles(b)
      /\ bus'[b].loop = place /\ bus'[b].ioMu = None
  BY AppliedPlace
<1>. QED BY <1>1, <1>2, Applied

LEMMA PcanApplyEffect ==
  ASSUME Typed, NEW b \in Buses, LoopLock(b), ItemsOK(b), PcanApply(b)
  PROVE  LoopMoves(b)
<1>. DEFINE p == Head(bus[b].items)
            o == PcanDecode(b, p)
            known == Known(b, p)
            ready == Ready(b, known)
<1>1. bus[b].loop = "apply" BY DEF PcanApply
<1>2. p \in Packets /\ known \in Values BY <1>1, FirstItem
<1>3. o.terminal \in Errors \union {None} /\ o.error \in Errors \union {None} BY <1>2, DecodeErrors
<1>4. \/ /\ o.terminal # None
         /\ Stop(b, IF Fits(o.events) THEN o.terminal ELSE "capture")
         /\ bus' = [ready EXCEPT ![b].loop = "wait"]
      \/ /\ o.terminal = None /\ o.error = None /\ Fits(o.events)
         /\ bus' = [ready EXCEPT ![b].loop = "drain"]
         /\ UNCHANGED lifecycle
      \/ /\ o.terminal = None /\ (o.error # None \/ ~Fits(o.events))
         /\ bus' = [ready EXCEPT ![b].loop = "failed",
              ![b].failure = IF Fits(o.events) THEN o.error ELSE "capture"]
         /\ UNCHANGED lifecycle
  BY Zenon DEF PcanApply, Ready
<1>5. left' \in Lefts /\ UNCHANGED <<scenario, call, monitor, watchers>>
  BY DEF PcanApply, monitorVars, Typed
<1>. HIDE DEF o, known, p
<1>6. "capture" \in Errors BY DEF Errors
<1>7. CASE Stop(b, IF Fits(o.events) THEN o.terminal ELSE "capture") /\ o.terminal # None
           /\ bus' = [ready EXCEPT ![b].loop = "wait"]
  <2>1. GoesOn(b, ready, "wait") BY <1>7 DEF GoesOn
  <2>2. \E e \in Errors : Stop(b, e) BY <1>3, <1>6, <1>7
  <2>. QED BY <1>1, <1>2, <1>5, <2>1, <2>2, OutcomeEffect
<1>8. CASE bus' = [ready EXCEPT ![b].loop = "drain"] /\ UNCHANGED lifecycle
  <2>1. GoesOn(b, ready, "drain") BY <1>8 DEF GoesOn
  <2>. QED BY <1>1, <1>2, <1>5, <1>8, <2>1, OutcomeEffect
<1>9. CASE /\ bus' = [ready EXCEPT ![b].loop = "failed",
                ![b].failure = IF Fits(o.events) THEN o.error ELSE "capture"]
           /\ UNCHANGED lifecycle
  <2>1. (IF Fits(o.events) THEN o.error ELSE "capture") \in Errors \union {None} BY <1>3, <1>6
  <2>2. GoesOn(b, ready, "failed") BY Zenon, <1>9, <2>1 DEF GoesOn
  <2>. QED BY <1>1, <1>2, <1>5, <1>9, <2>2, OutcomeEffect
<1>. QED BY <1>4, <1>7, <1>8, <1>9

LEMMA VectorApplyEffect ==
  ASSUME Typed, NEW b \in Buses, LoopLock(b), ItemsOK(b), VectorApply(b)
  PROVE  LoopMoves(b)
<1>. DEFINE p == Head(bus[b].items)
            o == VectorDecode(b, p)
            known == Known(b, p)
            ready == Ready(b, known)
            asks == p.kind = "error" /\ bus[b].due
            due == bus[b].due /\ ~asks
            queue == IF asks THEN Append(bus[b].queue, Packet("state", bus[b].controller))
                     ELSE bus[b].queue
<1>1. bus[b].loop = "apply" BY DEF VectorApply
<1>2. p \in Packets /\ known \in Values BY <1>1, FirstItem
<1>3. o.terminal \in Errors \union {None} /\ o.error \in Errors \union {None} BY <1>2, DecodeErrors
<1>4. \/ /\ o.terminal # None
         /\ Stop(b, IF Fits(o.events) THEN o.terminal ELSE "capture")
         /\ bus' = [ready EXCEPT ![b].loop = "wait"]
         /\ UNCHANGED left
      \/ /\ o.terminal = None /\ o.error = None /\ Fits(o.events)
         /\ bus' = [ready EXCEPT ![b].loop = "drain", ![b].due = due, ![b].queue = queue]
         /\ UNCHANGED <<lifecycle, left>>
      \/ /\ asks /\ Fits(o.events) /\ LoopFault(b)
         /\ bus' = [ready EXCEPT ![b].loop = "failed", ![b].failure = "gone"]
         /\ UNCHANGED lifecycle
      \/ /\ o.terminal = None /\ (o.error # None \/ ~Fits(o.events))
         /\ bus' = [ready EXCEPT ![b].loop = "failed",
              ![b].failure = IF Fits(o.events) THEN o.error ELSE "capture"]
         /\ UNCHANGED <<lifecycle, left>>
  BY Zenon DEF VectorApply, Ready
<1>5. left \in Lefts /\ UNCHANGED <<scenario, call, monitor, watchers>>
  BY DEF VectorApply, monitorVars, Typed
<1>. HIDE DEF o, known, p, due, queue
<1>6. "capture" \in Errors /\ "gone" \in Errors BY DEF Errors
<1>7. CASE Stop(b, IF Fits(o.events) THEN o.terminal ELSE "capture") /\ o.terminal # None
           /\ bus' = [ready EXCEPT ![b].loop = "wait"]
           /\ UNCHANGED left
  <2>1. GoesOn(b, ready, "wait") BY <1>7 DEF GoesOn
  <2>2. \E e \in Errors : Stop(b, e) BY <1>3, <1>6, <1>7
  <2>. QED BY <1>1, <1>2, <1>5, <1>7, <2>1, <2>2, OutcomeEffect
<1>8. CASE /\ bus' = [ready EXCEPT ![b].loop = "drain", ![b].due = due, ![b].queue = queue]
           /\ UNCHANGED <<lifecycle, left>>
  <2>1. due \in BOOLEAN BY DEF due
  <2>2. queue \in Seq(Packets)
    <3>1. bus[b].queue \in Seq(Packets) /\ bus[b].controller \in States BY BusTyped
    <3>2. Packet("state", bus[b].controller) \in Packets
      BY Zenon, <3>1 DEF Packet, Packets, PacketKinds, Values
    <3>3. \A q \in Seq(Packets), e \in Packets : Append(q, e) \in Seq(Packets) OBVIOUS
    <3>. QED BY <3>1, <3>2, <3>3 DEF queue
  <2>3. GoesOn(b, ready, "drain") BY Zenon, <1>8, <2>1, <2>2 DEF GoesOn
  <2>. QED BY <1>1, <1>2, <1>5, <1>8, <2>3, OutcomeEffect
<1>9. CASE /\ bus' = [ready EXCEPT ![b].loop = "failed",
                ![b].failure = IF Fits(o.events) THEN o.error ELSE "capture"]
           /\ UNCHANGED <<lifecycle, left>>
  <2>1. (IF Fits(o.events) THEN o.error ELSE "capture") \in Errors \union {None} BY <1>3, <1>6
  <2>2. GoesOn(b, ready, "failed") BY Zenon, <1>9, <2>1 DEF GoesOn
  <2>. QED BY <1>1, <1>2, <1>5, <1>9, <2>2, OutcomeEffect
<1>10. CASE /\ LoopFault(b)
            /\ bus' = [ready EXCEPT ![b].loop = "failed", ![b].failure = "gone"]
            /\ UNCHANGED lifecycle
  <2>1. left' \in Lefts BY <1>10, FaultSpent DEF LoopFault
  <2>2. GoesOn(b, ready, "failed") BY Zenon, <1>6, <1>10 DEF GoesOn
  <2>. QED BY <1>1, <1>2, <1>5, <1>10, <2>1, <2>2, OutcomeEffect
<1>. QED BY <1>4, <1>7, <1>8, <1>9, <1>10

\* The goroutine of b changes its record to r.
LEMMA Moves ==
  ASSUME Typed, NEW b \in Buses, NEW r \in BusRecords, bus' = [bus EXCEPT ![b] = r],
         SameHandles(r, b), bus[b].loop \in Running, r.loop \in Running, StopsOnly(b), left' \in Lefts,
         r.loop = "finish" => Stopping(b)',
         r.loop \in {"publish", "apply"} => r.items # <<>>, r.loop = "receive" => r.queue # <<>>,
         r.ioMu = "loop" <=> r.loop = "apply",
         r.ioMu = bus[b].ioMu \/ {bus[b].ioMu, r.ioMu} \subseteq {None, "loop"},
         UNCHANGED <<scenario, call, monitor, watchers>>
  PROVE  LoopMoves(b)
<1>1. bus'[b] = r /\ bus' \in [Buses -> BusRecords] /\ OnlyBus(b) BY Zenon, BusUpdate
<1>. QED BY <1>1 DEF LoopMoves, KeepsHandles, SameHandles, ItemsOK, LoopLock

LEMMA RequestEffect ==
  ASSUME Typed, NEW b \in Buses, LoopLock(b), RequestChipState(b)
  PROVE  LoopMoves(b)
<1>1. UNCHANGED <<scenario, call, monitor, watchers>> BY DEF RequestChipState, monitorVars
<1>2. bus[b].loop = "request" BY DEF RequestChipState
<1>3. bus[b].loop \in Running \ {"apply"} /\ "gone" \in Errors BY <1>2 DEF Running, Errors
<1>4. CASE /\ bus' = [bus EXCEPT ![b].loop = "wait", ![b].due = FALSE, ![b].signal = TRUE,
                                 ![b].queue = Append(@, Packet("state", bus[b].controller))]
           /\ UNCHANGED <<lifecycle, left>>
  <2>. DEFINE queue == Append(bus[b].queue, Packet("state", bus[b].controller))
              r == [bus[b] EXCEPT !.loop = "wait", !.due = FALSE, !.signal = TRUE, !.queue = queue]
  <2>1. bus[b] \in BusRecords /\ bus[b].queue \in Seq(Packets) /\ bus[b].controller \in States BY BusTyped
  <2>2. Packet("state", bus[b].controller) \in Packets BY Zenon, <2>1 DEF Packet, Packets, PacketKinds, Values
  <2>3. queue \in Seq(Packets) BY <2>1, <2>2, AppendProperties
  <2>4. bus' = [bus EXCEPT ![b] = r] BY Zenon, <1>4
  <2>. HIDE DEF queue
  <2>5. r \in BusRecords /\ SameHandles(r, b) /\ r.loop = "wait" /\ r.ioMu = bus[b].ioMu
    BY Zenon, <2>1, <2>3 DEF BusRecords, Places, Running, SameHandles
  <2>. HIDE DEF r
  <2>6. StopsOnly(b) /\ left' \in Lefts BY <1>4, NoStop DEF Typed
  <2>7. r.loop \in Running BY <2>5 DEF Running
  <2>8. r.ioMu # "loop" BY <1>2, <2>5 DEF LoopLock
  <2>. QED BY Zenon, <1>1, <1>3, <2>4, <2>5, <2>6, <2>7, <2>8, Moves
<1>5. CASE LoopFault(b) /\ LoopStops(b, "gone")
  BY <1>1, <1>3, <1>5, LoopFaultStops
<1>. QED BY <1>4, <1>5 DEF RequestChipState

\* A batch is a prefix of the queue.
LEMMA BatchSize ==
  ASSUME NEW queue \in Seq(Packets), queue # <<>>
  PROVE  Batch(queue) \in 1..Len(queue)
<1>. DEFINE Status(i) == queue[i].kind \in {"overrun", "gone"}
            plain == {i \in DOMAIN queue : \A j \in 1..i : ~Status(j)}
            ready == Cardinality(plain)
<1>1. DOMAIN queue = 1..Len(queue) /\ Len(queue) \in Nat /\ Len(queue) >= 1 BY EmptySeq, LenProperties
<1>2. IsFiniteSet(1..Len(queue)) /\ Cardinality(1..Len(queue)) = Len(queue) BY <1>1, FS_Interval
<1>3. plain \subseteq 1..Len(queue) BY <1>1
<1>4. ready \in Nat /\ ready <= Len(queue) BY <1>2, <1>3, FS_Subset, FS_CardinalityType
<1>5. Batch(queue) = IF ready = 0 THEN 1 ELSE IF ready < ReceiveBatch THEN ready ELSE ReceiveBatch
  BY DEF Batch
<1>6. ReceiveBatch \in Nat \ {0} BY NativeAssumption
<1>. HIDE DEF ready
<1>. QED BY <1>1, <1>4, <1>5, <1>6

\* The loop takes what it read: with ConcurrentIO it is published later.
LEMMA TakesEffect ==
  ASSUME Typed, NEW b \in Buses, NEW items \in Seq(Packets), NEW queue \in Seq(Packets),
         NEW due \in BOOLEAN, items # <<>>, Takes(b, items, queue, due),
         bus[b].loop \in {"read", "check"}, LoopLock(b), left' \in Lefts,
         UNCHANGED <<scenario, lifecycle, call, monitor, watchers>>
  PROVE  LoopMoves(b)
<1>. DEFINE ioMu == IF scenario.concurrent THEN bus[b].ioMu ELSE "loop"
            place == IF scenario.concurrent THEN "publish" ELSE "apply"
            r == [bus[b] EXCEPT !.items = items, !.queue = queue, !.due = due, !.ioMu = ioMu,
                                !.loop = place]
<1>1. bus[b] \in BusRecords /\ ioMu \in Senders \union {None, "loop"} BY BusTyped
<1>2. bus' = [bus EXCEPT ![b] = r] BY Zenon DEF Takes
<1>3. place \in Places /\ place \in Running BY DEF Places, Running
<1>4. bus[b].ioMu # "loop" /\ bus[b].loop \in Running BY DEF LoopLock, Running
<1>5. /\ ioMu = "loop" <=> place = "apply"
      /\ ioMu = bus[b].ioMu \/ {bus[b].ioMu, ioMu} \subseteq {None, "loop"}
      /\ place # "finish" /\ place # "receive"
  BY <1>4 DEF Takes
<1>. HIDE DEF ioMu, place
<1>6. r \in BusRecords /\ SameHandles(r, b) /\ r.loop = place /\ r.ioMu = ioMu /\ r.items = items
  BY Zenon, <1>1, <1>3 DEF BusRecords, SameHandles
<1>. HIDE DEF r
<1>7. StopsOnly(b) BY NoStop
<1>. QED BY Zenon, <1>2, <1>3, <1>4, <1>5, <1>6, <1>7, Moves

LEMMA NixnetReadEffect ==
  ASSUME Typed, NEW b \in Buses, LoopLock(b), NixnetRead(b)
  PROVE  LoopMoves(b)
<1>. DEFINE q == bus[b].queue
            n == Batch(q)
            items == SubSeq(q, 1, n)
            queue == SubSeq(q, n + 1, Len(q))
<1>1. q \in Seq(Packets) /\ bus[b].due \in BOOLEAN /\ bus[b].loop = "read"
  BY BusTyped DEF NixnetRead, BusRecords
<1>2. UNCHANGED <<scenario, lifecycle, call, monitor, watchers>> /\ left' \in Lefts
  BY DEF NixnetRead, monitorVars, Typed
<1>3. CASE q # <<>> /\ Takes(b, items, queue, bus[b].due)
  <2>1. n \in 1..Len(q) /\ Len(q) \in Nat BY <1>1, <1>3, BatchSize, LenProperties
  <2>. HIDE DEF n, q
  <2>2. items \in Seq(Packets) /\ queue \in Seq(Packets) BY <1>1, <2>1
  <2>3. Len(items) = n BY <1>1, <2>1
  <2>4. items # <<>> BY <2>1, <2>3
  <2>. HIDE DEF items, queue
  <2>. QED BY <1>1, <1>2, <1>3, <2>2, <2>4, TakesEffect
<1>4. CASE bus' = GoTo(b, "check")
  <2>1. "check" \in Running \ {"apply", "publish"} /\ bus[b].loop \in Running \ {"apply"}
    BY <1>1 DEF Running
  <2>. QED BY <1>2, <1>4, <2>1, NoStop, Goes
<1>. QED BY <1>3, <1>4 DEF NixnetRead

LEMMA NixnetCheckEffect ==
  ASSUME Typed, NEW b \in Buses, LoopLock(b), NixnetCheck(b)
  PROVE  LoopMoves(b)
<1>. DEFINE found == <<Packet("state", bus[b].controller)>>
            fault == <<Packet("gone", None)>>
<1>1. bus[b].queue \in Seq(Packets) /\ bus[b].controller \in States /\ bus[b].loop = "check"
  BY BusTyped DEF NixnetCheck
<1>2. Packet("state", bus[b].controller) \in Packets /\ Packet("gone", None) \in Packets
  BY Zenon, <1>1 DEF Packet, Packets, PacketKinds, Values
<1>3. /\ found \in Seq(Packets) /\ found # <<>>
      /\ fault \in Seq(Packets) /\ fault # <<>>
  BY <1>2
<1>4. UNCHANGED <<scenario, lifecycle, call, monitor, watchers>> /\ left \in Lefts
  BY DEF NixnetCheck, monitorVars, Typed
<1>. HIDE DEF found, fault
<1>5. CASE bus' = GoTo(b, "poll") /\ UNCHANGED left
  <2>1. "poll" \in Running \ {"apply", "publish"} /\ bus[b].loop \in Running \ {"apply"}
    BY <1>1 DEF Running
  <2>. QED BY <1>4, <1>5, <2>1, NoStop, Goes
<1>6. CASE Takes(b, found, bus[b].queue, FALSE) /\ UNCHANGED left
  BY Zenon, <1>1, <1>3, <1>4, <1>6, TakesEffect
<1>7. CASE LoopFault(b) /\ Takes(b, fault, bus[b].queue, FALSE)
  <2>1. left' \in Lefts BY <1>7, FaultSpent DEF LoopFault
  <2>. QED BY Zenon, <1>1, <1>3, <1>4, <1>7, <2>1, TakesEffect
<1>. QED BY Zenon, <1>5, <1>6, <1>7 DEF NixnetCheck, found, fault

LEMMA NixnetPublishEffect ==
  ASSUME Typed, NEW b \in Buses, LoopLock(b), ItemsOK(b), NixnetPublish(b)
  PROVE  LoopMoves(b)
<1>. DEFINE r == [bus[b] EXCEPT !.ioMu = "loop", !.loop = "apply"]
<1>1. bus[b] \in BusRecords /\ bus[b].items # <<>> BY BusTyped DEF NixnetPublish, ItemsOK
<1>2. bus' = [bus EXCEPT ![b] = r] BY Zenon DEF NixnetPublish
<1>3. /\ r \in BusRecords /\ SameHandles(r, b) /\ r.loop = "apply" /\ r.ioMu = "loop"
      /\ r.items = bus[b].items
  BY Zenon, <1>1 DEF BusRecords, SameHandles, Places, Running
<1>. HIDE DEF r
<1>4. bus[b].loop \in Running /\ r.loop \in Running BY <1>3 DEF NixnetPublish, Running
<1>5. StopsOnly(b) /\ left' \in Lefts BY NoStop DEF NixnetPublish, Typed
<1>. QED BY Zenon, <1>1, <1>2, <1>3, <1>4, <1>5, Moves DEF NixnetPublish, monitorVars

LEMMA NixnetApplyEffect ==
  ASSUME Typed, NEW b \in Buses, LoopLock(b), ItemsOK(b), NixnetApply(b)
  PROVE  LoopMoves(b)
<1>. DEFINE p == Head(bus[b].items)
            o == NixnetDecode(b, p)
            more == Tail(bus[b].items)
            e == IF p.kind = "overrun" THEN "overrun"
                 ELSE IF Fits(o.events) THEN o.error ELSE "capture"
            ends == e # None \/ more = <<>>
            known == IF Fits(o.events) THEN Known(b, p) ELSE bus[b].known
            items == IF ends THEN <<>> ELSE more
            ioMu == IF ends THEN None ELSE bus[b].ioMu
            place == IF e # None THEN "failed" ELSE IF ~ends THEN bus[b].loop
                     ELSE IF p.kind = "state" THEN "poll" ELSE "check"
            r == [bus[b] EXCEPT !.known = known, !.items = items, !.ioMu = ioMu, !.failure = e,
                                !.loop = place]
<1>1. bus[b] \in BusRecords /\ bus[b].loop = "apply" /\ bus[b].ioMu = "loop"
  BY Zenon, BusTyped DEF NixnetApply, LoopLock
<1>2. p \in Packets /\ more \in Seq(Packets) /\ Known(b, p) \in Values BY <1>1, FirstItem
<1>3. o.error \in Errors \union {None} BY <1>2, DecodeErrors
<1>4. bus' = [bus EXCEPT ![b] = r] BY Zenon DEF NixnetApply
<1>5. e \in Errors \union {None} BY <1>3 DEF Errors
<1>6. known \in Values BY <1>2, BusTyped
<1>7. <<>> \in Seq(Packets) /\ None # "loop" BY EmptySeq, NativeAssumption
<1>. HIDE DEF p, o, known, more, e
<1>8. /\ items \in Seq(Packets) /\ ioMu \in {None, "loop"}
      /\ place \in {"failed", "poll", "check", "apply"}
      /\ place = "apply" => items # <<>>
      /\ ioMu = "loop" <=> place = "apply"
  BY <1>1, <1>2, <1>7
<1>. HIDE DEF items, ioMu, place
<1>9. /\ r \in BusRecords /\ SameHandles(r, b) /\ r.loop = place /\ r.ioMu = ioMu
      /\ r.items = items
  BY Zenon, <1>1, <1>5, <1>6, <1>8 DEF BusRecords, SameHandles, Places, Running
<1>. HIDE DEF r
<1>10. bus[b].loop \in Running /\ r.loop \in Running BY <1>1, <1>8, <1>9 DEF Running
<1>11. StopsOnly(b) /\ left' \in Lefts BY Zenon, NoStop DEF NixnetApply, Typed
<1>12. r.ioMu = bus[b].ioMu \/ {bus[b].ioMu, r.ioMu} \subseteq {None, "loop"} BY <1>1, <1>8, <1>9
<1>. QED BY Zenon, <1>4, <1>8, <1>9, <1>10, <1>11, <1>12, Moves DEF NixnetApply, monitorVars

LEMMA NixnetPollEffect ==
  ASSUME Typed, NEW b \in Buses, LoopLock(b), NixnetPoll(b)
  PROVE  LoopMoves(b)
<1>1. left' \in Lefts /\ StopsOnly(b) BY NoStop DEF NixnetPoll, Typed
<1>2. {"finish", "read"} \subseteq Running \ {"apply", "publish"} /\ bus[b].loop \in Running \ {"apply"}
  BY DEF Running, NixnetPoll
<1>3. UNCHANGED <<scenario, call, monitor, watchers>> BY DEF NixnetPoll, monitorVars
<1>4. CASE Stopping(b)
  <2>1. bus' = GoTo(b, "finish") /\ Stopping(b)' BY <1>4 DEF NixnetPoll, Stopping
  <2>. QED BY <1>1, <1>2, <1>3, <2>1, Goes
<1>5. CASE ~Stopping(b)
  <2>1. bus' = GoTo(b, "read") BY <1>5 DEF NixnetPoll
  <2>. QED BY <1>1, <1>2, <1>3, <2>1, Goes
<1>. QED BY <1>4, <1>5

LEMMA LoopFailedEffect ==
  ASSUME Typed, NEW b \in Buses, LoopLock(b), LoopFailed(b)
  PROVE  LoopMoves(b)
<1>1. bus[b].failure \in Errors \union {None} BY BusTyped
<1>2. StopsOnly(b) /\ Stopping(b)' BY <1>1, StopEffect DEF LoopFailed, LoopStops
<1>3. "finish" \in Running \ {"apply", "publish"} /\ bus[b].loop \in Running \ {"apply"}
  BY DEF Running, LoopFailed
<1>4. left' \in Lefts BY DEF LoopFailed, Typed
<1>. QED BY <1>2, <1>3, <1>4, Goes DEF LoopFailed, LoopStops, monitorVars

LEMMA LoopEffect ==
  ASSUME Typed, NEW b \in Buses, LoopLock(b), ItemsOK(b), Loop(b)
  PROVE  LoopMoves(b)
  BY SocketWaitEffect, SocketReceiveEffect, SocketApplyEffect, WindowsWaitEffect, WindowsReceiveEffect,
     PcanApplyEffect, VectorApplyEffect, RequestEffect, NixnetReadEffect, NixnetPublishEffect,
     NixnetApplyEffect, NixnetCheckEffect, NixnetPollEffect, LoopFailedEffect DEF Loop

-----------------------------------------------------------------------------
(* The callers of Send take and release ioMu.                              *)

\* A call gets a new record.
LEMMA CallUpdate ==
  ASSUME Typed, NEW s \in Senders, NEW c \in Calls, call' = [call EXCEPT ![s] = c]
  PROVE  call' \in [Senders -> Calls] /\ call'[s] = c /\ OnlyCall(s)
  BY DEF Typed, OnlyCall

\* A call has a record.
LEMMA CallTyped ==
  ASSUME Typed, NEW s \in Senders
  PROVE  /\ call[s] \in Calls /\ call[s].on \in Buses \union {None}
         /\ call[s].pc \in {"idle", "waiting", "writing", "accepted", "returned"}
  BY DEF Typed, Calls

\* The record r, with another holder of ioMu.
LEMMA IoMuSet ==
  ASSUME Typed, NEW b \in Buses, NEW holder \in Senders \union {None},
         bus' = Set(b, "ioMu", holder)
  PROVE  /\ bus' \in [Buses -> BusRecords] /\ OnlyBus(b) /\ KeepsHandles(b) /\ KeepsPlace(b)
         /\ bus'[b].ioMu = holder
<1>. DEFINE r == [bus[b] EXCEPT !.ioMu = holder]
<1>1. bus[b] \in BusRecords BY BusTyped
<1>2. /\ r \in BusRecords /\ SameHandles(r, b) /\ r.loop = bus[b].loop /\ r.queue = bus[b].queue
      /\ r.items = bus[b].items /\ r.ioMu = holder
  BY Zenon, <1>1 DEF BusRecords, SameHandles
<1>3. bus' = [bus EXCEPT ![b] = r] BY Zenon DEF Set
<1>. HIDE DEF r
<1>4. bus'[b] = r /\ bus' \in [Buses -> BusRecords] /\ OnlyBus(b) BY <1>2, <1>3, BusUpdate
<1>. QED BY <1>2, <1>4 DEF KeepsHandles, KeepsPlace, SameHandles

\* A bus that does not change.
LEMMA BusSame ==
  ASSUME Typed, NEW b \in Buses, UNCHANGED bus
  PROVE  /\ bus' \in [Buses -> BusRecords] /\ OnlyBus(b) /\ KeepsHandles(b) /\ KeepsPlace(b)
         /\ bus'[b].ioMu = bus[b].ioMu
  BY DEF Typed, OnlyBus, KeepsHandles, KeepsPlace

LEMMA OperationErrorType ==
  ASSUME Typed, NEW b \in Buses
  PROVE  OperationError(b) \in Results
  BY DEF Typed, Lifecycles, OperationError, Results

\* A call returns.
LEMMA CallReturns ==
  ASSUME Typed, NEW s \in Senders, NEW result \in Results, call' = Returned(s, result)
  PROVE  /\ call' \in [Senders -> Calls] /\ OnlyCall(s) /\ call'[s].on = call[s].on
         /\ call'[s].pc = "returned" /\ call'[s].result = result /\ call'[s].accepted = call[s].accepted
<1>. DEFINE c == [call[s] EXCEPT !.pc = "returned", !.result = result]
<1>1. call[s] \in Calls BY CallTyped
<1>2. c \in Calls /\ c.pc = "returned" /\ c.result = result /\ c.on = call[s].on /\ c.accepted = call[s].accepted
  BY Zenon, <1>1 DEF Calls, Results
<1>3. call' = [call EXCEPT ![s] = c] BY DEF Returned
<1>. HIDE DEF c
<1>. QED BY Zenon, <1>2, <1>3, CallUpdate

\* A call goes on.
LEMMA CallGoes ==
  ASSUME Typed, NEW s \in Senders, NEW place \in {"writing", "accepted"},
         call' = [call EXCEPT ![s].pc = place]
         \/ call' = [call EXCEPT ![s].pc = place, ![s].accepted = TRUE]
  PROVE  /\ call' \in [Senders -> Calls] /\ OnlyCall(s) /\ call'[s].on = call[s].on
         /\ call'[s].pc = place
<1>. DEFINE c == [call[s] EXCEPT !.pc = place]
            d == [call[s] EXCEPT !.pc = place, !.accepted = TRUE]
<1>1. call[s] \in Calls BY CallTyped
<1>2. c \in Calls /\ c.pc = place /\ c.on = call[s].on /\ d \in Calls /\ d.pc = place /\ d.on = call[s].on
  BY Zenon, <1>1 DEF Calls
<1>3. call' = [call EXCEPT ![s] = c] \/ call' = [call EXCEPT ![s] = d] OBVIOUS
<1>. HIDE DEF c, d
<1>. QED BY <1>2, <1>3, CallUpdate

\* The calls that have started are on an opened bus, and hold ioMu where they need it.
LEMMA CallPlace ==
  ASSUME LockOK, NEW s \in Senders, call[s].pc # "idle"
  PROVE  call[s].on \in Buses /\ (InSection(s) => bus[call[s].on].ioMu = s)
  BY DEF LockOK, InSection

LEMMA SendLockEffect ==
  ASSUME Typed, LockOK, NEW s \in Senders, SendLock(s)
  PROVE  SenderMoves(s)
<1>. DEFINE b == call[s].on
<1>1. call[s].pc = "waiting" /\ bus[b].ioMu = None /\ b \in Buses BY CallPlace DEF SendLock
<1>2. UNCHANGED <<scenario, left, lifecycle, monitor, watchers>> BY DEF SendLock, monitorVars
<1>3. left' \in Lefts /\ StopsOnly(b) BY <1>1, <1>2, NoStop DEF Typed
<1>4. CASE Stopping(b)
  <2>1. call' = Returned(s, OperationError(b)) /\ UNCHANGED bus BY <1>4 DEF SendLock
  <2>2. /\ call' \in [Senders -> Calls] /\ OnlyCall(s) /\ call'[s].on = b /\ call'[s].pc = "returned"
    BY <1>1, <2>1, CallReturns, OperationErrorType
  <2>. HIDE DEF b
  <2>3. /\ bus' \in [Buses -> BusRecords] /\ OnlyBus(b) /\ KeepsHandles(b) /\ KeepsPlace(b)
        /\ bus'[b].ioMu = bus[b].ioMu
    BY <1>1, <2>1, BusSame
  <2>4. LockMoves(s, b) BY <1>1, <2>2, <2>3 DEF LockMoves, InSection
  <2>. QED BY <1>1, <1>2, <1>3, <2>2, <2>3, <2>4 DEF SenderMoves, b
<1>5. CASE ~Stopping(b)
  <2>1. call' = [call EXCEPT ![s].pc = "writing"] /\ bus' = Set(b, "ioMu", s) BY <1>5 DEF SendLock
  <2>2. /\ call' \in [Senders -> Calls] /\ OnlyCall(s) /\ call'[s].on = b /\ call'[s].pc = "writing"
    BY Zenon, <2>1, CallGoes
  <2>. HIDE DEF b
  <2>3. /\ bus' \in [Buses -> BusRecords] /\ OnlyBus(b) /\ KeepsHandles(b) /\ KeepsPlace(b)
        /\ bus'[b].ioMu = s
    BY <1>1, <2>1, IoMuSet
  <2>4. LockMoves(s, b) BY <1>1, <1>5, <2>2, <2>3 DEF LockMoves, InSection
  <2>. QED BY <1>1, <1>2, <1>3, <2>2, <2>3, <2>4 DEF SenderMoves, b
<1>. QED BY <1>4, <1>5

LEMMA SendCanceledEffect ==
  ASSUME Typed, LockOK, NEW s \in Senders, SendCanceled(s)
  PROVE  SenderMoves(s)
<1>. DEFINE b == call[s].on
<1>1. call[s].pc = "waiting" /\ b \in Buses BY CallPlace DEF SendCanceled
<1>2. UNCHANGED <<scenario, left, lifecycle, bus, monitor, watchers>> BY DEF SendCanceled, monitorVars
<1>3. left' \in Lefts /\ StopsOnly(b) BY <1>1, <1>2, NoStop DEF Typed
<1>4. "canceled" \in Results BY DEF Results
<1>5. /\ call' \in [Senders -> Calls] /\ OnlyCall(s) /\ call'[s].on = b /\ call'[s].pc = "returned"
  BY <1>4, CallReturns DEF SendCanceled
<1>. HIDE DEF b
<1>6. /\ bus' \in [Buses -> BusRecords] /\ OnlyBus(b) /\ KeepsHandles(b) /\ KeepsPlace(b)
      /\ bus'[b].ioMu = bus[b].ioMu
  BY <1>1, <1>2, BusSame
<1>7. LockMoves(s, b) BY <1>1, <1>5, <1>6 DEF LockMoves, InSection
<1>. QED BY <1>1, <1>2, <1>3, <1>5, <1>6, <1>7 DEF SenderMoves, b

LEMMA NativeAcceptsEffect ==
  ASSUME Typed, LockOK, NEW s \in Senders, NativeAccepts(s)
  PROVE  SenderMoves(s)
<1>. DEFINE b == call[s].on
<1>1. call[s].pc = "writing" /\ b \in Buses BY CallPlace DEF NativeAccepts
<1>2. UNCHANGED <<scenario, left, lifecycle, bus, monitor, watchers>> BY DEF NativeAccepts, monitorVars
<1>3. left' \in Lefts /\ StopsOnly(b) BY <1>1, <1>2, NoStop DEF Typed
<1>4. /\ call' \in [Senders -> Calls] /\ OnlyCall(s) /\ call'[s].on = b /\ call'[s].pc = "accepted"
  BY Zenon, CallGoes DEF NativeAccepts
<1>. HIDE DEF b
<1>5. /\ bus' \in [Buses -> BusRecords] /\ OnlyBus(b) /\ KeepsHandles(b) /\ KeepsPlace(b)
      /\ bus'[b].ioMu = bus[b].ioMu
  BY <1>1, <1>2, BusSame
<1>6. LockMoves(s, b) BY <1>1, <1>4, <1>5 DEF LockMoves, InSection
<1>. QED BY <1>1, <1>2, <1>3, <1>4, <1>5, <1>6 DEF SenderMoves, b

\* What a refused Send returns, and what it stops the bus with.
LEMMA RefusalType ==
  ASSUME Typed, NEW b \in Buses, NEW status \in {"full", "gone", "io"}
  PROVE  Refusal(b, status).result \in Results /\ Refusal(b, status).stop \in Results
<1>1. OperationError(b) \in Results /\ status \in Results /\ None \in Results
  BY OperationErrorType DEF Results, Errors
<1>2. Kind \in Kinds BY Zenon, NativeAssumption DEF Typed, ScenarioOK, Kind
<1>. QED BY <1>1, <1>2 DEF Refusal, SocketRefusal, PcanRefusal, VectorRefusal, NixnetRefusal, Kinds

LEMMA RefusalStops ==
  ASSUME Typed, NEW b \in Buses, NEW status \in {"full", "gone", "io"}
  PROVE  Refusal(b, status).stop \in Errors \union {None}
<1>1. "gone" \in Errors /\ "io" \in Errors BY DEF Errors
<1>2. Kind \in Kinds BY Zenon, NativeAssumption DEF Typed, ScenarioOK, Kind
<1>. QED BY <1>1, <1>2 DEF Refusal, SocketRefusal, PcanRefusal, VectorRefusal, NixnetRefusal, Kinds

\* A call that held ioMu returns and gives it back.
LEMMA GivesBack ==
  ASSUME Typed, LockOK, NEW s \in Senders, InSection(s), NEW result \in Results,
         NEW e \in Errors \union {None},
         call' = Returned(s, result), bus' = Unlocked(call[s].on),
         UNCHANGED lifecycle \/ Stop(call[s].on, e), left' \in Lefts,
         UNCHANGED <<scenario, monitor, watchers>>
  PROVE  SenderMoves(s)
<1>. DEFINE b == call[s].on
<1>1. b \in Buses /\ call[s].pc # "idle" BY CallPlace DEF InSection
<1>2. StopsOnly(b) BY <1>1, NoStop, StopEffect
<1>3. /\ call' \in [Senders -> Calls] /\ OnlyCall(s) /\ call'[s].on = b /\ call'[s].pc = "returned"
  BY CallReturns
<1>. HIDE DEF b
<1>4. bus' = Set(b, "ioMu", None) BY DEF Unlocked, b
<1>5. /\ bus' \in [Buses -> BusRecords] /\ OnlyBus(b) /\ KeepsHandles(b) /\ KeepsPlace(b)
      /\ bus'[b].ioMu = None
  BY <1>1, <1>4, IoMuSet
<1>6. LockMoves(s, b) BY <1>3, <1>5 DEF LockMoves, InSection
<1>. QED BY <1>1, <1>2, <1>3, <1>5, <1>6 DEF SenderMoves, b

LEMMA NativeRefusesEffect ==
  ASSUME Typed, LockOK, NEW s \in Senders, NativeRefuses(s)
  PROVE  SenderMoves(s)
<1>1. InSection(s) /\ call[s].on \in Buses BY CallPlace DEF NativeRefuses, InSection
<1>2. left' \in Lefts BY FaultSpent DEF NativeRefuses
<1>3. PICK status \in {"full", "gone", "io"} :
        LET r == Refusal(call[s].on, status) IN
          /\ call' = Returned(s, r.result) /\ bus' = Unlocked(call[s].on)
          /\ IF r.stop = None THEN UNCHANGED lifecycle ELSE Stop(call[s].on, r.stop)
  BY DEF NativeRefuses
<1>4. Refusal(call[s].on, status).result \in Results /\ Refusal(call[s].on, status).stop \in Errors \union {None}
  BY <1>1, RefusalType, RefusalStops
<1>5. UNCHANGED <<scenario, monitor, watchers>> BY DEF NativeRefuses, monitorVars
<1>. QED BY <1>1, <1>2, <1>3, <1>4, <1>5, GivesBack

LEMMA SendRecordEffect ==
  ASSUME Typed, LockOK, NEW s \in Senders, SendRecord(s)
  PROVE  SenderMoves(s)
<1>1. InSection(s) BY DEF SendRecord, InSection
<1>2. left' \in Lefts /\ UNCHANGED <<scenario, monitor, watchers>> BY DEF SendRecord, monitorVars, Typed
<1>3. {"nil", "capture"} \subseteq Results /\ "capture" \in Errors \union {None} BY DEF Results, Errors
<1>4. bus' = Unlocked(call[s].on) BY DEF SendRecord
<1>5. \/ call' = Returned(s, "nil") /\ UNCHANGED lifecycle
      \/ call' = Returned(s, "capture") /\ Stop(call[s].on, "capture")
  BY DEF SendRecord
<1>. QED BY <1>1, <1>2, <1>3, <1>4, <1>5, GivesBack

LEMMA SendingEffect ==
  ASSUME Typed, LockOK, NEW s \in Senders, Sending(s)
  PROVE  SenderMoves(s)
  BY SendLockEffect, SendCanceledEffect, NativeAcceptsEffect, NativeRefusesEffect, SendRecordEffect
  DEF Sending

\* A new call: nobody is in its section yet.
LEMMA SendCallEffect ==
  ASSUME Typed, LockOK, NEW s \in Senders, NEW b \in Buses, SendCall(s, b)
  PROVE  /\ call' \in [Senders -> Calls] /\ OnlyCall(s) /\ call[s].pc = "idle"
         /\ call'[s].on = b /\ bus[b].opener = "opened" /\ ~InSection(s)' /\ call'[s].pc # "idle"
         /\ UNCHANGED <<scenario, left, lifecycle, bus, monitor, watchers>>
<1>. DEFINE called == [NewCall EXCEPT !.pc = "waiting", !.on = b]
            refused == [called EXCEPT !.pc = "returned", !.result = OperationError(b)]
<1>1. OperationError(b) \in Results BY OperationErrorType
<1>2. /\ called \in Calls /\ called.on = b /\ called.pc = "waiting"
      /\ refused \in Calls /\ refused.on = b /\ refused.pc = "returned"
  BY Zenon, <1>1 DEF Calls, NewCall, Results
<1>3. call' = [call EXCEPT ![s] = called] \/ call' = [call EXCEPT ![s] = refused]
  BY DEF SendCall
<1>. HIDE DEF called, refused
<1>4. call' \in [Senders -> Calls] /\ OnlyCall(s) /\ call'[s].on = b /\ call'[s].pc \in {"waiting", "returned"}
  BY <1>2, <1>3, CallUpdate
<1>5. ~InSection(s)' /\ call'[s].pc # "idle" BY <1>4 DEF InSection
<1>. QED BY <1>4, <1>5 DEF SendCall, monitorVars

-----------------------------------------------------------------------------
(* Steps that leave every handle where it is.                              *)

LEMMA QuietKeeps ==
  ASSUME NEW b \in Buses, PlaceOK(b), HeldOK(b), QuietBus(b), UNCHANGED scenario
  PROVE  PlaceOK(b)' /\ HeldOK(b)' /\ ItemsOK(b)' /\ LocalBus(b)
<1>1. /\ bus'[b].opener = bus[b].opener /\ bus'[b].held = bus[b].held
      /\ bus'[b].loop = bus[b].loop \/ (bus[b].loop \in Running /\ bus'[b].loop \in Running)
      /\ lifecycle'[b].done = lifecycle[b].done /\ (Stopping(b) => Stopping(b)')
      /\ bus'[b].loop = "finish" => bus[b].loop = "finish" \/ Stopping(b)'
      /\ Kind' = Kind
  BY DEF QuietBus, KeepsHandles, Kind
<1>2. PlaceOK(b)'
  <2>1. /\ bus'[b].loop = "off" <=> bus[b].loop = "off"
        /\ bus'[b].loop = "ended" <=> bus[b].loop = "ended"
        /\ bus'[b].loop \in Leaving <=> bus[b].loop \in Leaving
        /\ bus'[b].loop \in {"finish", "ended"} \union Leaving => Stopping(b)'
    BY <1>1 DEF PlaceOK, Running, Leaving
  <2>. QED BY <1>1, <2>1 DEF PlaceOK
<1>3. HeldOK(b)'
  <2>1. /\ bus'[b].loop = "off" <=> bus[b].loop = "off"
        /\ bus'[b].loop = "ended" <=> bus[b].loop = "ended"
        /\ bus'[b].loop \in Running <=> bus[b].loop \in Running
        /\ bus'[b].loop \in Leaving <=> bus[b].loop \in Leaving
    BY <1>1 DEF Running, Leaving
  <2>. QED BY <1>1, <2>1 DEF HeldOK
<1>4. LocalBus(b)
  <2>1. bus'[b].loop = "teardown" <=> bus[b].loop = "teardown" BY <1>1 DEF Running
  <2>. QED BY <1>1, <2>1 DEF LocalBus, ServedBus, QuietBus, KeepsHandles
<1>. QED BY <1>2, <1>3, <1>4 DEF QuietBus

\* A bus that nothing happens to.
LEMMA OtherBus ==
  ASSUME NEW b \in Buses, ItemsOK(b), bus'[b] = bus[b], lifecycle'[b].done = lifecycle[b].done,
         Stopping(b) => Stopping(b)'
  PROVE  QuietBus(b)
  BY DEF QuietBus, KeepsHandles, ItemsOK

\* What the buses hold is counted as before.
LEMMA LocalCount ==
  ASSUME CountInv, \A b \in Buses : LocalBus(b), UNCHANGED <<monitor, xl>>
  PROVE  CountInv'
<1>1. Holding("hold")' = Holding("hold") /\ Holding("subscription")' = Holding("subscription")
      /\ Holding("driver")' = Holding("driver")
  BY DEF LocalBus, ServedBus, Holding
<1>. QED BY <1>1 DEF CountInv

\* The monitor serves them as before.
LEMMA LocalWatch ==
  ASSUME WatchInv, RemovalInv, \A b \in Buses : ServedBus(b), UNCHANGED <<monitor, watchers>>
  PROVE  WatchInv' /\ RemovalInv'
<1>1. Holding("hold")' = Holding("hold") /\ Holding("subscription")' = Holding("subscription")
  BY DEF ServedBus, Holding
<1>2. \A b \in Buses : /\ bus'[b].watcher = bus[b].watcher /\ bus'[b].teardown = bus[b].teardown
                       /\ bus'[b].opener = "idle" => bus[b].opener = "idle"
                       /\ "teardown" \in {bus'[b].opener, bus'[b].loop} => "teardown" \in {bus[b].opener, bus[b].loop}
                       /\ bus'[b].stale = bus[b].stale /\ bus'[b].generation = bus[b].generation
                       /\ Stopping(b) => Stopping(b)'
  BY DEF ServedBus
<1>3. WatchInv' BY <1>1, <1>2 DEF WatchInv, Used
<1>4. RemovalInv' BY <1>1, <1>2 DEF RemovalInv, RemovalNotMissed
<1>. QED BY <1>3, <1>4

\* The holder of ioMu: the goroutine of b, or b as before.
LEMMA LockKept ==
  ASSUME Typed, LockOK, NEW b \in Buses, OnlyBus(b), UNCHANGED call, LoopLock(b)',
         bus[b].opener = "opened" => bus'[b].opener = "opened",
         bus'[b].loop = "ended" => bus'[b].ioMu = None,
         bus'[b].ioMu = bus[b].ioMu \/ {bus[b].ioMu, bus'[b].ioMu} \subseteq {None, "loop"}
  PROVE  LockOK'
<1>1. None \notin Senders /\ "loop" \notin Senders BY NativeAssumption
<1>2. \A other \in Buses : bus'[other].ioMu = "loop" <=> bus'[other].loop = "apply"
  BY DEF LockOK, OnlyBus, LoopLock
<1>3. \A s \in Senders : InSection(s) => bus'[call[s].on].ioMu = s
  BY <1>1 DEF LockOK, OnlyBus, InSection
<1>4. \A s \in Senders : call[s].pc # "idle" => call[s].on \in Buses /\ bus'[call[s].on].opener = "opened"
  BY DEF LockOK, OnlyBus
<1>5. \A other \in Buses : bus'[other].ioMu \in Senders => bus[other].ioMu = bus'[other].ioMu
  BY <1>1 DEF OnlyBus
<1>6. \A other \in Buses : bus'[other].ioMu \in Senders =>
        InSection(bus'[other].ioMu) /\ call[bus'[other].ioMu].on = other
  BY <1>5 DEF LockOK, InSection
<1>7. \A s \in Senders : call[s].accepted => call[s].pc # "idle" BY DEF LockOK
<1>8. \A other \in Buses : bus'[other].loop = "ended" => bus'[other].ioMu = None
  BY DEF LockOK, OnlyBus
<1>. QED BY <1>2, <1>3, <1>4, <1>6, <1>7, <1>8 DEF LockOK, InSection

\* The holder of ioMu after a step of a sender.
LEMMA LockSender ==
  ASSUME Typed, LockOK, BusInv, NEW s \in Senders, SenderMoves(s)
  PROVE  LockOK'
<1>. DEFINE b == call[s].on
<1>1. None \notin Senders /\ "loop" \notin Senders /\ None # "loop" BY NativeAssumption
<1>2. /\ b \in Buses /\ OnlyCall(s) /\ call'[s].on = b /\ OnlyBus(b) /\ LockMoves(s, b)
      /\ bus'[b].opener = bus[b].opener /\ bus'[b].loop = bus[b].loop /\ call[s].pc # "idle"
      /\ call'[s].pc # "idle"
  BY DEF SenderMoves, KeepsHandles, KeepsPlace
<1>. HIDE DEF b
<1>3. /\ bus[b].opener = "opened" /\ (InSection(s) => bus[b].ioMu = s) BY <1>2 DEF LockOK, InSection, b
<1>4. \A other \in Buses : bus'[other].ioMu = "loop" <=> bus'[other].loop = "apply"
  <2>1. bus'[b].ioMu = "loop" <=> bus[b].ioMu = "loop" BY <1>1, <1>2, <1>3 DEF LockMoves
  <2>. QED BY <1>2, <2>1 DEF LockOK, OnlyBus
<1>5. \A other \in Senders : call'[other].pc # "idle" => call'[other].on \in Buses /\ bus'[call'[other].on].opener = "opened"
  BY <1>2, <1>3 DEF LockOK, OnlyBus, OnlyCall
<1>6. ASSUME NEW other \in Senders, InSection(other)'
      PROVE  bus'[call'[other].on].ioMu = other
  <2>1. CASE other = s
    BY <1>2, <1>3, <1>6, <2>1 DEF LockMoves
  <2>2. CASE other # s
    <3>1. call'[other] = call[other] BY <1>2, <2>2 DEF OnlyCall
    <3>2. InSection(other) /\ bus[call[other].on].ioMu = other /\ call[other].on \in Buses
      BY <1>6, <3>1 DEF LockOK, InSection
    <3>3. CASE call[other].on # b BY <1>2, <3>1, <3>2, <3>3 DEF OnlyBus
    <3>4. CASE call[other].on = b BY <1>1, <1>2, <1>3, <2>2, <3>1, <3>2, <3>4 DEF LockMoves
    <3>. QED BY <3>3, <3>4
  <2>. QED BY <2>1, <2>2
<1>7. ASSUME NEW other \in Buses, bus'[other].ioMu \in Senders
      PROVE  call'[bus'[other].ioMu].pc \in {"writing", "accepted"} /\ call'[bus'[other].ioMu].on = other
  <2>1. CASE other # b
    <3>1. bus'[other] = bus[other] BY <1>2, <2>1 DEF OnlyBus
    <3>2. InSection(bus[other].ioMu) /\ call[bus[other].ioMu].on = other
      BY <1>7, <3>1 DEF LockOK, InSection
    <3>3. bus[other].ioMu # s BY <2>1, <3>2 DEF b
    <3>. QED BY <1>2, <1>7, <3>1, <3>2, <3>3 DEF OnlyCall, InSection
  <2>2. CASE other = b
    <3>1. CASE bus'[b].ioMu = s /\ InSection(s)' BY <1>2, <2>2, <3>1 DEF InSection
    <3>2. CASE bus'[b].ioMu = bus[b].ioMu /\ (InSection(s)' <=> InSection(s))
      <4>1. InSection(bus[b].ioMu) /\ call[bus[b].ioMu].on = b
        BY <1>2, <1>7, <2>2, <3>2 DEF LockOK, InSection
      <4>2. CASE bus[b].ioMu = s BY <1>2, <2>2, <3>2, <4>1, <4>2 DEF InSection
      <4>3. CASE bus[b].ioMu # s BY <1>2, <1>7, <2>2, <3>2, <4>1, <4>3 DEF OnlyCall, InSection
      <4>. QED BY <4>2, <4>3
    <3>. QED BY <1>1, <1>2, <1>7, <2>2, <3>1, <3>2 DEF LockMoves
  <2>. QED BY <2>1, <2>2
<1>8. \A other \in Senders : call'[other].accepted => call'[other].pc # "idle"
  BY <1>2 DEF LockOK, OnlyCall
<1>9. \A other \in Buses : bus'[other].loop = "ended" => bus'[other].ioMu = None
  <2>1. bus[b].loop = "ended" => bus[b].ioMu = None /\ Stopping(b)
    BY <1>2 DEF LockOK, BusInv, PlaceOK
  <2>2. bus'[b].loop = "ended" => bus'[b].ioMu = None BY <1>2, <2>1 DEF LockMoves
  <2>. QED BY <1>2, <2>2 DEF LockOK, OnlyBus
<1>. QED BY <1>4, <1>5, <1>6, <1>7, <1>8, <1>9 DEF LockOK, InSection

\* A new call does not hold it.
LEMMA LockCall ==
  ASSUME Typed, LockOK, NEW s \in Senders, NEW b \in Buses, OnlyCall(s), call[s].pc = "idle",
         call'[s].on = b, bus[b].opener = "opened", ~InSection(s)', call'[s].pc # "idle", UNCHANGED bus
  PROVE  LockOK'
<1>1. \A other \in Buses : bus'[other].ioMu = "loop" <=> bus'[other].loop = "apply" BY DEF LockOK
<1>2. \A other \in Senders : call'[other].pc # "idle" => call'[other].on \in Buses /\ bus'[call'[other].on].opener = "opened"
  BY DEF LockOK, OnlyCall
<1>3. \A other \in Senders : InSection(other)' => bus'[call'[other].on].ioMu = other
  BY DEF LockOK, OnlyCall, InSection
<1>4. \A other \in Buses : bus'[other].ioMu \in Senders =>
        call'[bus'[other].ioMu].pc \in {"writing", "accepted"} /\ call'[bus'[other].ioMu].on = other
  BY DEF LockOK, OnlyCall
<1>5. \A other \in Senders : call'[other].accepted => call'[other].pc # "idle"
  BY DEF LockOK, OnlyCall
<1>6. \A other \in Buses : bus'[other].loop = "ended" => bus'[other].ioMu = None BY DEF LockOK
<1>. QED BY <1>1, <1>2, <1>3, <1>4, <1>5, <1>6 DEF LockOK, InSection

\* A step that leaves every handle where it is keeps the invariant.
LEMMA QuietStep ==
  ASSUME IInv, \A b \in Buses : QuietBus(b), Typed', LockOK',
         UNCHANGED <<scenario, monitor, watchers, xl>>
  PROVE  IInv'
<1>1. \A b \in Buses : PlaceOK(b)' /\ HeldOK(b)' /\ ItemsOK(b)' /\ LocalBus(b)
  BY QuietKeeps DEF IInv, BusInv
<1>2. BusInv' BY <1>1 DEF BusInv
<1>3. CountInv' BY <1>1, LocalCount DEF IInv
<1>4. WatchInv' /\ RemovalInv' BY <1>1, LocalWatch DEF IInv, LocalBus
<1>. QED BY <1>2, <1>3, <1>4 DEF IInv

\* The other buses, when a step moves b and may stop it.
LEMMA QuietOthers ==
  ASSUME BusInv, NEW b \in Buses, OnlyBus(b), StopsOnly(b), QuietBus(b)
  PROVE  \A other \in Buses : QuietBus(other)
<1>1. ASSUME NEW other \in Buses, other # b PROVE QuietBus(other)
  <2>1. bus'[other] = bus[other] /\ lifecycle'[other] = lifecycle[other]
    BY <1>1 DEF OnlyBus, StopsOnly
  <2>. QED BY <2>1, OtherBus DEF BusInv, Stopping
<1>. QED BY Zenon, <1>1

LEMMA LoopKeeps ==
  ASSUME IInv, NEW b \in Buses, Loop(b), UNCHANGED <<present, xl>>
  PROVE  IInv'
<1>1. Typed /\ LockOK /\ BusInv BY DEF IInv
<1>2. LoopMoves(b) BY <1>1, LoopEffect DEF LockOK, LoopLock, BusInv
<1>3. UNCHANGED <<scenario, call, monitor, watchers>> BY <1>2 DEF LoopMoves
<1>4. QuietBus(b) BY <1>2 DEF LoopMoves, QuietBus, StopsOnly, Stopping
<1>5. \A other \in Buses : QuietBus(other) BY <1>1, <1>2, <1>4, QuietOthers DEF LoopMoves
<1>6. LockOK'
  <2>1. bus'[b].loop # "ended" BY <1>2 DEF LoopMoves, Running
  <2>. QED BY <1>1, <1>2, <1>3, <2>1, LockKept DEF LoopMoves, KeepsHandles
<1>7. Typed' BY <1>1, <1>2, <1>3 DEF Typed, LoopMoves, StopsOnly
<1>. QED BY <1>3, <1>5, <1>6, <1>7, QuietStep

LEMMA SendingKeeps ==
  ASSUME IInv, NEW s \in Senders, Sending(s), UNCHANGED <<present, xl>>
  PROVE  IInv'
<1>1. Typed /\ LockOK /\ BusInv BY DEF IInv
<1>2. SenderMoves(s) BY <1>1, SendingEffect
<1>3. PICK b \in Buses :
      /\ call' \in [Senders -> Calls] /\ left' \in Lefts
      /\ bus' \in [Buses -> BusRecords] /\ OnlyBus(b) /\ KeepsHandles(b) /\ KeepsPlace(b)
      /\ StopsOnly(b) /\ UNCHANGED <<scenario, monitor, watchers>>
  BY <1>2 DEF SenderMoves
<1>4. ItemsOK(b) BY <1>1, <1>3 DEF BusInv
<1>5. QuietBus(b) BY <1>3, <1>4 DEF KeepsPlace, QuietBus, StopsOnly, Stopping, ItemsOK
<1>6. \A other \in Buses : QuietBus(other) BY <1>1, <1>3, <1>5, QuietOthers
<1>7. LockOK' BY <1>1, <1>2, LockSender
<1>8. Typed' BY <1>1, <1>3 DEF Typed, StopsOnly
<1>. QED BY <1>3, <1>6, <1>7, <1>8, QuietStep

LEMMA SendCallKeeps ==
  ASSUME IInv, NEW s \in Senders, NEW b \in Buses, SendCall(s, b), UNCHANGED <<present, xl>>
  PROVE  IInv'
<1>1. Typed /\ LockOK /\ BusInv BY DEF IInv
<1>2. /\ call' \in [Senders -> Calls] /\ OnlyCall(s) /\ call[s].pc = "idle"
      /\ call'[s].on = b /\ bus[b].opener = "opened" /\ ~InSection(s)' /\ call'[s].pc # "idle"
      /\ UNCHANGED <<scenario, left, lifecycle, bus, monitor, watchers>>
  BY <1>1, SendCallEffect
<1>3. \A other \in Buses : QuietBus(other) BY <1>1, <1>2, OtherBus DEF BusInv, Stopping
<1>4. LockOK' BY <1>1, <1>2, LockCall
<1>5. Typed' BY <1>1, <1>2 DEF Typed
<1>. QED BY <1>2, <1>3, <1>4, <1>5, QuietStep

-----------------------------------------------------------------------------
(* The network, the controller, the clock, and the callers of Close.       *)

\* The native side or a caller of Close changes the record of b to r.
LEMMA OutsideKeeps ==
  ASSUME IInv, NEW b \in Buses, NEW r \in BusRecords, bus' = [bus EXCEPT ![b] = r],
         SameHandles(r, b), r.loop = bus[b].loop, r.items = bus[b].items, r.ioMu = bus[b].ioMu,
         bus[b].queue # <<>> => r.queue # <<>>, left' \in Lefts, StopsOnly(b),
         UNCHANGED <<scenario, call, monitor, watchers, present, xl>>
  PROVE  IInv'
<1>1. Typed /\ LockOK /\ BusInv BY DEF IInv
<1>2. bus' \in [Buses -> BusRecords] /\ bus'[b] = r /\ OnlyBus(b) BY Zenon, <1>1, BusUpdate
<1>3. ItemsOK(b) BY <1>1 DEF BusInv
<1>4. QuietBus(b)
  <2>1. KeepsHandles(b) BY <1>2 DEF KeepsHandles, SameHandles
  <2>2. ItemsOK(b)' BY <1>2, <1>3 DEF ItemsOK
  <2>. QED BY <1>2, <2>1, <2>2 DEF QuietBus, StopsOnly, Stopping
<1>5. \A other \in Buses : QuietBus(other) BY <1>1, <1>2, <1>4, QuietOthers
<1>6. LoopLock(b)' BY <1>1, <1>2 DEF LockOK, LoopLock
<1>7. LockOK'
  <2>1. bus[b].loop = "ended" => bus[b].ioMu = None BY <1>1 DEF LockOK
  <2>2. bus'[b].loop = "ended" => bus'[b].ioMu = None BY <1>2, <2>1
  <2>. QED BY <1>1, <1>2, <1>6, <2>2, LockKept DEF SameHandles
<1>8. Typed' BY <1>1, <1>2 DEF Typed, StopsOnly
<1>. QED BY <1>5, <1>7, <1>8, QuietStep

LEMMA QueuedType ==
  ASSUME Typed, NEW b \in Buses, NEW p \in Packets
  PROVE  /\ Queued(b, p) = [bus EXCEPT ![b] = QueuedRecord(b, p)]
         /\ QueuedRecord(b, p) \in BusRecords /\ SameHandles(QueuedRecord(b, p), b)
         /\ QueuedRecord(b, p).loop = bus[b].loop /\ QueuedRecord(b, p).items = bus[b].items
         /\ QueuedRecord(b, p).ioMu = bus[b].ioMu /\ QueuedRecord(b, p).queue # <<>>
<1>. DEFINE q == IF Len(bus[b].queue) < QueueSize THEN p ELSE Packet("overrun", None)
            queue == Append(bus[b].queue, q)
            delivered == IF p.kind \in {"frame", "bad"} THEN Append(bus[b].delivered, p.of)
                         ELSE bus[b].delivered
            r == [bus[b] EXCEPT !.queue = queue, !.delivered = delivered, !.signal = TRUE]
<1>1. bus[b] \in BusRecords /\ bus[b].queue \in Seq(Packets) /\ bus[b].delivered \in Seq(Values)
  BY BusTyped
<1>2. Packet("overrun", None) \in Packets /\ p.of \in Values BY Zenon DEF Packet, Packets, PacketKinds, Values
<1>3. queue \in Seq(Packets) /\ queue # <<>> BY <1>1, <1>2, AppendProperties
<1>4. delivered \in Seq(Values) BY <1>1, <1>2, AppendProperties
<1>5. QueuedRecord(b, p) = r BY <1>1 DEF QueuedRecord
<1>6. Queued(b, p) = [bus EXCEPT ![b] = r] BY Zenon DEF Queued
<1>. HIDE DEF queue, delivered
<1>7. r \in BusRecords /\ SameHandles(r, b) /\ r.loop = bus[b].loop /\ r.items = bus[b].items
      /\ r.ioMu = bus[b].ioMu /\ r.queue = queue
  BY Zenon, <1>1, <1>3, <1>4 DEF BusRecords, SameHandles
<1>. HIDE DEF r
<1>. QED BY <1>3, <1>5, <1>6, <1>7

LEMMA DeliverKeeps ==
  ASSUME IInv, NEW b \in Buses, Deliver(b)
  PROVE  IInv'
<1>. DEFINE p == Head(left.packets)
<1>1. Typed /\ left \in Lefts /\ left.packets \in Seq(Packets) /\ left.packets # <<>>
  BY DEF IInv, Typed, Lefts, Deliver
<1>2. p \in Packets /\ Tail(left.packets) \in Seq(Packets) BY <1>1, HeadTailProperties
<1>3. left' = [left EXCEPT !.packets = Tail(left.packets)] BY DEF Deliver
<1>4. left' \in Lefts BY Zenon, <1>1, <1>2, <1>3 DEF Lefts
<1>5. bus' = Queued(b, p) /\ UNCHANGED <<scenario, lifecycle, call, monitor, watchers, present, xl>>
  BY DEF Deliver, monitorVars
<1>. HIDE DEF p
<1>6. StopsOnly(b) BY <1>1, <1>5, NoStop
<1>. QED BY <1>1, <1>2, <1>4, <1>5, <1>6, QueuedType, OutsideKeeps

LEMMA AnswerKeeps ==
  ASSUME IInv, NEW s \in Senders, Answer(s)
  PROVE  IInv'
<1>. DEFINE p == Packet("frame", s)
<1>1. Typed /\ left \in Lefts /\ left.answers \subseteq Senders BY DEF IInv, Typed, Lefts
<1>2. p \in Packets BY DEF Packet, Packets, PacketKinds, Values
<1>3. left' = [left EXCEPT !.answers = left.answers \ {s}] BY DEF Answer
<1>4. left' \in Lefts BY <1>1, <1>3 DEF Lefts
<1>0. call[s].on \in Buses BY DEF IInv, LockOK, Answer
<1>5. PICK b \in Buses : bus' = Queued(b, p)
  BY <1>0 DEF Answer
<1>6. UNCHANGED <<scenario, lifecycle, call, monitor, watchers, present, xl>>
  BY DEF Answer, monitorVars
<1>. HIDE DEF p
<1>7. StopsOnly(b) BY <1>1, <1>6, NoStop
<1>. QED BY <1>1, <1>2, <1>4, <1>5, <1>6, <1>7, QueuedType, OutsideKeeps

LEMMA ControllerKeeps ==
  ASSUME IInv, NEW b \in Buses, ControllerChanges(b)
  PROVE  IInv'
<1>. DEFINE state == Head(left.changes)
            p == Packet("state", state)
            s == [bus[b] EXCEPT !.controller = state]
            r == [QueuedRecord(b, p) EXCEPT !.controller = state]
<1>1. Typed /\ left \in Lefts /\ left.changes \in Seq(States) /\ left.changes # <<>>
  BY DEF IInv, Typed, Lefts, ControllerChanges
<1>2. state \in States /\ Tail(left.changes) \in Seq(States) BY <1>1, HeadTailProperties
<1>3. p \in Packets BY <1>2 DEF Packet, Packets, PacketKinds, Values
<1>4. left' = [left EXCEPT !.changes = Tail(left.changes)] BY DEF ControllerChanges
<1>5. left' \in Lefts BY Zenon, <1>1, <1>2, <1>4 DEF Lefts
<1>6. UNCHANGED <<scenario, lifecycle, call, monitor, watchers, present, xl>>
  BY DEF ControllerChanges, monitorVars
<1>7. StopsOnly(b) BY <1>1, <1>6, NoStop
<1>8. bus' = [Queued(b, p) EXCEPT ![b].controller = state] \/ bus' = [bus EXCEPT ![b].controller = state]
  BY DEF ControllerChanges
<1>. HIDE DEF p, state
<1>9. CASE bus' = [bus EXCEPT ![b].controller = state]
  <2>1. bus[b] \in BusRecords BY <1>1, BusTyped
  <2>2. s \in BusRecords /\ SameHandles(s, b) /\ s.loop = bus[b].loop /\ s.items = bus[b].items
        /\ s.ioMu = bus[b].ioMu /\ s.queue = bus[b].queue
    BY Zenon, <1>2, <2>1 DEF BusRecords, SameHandles
  <2>3. bus' = [bus EXCEPT ![b] = s] BY <1>9
  <2>. HIDE DEF s
  <2>. QED BY Zenon, <1>5, <1>6, <1>7, <2>2, <2>3, OutsideKeeps
<1>10. CASE bus' = [Queued(b, p) EXCEPT ![b].controller = state]
  <2>. DEFINE q == QueuedRecord(b, p)
  <2>1. /\ Queued(b, p) = [bus EXCEPT ![b] = q] /\ q \in BusRecords /\ SameHandles(q, b)
        /\ q.loop = bus[b].loop /\ q.items = bus[b].items /\ q.ioMu = bus[b].ioMu /\ q.queue # <<>>
    BY <1>1, <1>3, QueuedType
  <2>. HIDE DEF q
  <2>2. /\ r \in BusRecords /\ r.loop = q.loop /\ r.items = q.items /\ r.ioMu = q.ioMu /\ r.queue = q.queue
        /\ r.opener = q.opener /\ r.held = q.held /\ r.generation = q.generation
        /\ r.watcher = q.watcher /\ r.teardown = q.teardown /\ r.stale = q.stale
    BY Zenon, <1>2, <2>1 DEF BusRecords, q
  <2>3. bus \in [Buses -> BusRecords] BY <1>1 DEF Typed
  <2>4. bus' = [bus EXCEPT ![b] = r] BY Zenon, <1>10, <2>1, <2>3 DEF q
  <2>5. SameHandles(r, b) BY <2>1, <2>2 DEF SameHandles
  <2>. HIDE DEF r
  <2>. QED BY Zenon, <1>5, <1>6, <1>7, <2>1, <2>2, <2>4, <2>5, OutsideKeeps
<1>. QED BY <1>8, <1>9, <1>10

LEMMA HealthKeeps ==
  ASSUME IInv, NEW b \in Buses, HealthTimer(b)
  PROVE  IInv'
<1>. DEFINE r == [bus[b] EXCEPT !.due = TRUE]
<1>1. Typed /\ left \in Lefts /\ left.ticks \in Nat BY DEF IInv, Typed, Lefts
<1>2. left' \in Lefts
  <2>1. CASE UNCHANGED left BY <1>1, <2>1
  <2>2. CASE left.ticks > 0 /\ left' = [left EXCEPT !.ticks = @ - 1]
    <3>1. left.ticks - 1 \in Nat BY <1>1, <2>2
    <3>. QED BY Zenon, <1>1, <2>2, <3>1 DEF Lefts
  <2>. QED BY <2>1, <2>2 DEF HealthTimer
<1>3. UNCHANGED <<scenario, lifecycle, call, monitor, watchers, present, xl>>
  BY DEF HealthTimer, monitorVars
<1>4. StopsOnly(b) BY <1>1, <1>3, NoStop
<1>5. bus[b] \in BusRecords BY <1>1, BusTyped
<1>6. r \in BusRecords /\ SameHandles(r, b) /\ r.loop = bus[b].loop /\ r.items = bus[b].items
      /\ r.ioMu = bus[b].ioMu /\ r.queue = bus[b].queue
  BY Zenon, <1>5 DEF BusRecords, SameHandles
<1>7. bus' = [bus EXCEPT ![b] = r] BY Zenon DEF HealthTimer, Set
<1>. HIDE DEF r
<1>. QED BY Zenon, <1>2, <1>3, <1>4, <1>6, <1>7, OutsideKeeps

LEMMA CloseKeeps ==
  ASSUME IInv, NEW b \in Buses, Close(b) \/ CloseReturns(b)
  PROVE  IInv'
<1>. DEFINE r(place) == [bus[b] EXCEPT !.closer = place]
<1>1. Typed BY DEF IInv
<1>2. UNCHANGED <<scenario, left, call, monitor, watchers, present, xl>>
  BY DEF Close, CloseReturns, monitorVars
<1>3. StopsOnly(b) BY <1>1, NoStop, StopEffect DEF Close, CloseReturns
<1>4. bus[b] \in BusRecords /\ left' \in Lefts BY <1>1, <1>2, BusTyped DEF Typed
<1>5. \A place \in {"waiting", "returned"} :
        /\ r(place) \in BusRecords /\ SameHandles(r(place), b)
        /\ r(place).loop = bus[b].loop /\ r(place).items = bus[b].items
        /\ r(place).ioMu = bus[b].ioMu /\ r(place).queue = bus[b].queue
  BY Zenon, <1>4 DEF BusRecords, SameHandles
<1>6. bus' = [bus EXCEPT ![b] = r("waiting")] \/ bus' = [bus EXCEPT ![b] = r("returned")]
  BY DEF Close, CloseReturns, Set
<1>. HIDE DEF r
<1>. QED BY <1>2, <1>3, <1>4, <1>5, <1>6, OutsideKeeps

LEMMA AttachedKeeps ==
  ASSUME IInv, DeviceAttached
  PROVE  IInv'
<1>1. Typed /\ LockOK /\ BusInv BY DEF IInv
<1>2. present' = TRUE /\ UNCHANGED <<scenario, left, lifecycle, bus, call, monitor, watchers, xl>>
  BY DEF DeviceAttached, monitorVars
<1>3. \A b \in Buses : QuietBus(b) BY <1>1, <1>2, OtherBus DEF BusInv, Stopping
<1>4. LockOK' BY <1>1, <1>2 DEF LockOK
<1>5. Typed' BY <1>1, <1>2 DEF Typed
<1>. QED BY <1>2, <1>3, <1>4, <1>5, QuietStep

-----------------------------------------------------------------------------
(* Open, step by step.                                                     *)

LEMMA OpenerRecord ==
  ASSUME Typed, NEW b \in Buses, NEW to \in Openers, NEW held \in SUBSET Handles, NEW place \in Places,
         OpenerTo(b, to, held, place)
  PROVE  /\ bus' \in [Buses -> BusRecords] /\ OnlyBus(b)
         /\ bus'[b].opener = to /\ bus'[b].held = held /\ bus'[b].loop = place
         /\ bus'[b].generation = bus[b].generation /\ bus'[b].watcher = bus[b].watcher
         /\ bus'[b].teardown = bus[b].teardown /\ bus'[b].stale = bus[b].stale
         /\ bus'[b].ioMu = bus[b].ioMu /\ bus'[b].items = bus[b].items /\ bus'[b].queue = bus[b].queue
<1>. DEFINE r == [bus[b] EXCEPT !.opener = to, !.held = held, !.loop = place]
<1>1. bus[b] \in BusRecords BY BusTyped
<1>2. /\ r \in BusRecords /\ r.opener = to /\ r.held = held /\ r.loop = place
      /\ r.generation = bus[b].generation /\ r.watcher = bus[b].watcher
      /\ r.teardown = bus[b].teardown /\ r.stale = bus[b].stale
      /\ r.ioMu = bus[b].ioMu /\ r.items = bus[b].items /\ r.queue = bus[b].queue
  BY Zenon, <1>1 DEF BusRecords
<1>3. bus' = [bus EXCEPT ![b] = r] BY DEF OpenerTo
<1>. HIDE DEF r
<1>4. bus'[b] = r /\ bus' \in [Buses -> BusRecords] /\ OnlyBus(b) BY Zenon, <1>2, <1>3, BusUpdate
<1>. QED BY <1>2, <1>4

\* One bus moves, and the others are as before.
LEMMA BusInvKept ==
  ASSUME BusInv, NEW b \in Buses, OnlyBus(b), UNCHANGED scenario,
         \A other \in Buses : other # b => lifecycle'[other] = lifecycle[other],
         PlaceOK(b)', HeldOK(b)', ItemsOK(b)'
  PROVE  BusInv'
<1>1. ASSUME NEW other \in Buses, other # b PROVE PlaceOK(other)' /\ HeldOK(other)' /\ ItemsOK(other)'
  <2>1. bus'[other] = bus[other] /\ lifecycle'[other] = lifecycle[other] BY <1>1 DEF OnlyBus
  <2>2. QuietBus(other) BY <2>1, OtherBus DEF BusInv, Stopping
  <2>. QED BY <2>2, QuietKeeps DEF BusInv
<1>. QED BY <1>1 DEF BusInv

\* The rest of the invariant when b keeps what the monitor serves.
LEMMA ServedStep ==
  ASSUME IInv, NEW b \in Buses, OnlyBus(b), ServedBus(b), Typed',
         bus[b].opener = "opened" => bus'[b].opener = "opened",
         bus'[b].loop = "ended" => bus[b].loop = "ended" \/ bus[b].ioMu = None,
         bus'[b].ioMu = bus[b].ioMu, bus'[b].loop = "apply" <=> bus[b].loop = "apply",
         \A other \in Buses : other # b => lifecycle'[other] = lifecycle[other],
         PlaceOK(b)', HeldOK(b)', ItemsOK(b)', CountInv',
         UNCHANGED <<scenario, call, monitor, watchers>>
  PROVE  IInv'
<1>1. Typed /\ LockOK /\ BusInv /\ WatchInv /\ RemovalInv BY DEF IInv
<1>2. BusInv' BY <1>1, BusInvKept
<1>3. \A other \in Buses : ServedBus(other)
  <2>1. ASSUME NEW other \in Buses, other # b PROVE ServedBus(other)
    <3>1. bus'[other] = bus[other] /\ lifecycle'[other] = lifecycle[other] BY <2>1 DEF OnlyBus
    <3>. QED BY <3>1 DEF ServedBus, Stopping
  <2>. QED BY <2>1
<1>4. WatchInv' /\ RemovalInv' BY <1>1, <1>3, LocalWatch
<1>5. LoopLock(b)' BY <1>1 DEF LockOK, LoopLock
<1>6. bus'[b].loop = "ended" => bus'[b].ioMu = None BY <1>1 DEF LockOK
<1>7. LockOK' BY <1>1, <1>5, <1>6, LockKept
<1>. QED BY <1>2, <1>4, <1>7 DEF IInv

\* The same when b keeps everything that is counted.
LEMMA LocalStep ==
  ASSUME IInv, NEW b \in Buses, OnlyBus(b), LocalBus(b), bus' \in [Buses -> BusRecords], left' \in Lefts,
         bus[b].opener = "opened" => bus'[b].opener = "opened",
         bus'[b].loop = "ended" => bus[b].loop = "ended" \/ bus[b].ioMu = None,
         bus'[b].ioMu = bus[b].ioMu, bus'[b].loop = "apply" <=> bus[b].loop = "apply",
         StopsOnly(b), PlaceOK(b)', HeldOK(b)', ItemsOK(b)',
         UNCHANGED <<scenario, call, monitor, watchers, present, xl>>
  PROVE  IInv'
<1>1. Typed /\ CountInv BY DEF IInv
<1>2. \A other \in Buses : LocalBus(other)
  <2>1. ASSUME NEW other \in Buses, other # b PROVE LocalBus(other)
    <3>1. bus'[other] = bus[other] /\ lifecycle'[other] = lifecycle[other] BY <2>1 DEF OnlyBus, StopsOnly
    <3>. QED BY <3>1 DEF LocalBus, ServedBus, Stopping
  <2>. QED BY <2>1
<1>3. CountInv' BY <1>1, <1>2, LocalCount
<1>4. Typed' BY <1>1 DEF Typed, StopsOnly
<1>5. ServedBus(b) BY DEF LocalBus
<1>6. \A other \in Buses : other # b => lifecycle'[other] = lifecycle[other] BY DEF StopsOnly
<1>. QED BY <1>3, <1>4, <1>5, <1>6, ServedStep

\* A step of Open that touches nothing that is counted.
LEMMA LocalOpener ==
  ASSUME IInv, NEW b \in Buses, NEW to \in Openers \ {"idle", "teardown"}, NEW held \in SUBSET Handles,
         NEW place \in Places, OpenerTo(b, to, held, place), bus[b].opener # "opened",
         \A h \in {"hold", "subscription", "driver"} : h \in held <=> h \in bus[b].held,
         place = bus[b].loop \/ (bus[b].loop = "off" /\ place \in {"wait", "poll"}),
         left' \in Lefts, StopsOnly(b), PlaceOK(b)', HeldOK(b)',
         UNCHANGED <<scenario, call, monitor, watchers, present, xl>>
  PROVE  IInv'
<1>1. Typed /\ ItemsOK(b) BY DEF IInv, BusInv
<1>2. /\ bus' \in [Buses -> BusRecords] /\ OnlyBus(b)
      /\ bus'[b].opener = to /\ bus'[b].held = held /\ bus'[b].loop = place
      /\ bus'[b].generation = bus[b].generation /\ bus'[b].watcher = bus[b].watcher
      /\ bus'[b].teardown = bus[b].teardown /\ bus'[b].stale = bus[b].stale
      /\ bus'[b].ioMu = bus[b].ioMu /\ bus'[b].items = bus[b].items /\ bus'[b].queue = bus[b].queue
  BY Zenon, <1>1, OpenerRecord
<1>3. ItemsOK(b)' BY <1>1, <1>2 DEF ItemsOK
<1>4. LocalBus(b) BY <1>2 DEF LocalBus, ServedBus, StopsOnly, Stopping
<1>5. bus'[b].loop = "apply" <=> bus[b].loop = "apply" BY <1>2
<1>. QED BY <1>2, <1>3, <1>4, <1>5, LocalStep

\* A native fault of Open.
LEMMA OpenFaultLeft ==
  ASSUME Typed, NEW b \in Buses, NEW from, OpenFault(b, from)
  PROVE  left' \in Lefts /\ bus[b].opener = from
  BY FaultSpent DEF OpenFault

\* The forms in which Open changes the record of a bus.
LEMMA OpenerForms ==
  ASSUME Typed, NEW b \in Buses, NEW to, NEW held, NEW place
  PROVE  /\ bus' = [bus EXCEPT ![b].opener = to, ![b].held = held] => OpenerTo(b, to, held, bus[b].loop)
         /\ bus' = [bus EXCEPT ![b].opener = to, ![b].loop = place] => OpenerTo(b, to, bus[b].held, place)
         /\ bus' = [bus EXCEPT ![b].opener = to, ![b].loop = place, ![b].held = held]
              => OpenerTo(b, to, held, place)
         /\ bus' = Set(b, "opener", to) => OpenerTo(b, to, bus[b].held, bus[b].loop)
<1>1. bus[b] \in BusRecords BY BusTyped
<1>2. [bus[b] EXCEPT !.opener = to, !.held = held]
        = [bus[b] EXCEPT !.opener = to, !.held = held, !.loop = bus[b].loop]
  BY Zenon, <1>1 DEF BusRecords
<1>3. [bus[b] EXCEPT !.opener = to, !.loop = place]
        = [bus[b] EXCEPT !.opener = to, !.held = bus[b].held, !.loop = place]
  BY Zenon, <1>1 DEF BusRecords
<1>4. [bus[b] EXCEPT !.opener = to, !.loop = place, !.held = held]
        = [bus[b] EXCEPT !.opener = to, !.held = held, !.loop = place]
  BY Zenon, <1>1 DEF BusRecords
<1>5. [bus[b] EXCEPT !.opener = to]
        = [bus[b] EXCEPT !.opener = to, !.held = bus[b].held, !.loop = bus[b].loop]
  BY Zenon, <1>1 DEF BusRecords
<1>6. ASSUME bus' = [bus EXCEPT ![b].opener = to, ![b].held = held]
      PROVE  OpenerTo(b, to, held, bus[b].loop)
  <2>1. bus' = [bus EXCEPT ![b] = [bus[b] EXCEPT !.opener = to, !.held = held]] BY Zenon, <1>6
  <2>. QED BY Zenon, <1>2, <2>1 DEF OpenerTo
<1>7. ASSUME bus' = [bus EXCEPT ![b].opener = to, ![b].loop = place]
      PROVE  OpenerTo(b, to, bus[b].held, place)
  <2>1. bus' = [bus EXCEPT ![b] = [bus[b] EXCEPT !.opener = to, !.loop = place]] BY Zenon, <1>7
  <2>. QED BY Zenon, <1>3, <2>1 DEF OpenerTo
<1>8. ASSUME bus' = [bus EXCEPT ![b].opener = to, ![b].loop = place, ![b].held = held]
      PROVE  OpenerTo(b, to, held, place)
  <2>1. bus' = [bus EXCEPT ![b] = [bus[b] EXCEPT !.opener = to, !.loop = place, !.held = held]] BY Zenon, <1>8
  <2>. QED BY Zenon, <1>4, <2>1 DEF OpenerTo
<1>9. ASSUME bus' = Set(b, "opener", to)
      PROVE  OpenerTo(b, to, bus[b].held, bus[b].loop)
  <2>1. bus' = [bus EXCEPT ![b] = [bus[b] EXCEPT !.opener = to]] BY Zenon, <1>9 DEF Set
  <2>. QED BY Zenon, <1>5, <2>1 DEF OpenerTo
<1>. QED BY <1>6, <1>7, <1>8, <1>9

LEMMA OpeningForm ==
  ASSUME Typed, NEW b \in Buses, NEW from, NEW to, NEW got, Opening(b, from, to, got)
  PROVE  OpenerTo(b, to, bus[b].held \union got, bus[b].loop) /\ bus[b].opener = from
<1>1. bus' = [bus EXCEPT ![b].opener = to, ![b].held = bus[b].held \union got] BY DEF Opening
<1>. QED BY Zenon, <1>1, OpenerForms DEF Opening

\* What the invariant says of b and its opener, for a step of Open.
LEMMA OpenerFacts ==
  ASSUME IInv, NEW b \in Buses
  PROVE  /\ Typed /\ PlaceOK(b) /\ HeldOK(b) /\ bus[b].held \subseteq Handles /\ bus[b].loop \in Places
         /\ lifecycle[b].done <=> bus[b].loop = "ended"
         /\ bus[b].opener \notin {"settle", "opened", "closing", "failed"} => bus[b].loop = "off"
  BY BusTyped DEF IInv, BusInv, PlaceOK

LEMMA SocketOpenKeeps ==
  ASSUME IInv, NEW b \in Buses, SocketOpen(b)
  PROVE  IInv'
<1>1. Typed /\ PlaceOK(b) /\ HeldOK(b) /\ bus[b].held \subseteq Handles /\ bus[b].loop \in Places
  BY OpenerFacts
<1>2. /\ UNCHANGED <<scenario, lifecycle, call, monitor, watchers, present, xl>>
      /\ Kind = "socketcan" /\ Kind' = Kind /\ Stopping(b)' = Stopping(b)
  BY DEF SocketOpen, monitorVars, Kind, Stopping
<1>3. StopsOnly(b) BY <1>1, <1>2, NoStop
<1>4. CASE Opening(b, "idle", "configure", {Channel}) /\ UNCHANGED left
  <2>1. OpenerTo(b, "configure", bus[b].held \union {Channel}, bus[b].loop) /\ bus[b].opener = "idle"
    BY <1>1, <1>4, OpeningForm
  <2>2. bus[b].loop = "off" /\ bus[b].held = {} BY <1>1, <2>1 DEF PlaceOK, HeldOK
  <2>3. "configure" \in Openers \ {"idle", "teardown"} /\ bus[b].held \union {Channel} \in SUBSET Handles
    BY <1>1 DEF Openers, Handles
  <2>4. bus'[b].opener = "configure" /\ bus'[b].held = {Channel} /\ bus'[b].loop = "off"
    BY <1>1, <2>1, <2>2, <2>3, OpenerRecord
  <2>5. PlaceOK(b)' BY <1>1, <1>2, <2>1, <2>2, <2>4 DEF PlaceOK, Running, Leaving
  <2>6. HeldOK(b)' BY <1>2, <2>4 DEF HeldOK, Channel, Running, Leaving
  <2>7. \A h \in {"hold", "subscription", "driver"} : h \in bus[b].held \union {Channel} <=> h \in bus[b].held
    BY DEF Channel
  <2>8. left' \in Lefts BY <1>1, <1>4 DEF Typed
  <2>. QED BY <1>1, <1>2, <1>3, <2>1, <2>3, <2>5, <2>6, <2>7, <2>8, LocalOpener
<1>5. CASE bus[b].opener = "configure" /\ bus' = [bus EXCEPT ![b].opener = "opened", ![b].loop = "wait"]
           /\ UNCHANGED left
  <2>1. OpenerTo(b, "opened", bus[b].held, "wait") BY Zenon, <1>1, <1>5, OpenerForms
  <2>2. bus[b].loop = "off" BY <1>1, <1>5 DEF PlaceOK
  <2>3. "opened" \in Openers \ {"idle", "teardown"} /\ "wait" \in Places
    BY DEF Openers, Places, Running
  <2>4. bus'[b].opener = "opened" /\ bus'[b].held = bus[b].held /\ bus'[b].loop = "wait"
    BY <1>1, <2>1, <2>3, OpenerRecord
  <2>5. PlaceOK(b)' BY <1>1, <1>2, <1>5, <2>2, <2>4 DEF PlaceOK, Running, Leaving
  <2>6. HeldOK(b)' BY Zenon, <1>1, <1>2, <1>5, <2>2, <2>4 DEF HeldOK, Running, Leaving
  <2>7. left' \in Lefts BY <1>1, <1>5 DEF Typed
  <2>. QED BY <1>1, <1>2, <1>3, <1>5, <2>1, <2>2, <2>3, <2>5, <2>6, <2>7, LocalOpener
<1>6. CASE OpenFault(b, "configure") /\ bus' = [bus EXCEPT ![b].opener = "failed", ![b].held = {}]
  <2>1. OpenerTo(b, "failed", {}, bus[b].loop) /\ left' \in Lefts /\ bus[b].opener = "configure"
    BY Zenon, <1>1, <1>6, OpenerForms, OpenFaultLeft
  <2>2. bus[b].loop = "off" BY <1>1, <2>1 DEF PlaceOK
  <2>3. "failed" \in Openers \ {"idle", "teardown"} BY DEF Openers
  <2>4. bus'[b].opener = "failed" /\ bus'[b].held = {} /\ bus'[b].loop = "off"
    BY <1>1, <2>1, <2>2, <2>3, OpenerRecord
  <2>5. PlaceOK(b)' BY <1>1, <1>2, <2>1, <2>2, <2>4 DEF PlaceOK, Running, Leaving
  <2>6. HeldOK(b)' BY <1>2, <2>4 DEF HeldOK, Running, Leaving
  <2>7. \A h \in {"hold", "subscription", "driver"} : h \in {} <=> h \in bus[b].held
    BY <1>1, <1>2, <2>1 DEF HeldOK
  <2>. QED BY <1>1, <1>2, <1>3, <2>1, <2>2, <2>3, <2>5, <2>6, <2>7, LocalOpener
<1>. QED BY <1>4, <1>5, <1>6 DEF SocketOpen

LEMMA NixnetOpenKeeps ==
  ASSUME IInv, NEW b \in Buses, NixnetOpen(b)
  PROVE  IInv'
<1>1. Typed /\ PlaceOK(b) /\ HeldOK(b) /\ bus[b].held \subseteq Handles /\ bus[b].loop \in Places
  BY OpenerFacts
<1>2. /\ UNCHANGED <<scenario, lifecycle, call, monitor, watchers, present, xl>>
      /\ Kind = "nixnet" /\ Kind' = Kind /\ Stopping(b)' = Stopping(b)
  BY DEF NixnetOpen, monitorVars, Kind, Stopping
<1>3. StopsOnly(b) BY <1>1, <1>2, NoStop
<1>4. \A to \in {"transmit", "start"}, from \in {"idle", "transmit"}, got \in {"rx", "tx"} :
        Opening(b, from, to, {got}) /\ UNCHANGED left => IInv'
  <2>. SUFFICES ASSUME NEW to \in {"transmit", "start"}, NEW from \in {"idle", "transmit"},
                       NEW got \in {"rx", "tx"}, Opening(b, from, to, {got}), UNCHANGED left
                PROVE  IInv'
    OBVIOUS
  <2>1. OpenerTo(b, to, bus[b].held \union {got}, bus[b].loop) /\ bus[b].opener = from
    BY <1>1, OpeningForm
  <2>2. bus[b].loop = "off" BY <1>1, <2>1 DEF PlaceOK
  <2>3. to \in Openers \ {"idle", "teardown"} /\ bus[b].held \union {got} \in SUBSET Handles
    BY <1>1 DEF Openers, Handles
  <2>4. bus'[b].opener = to /\ bus'[b].held = bus[b].held \union {got} /\ bus'[b].loop = "off"
    BY <1>1, <2>1, <2>2, <2>3, OpenerRecord
  <2>5. PlaceOK(b)' BY <1>1, <1>2, <2>1, <2>2, <2>4 DEF PlaceOK, Running, Leaving
  <2>6. HeldOK(b)' BY <1>1, <1>2, <2>1, <2>2, <2>4 DEF HeldOK, Running, Leaving
  <2>7. \A h \in {"hold", "subscription", "driver"} : h \in bus[b].held \union {got} <=> h \in bus[b].held
    OBVIOUS
  <2>8. left' \in Lefts BY <1>1 DEF Typed
  <2>. QED BY <1>1, <1>2, <1>3, <2>1, <2>3, <2>5, <2>6, <2>7, <2>8, LocalOpener
<1>5. CASE Active(b) /\ bus[b].opener = "start" /\ UNCHANGED left
           /\ bus' = [bus EXCEPT ![b].opener = "opened", ![b].loop = "poll", ![b].held = @ \union {Channel}]
  <2>. DEFINE held == bus[b].held \union {Channel}
  <2>1. OpenerTo(b, "opened", held, "poll") BY Zenon, <1>1, <1>5, OpenerForms
  <2>2. bus[b].loop = "off" BY <1>1, <1>5 DEF PlaceOK
  <2>3. "opened" \in Openers \ {"idle", "teardown"} /\ "poll" \in Places /\ held \in SUBSET Handles
    BY <1>1 DEF Openers, Places, Running, Handles
  <2>4. bus'[b].opener = "opened" /\ bus'[b].held = held /\ bus'[b].loop = "poll"
    BY <1>1, <2>1, <2>3, OpenerRecord
  <2>5. PlaceOK(b)' BY Zenon, <1>1, <1>2, <1>5, <2>2, <2>4 DEF PlaceOK, Running, Leaving
  <2>6. HeldOK(b)' BY Zenon, <1>1, <1>2, <1>5, <2>2, <2>4 DEF HeldOK, Running, Leaving, Channel
  <2>7. \A h \in {"hold", "subscription", "driver"} : h \in held <=> h \in bus[b].held BY DEF Channel
  <2>8. left' \in Lefts BY <1>1, <1>5 DEF Typed
  <2>. QED BY Zenon, <1>1, <1>2, <1>3, <1>5, <2>1, <2>2, <2>3, <2>5, <2>6, <2>7, <2>8, LocalOpener
<1>6. ASSUME NEW from \in {"transmit", "start"}, OpenFault(b, from),
             bus' = [bus EXCEPT ![b].opener = "failed", ![b].held = {}]
      PROVE  IInv'
  <2>1. OpenerTo(b, "failed", {}, bus[b].loop) /\ left' \in Lefts /\ bus[b].opener = from
    BY Zenon, <1>1, <1>6, OpenerForms, OpenFaultLeft
  <2>2. bus[b].loop = "off" BY <1>1, <2>1 DEF PlaceOK
  <2>3. "failed" \in Openers \ {"idle", "teardown"} BY DEF Openers
  <2>4. bus'[b].opener = "failed" /\ bus'[b].held = {} /\ bus'[b].loop = "off"
    BY <1>1, <2>1, <2>2, <2>3, OpenerRecord
  <2>5. PlaceOK(b)' BY <1>1, <1>2, <2>1, <2>2, <2>4 DEF PlaceOK, Running, Leaving
  <2>6. HeldOK(b)' BY <1>2, <2>4 DEF HeldOK, Running, Leaving
  <2>7. \A h \in {"hold", "subscription", "driver"} : h \in {} <=> h \in bus[b].held
    BY <1>1, <1>2, <2>1, <2>2 DEF HeldOK
  <2>. QED BY <1>1, <1>2, <1>3, <2>1, <2>2, <2>3, <2>5, <2>6, <2>7, LocalOpener
<1>. QED BY <1>4, <1>5, <1>6 DEF NixnetOpen

LEMMA VectorLocalKeeps ==
  ASSUME IInv, NEW b \in Buses, Kind = "vector",
         UNCHANGED <<scenario, lifecycle, call, monitor, watchers, present, xl>>, VectorLocal(b)
  PROVE  IInv'
<1>1. Typed /\ PlaceOK(b) /\ HeldOK(b) /\ bus[b].held \subseteq Handles /\ bus[b].loop \in Places
  BY OpenerFacts
<1>2. Kind' = Kind /\ Stopping(b)' = Stopping(b) BY DEF Kind, Stopping
<1>3. StopsOnly(b) BY <1>1, NoStop
<1>4. ASSUME NEW to \in {"configure", "activated", "undo"}, NEW held \in SUBSET Handles,
             bus[b].opener \in {"port", "configure", "activated"}, left' \in Lefts,
             OpenerTo(b, to, held, bus[b].loop),
             \A h \in {"hold", "subscription", "driver"} : h \in held <=> h \in bus[b].held,
             to = "activated" => Channel \in held
      PROVE  IInv'
  <2>1. bus[b].loop = "off" BY <1>1, <1>4 DEF PlaceOK
  <2>2. to \in Openers \ {"idle", "teardown"} BY DEF Openers
  <2>3. bus'[b].opener = to /\ bus'[b].held = held /\ bus'[b].loop = "off"
    <3>1. OpenerTo(b, to, held, "off") BY <1>4, <2>1
    <3>2. "off" \in Places /\ to \in Openers BY <2>2 DEF Places
    <3>. QED BY <1>1, <3>1, <3>2, OpenerRecord
  <2>4. PlaceOK(b)' BY <1>1, <1>2, <1>4, <2>1, <2>3 DEF PlaceOK, Running, Leaving
  <2>5. HeldOK(b)' BY <1>1, <1>2, <1>4, <2>1, <2>3 DEF HeldOK, Running, Leaving
  <2>. QED BY <1>1, <1>3, <1>4, <2>1, <2>2, <2>4, <2>5, LocalOpener
<1>5. {"port", Channel, "events"} \subseteq Handles
      /\ {"port", Channel, "events"} \cap {"hold", "subscription", "driver"} = {}
  BY DEF Handles, Channel
<1>6. CASE Opening(b, "port", "configure", {"port"}) /\ UNCHANGED left
  <2>1. OpenerTo(b, "configure", bus[b].held \union {"port"}, bus[b].loop) /\ bus[b].opener = "port"
    BY <1>1, <1>6, OpeningForm
  <2>2. left' \in Lefts /\ bus[b].held \union {"port"} \in SUBSET Handles BY <1>1, <1>5, <1>6 DEF Typed
  <2>3. \A h \in {"hold", "subscription", "driver"} : h \in bus[b].held \union {"port"} <=> h \in bus[b].held
    OBVIOUS
  <2>. QED BY <1>4, <2>1, <2>2, <2>3
<1>7. CASE Opening(b, "configure", "activated", {Channel, "events"}) /\ UNCHANGED left
  <2>. DEFINE held == bus[b].held \union {Channel, "events"}
  <2>1. OpenerTo(b, "activated", held, bus[b].loop) /\ bus[b].opener = "configure"
    BY <1>1, <1>7, OpeningForm
  <2>2. left' \in Lefts /\ held \in SUBSET Handles BY <1>1, <1>5, <1>7 DEF Typed
  <2>3. \A h \in {"hold", "subscription", "driver"} : h \in held <=> h \in bus[b].held BY DEF Channel
  <2>4. Channel \in held OBVIOUS
  <2>. HIDE DEF held
  <2>. QED BY <1>4, <2>1, <2>2, <2>3, <2>4
<1>8. CASE VectorOpenFails(b)
  <2>1. bus' = Set(b, "opener", "undo") BY Zenon, <1>8 DEF VectorOpenFails, Set
  <2>2. OpenerTo(b, "undo", bus[b].held, bus[b].loop) BY Zenon, <1>1, <2>1, OpenerForms
  <2>3. left' \in Lefts /\ bus[b].opener \in {"port", "configure", "activated"}
    BY <1>1, <1>8, OpenFaultLeft DEF VectorOpenFails
  <2>. QED BY <1>1, <1>4, <2>2, <2>3
<1>9. CASE VectorOpenRefused(b)
  <2>1. OpenerTo(b, "failed", bus[b].held, bus[b].loop) /\ bus[b].opener = "idle" /\ left' \in Lefts
    BY Zenon, <1>1, <1>9, OpenerForms DEF VectorOpenRefused, Typed
  <2>2. bus[b].loop = "off" /\ bus[b].held = {} BY <1>1, <2>1 DEF PlaceOK, HeldOK
  <2>3. "failed" \in Openers \ {"idle", "teardown"} BY DEF Openers
  <2>4. bus'[b].opener = "failed" /\ bus'[b].held = {} /\ bus'[b].loop = "off"
    BY <1>1, <2>1, <2>2, <2>3, OpenerRecord
  <2>5. PlaceOK(b)' BY <1>1, <1>2, <2>1, <2>2, <2>4 DEF PlaceOK, Running, Leaving
  <2>6. HeldOK(b)' BY <1>2, <2>4 DEF HeldOK, Running, Leaving
  <2>. QED BY <1>1, <1>3, <2>1, <2>2, <2>3, <2>5, <2>6, LocalOpener
<1>. QED BY <1>6, <1>7, <1>8, <1>9 DEF VectorLocal

\* The opened Vector bus asks for its first state.
LEMMA VectorOpenedKeeps ==
  ASSUME IInv, NEW b \in Buses, Kind = "vector", bus[b].opener = "activated",
         bus' = [bus EXCEPT ![b].opener = "opened", ![b].loop = "wait",
                            ![b].queue = Append(@, Packet("state", bus[b].controller)),
                            ![b].signal = TRUE],
         UNCHANGED <<scenario, left, lifecycle, call, monitor, watchers, present, xl>>
  PROVE  IInv'
<1>. DEFINE queue == Append(bus[b].queue, Packet("state", bus[b].controller))
            r == [bus[b] EXCEPT !.opener = "opened", !.loop = "wait", !.queue = queue, !.signal = TRUE]
<1>1. Typed /\ PlaceOK(b) /\ HeldOK(b) /\ ItemsOK(b) /\ bus[b] \in BusRecords
      /\ bus[b].queue \in Seq(Packets) /\ bus[b].controller \in States
  BY OpenerFacts, BusTyped DEF IInv, BusInv
<1>2. Packet("state", bus[b].controller) \in Packets BY Zenon, <1>1 DEF Packet, Packets, PacketKinds, Values
<1>3. queue \in Seq(Packets) BY <1>1, <1>2, AppendProperties
<1>4. bus' = [bus EXCEPT ![b] = r] BY Zenon
<1>. HIDE DEF queue
<1>5. /\ r \in BusRecords /\ r.opener = "opened" /\ r.loop = "wait" /\ r.held = bus[b].held
      /\ r.generation = bus[b].generation /\ r.watcher = bus[b].watcher
      /\ r.teardown = bus[b].teardown /\ r.stale = bus[b].stale /\ r.ioMu = bus[b].ioMu
  BY Zenon, <1>1, <1>3 DEF BusRecords, Openers, Places, Running
<1>. HIDE DEF r
<1>6. bus'[b] = r /\ bus' \in [Buses -> BusRecords] /\ OnlyBus(b) BY Zenon, <1>1, <1>4, <1>5, BusUpdate
<1>7. StopsOnly(b) /\ left' \in Lefts /\ Kind' = Kind /\ Stopping(b)' = Stopping(b)
  BY <1>1, NoStop DEF Typed, Kind, Stopping
<1>8. bus[b].loop = "off" BY <1>1 DEF PlaceOK
<1>9. PlaceOK(b)' BY <1>1, <1>5, <1>6, <1>7, <1>8 DEF PlaceOK, Running, Leaving
<1>10. HeldOK(b)' BY <1>1, <1>5, <1>6, <1>7, <1>8 DEF HeldOK, Running, Leaving
<1>11. ItemsOK(b)' BY <1>5, <1>6 DEF ItemsOK
<1>12. LocalBus(b) BY <1>5, <1>6, <1>7 DEF LocalBus, ServedBus
<1>. QED BY <1>5, <1>6, <1>7, <1>8, <1>9, <1>10, <1>11, <1>12, LocalStep

-----------------------------------------------------------------------------
(* PCAN: the steps of Open outside the monitor.                            *)

\* Initialization and inventory succeed.
LEMMA PcanOpeningKeeps ==
  ASSUME IInv, NEW b \in Buses, Kind = "pcan",
         \/ Opening(b, "initialize", "inventory", {Channel})
         \/ Opening(b, "inventory", "bind", {"events"}),
         UNCHANGED <<scenario, left, lifecycle, call, monitor, watchers, present, xl>>
  PROVE  IInv'
<1>1. Typed /\ PlaceOK(b) /\ HeldOK(b) /\ bus[b].held \subseteq Handles /\ bus[b].loop \in Places
  BY OpenerFacts
<1>2. Kind' = Kind /\ Stopping(b)' = Stopping(b) BY DEF Kind, Stopping
<1>3. StopsOnly(b) /\ left' \in Lefts BY <1>1, NoStop DEF Typed
<1>4. ASSUME NEW to \in {"inventory", "bind"}, NEW got \in {Channel, "events"},
             OpenerTo(b, to, bus[b].held \union {got}, bus[b].loop),
             bus[b].opener \in {"initialize", "inventory"}, Channel \in bus[b].held \union {got}
      PROVE  IInv'
  <2>. DEFINE held == bus[b].held \union {got}
  <2>1. bus[b].loop = "off" BY <1>1, <1>4 DEF PlaceOK
  <2>2. to \in Openers \ {"idle", "teardown"} /\ held \in SUBSET Handles /\ Channel \in held
    BY <1>1, <1>4 DEF Openers, Handles
  <2>3. \A h \in {"hold", "subscription", "driver"} : h \in held <=> h \in bus[b].held BY DEF Channel
  <2>. HIDE DEF held
  <2>4. bus'[b].opener = to /\ bus'[b].held = held /\ bus'[b].loop = "off"
    <3>1. OpenerTo(b, to, held, "off") BY <1>4, <2>1 DEF held
    <3>2. "off" \in Places BY DEF Places
    <3>. QED BY <1>1, <2>2, <3>1, <3>2, OpenerRecord
  <2>5. PlaceOK(b)' BY <1>1, <1>2, <1>4, <2>1, <2>4 DEF PlaceOK, Running, Leaving
  <2>6. HeldOK(b)' BY <1>1, <1>2, <1>4, <2>1, <2>2, <2>3, <2>4 DEF HeldOK, Running, Leaving
  <2>7. OpenerTo(b, to, held, bus[b].loop) BY <1>4 DEF held
  <2>. QED BY <1>1, <1>3, <1>4, <2>1, <2>2, <2>3, <2>5, <2>6, <2>7, LocalOpener
<1>5. CASE Opening(b, "initialize", "inventory", {Channel})
  <2>1. OpenerTo(b, "inventory", bus[b].held \union {Channel}, bus[b].loop) /\ bus[b].opener = "initialize"
    BY Zenon, <1>1, <1>5, OpeningForm
  <2>. QED BY <1>4, <2>1
<1>6. CASE Opening(b, "inventory", "bind", {"events"})
  <2>1. OpenerTo(b, "bind", bus[b].held \union {"events"}, bus[b].loop) /\ bus[b].opener = "inventory"
    BY <1>1, <1>6, OpeningForm
  <2>2. Channel \in bus[b].held BY <1>1, <2>1 DEF HeldOK
  <2>. QED BY <1>4, <2>1, <2>2
<1>. QED BY <1>5, <1>6

\* The settle delay of a bus that is subscribed, and the wait for its cleanup.
LEMMA PcanSettleKeeps ==
  ASSUME IInv, NEW b \in Buses, PcanSettle(b) \/ PcanSettleClosed(b)
  PROVE  IInv'
<1>1. /\ Typed /\ PlaceOK(b) /\ HeldOK(b) /\ bus[b].held \subseteq Handles /\ bus[b].loop \in Places
      /\ lifecycle[b].done <=> bus[b].loop = "ended"
  BY OpenerFacts
<1>2. UNCHANGED <<scenario, call, monitor, watchers, present, xl>> /\ Kind' = Kind
  BY DEF PcanSettle, PcanSettleClosed, monitorVars, Kind
<1>3. bus[b].opener \in {"settle", "closing"} BY DEF PcanSettle, PcanSettleClosed
<1>4. StopsOnly(b) BY <1>1, NoStop, StopEffect DEF PcanSettle, PcanSettleClosed
<1>5. left' \in Lefts BY <1>1, OpenFaultLeft DEF PcanSettle, PcanSettleClosed, Typed
<1>6. PICK to \in {"opened", "closing", "failed"} :
        bus' = Set(b, "opener", to) /\ (to = "failed" => bus[b].loop = "ended")
  BY <1>1 DEF PcanSettle, PcanSettleClosed
<1>7. OpenerTo(b, to, bus[b].held, bus[b].loop) BY Zenon, <1>1, <1>6, OpenerForms
<1>8. to \in Openers \ {"idle", "teardown"} BY DEF Openers
<1>9. bus'[b].opener = to /\ bus'[b].held = bus[b].held /\ bus'[b].loop = bus[b].loop
  BY <1>1, <1>7, <1>8, OpenerRecord, SMTT(30)
<1>10. (Stopping(b) => Stopping(b)') /\ lifecycle'[b].done = lifecycle[b].done
  BY <1>4 DEF StopsOnly, Stopping
<1>11. PlaceOK(b)' BY <1>1, <1>2, <1>3, <1>6, <1>9, <1>10 DEF PlaceOK, Running, Leaving
<1>12. HeldOK(b)' BY <1>1, <1>2, <1>3, <1>6, <1>9 DEF HeldOK, PlaceOK, Running, Leaving
<1>. QED BY <1>1, <1>2, <1>3, <1>4, <1>5, <1>7, <1>8, <1>11, <1>12, LocalOpener

\* A refused bus is uninitialized.
LEMMA PcanRefusedKeeps ==
  ASSUME IInv, NEW b \in Buses, PcanRefused(b)
  PROVE  IInv'
<1>1. Typed /\ PlaceOK(b) /\ HeldOK(b) /\ bus[b].held \subseteq Handles /\ bus[b].loop \in Places
  BY OpenerFacts
<1>2. /\ UNCHANGED <<scenario, left, lifecycle, call, monitor, watchers, present, xl>>
      /\ Kind' = Kind /\ Stopping(b)' = Stopping(b)
  BY DEF PcanRefused, monitorVars, Kind, Stopping
<1>3. StopsOnly(b) /\ left' \in Lefts BY <1>1, <1>2, NoStop DEF Typed
<1>4. bus[b].opener = "refused" /\ OpenerTo(b, "failed", {}, bus[b].loop)
  BY Zenon, <1>1, OpenerForms DEF PcanRefused
<1>5. bus[b].loop = "off" BY <1>1, <1>4 DEF PlaceOK
<1>6. "failed" \in Openers \ {"idle", "teardown"} BY DEF Openers
<1>7. bus'[b].opener = "failed" /\ bus'[b].held = {} /\ bus'[b].loop = "off"
  BY <1>1, <1>4, <1>5, <1>6, OpenerRecord
<1>8. PlaceOK(b)' BY <1>1, <1>2, <1>4, <1>5, <1>7 DEF PlaceOK, Running, Leaving
<1>9. HeldOK(b)' BY <1>2, <1>7 DEF HeldOK, Running, Leaving
<1>10. \A h \in {"hold", "subscription", "driver"} : h \in {} <=> h \in bus[b].held
  BY <1>1, <1>4, <1>5 DEF HeldOK, Running, PlaceOK
<1>. QED BY <1>1, <1>2, <1>3, <1>4, <1>5, <1>6, <1>8, <1>9, <1>10, LocalOpener

-----------------------------------------------------------------------------
(* What the buses hold is counted.                                         *)

\* The buses that hold something are finitely many.
LEMMA HoldingFinite ==
  ASSUME NEW h
  PROVE  /\ IsFiniteSet(Holding(h)) /\ Cardinality(Holding(h)) \in Nat
         /\ Cardinality(Holding(h)) = 0 <=> Holding(h) = {}
<1>1. Holding(h) \subseteq Buses /\ IsFiniteSet(Buses) BY NativeAssumption DEF Holding
<1>. QED BY <1>1, FS_Subset, FS_CardinalityType, FS_EmptySet

\* A step of b changes the count by at most one.
LEMMA HoldingStep ==
  ASSUME NEW b \in Buses, OnlyBus(b), NEW h
  PROVE  /\ (h \in bus'[b].held <=> h \in bus[b].held) => Holding(h)' = Holding(h)
         /\ h \in bus'[b].held /\ h \notin bus[b].held =>
              /\ Holding(h)' = Holding(h) \union {b}
              /\ Cardinality(Holding(h)') = Cardinality(Holding(h)) + 1
         /\ h \notin bus'[b].held /\ h \in bus[b].held =>
              /\ Holding(h)' = Holding(h) \ {b}
              /\ Cardinality(Holding(h)') = Cardinality(Holding(h)) - 1
              /\ Cardinality(Holding(h)) >= 1
<1>1. (h \in bus'[b].held <=> h \in bus[b].held) => Holding(h)' = Holding(h)
  BY DEF OnlyBus, Holding
<1>2. h \in bus'[b].held => Holding(h)' = Holding(h) \union {b} BY DEF OnlyBus, Holding
<1>3. h \notin bus'[b].held => Holding(h)' = Holding(h) \ {b} BY DEF OnlyBus, Holding
<1>4. h \in bus[b].held <=> b \in Holding(h) BY DEF Holding
<1>5. IsFiniteSet(Holding(h)) /\ Cardinality(Holding(h)) \in Nat BY HoldingFinite
<1>6. b \notin Holding(h) => Cardinality(Holding(h) \union {b}) = Cardinality(Holding(h)) + 1
  BY <1>5, FS_AddElement
<1>7. b \in Holding(h) => /\ Cardinality(Holding(h) \ {b}) = Cardinality(Holding(h)) - 1
                          /\ Cardinality(Holding(h)) >= 1
  <2>1. Cardinality(Holding(h)) = 0 <=> Holding(h) = {} BY HoldingFinite
  <2>2. Cardinality(Holding(h)) \in Nat BY <1>5
  <2>3. b \in Holding(h) => Cardinality(Holding(h) \ {b}) = Cardinality(Holding(h)) - 1 BY Zenon, <1>5, FS_RemoveElement
  <2>. QED BY <2>1, <2>2, <2>3
<1>. QED BY <1>1, <1>2, <1>3, <1>4, <1>6, <1>7

\* The invariant after a step of b that the monitor may take part in.
LEMMA MonitorStep ==
  ASSUME IInv, NEW b \in Buses, OnlyBus(b), Typed', StopsOnly(b),
         bus[b].opener = "opened" => bus'[b].opener = "opened",
         bus'[b].loop = "ended" => bus[b].loop = "ended" \/ bus[b].ioMu = None,
         bus'[b].ioMu = bus[b].ioMu, bus'[b].loop = "apply" <=> bus[b].loop = "apply",
         PlaceOK(b)', HeldOK(b)', ItemsOK(b)', UNCHANGED <<scenario, call>>,
         CountInv', WatchInv', RemovalInv'
  PROVE  IInv'
<1>1. Typed /\ LockOK /\ BusInv BY DEF IInv
<1>2. BusInv' BY <1>1, BusInvKept DEF StopsOnly
<1>3. LoopLock(b)' BY <1>1 DEF LockOK, LoopLock
<1>5. bus'[b].loop = "ended" => bus'[b].ioMu = None BY <1>1 DEF LockOK
<1>4. LockOK' BY <1>1, <1>3, <1>5, LockKept
<1>. QED BY <1>2, <1>4 DEF IInv

\* What the monitor keeps.
LEMMA MonitorTyped ==
  ASSUME Typed
  PROVE  /\ monitor.watcher \in Watcher /\ monitor.generation \in Nat /\ monitor.holds \in Nat
         /\ monitor.subscribers \subseteq Buses /\ watchers \in [WatcherIds -> Watchers]
         /\ WatcherIds = Watcher \ {0} /\ Watcher \subseteq Nat
<1>1. MaxWatchers \in Nat BY NativeAssumption
<1>2. WatcherIds = Watcher \ {0} /\ Watcher \subseteq Nat BY <1>1 DEF WatcherIds, Watcher
<1>. QED BY <1>2 DEF Typed

\* b gives its hold or subscription back; the watcher is detached with the last one.
LEMMA Leaves ==
  ASSUME IInv, NEW b \in Buses, OnlyBus(b),
         b \in Holding("hold") \union Holding("subscription"),
         "hold" \notin bus'[b].held /\ "subscription" \notin bus'[b].held,
         "driver" \in bus'[b].held <=> "driver" \in bus[b].held,
         bus'[b].opener # "idle", bus'[b].stale = bus[b].stale, bus'[b].watcher = bus[b].watcher,
         bus'[b].teardown = Detached,
         "teardown" \in {bus'[b].opener, bus'[b].loop} => Detached # 0,
         monitor'.generation = monitor.generation,
         monitor'.holds = Cardinality(Holding("hold")'),
         monitor'.subscribers = Holding("subscription")',
         monitor'.watcher = IF monitor'.holds > 0 \/ monitor'.subscribers # {} THEN monitor.watcher ELSE 0,
         UNCHANGED <<watchers, lifecycle, xl>>
  PROVE  CountInv' /\ WatchInv' /\ RemovalInv'
<1>1. Typed /\ CountInv /\ WatchInv /\ RemovalInv BY DEF IInv
<1>2. Holding("driver")' = Holding("driver") BY HoldingStep
<1>3. CountInv' BY <1>1, <1>2 DEF CountInv
<1>4. monitor.watcher # 0
  <2>1. Cardinality(Holding("hold")) = 0 <=> Holding("hold") = {} BY HoldingFinite
  <2>2. Cardinality(Holding("hold")) \in Nat BY HoldingFinite
  <2>3. monitor.holds > 0 \/ monitor.subscribers # {} BY <1>1, <2>1, <2>2 DEF CountInv
  <2>. QED BY <1>1, <2>3 DEF WatchInv
<1>5. Detached = IF monitor'.watcher = monitor.watcher THEN 0 ELSE monitor.watcher BY DEF Detached
<1>6. monitor'.watcher \in {0, monitor.watcher} OBVIOUS
<1>7. \A h \in {"hold", "subscription"} : Holding(h)' = Holding(h) \ {b} BY DEF OnlyBus, Holding
<1>8. Holding("hold")' \union Holding("subscription")' # {} => monitor'.watcher = monitor.watcher
  <2>1. Cardinality(Holding("hold")') = 0 <=> Holding("hold")' = {}
    <3>1. Holding("hold")' \subseteq Buses /\ IsFiniteSet(Buses) BY NativeAssumption DEF Holding
    <3>. QED BY <3>1, FS_Subset, FS_CardinalityType, FS_EmptySet
  <2>2. Cardinality(Holding("hold")') \in Nat
    <3>1. Holding("hold")' \subseteq Buses /\ IsFiniteSet(Buses) BY NativeAssumption DEF Holding
    <3>. QED BY <3>1, FS_Subset, FS_CardinalityType
  <2>. QED BY <2>1, <2>2
<1>9. WatchInv'
  <2>1. monitor'.watcher # 0 => LET w == watchers[monitor'.watcher] IN w.registered /\ w.running /\ ~w.stop
    BY <1>1, <1>6 DEF WatchInv
  <2>2. monitor'.holds > 0 \/ monitor'.subscribers # {} => monitor'.watcher # 0 BY <1>4
  <2>3. \A x \in Buses : x \in Holding("hold")' \union Holding("subscription")' =>
          bus'[x].watcher = monitor'.watcher
    BY <1>1, <1>7, <1>8 DEF WatchInv, OnlyBus
  <2>4. \A x \in Buses : "teardown" \in {bus'[x].opener, bus'[x].loop} =>
          bus'[x].teardown \notin {0, monitor'.watcher} /\ Used(bus'[x].teardown)
    <3>1. Used(monitor.watcher) BY <1>1, <1>4 DEF WatchInv, Used
    <3>. QED BY <1>1, <1>4, <1>5, <1>6, <3>1 DEF WatchInv, OnlyBus
  <2>5. \A x \in Buses : \A w \in WatcherIds : x \in watchers[w].todo =>
          bus'[x].watcher = w /\ bus'[x].opener # "idle"
    BY <1>1 DEF WatchInv, OnlyBus
  <2>. QED BY <2>1, <2>2, <2>3, <2>4, <2>5 DEF WatchInv, Used
<1>10. RemovalInv'
  <2>1. \A x \in Buses : x \in Holding("hold")' \union Holding("subscription")' => x # b /\ bus'[x] = bus[x]
    BY <1>7 DEF OnlyBus
  <2>2. RemovalNotMissed'
    <3>1. ASSUME NEW x \in Buses, bus'[x].stale, x \in Holding("subscription")'
          PROVE  Stopping(x)' \/ watchers'[monitor'.watcher].events > 0 \/ watchers'[monitor'.watcher].lost
                 \/ x \in watchers'[monitor'.watcher].todo
      BY <1>1, <1>7, <1>8, <2>1, <3>1 DEF RemovalInv, RemovalNotMissed, Stopping
    <3>2. ASSUME NEW x \in Buses, bus'[x].stale, x \in Holding("hold")'
          PROVE  watchers'[monitor'.watcher].events > 0 \/ watchers'[monitor'.watcher].lost
                 \/ bus'[x].generation # monitor'.generation
      BY <1>1, <1>7, <1>8, <2>1, <3>2 DEF RemovalInv, RemovalNotMissed
    <3>. QED BY <3>1, <3>2 DEF RemovalNotMissed
  <2>3. \A x \in Buses : /\ bus'[x].opener = "idle" => ~bus'[x].stale
                         /\ x \in Holding("hold")' => bus'[x].generation <= monitor'.generation
    BY <1>1, <1>7, <2>1 DEF RemovalInv, OnlyBus
  <2>. QED BY <2>2, <2>3 DEF RemovalInv
<1>. QED BY <1>3, <1>9, <1>10

-----------------------------------------------------------------------------
(* PCAN: the steps through the monitor.                                    *)

LEMMA LeftRecord ==
  ASSUME Typed, NEW b \in Buses, NEW opener \in Openers, NEW place \in Places,
         NEW held \in SUBSET Handles, NEW w \in Watcher,
         LeavesTo(b, opener, place, held, w)
  PROVE  /\ bus' \in [Buses -> BusRecords] /\ OnlyBus(b)
         /\ bus'[b].opener = opener /\ bus'[b].held = held /\ bus'[b].loop = place
         /\ bus'[b].teardown = w
         /\ bus'[b].generation = bus[b].generation /\ bus'[b].watcher = bus[b].watcher
         /\ bus'[b].stale = bus[b].stale /\ bus'[b].ioMu = bus[b].ioMu
         /\ bus'[b].items = bus[b].items /\ bus'[b].queue = bus[b].queue
<1>. DEFINE r == [bus[b] EXCEPT !.teardown = w, !.opener = opener, !.loop = place, !.held = held]
<1>1. bus[b] \in BusRecords BY BusTyped
<1>2. /\ r \in BusRecords /\ r.opener = opener /\ r.held = held /\ r.loop = place /\ r.teardown = w
      /\ r.generation = bus[b].generation /\ r.watcher = bus[b].watcher
      /\ r.stale = bus[b].stale /\ r.ioMu = bus[b].ioMu
      /\ r.items = bus[b].items /\ r.queue = bus[b].queue
  BY Zenon, <1>1 DEF BusRecords
<1>3. bus' = [bus EXCEPT ![b] = r] BY DEF LeavesTo
<1>. HIDE DEF r
<1>4. bus'[b] = r /\ bus' \in [Buses -> BusRecords] /\ OnlyBus(b) BY Zenon, <1>2, <1>3, BusUpdate
<1>. QED BY <1>2, <1>4

\* A detached watcher is the one of monitor.
LEMMA DetachedType ==
  ASSUME Typed
  PROVE  Detached \in Watcher
<1>1. 0 \in Watcher BY NativeAssumption DEF Watcher
<1>. QED BY <1>1, MonitorTyped DEF Detached

\* The monitor loses a hold: it is what IdleShutdown leaves.
LEMMA HoldEnds ==
  ASSUME IInv, NEW b \in Buses, OnlyBus(b), "hold" \in bus[b].held, "hold" \notin bus'[b].held,
         "subscription" \in bus'[b].held <=> "subscription" \in bus[b].held,
         monitor' = IdleShutdown(EndHold(monitor))
  PROVE  /\ monitor' \in [watcher : Watcher, generation : Nat, holds : Nat, subscribers : SUBSET Buses]
         /\ monitor'.generation = monitor.generation
         /\ monitor'.holds = Cardinality(Holding("hold")')
         /\ monitor'.subscribers = Holding("subscription")'
         /\ monitor'.watcher = IF monitor'.holds > 0 \/ monitor'.subscribers # {}
                               THEN monitor.watcher ELSE 0
<1>. DEFINE n == monitor.holds - 1
            m == [monitor EXCEPT !.holds = n]
<1>1. Typed /\ CountInv /\ 0 \in Watcher BY NativeAssumption DEF IInv, Watcher
<1>2. monitor \in [watcher : Watcher, generation : Nat, holds : Nat, subscribers : SUBSET Buses]
  BY <1>1 DEF Typed
<1>3. /\ Cardinality(Holding("hold")') = Cardinality(Holding("hold")) - 1
      /\ Cardinality(Holding("hold")) >= 1 /\ Holding("subscription")' = Holding("subscription")
  BY HoldingStep
<1>4. n \in Nat /\ n = Cardinality(Holding("hold")') BY <1>1, <1>2, <1>3 DEF CountInv
<1>5. EndHold(monitor) = m BY DEF EndHold
<1>. HIDE DEF n
<1>6. /\ m \in [watcher : Watcher, generation : Nat, holds : Nat, subscribers : SUBSET Buses]
      /\ m.holds = n /\ m.generation = monitor.generation /\ m.watcher = monitor.watcher
      /\ m.subscribers = monitor.subscribers
  BY <1>2, <1>4
<1>. HIDE DEF m
<1>7. /\ [m EXCEPT !.watcher = 0] \in [watcher : Watcher, generation : Nat, holds : Nat, subscribers : SUBSET Buses]
      /\ [m EXCEPT !.watcher = 0].watcher = 0 /\ [m EXCEPT !.watcher = 0].holds = m.holds
      /\ [m EXCEPT !.watcher = 0].generation = m.generation
      /\ [m EXCEPT !.watcher = 0].subscribers = m.subscribers
  BY <1>1, <1>6
<1>8. monitor' = IF m.holds > 0 \/ m.subscribers # {} THEN m ELSE [m EXCEPT !.watcher = 0]
  BY <1>5 DEF IdleShutdown
<1>9. monitor.subscribers = Holding("subscription")' BY <1>1, <1>3 DEF CountInv
<1>. QED BY <1>4, <1>6, <1>7, <1>8, <1>9

\* A failed open gives its hold back.
LEMMA ReleaseKeeps ==
  ASSUME IInv, NEW b \in Buses, bus[b].opener \in {"initialize", "inventory"}, PcanRelease(b),
         left' \in Lefts, Kind = "pcan",
         UNCHANGED <<scenario, lifecycle, call, watchers, present, xl>>
  PROVE  IInv'
<1>. DEFINE w == Detached
            to == IF w = 0 THEN "failed" ELSE "teardown"
<1>1. Typed /\ PlaceOK(b) /\ HeldOK(b) /\ ItemsOK(b) BY OpenerFacts DEF IInv, BusInv
<1>2. bus[b].loop = "off" /\ "hold" \in bus[b].held /\ bus[b].loop \notin Running
  BY <1>1 DEF PlaceOK, HeldOK, Running
<1>3. LeavesTo(b, to, "off", {}, w)
  <2>1. bus[b] \in BusRecords BY <1>1, BusTyped
  <2>2. bus' = [bus EXCEPT ![b] = [bus[b] EXCEPT !.teardown = w, !.opener = to, !.held = {}]]
    BY Zenon DEF PcanRelease, TearsDown
  <2>. HIDE DEF w, to
  <2>3. [bus[b] EXCEPT !.teardown = w, !.opener = to, !.held = {}]
          = [bus[b] EXCEPT !.teardown = w, !.opener = to, !.loop = "off", !.held = {}]
    BY Zenon, <1>2, <2>1 DEF BusRecords
  <2>. QED BY Zenon, <2>2, <2>3 DEF LeavesTo
<1>4. w \in Watcher BY <1>1, DetachedType
<1>. HIDE DEF w
<1>5. to \in Openers /\ {} \in SUBSET Handles /\ "off" \in Places BY DEF Openers, Places
<1>. HIDE DEF to
<1>6. /\ bus' \in [Buses -> BusRecords] /\ OnlyBus(b)
      /\ bus'[b].opener = to /\ bus'[b].held = {} /\ bus'[b].loop = "off" /\ bus'[b].teardown = w
      /\ bus'[b].watcher = bus[b].watcher /\ bus'[b].stale = bus[b].stale
      /\ bus'[b].ioMu = bus[b].ioMu
  BY <1>1, <1>3, <1>4, <1>5, LeftRecord
<1>7. "hold" \notin bus'[b].held /\ "subscription" \notin bus'[b].held /\ "driver" \notin bus'[b].held
      /\ "subscription" \notin bus[b].held /\ "driver" \notin bus[b].held
  BY <1>1, <1>2, <1>6 DEF HeldOK
<1>8. /\ monitor' \in [watcher : Watcher, generation : Nat, holds : Nat, subscribers : SUBSET Buses]
      /\ monitor'.generation = monitor.generation
      /\ monitor'.holds = Cardinality(Holding("hold")')
      /\ monitor'.subscribers = Holding("subscription")'
      /\ monitor'.watcher = IF monitor'.holds > 0 \/ monitor'.subscribers # {}
                            THEN monitor.watcher ELSE 0
  BY <1>2, <1>6, <1>7, HoldEnds DEF PcanRelease, Release
<1>9. to # "idle" /\ ("teardown" \in {to, "off"} => Detached # 0) BY DEF to, w
<1>10. CountInv' /\ WatchInv' /\ RemovalInv'
  <2>1. b \in Holding("hold") \union Holding("subscription") BY <1>2 DEF Holding
  <2>. QED BY <1>6, <1>7, <1>8, <1>9, <2>1, Leaves DEF w
<1>11. StopsOnly(b) /\ Kind' = Kind /\ Stopping(b)' = Stopping(b)
  BY <1>1, NoStop DEF Kind, Stopping
<1>12. PlaceOK(b)' BY <1>1, <1>2, <1>6, <1>11 DEF PlaceOK, Running, Leaving, to
<1>13. HeldOK(b)' BY <1>6, <1>11 DEF HeldOK, Running, Leaving, to
<1>14. ItemsOK(b)' BY <1>6 DEF ItemsOK
<1>15. Typed' BY <1>1, <1>6, <1>8 DEF Typed
<1>. QED BY <1>2, <1>6, <1>10, <1>11, <1>12, <1>13, <1>14, <1>15, MonitorStep

LEMMA BindRefusedKeeps ==
  ASSUME IInv, NEW b \in Buses, bus[b].opener = "bind", Kind = "pcan",
         BindRefuses(b),
         UNCHANGED <<scenario, left, lifecycle, call, watchers, present, xl>>
  PROVE  IInv'
<1>. DEFINE w == Detached
            to == IF w = 0 THEN "refused" ELSE "teardown"
            held == bus[b].held \ {"hold"}
<1>1. Typed /\ PlaceOK(b) /\ HeldOK(b) /\ ItemsOK(b) /\ bus[b].held \subseteq Handles
  BY OpenerFacts DEF IInv, BusInv
<1>2. bus[b].loop = "off" /\ "hold" \in bus[b].held /\ bus[b].loop \notin Running /\ Channel \in bus[b].held
  BY <1>1 DEF PlaceOK, HeldOK, Running
<1>3. LeavesTo(b, to, "off", held, w)
  <2>1. bus[b] \in BusRecords BY <1>1, BusTyped
  <2>2. bus' = [bus EXCEPT ![b] = [bus[b] EXCEPT !.teardown = w, !.opener = to, !.held = held]]
    BY Zenon DEF BindRefuses, TearsDown
  <2>. HIDE DEF w, to, held
  <2>3. [bus[b] EXCEPT !.teardown = w, !.opener = to, !.held = held]
          = [bus[b] EXCEPT !.teardown = w, !.opener = to, !.loop = "off", !.held = held]
    BY Zenon, <1>2, <2>1 DEF BusRecords
  <2>. QED BY Zenon, <2>2, <2>3 DEF LeavesTo
<1>4. w \in Watcher BY <1>1, DetachedType
<1>. HIDE DEF w
<1>5. to \in Openers /\ held \in SUBSET Handles /\ "off" \in Places BY <1>1 DEF Openers, Places
<1>6. held \cap {"hold", "subscription", "driver"} = {} /\ Channel \in held
      /\ "subscription" \notin bus[b].held /\ "driver" \notin bus[b].held
  BY <1>1, <1>2 DEF HeldOK, Channel
<1>. HIDE DEF to, held
<1>7. /\ bus' \in [Buses -> BusRecords] /\ OnlyBus(b)
      /\ bus'[b].opener = to /\ bus'[b].held = held /\ bus'[b].loop = "off" /\ bus'[b].teardown = w
      /\ bus'[b].watcher = bus[b].watcher /\ bus'[b].stale = bus[b].stale
      /\ bus'[b].ioMu = bus[b].ioMu
  BY <1>1, <1>3, <1>4, <1>5, LeftRecord
<1>8. "hold" \notin bus'[b].held /\ "subscription" \notin bus'[b].held /\ "driver" \notin bus'[b].held
  BY <1>6, <1>7
<1>9. /\ monitor' \in [watcher : Watcher, generation : Nat, holds : Nat, subscribers : SUBSET Buses]
      /\ monitor'.generation = monitor.generation
      /\ monitor'.holds = Cardinality(Holding("hold")')
      /\ monitor'.subscribers = Holding("subscription")'
      /\ monitor'.watcher = IF monitor'.holds > 0 \/ monitor'.subscribers # {}
                            THEN monitor.watcher ELSE 0
  BY <1>2, <1>6, <1>7, <1>8, HoldEnds DEF BindRefuses
<1>10. to # "idle" /\ ("teardown" \in {to, "off"} => Detached # 0) BY DEF to, w
<1>11. CountInv' /\ WatchInv' /\ RemovalInv'
  <2>1. b \in Holding("hold") \union Holding("subscription") BY <1>2 DEF Holding
  <2>. QED BY <1>6, <1>7, <1>8, <1>9, <1>10, <2>1, Leaves DEF w
<1>12. StopsOnly(b) /\ Kind' = Kind /\ Stopping(b)' = Stopping(b)
  BY <1>1, NoStop DEF Kind, Stopping
<1>13. PlaceOK(b)' BY <1>1, <1>2, <1>7, <1>12 DEF PlaceOK, Running, Leaving, to
<1>14. HeldOK(b)' BY <1>6, <1>7, <1>12 DEF HeldOK, Running, Leaving, to
<1>15. ItemsOK(b)' BY <1>7 DEF ItemsOK
<1>16. Typed' BY <1>1, <1>7, <1>9 DEF Typed
<1>. QED BY <1>2, <1>7, <1>11, <1>12, <1>13, <1>14, <1>15, <1>16, MonitorStep

LEMMA BindAcceptsKeeps ==
  ASSUME IInv, NEW b \in Buses, bus[b].opener = "bind", Kind = "pcan",
         bus[b].generation = monitor.generation, BindAccepts(b),
         UNCHANGED <<scenario, left, lifecycle, call, watchers, present, xl>>
  PROVE  IInv'
<1>. DEFINE held == (bus[b].held \ {"hold"}) \union {"subscription"}
            n == monitor.holds - 1
            subscribers == monitor.subscribers \union {b}
<1>1. /\ Typed /\ PlaceOK(b) /\ HeldOK(b) /\ ItemsOK(b) /\ bus[b].held \subseteq Handles
      /\ CountInv /\ WatchInv /\ RemovalInv
  BY OpenerFacts DEF IInv, BusInv
<1>2. bus[b].loop = "off" /\ "hold" \in bus[b].held /\ bus[b].loop \notin Running /\ Channel \in bus[b].held
  BY <1>1 DEF PlaceOK, HeldOK, Running
<1>3. OpenerTo(b, "settle", held, "wait") BY Zenon, <1>1, OpenerForms DEF BindAccepts
<1>4. "settle" \in Openers /\ "wait" \in Places /\ held \in SUBSET Handles
  BY <1>1 DEF Openers, Places, Running, Handles
<1>5. /\ "hold" \notin held /\ "subscription" \in held /\ "driver" \notin held /\ Channel \in held
      /\ "subscription" \notin bus[b].held /\ "driver" \notin bus[b].held
  BY <1>1, <1>2 DEF HeldOK, Channel
<1>. HIDE DEF held
<1>6. /\ bus' \in [Buses -> BusRecords] /\ OnlyBus(b)
      /\ bus'[b].opener = "settle" /\ bus'[b].held = held /\ bus'[b].loop = "wait"
      /\ bus'[b].generation = bus[b].generation /\ bus'[b].watcher = bus[b].watcher
      /\ bus'[b].teardown = bus[b].teardown /\ bus'[b].stale = bus[b].stale
      /\ bus'[b].ioMu = bus[b].ioMu
  BY <1>1, <1>3, <1>4, OpenerRecord
<1>7. /\ Holding("hold")' = Holding("hold") \ {b}
      /\ Cardinality(Holding("hold")') = Cardinality(Holding("hold")) - 1
      /\ Cardinality(Holding("hold")) >= 1
      /\ Holding("subscription")' = Holding("subscription") \union {b}
      /\ Holding("driver")' = Holding("driver")
  BY <1>2, <1>5, <1>6, HoldingStep
<1>8. monitor \in [watcher : Watcher, generation : Nat, holds : Nat, subscribers : SUBSET Buses]
  BY <1>1 DEF Typed
<1>9. n \in Nat /\ n = Cardinality(Holding("hold")') /\ monitor.holds > 0 BY <1>1, <1>7, <1>8 DEF CountInv
<1>10. subscribers = Holding("subscription")' /\ subscribers \in SUBSET Buses
  BY <1>1, <1>7, <1>8 DEF CountInv
<1>11. monitor' = [monitor EXCEPT !.holds = n, !.subscribers = subscribers]
  BY <1>8 DEF BindAccepts, EndHold
<1>. HIDE DEF n, subscribers
<1>12. /\ monitor' \in [watcher : Watcher, generation : Nat, holds : Nat, subscribers : SUBSET Buses]
       /\ monitor'.watcher = monitor.watcher /\ monitor'.generation = monitor.generation
       /\ monitor'.holds = n /\ monitor'.subscribers = subscribers
  BY Zenon, <1>8, <1>9, <1>10, <1>11
<1>13. CountInv' BY <1>1, <1>7, <1>9, <1>10, <1>12 DEF CountInv
<1>14. monitor.watcher # 0 /\ bus[b].watcher = monitor.watcher
  BY <1>1, <1>2, <1>9 DEF WatchInv, Holding
<1>15. WatchInv'
  <2>1. \A x \in Buses : x \in Holding("hold")' \union Holding("subscription")' =>
          bus'[x].watcher = monitor'.watcher
    BY <1>1, <1>6, <1>7, <1>12, <1>14 DEF WatchInv, OnlyBus
  <2>2. \A x \in Buses : "teardown" \in {bus'[x].opener, bus'[x].loop} =>
          bus'[x].teardown \notin {0, monitor'.watcher} /\ Used(bus'[x].teardown)
    BY <1>1, <1>6, <1>12 DEF WatchInv, OnlyBus
  <2>3. \A x \in Buses : \A w \in WatcherIds : x \in watchers[w].todo =>
          bus'[x].watcher = w /\ bus'[x].opener # "idle"
    BY <1>1, <1>6 DEF WatchInv, OnlyBus
  <2>4. LET w == watchers[monitor'.watcher] IN w.registered /\ w.running /\ ~w.stop
    BY <1>1, <1>12, <1>14 DEF WatchInv
  <2>. QED BY <1>12, <1>14, <2>1, <2>2, <2>3, <2>4 DEF WatchInv, Used
<1>16. RemovalInv'
  <2>1. b \in Holding("hold") BY <1>2 DEF Holding
  <2>2. RemovalNotMissed'
    <3>1. ASSUME NEW x \in Buses, bus'[x].stale, x \in Holding("subscription")'
          PROVE  Stopping(x)' \/ watchers'[monitor'.watcher].events > 0 \/ watchers'[monitor'.watcher].lost
                 \/ x \in watchers'[monitor'.watcher].todo
      <4>1. CASE x = b BY <1>1, <1>6, <1>12, <2>1, <3>1, <4>1 DEF RemovalInv, RemovalNotMissed
      <4>2. CASE x # b BY <1>1, <1>6, <1>7, <1>12, <3>1, <4>2 DEF RemovalInv, RemovalNotMissed, OnlyBus, Stopping
      <4>. QED BY <4>1, <4>2
    <3>2. ASSUME NEW x \in Buses, bus'[x].stale, x \in Holding("hold")'
          PROVE  watchers'[monitor'.watcher].events > 0 \/ watchers'[monitor'.watcher].lost
                 \/ bus'[x].generation # monitor'.generation
      BY <1>1, <1>6, <1>7, <1>12, <3>2 DEF RemovalInv, RemovalNotMissed, OnlyBus
    <3>. QED BY <3>1, <3>2 DEF RemovalNotMissed
  <2>3. \A x \in Buses : /\ bus'[x].opener = "idle" => ~bus'[x].stale
                         /\ x \in Holding("hold")' => bus'[x].generation <= monitor'.generation
    BY <1>1, <1>6, <1>7, <1>12 DEF RemovalInv, OnlyBus
  <2>. QED BY <2>2, <2>3 DEF RemovalInv
<1>17. StopsOnly(b) /\ Kind' = Kind /\ Stopping(b)' = Stopping(b)
  BY <1>1, NoStop DEF Kind, Stopping
<1>18. PlaceOK(b)' BY <1>1, <1>2, <1>6, <1>17 DEF PlaceOK, Running, Leaving
<1>19. HeldOK(b)' BY <1>5, <1>6, <1>17 DEF HeldOK, Running, Leaving
<1>20. ItemsOK(b)' BY <1>6 DEF ItemsOK
<1>21. Typed' BY <1>1, <1>6, <1>12 DEF Typed
<1>. QED BY <1>2, <1>6, <1>13, <1>15, <1>16, <1>17, <1>18, <1>19, <1>20, <1>21, MonitorStep

LEMMA PcanBindKeeps ==
  ASSUME IInv, NEW b \in Buses, PcanBind(b)
  PROVE  IInv'
<1>1. /\ Kind = "pcan" /\ bus[b].opener = "bind"
      /\ UNCHANGED <<scenario, left, lifecycle, call, watchers, present, xl>>
  BY DEF PcanBind
<1>2. Typed /\ PlaceOK(b) /\ HeldOK(b) /\ CountInv BY OpenerFacts DEF IInv
<1>3. b \notin monitor.subscribers
  <2>1. bus[b].loop = "off" /\ "subscription" \notin bus[b].held
    BY <1>1, <1>2 DEF PlaceOK, HeldOK, Running
  <2>. QED BY <1>2, <2>1 DEF CountInv, Holding
<1>4. monitor \in [watcher : Watcher, generation : Nat, holds : Nat, subscribers : SUBSET Buses]
  BY <1>2 DEF Typed
<1>5. CASE bus[b].generation # monitor.generation
  <2>1. monitor' = IdleShutdown(EndHold(monitor)) BY <1>5 DEF PcanBind, Bind
  <2>2. b \notin monitor'.subscribers BY <1>3, <1>4, <2>1 DEF IdleShutdown, EndHold
  <2>3. BindRefuses(b) BY <2>1, <2>2 DEF PcanBind, BindRefuses
  <2>. QED BY <1>1, <2>3, BindRefusedKeeps
<1>6. CASE bus[b].generation = monitor.generation
  <2>1. monitor' = [EndHold(monitor) EXCEPT !.subscribers = @ \union {b}] BY <1>6 DEF PcanBind, Bind
  <2>2. b \in monitor'.subscribers BY <1>4, <2>1 DEF EndHold
  <2>3. BindAccepts(b) BY <2>1, <2>2 DEF PcanBind, BindAccepts
  <2>. QED BY <1>1, <1>6, <2>3, BindAcceptsKeeps
<1>. QED BY <1>5, <1>6

LEMMA PcanInitializeKeeps ==
  ASSUME IInv, NEW b \in Buses, PcanInitialize(b) \/ PcanInventory(b)
  PROVE  IInv'
<1>1. Kind = "pcan" /\ UNCHANGED <<scenario, lifecycle, call, watchers, present, xl>>
  BY DEF PcanInitialize, PcanInventory
<1>2. Typed BY DEF IInv
<1>3. \/ /\ \/ Opening(b, "initialize", "inventory", {Channel})
            \/ Opening(b, "inventory", "bind", {"events"})
         /\ UNCHANGED <<left, monitor>>
      \/ PcanRelease(b) /\ left' \in Lefts /\ bus[b].opener \in {"initialize", "inventory"}
  BY <1>2, OpenFaultLeft DEF PcanInitialize, PcanInventory, Typed
<1>. QED BY <1>1, <1>3, PcanOpeningKeeps, ReleaseKeeps

\* The monitor loses a subscriber.
LEMMA SubscriptionEnds ==
  ASSUME IInv, NEW b \in Buses, OnlyBus(b), "subscription" \in bus[b].held,
         "subscription" \notin bus'[b].held, "hold" \in bus'[b].held <=> "hold" \in bus[b].held,
         Cancel(b)
  PROVE  /\ monitor' \in [watcher : Watcher, generation : Nat, holds : Nat, subscribers : SUBSET Buses]
         /\ monitor'.generation = monitor.generation
         /\ monitor'.holds = Cardinality(Holding("hold")')
         /\ monitor'.subscribers = Holding("subscription")'
         /\ monitor'.watcher = IF monitor'.holds > 0 \/ monitor'.subscribers # {}
                               THEN monitor.watcher ELSE 0
<1>. DEFINE subscribers == monitor.subscribers \ {b}
            m == [monitor EXCEPT !.subscribers = subscribers]
<1>1. Typed /\ CountInv /\ 0 \in Watcher BY NativeAssumption DEF IInv, Watcher
<1>2. monitor \in [watcher : Watcher, generation : Nat, holds : Nat, subscribers : SUBSET Buses]
  BY <1>1 DEF Typed
<1>3. Holding("hold")' = Holding("hold") /\ Holding("subscription")' = Holding("subscription") \ {b}
  BY HoldingStep
<1>4. subscribers \in SUBSET Buses /\ subscribers = Holding("subscription")' BY <1>1, <1>2, <1>3 DEF CountInv
<1>5. Cardinality(Holding("hold")') = monitor.holds BY <1>1, <1>3 DEF CountInv
<1>6. monitor' = IdleShutdown(m) BY DEF Cancel
<1>. HIDE DEF subscribers
<1>7. /\ m \in [watcher : Watcher, generation : Nat, holds : Nat, subscribers : SUBSET Buses]
      /\ m.holds = monitor.holds /\ m.generation = monitor.generation /\ m.watcher = monitor.watcher
      /\ m.subscribers = subscribers
  BY <1>2, <1>4
<1>. HIDE DEF m
<1>8. /\ [m EXCEPT !.watcher = 0] \in [watcher : Watcher, generation : Nat, holds : Nat, subscribers : SUBSET Buses]
      /\ [m EXCEPT !.watcher = 0].watcher = 0 /\ [m EXCEPT !.watcher = 0].holds = m.holds
      /\ [m EXCEPT !.watcher = 0].generation = m.generation
      /\ [m EXCEPT !.watcher = 0].subscribers = m.subscribers
  BY <1>1, <1>7
<1>9. monitor' = IF m.holds > 0 \/ m.subscribers # {} THEN m ELSE [m EXCEPT !.watcher = 0]
  BY <1>6 DEF IdleShutdown
<1>. QED BY <1>4, <1>5, <1>7, <1>8, <1>9

\* The receive goroutine leaves the monitor.
LEMMA PcanCancelKeeps ==
  ASSUME IInv, NEW b \in Buses, PcanCancel(b)
  PROVE  IInv'
<1>. DEFINE w == Detached
            place == IF w = 0 THEN "cleanup" ELSE "teardown"
            held == bus[b].held \ {"subscription"}
<1>1. Typed /\ PlaceOK(b) /\ HeldOK(b) /\ ItemsOK(b) /\ bus[b].held \subseteq Handles
      /\ bus[b].opener \in Openers
  BY OpenerFacts, BusTyped DEF IInv, BusInv
<1>2. /\ Kind = "pcan" /\ bus[b].loop = "finish" /\ Cancel(b)
      /\ UNCHANGED <<scenario, left, lifecycle, watchers, call, present, xl>>
  BY DEF PcanCancel
<1>3. /\ Stopping(b) /\ "subscription" \in bus[b].held /\ Channel \in bus[b].held
      /\ bus[b].opener \in {"settle", "opened", "closing"} /\ lifecycle[b].done = FALSE
  <2>1. Stopping(b) BY <1>1, <1>2 DEF PlaceOK
  <2>2. "subscription" \in bus[b].held /\ Channel \in bus[b].held BY <1>1, <1>2 DEF HeldOK, Running
  <2>3. bus[b].opener \in {"settle", "opened", "closing"} BY <1>1, <1>2 DEF PlaceOK
  <2>4. lifecycle[b].done = FALSE BY <1>1, <1>2 DEF PlaceOK, Typed, Lifecycles
  <2>. QED BY <2>1, <2>2, <2>3, <2>4
<1>4. LeavesTo(b, bus[b].opener, place, held, w)
  <2>1. bus[b] \in BusRecords BY <1>1, BusTyped
  <2>2. bus' = [bus EXCEPT ![b] = [bus[b] EXCEPT !.teardown = w, !.loop = place, !.held = held]]
    BY Zenon DEF PcanCancel, TearsDown
  <2>. HIDE DEF w, place, held
  <2>3. [bus[b] EXCEPT !.teardown = w, !.loop = place, !.held = held]
          = [bus[b] EXCEPT !.teardown = w, !.opener = bus[b].opener, !.loop = place, !.held = held]
    BY Zenon, <2>1 DEF BusRecords
  <2>. QED BY Zenon, <2>2, <2>3 DEF LeavesTo
<1>5. w \in Watcher BY <1>1, DetachedType
<1>. HIDE DEF w
<1>6. place \in Places /\ held \in SUBSET Handles BY <1>1 DEF Places, Leaving
<1>7. /\ "hold" \notin bus[b].held /\ "driver" \notin bus[b].held /\ "subscription" \notin held
      /\ "hold" \notin held /\ "driver" \notin held /\ Channel \in held
  BY <1>1, <1>2, <1>3 DEF HeldOK, Channel
<1>. HIDE DEF place, held
<1>8. /\ bus' \in [Buses -> BusRecords] /\ OnlyBus(b)
      /\ bus'[b].opener = bus[b].opener /\ bus'[b].held = held /\ bus'[b].loop = place
      /\ bus'[b].teardown = w /\ bus'[b].watcher = bus[b].watcher /\ bus'[b].stale = bus[b].stale
      /\ bus'[b].ioMu = bus[b].ioMu
  BY <1>1, <1>4, <1>5, <1>6, LeftRecord
<1>9. /\ monitor' \in [watcher : Watcher, generation : Nat, holds : Nat, subscribers : SUBSET Buses]
      /\ monitor'.generation = monitor.generation
      /\ monitor'.holds = Cardinality(Holding("hold")')
      /\ monitor'.subscribers = Holding("subscription")'
      /\ monitor'.watcher = IF monitor'.holds > 0 \/ monitor'.subscribers # {}
                            THEN monitor.watcher ELSE 0
  BY <1>2, <1>3, <1>7, <1>8, SubscriptionEnds
<1>10. "teardown" \in {bus'[b].opener, bus'[b].loop} => Detached # 0
  BY <1>3, <1>8 DEF place, w
<1>11. CountInv' /\ WatchInv' /\ RemovalInv'
  <2>1. b \in Holding("hold") \union Holding("subscription") BY <1>3 DEF Holding
  <2>. QED BY <1>2, <1>3, <1>7, <1>8, <1>9, <1>10, <2>1, Leaves DEF w
<1>12. StopsOnly(b) /\ Kind' = Kind /\ Stopping(b)' = Stopping(b) /\ lifecycle'[b].done = FALSE
  BY <1>1, <1>2, <1>3, NoStop DEF Kind, Stopping
<1>13. place \in Leaving BY DEF place, Leaving
<1>14. PlaceOK(b)' BY <1>2, <1>3, <1>8, <1>12, <1>13 DEF PlaceOK, Running, Leaving
<1>15. HeldOK(b)' BY <1>2, <1>3, <1>7, <1>8, <1>12, <1>13 DEF HeldOK, Running, Leaving
<1>16. ItemsOK(b)' BY <1>8, <1>13 DEF ItemsOK, Leaving
<1>17. Typed' BY <1>1, <1>2, <1>8, <1>9 DEF Typed
<1>18. (bus'[b].loop = "apply" <=> bus[b].loop = "apply") /\ bus'[b].loop # "ended"
  BY <1>2, <1>8, <1>13 DEF Leaving
<1>. QED BY <1>2, <1>8, <1>11, <1>12, <1>14, <1>15, <1>16, <1>17, <1>18, MonitorStep

\* Hold: the monitor has a registered watcher before the channel is initialized.
LEMMA PcanHoldKeeps ==
  ASSUME IInv, NEW b \in Buses, PcanHold(b)
  PROVE  IInv'
<1>. DEFINE w == monitor'.watcher
            g == monitor.generation
            r == [bus[b] EXCEPT !.opener = "initialize", !.held = {"hold"}, !.generation = g, !.watcher = w]
<1>1. /\ Typed /\ PlaceOK(b) /\ HeldOK(b) /\ ItemsOK(b) /\ bus[b] \in BusRecords
      /\ CountInv /\ WatchInv /\ RemovalInv
  BY OpenerFacts, BusTyped DEF IInv, BusInv
<1>2. /\ Kind = "pcan" /\ bus[b].opener = "idle" /\ Hold
      /\ UNCHANGED <<scenario, left, lifecycle, call, present, xl>>
  BY DEF PcanHold
<1>3. bus[b].loop = "off" /\ bus[b].held = {} /\ ~bus[b].stale
  BY <1>1, <1>2 DEF PlaceOK, HeldOK, RemovalInv
<1>4. /\ monitor \in [watcher : Watcher, generation : Nat, holds : Nat, subscribers : SUBSET Buses]
      /\ watchers \in [WatcherIds -> Watchers] /\ WatcherIds = Watcher \ {0}
  BY <1>1, MonitorTyped DEF Typed
<1>5. /\ monitor' \in [watcher : Watcher, generation : Nat, holds : Nat, subscribers : SUBSET Buses]
      /\ monitor'.generation = g /\ monitor'.holds = monitor.holds + 1
      /\ monitor'.subscribers = monitor.subscribers /\ w \in WatcherIds
      /\ watchers' \in [WatcherIds -> Watchers]
      /\ \/ monitor.watcher = w /\ UNCHANGED watchers
         \/ /\ monitor.watcher = 0 /\ watchers[w] = NewWatcher
            /\ watchers'[w].registered /\ watchers'[w].running /\ ~watchers'[w].stop /\ watchers'[w].todo = {}
            /\ \A v \in WatcherIds : v # w => watchers'[v] = watchers[v]
  <2>1. CASE monitor.watcher # 0 /\ monitor' = [monitor EXCEPT !.holds = @ + 1] /\ UNCHANGED watchers
    BY <1>4, <2>1
  <2>2. ASSUME NEW v \in WatcherIds, monitor.watcher = 0, Fresh(v), Register(v),
               monitor' = [monitor EXCEPT !.watcher = v, !.holds = @ + 1]
        PROVE  /\ monitor' \in [watcher : Watcher, generation : Nat, holds : Nat, subscribers : SUBSET Buses]
               /\ monitor'.generation = g /\ monitor'.holds = monitor.holds + 1
               /\ monitor'.subscribers = monitor.subscribers /\ w = v
               /\ watchers' \in [WatcherIds -> Watchers] /\ watchers[v] = NewWatcher
               /\ watchers'[v].registered /\ watchers'[v].running /\ ~watchers'[v].stop /\ watchers'[v].todo = {}
               /\ \A u \in WatcherIds : u # v => watchers'[u] = watchers[u]
    <3>1. watchers[v] = NewWatcher BY <2>2 DEF Fresh
    <3>0. 0 \in 0..EventBuffer BY NativeAssumption
    <3>2. /\ [NewWatcher EXCEPT !.registered = TRUE, !.running = TRUE] \in Watchers
          /\ [NewWatcher EXCEPT !.registered = TRUE, !.running = TRUE].registered
          /\ [NewWatcher EXCEPT !.registered = TRUE, !.running = TRUE].running
          /\ ~[NewWatcher EXCEPT !.registered = TRUE, !.running = TRUE].stop
          /\ [NewWatcher EXCEPT !.registered = TRUE, !.running = TRUE].todo = {}
      BY Zenon, <3>0 DEF NewWatcher, Watchers
    <3>3. watchers' = [watchers EXCEPT ![v] = [NewWatcher EXCEPT !.registered = TRUE, !.running = TRUE]]
      BY Zenon, <2>2, <3>1 DEF Register
    <3>4. /\ watchers'[v] = [NewWatcher EXCEPT !.registered = TRUE, !.running = TRUE]
          /\ watchers' \in [WatcherIds -> Watchers]
          /\ \A u \in WatcherIds : u # v => watchers'[u] = watchers[u]
      BY <1>4, <3>2, <3>3
    <3>5. v \in Watcher BY <1>4
    <3>6. monitor.holds + 1 \in Nat BY <1>4
    <3>7. /\ monitor' \in [watcher : Watcher, generation : Nat, holds : Nat, subscribers : SUBSET Buses]
          /\ monitor'.generation = monitor.generation /\ monitor'.holds = monitor.holds + 1
          /\ monitor'.subscribers = monitor.subscribers /\ monitor'.watcher = v
      BY Zenon, <1>4, <2>2, <3>5, <3>6
    <3>8. /\ watchers'[v].registered /\ watchers'[v].running
          /\ ~watchers'[v].stop /\ watchers'[v].todo = {}
      BY <3>2, <3>4
    <3>. QED BY <3>1, <3>4, <3>7, <3>8
  <2>. QED BY Zenon, <1>2, <2>1, <2>2 DEF Hold
<1>6. g \in Nat /\ w \in Watcher BY <1>4, <1>5
<1>7. bus' = [bus EXCEPT ![b] = r] BY Zenon DEF PcanHold
<1>w. w = monitor'.watcher /\ g = monitor.generation OBVIOUS
<1>. HIDE DEF g, w
<1>8. /\ r \in BusRecords /\ r.opener = "initialize" /\ r.held = {"hold"} /\ r.loop = bus[b].loop
      /\ r.generation = g /\ r.watcher = w /\ r.stale = bus[b].stale /\ r.ioMu = bus[b].ioMu
  BY Zenon, <1>1, <1>6 DEF BusRecords, Openers, Handles
<1>. HIDE DEF r
<1>9. /\ bus' \in [Buses -> BusRecords] /\ OnlyBus(b)
      /\ bus'[b].opener = "initialize" /\ bus'[b].held = {"hold"} /\ bus'[b].loop = "off"
      /\ bus'[b].generation = g /\ bus'[b].watcher = w /\ bus'[b].stale = bus[b].stale
      /\ bus'[b].ioMu = bus[b].ioMu
  BY Zenon, <1>1, <1>3, <1>7, <1>8, BusUpdate
<1>10. /\ Holding("hold")' = Holding("hold") \union {b}
       /\ Cardinality(Holding("hold")') = Cardinality(Holding("hold")) + 1
       /\ Holding("subscription")' = Holding("subscription")
       /\ Holding("driver")' = Holding("driver")
  <2>1. "hold" \in bus'[b].held /\ "hold" \notin bus[b].held BY <1>3, <1>9
  <2>2. \A h \in {"subscription", "driver"} : h \in bus'[b].held <=> h \in bus[b].held BY <1>3, <1>9
  <2>. QED BY <1>9, <2>1, <2>2, HoldingStep
<1>11. CountInv' BY <1>1, <1>2, <1>5, <1>10 DEF CountInv
<1>12. monitor.watcher = 0 => Holding("hold") = {} /\ Holding("subscription") = {}
  <2>1. Cardinality(Holding("hold")) = 0 <=> Holding("hold") = {} BY HoldingFinite
  <2>. QED BY <1>1, <1>4, <2>1 DEF WatchInv, CountInv
<1>13. \A v \in WatcherIds : watchers[v].registered \/ watchers[v].stop =>
         (watchers'[v].registered \/ watchers'[v].stop) /\ (monitor.watcher = 0 => v # w)
  <2>1. ~NewWatcher.registered /\ ~NewWatcher.stop BY DEF NewWatcher
  <2>2. w # 0 BY <1>4, <1>5
  <2>3. CASE monitor.watcher = w /\ UNCHANGED watchers BY <2>2, <2>3
  <2>4. CASE watchers[w] = NewWatcher /\ \A v \in WatcherIds : v # w => watchers'[v] = watchers[v]
    BY <2>1, <2>4
  <2>. QED BY <1>5, <2>3, <2>4
<1>14. WatchInv'
  <2>1. w # 0 /\ watchers'[w].registered /\ watchers'[w].running /\ ~watchers'[w].stop
    BY <1>1, <1>4, <1>5 DEF WatchInv
  <2>2. \A x \in Buses : x \in Holding("hold")' \union Holding("subscription")' => bus'[x].watcher = w
    BY <1>1, <1>5, <1>9, <1>10, <1>12 DEF WatchInv, OnlyBus
  <2>3. \A x \in Buses : "teardown" \in {bus'[x].opener, bus'[x].loop} =>
          /\ bus'[x].teardown \notin {0, w}
          /\ watchers'[bus'[x].teardown].registered \/ watchers'[bus'[x].teardown].stop
    <3>1. ASSUME NEW x \in Buses, "teardown" \in {bus'[x].opener, bus'[x].loop}
          PROVE  /\ bus'[x].teardown \notin {0, w}
                 /\ watchers'[bus'[x].teardown].registered \/ watchers'[bus'[x].teardown].stop
      <4>1. x # b /\ bus'[x] = bus[x] BY <1>9, <3>1 DEF OnlyBus
      <4>2. bus[x].teardown \notin {0, monitor.watcher} /\ Used(bus[x].teardown) /\ bus[x].teardown \in Watcher
        BY <1>1, <3>1, <4>1, BusTyped DEF WatchInv
      <4>3. bus[x].teardown \in WatcherIds BY <1>4, <4>2
      <4>4. watchers[bus[x].teardown].registered \/ watchers[bus[x].teardown].stop BY <4>2 DEF Used
      <4>5. bus[x].teardown # w
        BY <1>5, <1>13, <4>2, <4>3, <4>4
      <4>. QED BY <1>13, <4>1, <4>2, <4>3, <4>4, <4>5
    <3>. QED BY <3>1
  <2>4. \A x \in Buses : \A v \in WatcherIds : x \in watchers'[v].todo =>
          bus'[x].watcher = v /\ bus'[x].opener # "idle"
    <3>1. \A v \in WatcherIds : watchers'[v].todo \subseteq watchers[v].todo BY <1>5 DEF NewWatcher
    <3>. QED BY <1>1, <1>2, <1>9, <3>1 DEF WatchInv, OnlyBus
  <2>. QED BY <1>w, <2>1, <2>2, <2>3, <2>4 DEF WatchInv, Used
<1>15. RemovalInv'
  <2>1. \A x \in Buses : x # b /\ x \in Holding("hold")' \union Holding("subscription")' =>
          bus'[x] = bus[x] /\ x \in Holding("hold") \union Holding("subscription")
          /\ monitor.watcher = w /\ watchers' = watchers
    BY <1>5, <1>9, <1>10, <1>12 DEF OnlyBus
  <2>2. RemovalNotMissed'
    <3>1. ASSUME NEW x \in Buses, bus'[x].stale, x \in Holding("subscription")'
          PROVE  Stopping(x)' \/ watchers'[monitor'.watcher].events > 0 \/ watchers'[monitor'.watcher].lost
                 \/ x \in watchers'[monitor'.watcher].todo
      <4>1. x # b /\ x \in Holding("subscription") BY <1>3, <1>9, <1>10, <3>1
      <4>. QED BY <1>1, <1>2, <1>w, <2>1, <3>1, <4>1 DEF RemovalInv, RemovalNotMissed, Stopping
    <3>2. ASSUME NEW x \in Buses, bus'[x].stale, x \in Holding("hold")'
          PROVE  watchers'[monitor'.watcher].events > 0 \/ watchers'[monitor'.watcher].lost
                 \/ bus'[x].generation # monitor'.generation
      <4>1. x # b /\ x \in Holding("hold") BY <1>3, <1>9, <1>10, <3>2
      <4>. QED BY <1>1, <1>5, <1>w, <2>1, <3>2, <4>1 DEF RemovalInv, RemovalNotMissed
    <3>. QED BY <3>1, <3>2 DEF RemovalNotMissed
  <2>3. \A x \in Buses : bus'[x].opener = "idle" => ~bus'[x].stale
    BY <1>1, <1>9 DEF RemovalInv, OnlyBus
  <2>4. \A x \in Buses : x \in Holding("hold")' => bus'[x].generation <= monitor'.generation
    <3>1. g <= g BY <1>6
    <3>. QED BY <1>1, <1>5, <1>w, <1>9, <1>10, <3>1 DEF RemovalInv, OnlyBus
  <2>. QED BY <2>2, <2>3, <2>4 DEF RemovalInv
<1>16. StopsOnly(b) /\ Kind' = Kind /\ Stopping(b)' = Stopping(b) /\ lifecycle'[b].done = lifecycle[b].done
  BY <1>1, <1>2, NoStop DEF Kind, Stopping
<1>17. PlaceOK(b)' BY <1>1, <1>2, <1>3, <1>9, <1>16 DEF PlaceOK, Running, Leaving
<1>18. HeldOK(b)' BY <1>2, <1>9, <1>16 DEF HeldOK, Channel, Running, Leaving
<1>19. ItemsOK(b)' BY <1>9 DEF ItemsOK
<1>20. Typed' BY <1>1, <1>2, <1>5, <1>9 DEF Typed
<1>. QED BY <1>2, <1>3, <1>9, <1>11, <1>14, <1>15, <1>16, <1>17, <1>18, <1>19, <1>20, MonitorStep

-----------------------------------------------------------------------------
(* Vector: the process-wide native driver, and the end of a bus.           *)

LEMMA VectorReleased ==
  ASSUME Typed, NEW x \in XlRecords, x.users >= 1, x.open, ~x.closeFailed, VectorReleaseOf(x)
  PROVE  ReleasedFrom(x) /\ left' \in Lefts
<1>1. left \in Lefts BY DEF Typed
<1>2. x.users \in Nat /\ x.users - 1 \in Nat /\ (x.users > 1 \/ x.users = 1)
  BY DEF XlRecords
<1>3. CASE xl' = Released(x, FALSE) /\ UNCHANGED left
  <2>1. CASE x.users > 1
    <3>1. xl' = [x EXCEPT !.users = x.users - 1] BY <1>3, <2>1 DEF Released
    <3>2. xl' \in XlRecords /\ left' \in Lefts BY Zenon, <1>1, <1>2, <1>3, <3>1 DEF XlRecords
    <3>3. /\ xl'.users = x.users - 1 /\ xl'.discovering = x.discovering
          /\ xl'.open = x.open /\ xl'.closeFailed = x.closeFailed
      BY Zenon, <3>1 DEF XlRecords
    <3>4. xl'.users > 0 BY <1>2, <2>1, <3>3
    <3>. QED BY <3>2, <3>3, <3>4 DEF ReleasedFrom
  <2>2. CASE x.users = 1
    <3>1. xl' = [x EXCEPT !.users = 0, !.open = FALSE] BY <1>3, <2>2 DEF Released
    <3>2. xl' \in XlRecords BY Zenon, <3>1 DEF XlRecords
    <3>3. xl'.users = 0 /\ xl'.open = FALSE /\ xl'.closeFailed = x.closeFailed
          /\ xl'.discovering = x.discovering
      BY <3>1 DEF XlRecords
    <3>4. xl'.users = x.users - 1 /\ ~(xl'.users > 0) BY <2>2, <3>3
    <3>5. ~xl'.open /\ ~xl'.closeFailed BY <3>3
    <3>6. left' \in Lefts BY <1>1, <1>3
    <3>. QED BY Zenon, <3>2, <3>3, <3>4, <3>5, <3>6 DEF ReleasedFrom
  <2>. QED BY <1>2, <2>1, <2>2
<1>4. CASE x.users = 1 /\ left.faults > 0 /\ left' = [left EXCEPT !.faults = @ - 1] /\ xl' = Released(x, TRUE)
  <2>1. left' \in Lefts BY <1>4, FaultSpent
  <2>2. xl' = [x EXCEPT !.users = 0, !.closeFailed = TRUE] BY <1>4 DEF Released
  <2>3. xl' \in XlRecords BY Zenon, <2>2 DEF XlRecords
  <2>4. xl'.users = 0 /\ xl'.open = x.open /\ xl'.closeFailed = TRUE /\ xl'.discovering = x.discovering
    BY Zenon, <2>2 DEF XlRecords
  <2>5. 0 = x.users - 1 BY <1>4
  <2>. QED BY <1>2, <2>1, <2>3, <2>4, <2>5 DEF ReleasedFrom
<1>. QED BY Zenon, <1>3, <1>4 DEF VectorReleaseOf

\* The users are counted again when b gives its reference back.
LEMMA DriverLeft ==
  ASSUME IInv, NEW b \in Buses, OnlyBus(b), ServedBus(b), "driver" \in bus[b].held,
         "driver" \notin bus'[b].held, VectorRelease, UNCHANGED monitor
  PROVE  CountInv' /\ XlReleased /\ left' \in Lefts
<1>1. Typed /\ CountInv BY DEF IInv
<1>2. /\ Cardinality(Holding("driver")') = Cardinality(Holding("driver")) - 1
      /\ Cardinality(Holding("driver")) >= 1 /\ Cardinality(Holding("driver")) \in Nat
  BY HoldingStep, HoldingFinite
<1>3. xl.users >= 1 BY <1>1, <1>2 DEF CountInv
<1>4. XlReleased /\ left' \in Lefts
  <2>1. xl \in XlRecords BY <1>1 DEF Typed, XlRecords
  <2>2. xl.open /\ ~xl.closeFailed BY <1>1, <1>3, <2>1 DEF CountInv, XlRecords
  <2>3. VectorReleaseOf(xl) BY DEF VectorRelease
  <2>4. ReleasedFrom(xl) /\ left' \in Lefts BY ONLY <1>1, <1>3, <2>1, <2>2, <2>3, VectorReleased
  <2>. QED BY <2>4 DEF XlReleased
<1>5. Holding("hold")' = Holding("hold") /\ Holding("subscription")' = Holding("subscription")
  BY DEF ServedBus, OnlyBus, Holding
<1>6. xl'.users = Cardinality(Holding("driver")') + (IF xl'.discovering THEN 1 ELSE 0)
  BY <1>1, <1>2, <1>4 DEF CountInv, XlReleased, ReleasedFrom
<1>. QED BY <1>1, <1>4, <1>5, <1>6 DEF CountInv, XlReleased, ReleasedFrom

\* b holds nothing any more.
LEMMA VectorOpenUndoKeeps ==
  ASSUME IInv, NEW b \in Buses, VectorOpenUndo(b)
  PROVE  IInv'
<1>1. Typed /\ PlaceOK(b) /\ HeldOK(b) /\ ItemsOK(b) BY OpenerFacts DEF IInv, BusInv
<1>2. /\ UNCHANGED <<scenario, lifecycle, call, monitor, watchers, present>> /\ VectorRelease
      /\ Kind = "vector" /\ Kind' = Kind /\ Stopping(b)' = Stopping(b) /\ bus[b].opener = "undo"
  BY DEF VectorOpenUndo, monitorVars, Kind, Stopping
<1>3. bus[b].loop = "off" BY <1>1, <1>2 DEF PlaceOK
<1>4. OpenerTo(b, "failed", {}, "off") BY Zenon, <1>1, <1>3, OpenerForms DEF VectorOpenUndo
<1>5. "failed" \in Openers /\ "off" \in Places BY DEF Openers, Places
<1>6. /\ bus' \in [Buses -> BusRecords] /\ OnlyBus(b)
      /\ bus'[b].opener = "failed" /\ bus'[b].held = {} /\ bus'[b].loop = "off"
      /\ bus'[b].generation = bus[b].generation /\ bus'[b].watcher = bus[b].watcher
      /\ bus'[b].teardown = bus[b].teardown /\ bus'[b].stale = bus[b].stale
      /\ bus'[b].ioMu = bus[b].ioMu
  BY <1>1, <1>4, <1>5, OpenerRecord
<1>7. \A h \in {"hold", "subscription"} : h \notin bus[b].held BY <1>1, <1>2 DEF HeldOK
<1>8. "driver" \in bus[b].held BY <1>1, <1>2 DEF HeldOK
<1>9. ServedBus(b) BY <1>2, <1>6, <1>7 DEF ServedBus
<1>10. CountInv' /\ XlReleased /\ left' \in Lefts BY <1>2, <1>6, <1>8, <1>9, DriverLeft
<1>11. Typed' BY <1>1, <1>2, <1>6, <1>10 DEF Typed, XlReleased, ReleasedFrom, XlRecords
<1>12. PlaceOK(b)' BY <1>1, <1>2, <1>3, <1>6 DEF PlaceOK, Running, Leaving
<1>13. HeldOK(b)' BY <1>2, <1>6 DEF HeldOK, Running, Leaving
<1>14. ItemsOK(b)' BY <1>6 DEF ItemsOK
<1>. QED BY <1>2, <1>3, <1>6, <1>9, <1>10, <1>11, <1>12, <1>13, <1>14, ServedStep

\* The first step of Open takes a reference to the native driver.
LEMMA VectorAcquireKeeps ==
  ASSUME IInv, NEW b \in Buses, Kind = "vector", ~xl.closeFailed,
         Opening(b, "idle", "port", {"driver"}), Acquire,
         UNCHANGED <<scenario, left, lifecycle, call, monitor, watchers, present>>
  PROVE  IInv'
<1>1. Typed /\ PlaceOK(b) /\ HeldOK(b) /\ ItemsOK(b) /\ CountInv BY OpenerFacts DEF IInv, BusInv
<1>2. Kind' = Kind /\ Stopping(b)' = Stopping(b) BY DEF Kind, Stopping
<1>3. OpenerTo(b, "port", bus[b].held \union {"driver"}, bus[b].loop) /\ bus[b].opener = "idle"
  BY <1>1, OpeningForm
<1>4. bus[b].loop = "off" /\ bus[b].held = {} BY <1>1, <1>3 DEF PlaceOK, HeldOK
<1>5. "port" \in Openers /\ "off" \in Places /\ {"driver"} \in SUBSET Handles
      /\ OpenerTo(b, "port", {"driver"}, "off")
  <2>1. bus[b].held \union {"driver"} = {"driver"} BY <1>4
  <2>. QED BY <1>3, <1>4, <2>1 DEF Openers, Places, Handles
<1>6. /\ bus' \in [Buses -> BusRecords] /\ OnlyBus(b)
      /\ bus'[b].opener = "port" /\ bus'[b].held = {"driver"} /\ bus'[b].loop = "off"
      /\ bus'[b].generation = bus[b].generation /\ bus'[b].watcher = bus[b].watcher
      /\ bus'[b].teardown = bus[b].teardown /\ bus'[b].stale = bus[b].stale
      /\ bus'[b].ioMu = bus[b].ioMu
  BY <1>1, <1>5, OpenerRecord
<1>7. ServedBus(b) BY <1>2, <1>3, <1>4, <1>6 DEF ServedBus
<1>8. xl' = [xl EXCEPT !.users = xl.users + 1, !.open = TRUE] BY DEF Acquire
<1>9. xl \in [users : Nat, closeFailed : BOOLEAN, open : BOOLEAN, discovering : BOOLEAN]
  BY <1>1 DEF Typed
<1>10. xl' \in [users : Nat, closeFailed : BOOLEAN, open : BOOLEAN, discovering : BOOLEAN]
       /\ xl'.users = xl.users + 1 /\ xl'.users \in Nat /\ xl'.open /\ ~xl'.closeFailed
       /\ xl'.discovering = xl.discovering /\ xl'.users > 0
  <2>1. xl.users + 1 \in Nat /\ xl.users + 1 > 0 BY <1>9
  <2>2. /\ xl' \in [users : Nat, closeFailed : BOOLEAN, open : BOOLEAN, discovering : BOOLEAN]
        /\ xl'.users = xl.users + 1 /\ xl'.discovering = xl.discovering
    BY Zenon, <1>8, <1>9, <2>1
  <2>3. xl'.open = TRUE /\ xl'.closeFailed = xl.closeFailed BY <1>8, <1>9
  <2>. QED BY <2>1, <2>2, <2>3
<1>11. CountInv'
  <2>1. Cardinality(Holding("driver")') = Cardinality(Holding("driver")) + 1
        /\ Cardinality(Holding("driver")) \in Nat
    BY <1>4, <1>6, HoldingStep, HoldingFinite
  <2>2. Holding("hold")' = Holding("hold") /\ Holding("subscription")' = Holding("subscription")
    BY <1>6, <1>7 DEF ServedBus, OnlyBus, Holding
  <2>3. xl'.users = Cardinality(Holding("driver")') + (IF xl'.discovering THEN 1 ELSE 0)
    BY <1>1, <1>10, <2>1 DEF CountInv
  <2>. QED BY <1>1, <1>10, <2>2, <2>3 DEF CountInv
<1>12. Typed' BY <1>1, <1>6, <1>10 DEF Typed
<1>13. PlaceOK(b)' BY <1>1, <1>2, <1>3, <1>4, <1>6 DEF PlaceOK, Running, Leaving
<1>14. HeldOK(b)' BY <1>2, <1>6 DEF HeldOK, Running, Leaving, Channel
<1>15. ItemsOK(b)' BY <1>6 DEF ItemsOK
<1>. QED BY <1>3, <1>4, <1>6, <1>7, <1>11, <1>12, <1>13, <1>14, <1>15, ServedStep

LEMMA VectorOpenKeeps ==
  ASSUME IInv, NEW b \in Buses,
         VectorOpen(b) \/ VectorOpenRefused(b) \/ VectorOpenFails(b)
  PROVE  IInv'
<1>1. CASE VectorOpen(b)
  <2>1. Kind = "vector" /\ UNCHANGED <<scenario, left, lifecycle, call, monitor, watchers, present>>
    BY <1>1 DEF VectorOpen, monitorVars
  <2>2. CASE ~xl.closeFailed /\ Opening(b, "idle", "port", {"driver"}) /\ Acquire
    BY <2>1, <2>2, VectorAcquireKeeps
  <2>3. CASE Opening(b, "port", "configure", {"port"}) /\ UNCHANGED xl
    BY <2>1, <2>3, VectorLocalKeeps DEF VectorLocal
  <2>4. CASE Opening(b, "configure", "activated", {Channel, "events"}) /\ UNCHANGED xl
    BY <2>1, <2>4, VectorLocalKeeps DEF VectorLocal
  <2>5. CASE /\ bus[b].opener = "activated"
             /\ bus' = [bus EXCEPT ![b].opener = "opened", ![b].loop = "wait",
                                   ![b].queue = Append(@, Packet("state", bus[b].controller)),
                                   ![b].signal = TRUE]
             /\ UNCHANGED xl
    BY Zenon, <2>1, <2>5, VectorOpenedKeeps
  <2>. QED BY <1>1, <2>2, <2>3, <2>4, <2>5 DEF VectorOpen
<1>2. CASE VectorOpenRefused(b)
  BY <1>2, VectorLocalKeeps DEF VectorLocal, VectorOpenRefused, monitorVars
<1>3. CASE VectorOpenFails(b)
  BY Zenon, <1>3, VectorLocalKeeps DEF VectorLocal, VectorOpenFails, monitorVars
<1>. QED BY <1>1, <1>2, <1>3

\* The goroutine of a bus is gone, and b holds nothing any more.
LEMMA CleanupKeeps ==
  ASSUME IInv, NEW b \in Buses, Cleanup(b)
  PROVE  IInv'
<1>. DEFINE r == [bus[b] EXCEPT !.loop = "ended", !.held = {}, !.queue = <<>>]
            l == [lifecycle[b] EXCEPT !.done = TRUE]
<1>1. /\ Typed /\ PlaceOK(b) /\ HeldOK(b) /\ ItemsOK(b) /\ CountInv /\ bus[b] \in BusRecords
      /\ lifecycle \in [Buses -> Lifecycles] /\ lifecycle[b] \in Lifecycles
  BY OpenerFacts, BusTyped DEF IInv, BusInv, Typed
<1>2. /\ bus[b].loop = (IF Kind = "pcan" THEN "cleanup" ELSE "finish") /\ bus[b].ioMu = None
      /\ UNCHANGED <<scenario, call, monitor, watchers, present>> /\ Kind' = Kind
      /\ IF Kind = "vector" THEN VectorRelease ELSE UNCHANGED <<left, xl>>
  BY DEF Cleanup, monitorVars, Kind
<1>3. bus' = [bus EXCEPT ![b] = r] BY Zenon DEF Cleanup
<1>4. /\ r \in BusRecords /\ r.loop = "ended" /\ r.held = {} /\ r.opener = bus[b].opener
      /\ r.generation = bus[b].generation /\ r.watcher = bus[b].watcher
      /\ r.teardown = bus[b].teardown /\ r.stale = bus[b].stale /\ r.ioMu = bus[b].ioMu
  BY Zenon, <1>1, EmptySeq DEF BusRecords, Places
<1>5. lifecycle' = [lifecycle EXCEPT ![b] = l] BY DEF Cleanup, MarkDone
<1>6. l \in Lifecycles /\ l.done = TRUE /\ l.stop = lifecycle[b].stop BY Zenon, <1>1 DEF Lifecycles
<1>. HIDE DEF r, l
<1>7. bus'[b] = r /\ bus' \in [Buses -> BusRecords] /\ OnlyBus(b) BY Zenon, <1>1, <1>3, <1>4, BusUpdate
<1>8. /\ lifecycle' \in [Buses -> Lifecycles] /\ lifecycle'[b].done = TRUE
      /\ lifecycle'[b].stop = lifecycle[b].stop
      /\ \A other \in Buses : other # b => lifecycle'[other] = lifecycle[other]
  BY <1>1, <1>5, <1>6
<1>9. Stopping(b)' = Stopping(b) /\ Stopping(b)
  BY <1>1, <1>2, <1>8 DEF PlaceOK, Leaving, Stopping
<1>10. bus[b].opener \in {"settle", "opened", "closing"} BY <1>1, <1>2 DEF PlaceOK
<1>11. \A h \in {"hold", "subscription"} : h \notin bus[b].held
  BY <1>1, <1>2, <1>10 DEF HeldOK, Running
<1>12. ServedBus(b) BY <1>4, <1>7, <1>9, <1>10, <1>11 DEF ServedBus
<1>13. "driver" \in bus[b].held <=> Kind = "vector" BY <1>1, <1>2 DEF HeldOK, Running
<1>14. "driver" \notin bus'[b].held BY <1>4, <1>7
<1>15. ASSUME Kind = "vector" PROVE Typed' /\ CountInv'
  <2>1. CountInv' /\ XlReleased /\ left' \in Lefts
    BY <1>2, <1>7, <1>12, <1>13, <1>14, <1>15, DriverLeft
  <2>2. Typed' BY <1>1, <1>2, <1>7, <1>8, <2>1 DEF Typed, XlReleased, ReleasedFrom, XlRecords
  <2>. QED BY <2>1, <2>2
<1>16. ASSUME Kind # "vector" PROVE Typed' /\ CountInv'
  <2>1. UNCHANGED <<left, xl>> BY <1>2, <1>16
  <2>2. \A h \in {"hold", "subscription", "driver"} : Holding(h)' = Holding(h)
    BY <1>7, <1>12, <1>13, <1>14, <1>16 DEF Holding, OnlyBus, ServedBus
  <2>3. CountInv' BY <1>1, <1>2, <2>1, <2>2 DEF CountInv
  <2>4. Typed' BY <1>1, <1>2, <1>7, <1>8, <2>1 DEF Typed
  <2>. QED BY <2>3, <2>4
<1>17. Typed' /\ CountInv' BY <1>15, <1>16
<1>18. PlaceOK(b)' BY <1>1, <1>2, <1>4, <1>7, <1>8, <1>9, <1>10 DEF PlaceOK, Running, Leaving
<1>19. HeldOK(b)' BY <1>2, <1>4, <1>7, <1>10 DEF HeldOK, Running, Leaving
<1>20. ItemsOK(b)' BY <1>4, <1>7 DEF ItemsOK
<1>21. bus'[b].opener = bus[b].opener /\ bus'[b].ioMu = bus[b].ioMu /\ bus[b].loop # "apply"
       /\ bus'[b].loop # "apply"
  BY <1>2, <1>4, <1>7
<1>. QED BY <1>2, <1>7, <1>8, <1>12, <1>17, <1>18, <1>19, <1>20, <1>21, ServedStep

\* The buses stay as they are; one may be told to stop.
LEMMA BusesStay ==
  ASSUME IInv, UNCHANGED <<bus, scenario, call>>,
         \A b \in Buses : lifecycle'[b].done = lifecycle[b].done /\ (Stopping(b) => Stopping(b)')
  PROVE  BusInv' /\ LockOK' /\ \A b \in Buses : LocalBus(b)
<1>1. \A b \in Buses : QuietBus(b) BY OtherBus DEF IInv, BusInv
<1>2. \A b \in Buses : PlaceOK(b)' /\ HeldOK(b)' /\ ItemsOK(b)' /\ LocalBus(b)
  BY <1>1, QuietKeeps DEF IInv, BusInv
<1>3. LockOK' BY DEF IInv, LockOK
<1>. QED BY <1>2, <1>3 DEF BusInv

\* Discover shares the driver with the buses.
LEMMA DiscoverKeeps ==
  ASSUME IInv, Discover \/ DiscoverEnds
  PROVE  IInv'
<1>1. Typed /\ CountInv /\ WatchInv /\ RemovalInv BY DEF IInv
<1>2. UNCHANGED <<scenario, lifecycle, bus, call, monitor, watchers, present>>
  BY DEF Discover, DiscoverEnds, monitorVars
<1>3. BusInv' /\ LockOK' /\ \A b \in Buses : LocalBus(b) BY <1>2, BusesStay DEF Stopping
<1>4. WatchInv' /\ RemovalInv' BY <1>1, <1>2, <1>3, LocalWatch DEF LocalBus
<1>5. xl \in [users : Nat, closeFailed : BOOLEAN, open : BOOLEAN, discovering : BOOLEAN] /\ left \in Lefts
  BY <1>1 DEF Typed
<1>6. \A h : Holding(h)' = Holding(h) BY <1>2 DEF Holding
<1>7. Cardinality(Holding("driver")) \in Nat BY HoldingFinite
<1>8. CASE Discover
  <2>1. xl' = [xl EXCEPT !.users = xl.users + 1, !.open = TRUE, !.discovering = TRUE]
        /\ left.discovers > 0 /\ left' = [left EXCEPT !.discovers = left.discovers - 1]
        /\ ~xl.discovering /\ ~xl.closeFailed
    BY <1>8 DEF Discover
  <2>2. left.discovers - 1 \in Nat /\ xl.users + 1 \in Nat /\ xl.users + 1 > 0
    BY <1>5, <2>1 DEF Lefts
  <2>3. left' \in Lefts BY <1>5, <2>1, <2>2 DEF Lefts
  <2>4. xl' \in [users : Nat, closeFailed : BOOLEAN, open : BOOLEAN, discovering : BOOLEAN]
    BY Zenon, <1>5, <2>1, <2>2
  <2>5. xl'.users = xl.users + 1 /\ xl'.open = TRUE /\ xl'.discovering = TRUE
        /\ xl'.closeFailed = xl.closeFailed
    BY <1>5, <2>1
  <2>6. xl.users = Cardinality(Holding("driver")) BY <1>1, <1>7, <2>1 DEF CountInv
  <2>7. xl'.users = Cardinality(Holding("driver")') + (IF xl'.discovering THEN 1 ELSE 0)
    BY <1>6, <2>5, <2>6
  <2>8. CountInv' BY <1>1, <1>2, <1>6, <2>1, <2>2, <2>5, <2>7 DEF CountInv
  <2>9. Typed' BY <1>1, <1>2, <2>3, <2>4 DEF Typed
  <2>. QED BY <1>3, <1>4, <2>8, <2>9 DEF IInv
<1>9. CASE DiscoverEnds
  <2>. DEFINE x == [xl EXCEPT !.discovering = FALSE]
  <2>1. xl.discovering /\ VectorReleaseOf(x) BY <1>9 DEF DiscoverEnds
  <2>2. xl.users = Cardinality(Holding("driver")) + 1 BY <1>1, <2>1 DEF CountInv
  <2>3. xl.users >= 1 /\ xl.open /\ ~xl.closeFailed BY <1>1, <1>5, <1>7, <2>2 DEF CountInv
  <2>4. /\ x \in XlRecords /\ x.users = xl.users /\ x.open = xl.open
        /\ x.closeFailed = xl.closeFailed /\ x.discovering = FALSE
    BY Zenon, <1>5 DEF XlRecords
  <2>. HIDE DEF x
  <2>5. ReleasedFrom(x) /\ left' \in Lefts BY Zenon, <1>1, <2>1, <2>3, <2>4, VectorReleased
  <2>6. xl'.users = Cardinality(Holding("driver")') + (IF xl'.discovering THEN 1 ELSE 0)
    BY <1>6, <1>7, <2>2, <2>4, <2>5 DEF ReleasedFrom
  <2>7. CountInv' BY <1>1, <1>2, <1>6, <2>5, <2>6 DEF CountInv, ReleasedFrom
  <2>8. Typed' BY <1>1, <1>2, <2>5 DEF Typed, ReleasedFrom, XlRecords
  <2>. QED BY <1>3, <1>4, <2>7, <2>8 DEF IInv
<1>. QED BY <1>8, <1>9

-----------------------------------------------------------------------------
(* The watchers: their goroutines, their teardown and Windows.             *)

\* Who relies on the monitor relies on an attached watcher.
LEMMA Attached ==
  ASSUME IInv, Holding("hold") \union Holding("subscription") # {}
  PROVE  monitor.watcher \in WatcherIds
<1>1. Typed /\ CountInv /\ WatchInv BY DEF IInv
<1>2. Cardinality(Holding("hold")) = 0 <=> Holding("hold") = {} BY HoldingFinite
<1>3. Cardinality(Holding("hold")) \in Nat BY HoldingFinite
<1>4. monitor.holds > 0 \/ monitor.subscribers # {} BY <1>1, <1>2, <1>3 DEF CountInv
<1>. QED BY <1>1, <1>4, MonitorTyped DEF WatchInv

LEMMA WatcherStep ==
  ASSUME IInv, NEW w \in WatcherIds, WatcherMoves(w), \A b \in Buses : ServedBus(b), UNCHANGED monitor
  PROVE  WatchInv' /\ RemovalInv'
<1>1. Typed /\ CountInv /\ WatchInv /\ RemovalInv BY DEF IInv
<1>2. Holding("hold")' = Holding("hold") /\ Holding("subscription")' = Holding("subscription")
  BY DEF ServedBus, Holding
<1>3. \A b \in Buses : /\ bus'[b].watcher = bus[b].watcher /\ bus'[b].teardown = bus[b].teardown
                       /\ bus'[b].opener = "idle" => bus[b].opener = "idle"
                       /\ "teardown" \in {bus'[b].opener, bus'[b].loop} => "teardown" \in {bus[b].opener, bus[b].loop}
                       /\ bus'[b].stale = bus[b].stale /\ bus'[b].generation = bus[b].generation
                       /\ Stopping(b) => Stopping(b)'
  BY DEF ServedBus
<1>4. monitor.watcher \in Watcher /\ WatcherIds = Watcher \ {0} BY <1>1, MonitorTyped
<1>5. monitor.watcher # 0 =>
        /\ watchers'[monitor.watcher].registered = watchers[monitor.watcher].registered
        /\ watchers'[monitor.watcher].running = watchers[monitor.watcher].running
        /\ watchers'[monitor.watcher].stop = watchers[monitor.watcher].stop
        /\ watchers'[monitor.watcher].events = watchers[monitor.watcher].events
        /\ watchers'[monitor.watcher].lost = watchers[monitor.watcher].lost
  BY <1>4 DEF WatcherMoves
<1>6. \A v \in WatcherIds :
        /\ watchers[v].registered \/ watchers[v].stop => watchers'[v].registered \/ watchers'[v].stop
        /\ watchers'[v].todo \subseteq watchers[v].todo
        /\ \A b \in watchers[v].todo \ watchers'[v].todo : Stopping(b)'
  BY DEF WatcherMoves
<1>7. WatchInv'
  <2>1. monitor'.watcher # 0 => /\ watchers'[monitor'.watcher].registered /\ watchers'[monitor'.watcher].running
                                /\ ~watchers'[monitor'.watcher].stop
    BY <1>1, <1>5 DEF WatchInv
  <2>2. \A b \in Buses : "teardown" \in {bus'[b].opener, bus'[b].loop} =>
          /\ bus'[b].teardown \notin {0, monitor'.watcher}
          /\ watchers'[bus'[b].teardown].registered \/ watchers'[bus'[b].teardown].stop
    <3>1. ASSUME NEW b \in Buses, "teardown" \in {bus'[b].opener, bus'[b].loop}
          PROVE  /\ bus'[b].teardown \notin {0, monitor'.watcher}
                 /\ watchers'[bus'[b].teardown].registered \/ watchers'[bus'[b].teardown].stop
      <4>1. "teardown" \in {bus[b].opener, bus[b].loop} /\ bus'[b].teardown = bus[b].teardown BY <1>3, <3>1
      <4>2. /\ bus[b].teardown \notin {0, monitor.watcher} /\ bus[b].teardown \in Watcher
            /\ watchers[bus[b].teardown].registered \/ watchers[bus[b].teardown].stop
        BY <1>1, <4>1, BusTyped DEF WatchInv, Used
      <4>3. bus[b].teardown \in WatcherIds BY <1>4, <4>2
      <4>. QED BY <1>6, <4>1, <4>2, <4>3
    <3>. QED BY <3>1
  <2>3. \A b \in Buses : \A v \in WatcherIds : b \in watchers'[v].todo =>
          bus'[b].watcher = v /\ bus'[b].opener # "idle"
    BY <1>1, <1>3, <1>6 DEF WatchInv
  <2>4. monitor'.holds > 0 \/ monitor'.subscribers # {} => monitor'.watcher # 0 BY <1>1 DEF WatchInv
  <2>5. \A b \in Buses : b \in Holding("hold")' \union Holding("subscription")' =>
          bus'[b].watcher = monitor'.watcher
    BY <1>1, <1>2, <1>3 DEF WatchInv
  <2>. QED BY <2>1, <2>2, <2>3, <2>4, <2>5 DEF WatchInv, Used
<1>8. RemovalInv'
  <2>1. ASSUME NEW b \in Buses, bus'[b].stale, b \in Holding("subscription")'
        PROVE  Stopping(b)' \/ watchers'[monitor'.watcher].events > 0 \/ watchers'[monitor'.watcher].lost
               \/ b \in watchers'[monitor'.watcher].todo
    <3>1. b \in Holding("subscription") /\ bus[b].stale BY <1>2, <1>3, <2>1
    <3>2. monitor.watcher \in WatcherIds BY <3>1, Attached
    <3>3. Stopping(b) \/ watchers[monitor.watcher].events > 0 \/ watchers[monitor.watcher].lost
          \/ b \in watchers[monitor.watcher].todo
      BY <1>1, <3>1 DEF RemovalInv, RemovalNotMissed
    <3>4. monitor.watcher # 0 BY <1>4, <3>2
    <3>. QED BY <1>3, <1>5, <1>6, <3>2, <3>3, <3>4
  <2>2. ASSUME NEW b \in Buses, bus'[b].stale, b \in Holding("hold")'
        PROVE  watchers'[monitor'.watcher].events > 0 \/ watchers'[monitor'.watcher].lost
               \/ bus'[b].generation # monitor'.generation
    <3>1. b \in Holding("hold") /\ bus[b].stale BY <1>2, <1>3, <2>2
    <3>2. monitor.watcher \in WatcherIds BY <3>1, Attached
    <3>3. watchers[monitor.watcher].events > 0 \/ watchers[monitor.watcher].lost
          \/ bus[b].generation # monitor.generation
      BY <1>1, <3>1 DEF RemovalInv, RemovalNotMissed
    <3>4. monitor.watcher # 0 BY <1>4, <3>2
    <3>. QED BY <1>3, <1>5, <3>3, <3>4
  <2>3. RemovalNotMissed' BY <2>1, <2>2 DEF RemovalNotMissed
  <2>4. \A b \in Buses : /\ bus'[b].opener = "idle" => ~bus'[b].stale
                         /\ b \in Holding("hold")' => bus'[b].generation <= monitor'.generation
    BY <1>1, <1>2, <1>3 DEF RemovalInv
  <2>. QED BY <2>3, <2>4 DEF RemovalInv
<1>. QED BY <1>7, <1>8

\* A caller tears down the watcher it detached.
LEMMA TeardownKeeps ==
  ASSUME IInv, NEW b \in Buses, Teardown(b)
  PROVE  IInv'
<1>. DEFINE w == bus[b].teardown
<1>1. Typed /\ PlaceOK(b) /\ HeldOK(b) /\ ItemsOK(b) /\ CountInv /\ WatchInv
      /\ bus[b].held \subseteq Handles /\ bus[b].loop \in Places
  BY OpenerFacts DEF IInv, BusInv
<1>2. /\ UNCHANGED <<scenario, left, lifecycle, monitor, call, present, xl>> /\ Kind' = Kind
      /\ Stopping(b)' = Stopping(b) /\ "teardown" \in {bus[b].opener, bus[b].loop}
  BY DEF Teardown, Kind, Stopping
<1>3. w \in WatcherIds /\ w # monitor.watcher
  BY <1>1, <1>2, BusTyped, MonitorTyped DEF WatchInv
<1>4. watchers \in [WatcherIds -> Watchers] /\ watchers[w] \in Watchers BY <1>1, <1>3 DEF Typed
<1>. HIDE DEF w
<1>5. CASE CloseStop(w) /\ UNCHANGED bus
  <2>. DEFINE r == [watchers[w] EXCEPT !.stop = TRUE]
  <2>1. watchers' = [watchers EXCEPT ![w] = r] BY <1>5 DEF CloseStop
  <2>2. r \in Watchers /\ r.stop = TRUE /\ r.todo = watchers[w].todo BY Zenon, <1>4 DEF Watchers
  <2>. HIDE DEF r
  <2>3. WatcherMoves(w) BY <1>3, <1>4, <2>1, <2>2 DEF WatcherMoves
  <2>4. BusInv' /\ LockOK' /\ \A x \in Buses : LocalBus(x) BY <1>2, <1>5, BusesStay DEF Stopping
  <2>5. WatchInv' /\ RemovalInv' BY <1>2, <1>3, <2>3, <2>4, WatcherStep DEF LocalBus
  <2>6. CountInv' BY <1>1, <1>2, <2>4, LocalCount
  <2>7. Typed' BY <1>1, <1>2, <1>5, <2>3 DEF Typed, WatcherMoves
  <2>. QED BY <2>4, <2>5, <2>6, <2>7 DEF IInv
<1>6. CASE CloseWatcher(w) /\ bus' = Resumed(b)
  <2>. DEFINE r == [watchers[w] EXCEPT !.registered = FALSE]
              to == IF bus[b].opener # "teardown" THEN bus[b].opener
                    ELSE IF Channel \in bus[b].held THEN "refused" ELSE "failed"
              place == IF bus[b].opener # "teardown" THEN "cleanup" ELSE bus[b].loop
  <2>1. watchers' = [watchers EXCEPT ![w] = r] /\ watchers[w].stop BY <1>6 DEF CloseWatcher
  <2>2. r \in Watchers /\ r.stop = watchers[w].stop /\ r.todo = watchers[w].todo BY Zenon, <1>4 DEF Watchers
  <2>. HIDE DEF r
  <2>3. WatcherMoves(w) BY Zenon, <1>3, <1>4, <2>1, <2>2 DEF WatcherMoves
  <2>4. OpenerTo(b, to, bus[b].held, place)
    <3>1. CASE bus[b].opener # "teardown"
      <4>1. bus' = [bus EXCEPT ![b].loop = "cleanup"] BY <1>6, <3>1 DEF Resumed
      <4>2. bus[b] \in BusRecords BY <1>1, BusTyped
      <4>3. bus' = [bus EXCEPT ![b] = [bus[b] EXCEPT !.loop = "cleanup"]] BY <4>1
      <4>4. [bus[b] EXCEPT !.loop = "cleanup"]
              = [bus[b] EXCEPT !.opener = bus[b].opener, !.held = bus[b].held, !.loop = "cleanup"]
        BY Zenon, <4>2 DEF BusRecords
      <4>. QED BY Zenon, <3>1, <4>3, <4>4 DEF OpenerTo
    <3>2. CASE bus[b].opener = "teardown"
      <4>1. bus' = Set(b, "opener", to) BY Zenon, <1>6, <3>2 DEF Resumed, Set
      <4>2. OpenerTo(b, to, bus[b].held, bus[b].loop) BY Zenon, <1>1, <4>1, OpenerForms
      <4>. QED BY <3>2, <4>2
    <3>. QED BY <3>1, <3>2
  <2>5. to \in Openers /\ place \in Places BY <1>1, BusTyped DEF Openers, Places, Leaving
  <2>6. /\ bus[b].opener = "teardown" => /\ to \in {"refused", "failed"} /\ place = bus[b].loop
                                         /\ to = "failed" => Channel \notin bus[b].held
        /\ bus[b].opener # "teardown" => to = bus[b].opener /\ place = "cleanup" /\ bus[b].loop = "teardown"
    BY <1>2
  <2>. HIDE DEF to, place
  <2>7. /\ bus' \in [Buses -> BusRecords] /\ OnlyBus(b)
        /\ bus'[b].opener = to /\ bus'[b].held = bus[b].held /\ bus'[b].loop = place
        /\ bus'[b].generation = bus[b].generation /\ bus'[b].watcher = bus[b].watcher
        /\ bus'[b].teardown = bus[b].teardown /\ bus'[b].stale = bus[b].stale
        /\ bus'[b].ioMu = bus[b].ioMu /\ bus'[b].items = bus[b].items /\ bus'[b].queue = bus[b].queue
    BY <1>1, <2>4, <2>5, OpenerRecord
  <2>8. LocalBus(b) BY <1>2, <2>6, <2>7 DEF LocalBus, ServedBus
  <2>9. \A x \in Buses : LocalBus(x)
    <3>1. ASSUME NEW x \in Buses, x # b PROVE LocalBus(x)
      <4>1. bus'[x] = bus[x] /\ lifecycle'[x] = lifecycle[x] BY <1>2, <2>7, <3>1 DEF OnlyBus
      <4>. QED BY <4>1 DEF LocalBus, ServedBus, Stopping
    <3>. QED BY Zenon, <2>8, <3>1
  <2>10. WatchInv' /\ RemovalInv' BY <1>2, <1>3, <2>3, <2>9, WatcherStep DEF LocalBus
  <2>11. CountInv' BY <1>1, <1>2, <2>9, LocalCount
  <2>12. Typed' BY <1>1, <1>2, <2>3, <2>7 DEF Typed, WatcherMoves
  <2>13. StopsOnly(b) BY <1>1, <1>2, NoStop
  <2>14. bus[b].opener = "teardown" => bus[b].loop = "off" BY <1>1 DEF PlaceOK
  <2>15. PlaceOK(b)' BY <1>1, <1>2, <2>6, <2>7, <2>14 DEF PlaceOK, Running, Leaving
  <2>16. HeldOK(b)' BY <1>1, <1>2, <2>6, <2>7, <2>14 DEF HeldOK, Running, Leaving
  <2>17. ItemsOK(b)' BY <1>1, <2>6, <2>7 DEF ItemsOK
  <2>18. /\ bus[b].opener = "opened" => bus'[b].opener = "opened"
         /\ bus'[b].loop = "apply" <=> bus[b].loop = "apply"
         /\ bus'[b].loop = "ended" => bus[b].loop = "ended"
    BY <2>6, <2>7
  <2>. QED BY <1>2, <2>7, <2>10, <2>11, <2>12, <2>13, <2>15, <2>16, <2>17, <2>18, MonitorStep
<1>. QED BY <1>5, <1>6 DEF Teardown, w

LEMMA NewsTaken ==
  ASSUME Typed, NEW w \in WatcherIds, RunEvent(w) \/ RunLost(w)
  PROVE  TakesNews(w)
<1>1. watchers \in [WatcherIds -> Watchers] /\ watchers[w] \in Watchers /\ Copied(w) \in SUBSET Buses
  BY DEF Typed, Copied
<1>2. CASE RunEvent(w)
  <2>. DEFINE r == [watchers[w] EXCEPT !.events = watchers[w].events - 1, !.todo = Copied(w)]
  <2>1. watchers' = [watchers EXCEPT ![w] = r] /\ watchers[w].events > 0 /\ watchers[w].todo = {} /\ StopAll(w)
    BY Zenon, <1>2 DEF RunEvent
  <2>2. watchers[w].events - 1 \in 0..EventBuffer BY <1>1, <2>1, NativeAssumption DEF Watchers
  <2>3. /\ r \in Watchers /\ r.todo = Copied(w) /\ r.registered = watchers[w].registered
        /\ r.running = watchers[w].running /\ r.stop = watchers[w].stop
    BY Zenon, <1>1, <2>2 DEF Watchers
  <2>. HIDE DEF r
  <2>. QED BY Zenon, <2>1, <2>3 DEF TakesNews
<1>3. CASE RunLost(w)
  <2>. DEFINE r == [watchers[w] EXCEPT !.lost = FALSE, !.todo = Copied(w)]
  <2>1. watchers' = [watchers EXCEPT ![w] = r] /\ watchers[w].todo = {} /\ StopAll(w)
    BY Zenon, <1>3 DEF RunLost
  <2>2. /\ r \in Watchers /\ r.todo = Copied(w) /\ r.registered = watchers[w].registered
        /\ r.running = watchers[w].running /\ r.stop = watchers[w].stop
    BY Zenon, <1>1 DEF Watchers
  <2>. HIDE DEF r
  <2>. QED BY Zenon, <2>1, <2>2 DEF TakesNews
<1>. QED BY <1>2, <1>3

\* The news of the attached watcher ends the generation of every hold, and every
\* subscriber is to be stopped; a detached watcher finds nobody.
LEMMA NewsKeeps ==
  ASSUME IInv, NEW w \in WatcherIds, TakesNews(w), \A b \in Buses : ServedBus(b),
         UNCHANGED <<bus, lifecycle>>
  PROVE  /\ WatchInv' /\ RemovalInv' /\ watchers' \in [WatcherIds -> Watchers]
         /\ monitor' \in [watcher : Watcher, generation : Nat, holds : Nat, subscribers : SUBSET Buses]
         /\ monitor'.holds = monitor.holds /\ monitor'.subscribers = monitor.subscribers
<1>1. Typed /\ CountInv /\ WatchInv /\ RemovalInv BY DEF IInv
<1>2. /\ watchers \in [WatcherIds -> Watchers]
      /\ monitor \in [watcher : Watcher, generation : Nat, holds : Nat, subscribers : SUBSET Buses]
  BY <1>1 DEF Typed
<1>3. PICK r \in Watchers : /\ watchers' = [watchers EXCEPT ![w] = r] /\ r.todo = Copied(w)
                            /\ r.registered = watchers[w].registered /\ r.running = watchers[w].running
                            /\ r.stop = watchers[w].stop
  BY Zenon DEF TakesNews
<1>4. watchers[w].todo = {} /\ StopAll(w) BY DEF TakesNews
<1>5. /\ watchers' \in [WatcherIds -> Watchers] /\ watchers'[w] = r
      /\ \A v \in WatcherIds : v # w => watchers'[v] = watchers[v]
  BY <1>2, <1>3
<1>6. CASE monitor.watcher # w
  <2>1. UNCHANGED monitor /\ Copied(w) = {} BY <1>4, <1>6 DEF StopAll, Copied
  <2>2. WatcherMoves(w) BY <1>3, <1>4, <1>5, <1>6, <2>1 DEF WatcherMoves
  <2>3. WatchInv' /\ RemovalInv' BY <2>1, <2>2, WatcherStep
  <2>. QED BY <1>2, <1>5, <2>1, <2>3
<1>7. CASE monitor.watcher = w
  <2>1. monitor' = [monitor EXCEPT !.generation = monitor.generation + 1] /\ Copied(w) = monitor.subscribers
    BY <1>4, <1>7 DEF StopAll, Copied
  <2>2. monitor.generation + 1 \in Nat /\ monitor.generation \in Nat BY <1>2
  <2>3. /\ monitor' \in [watcher : Watcher, generation : Nat, holds : Nat, subscribers : SUBSET Buses]
        /\ monitor'.watcher = w /\ monitor'.generation = monitor.generation + 1
        /\ monitor'.holds = monitor.holds /\ monitor'.subscribers = monitor.subscribers
    BY <1>2, <1>7, <2>1, <2>2
  <2>4. Holding("hold")' = Holding("hold") /\ Holding("subscription")' = Holding("subscription")
        /\ monitor.subscribers = Holding("subscription")
    BY <1>1 DEF Holding, CountInv
  <2>5. \A b \in Holding("subscription") : b \in Buses /\ bus[b].opener # "idle" /\ bus[b].watcher = w
    <3>1. ASSUME NEW b \in Buses, b \in Holding("subscription")
          PROVE  bus[b].opener # "idle" /\ bus[b].watcher = w
      <4>1. PlaceOK(b) /\ HeldOK(b) BY OpenerFacts
      <4>2. "subscription" \in bus[b].held BY <3>1 DEF Holding
      <4>3. bus[b].loop \in Running BY <4>1, <4>2 DEF HeldOK
      <4>4. bus[b].opener # "idle" BY <4>1, <4>3 DEF PlaceOK, Running
      <4>. QED BY <1>1, <1>7, <3>1, <4>4 DEF WatchInv
    <3>. QED BY <3>1 DEF Holding
  <2>6. WatchInv'
    <3>1. w # 0 BY <1>1, MonitorTyped
    <3>2. watchers'[w].registered /\ watchers'[w].running /\ ~watchers'[w].stop
      BY <1>1, <1>3, <1>5, <1>7, <3>1 DEF WatchInv
    <3>3. \A b \in Buses : b \in Holding("hold") \union Holding("subscription") => bus'[b].watcher = w
      BY <1>1, <1>7 DEF WatchInv
    <3>4. \A b \in Buses : "teardown" \in {bus'[b].opener, bus'[b].loop} =>
            /\ bus'[b].teardown \notin {0, w}
            /\ watchers'[bus'[b].teardown].registered \/ watchers'[bus'[b].teardown].stop
      <4>1. ASSUME NEW b \in Buses, "teardown" \in {bus[b].opener, bus[b].loop}
            PROVE  /\ bus[b].teardown \notin {0, w}
                   /\ watchers'[bus[b].teardown].registered \/ watchers'[bus[b].teardown].stop
        <5>1. /\ bus[b].teardown \notin {0, w} /\ bus[b].teardown \in Watcher
              /\ watchers[bus[b].teardown].registered \/ watchers[bus[b].teardown].stop
          BY <1>1, <1>7, <4>1, BusTyped DEF WatchInv, Used
        <5>2. bus[b].teardown \in WatcherIds BY <1>1, <5>1, MonitorTyped
        <5>. QED BY <1>5, <5>1, <5>2
      <4>. QED BY <4>1
    <3>5. \A b \in Buses : \A v \in WatcherIds : b \in watchers'[v].todo =>
            bus'[b].watcher = v /\ bus'[b].opener # "idle"
      <4>1. \A b \in Buses : b \in watchers'[w].todo => bus[b].watcher = w /\ bus[b].opener # "idle"
        BY <1>3, <1>5, <2>1, <2>4, <2>5
      <4>. QED BY <1>1, <1>5, <4>1 DEF WatchInv
    <3>. QED BY <2>3, <2>4, <3>1, <3>2, <3>3, <3>4, <3>5 DEF WatchInv, Used
  <2>7. RemovalInv'
    <3>1. \A b \in Holding("subscription")' : b \in watchers'[monitor'.watcher].todo
      BY <1>3, <1>5, <2>1, <2>3, <2>4
    <3>2. \A b \in Buses : b \in Holding("hold")' =>
            bus'[b].generation # monitor'.generation /\ bus'[b].generation <= monitor'.generation
      <4>1. ASSUME NEW b \in Buses, b \in Holding("hold")
            PROVE  bus[b].generation # monitor.generation + 1 /\ bus[b].generation <= monitor.generation + 1
        <5>1. bus[b].generation \in Nat /\ bus[b].generation <= monitor.generation
          BY <1>1, <4>1, BusTyped DEF RemovalInv
        <5>. QED BY <2>2, <5>1
      <4>. QED BY <2>3, <2>4, <4>1
    <3>3. RemovalNotMissed' BY <3>1, <3>2 DEF RemovalNotMissed
    <3>4. \A b \in Buses : bus'[b].opener = "idle" => ~bus'[b].stale BY <1>1 DEF RemovalInv
    <3>. QED BY <3>2, <3>3, <3>4 DEF RemovalInv
  <2>. QED BY <1>5, <2>3, <2>6, <2>7
<1>. QED BY <1>6, <1>7

\* The run goroutine of a watcher.
LEMMA MonitoringKeeps ==
  ASSUME IInv, Monitoring
  PROVE  IInv'
<1>1. Typed /\ CountInv BY DEF IInv
<1>2. PICK w \in WatcherIds : Run(w) BY DEF Monitoring
<1>3. UNCHANGED <<scenario, left, bus, call, present, xl>> BY DEF Monitoring
<1>4. watchers \in [WatcherIds -> Watchers] /\ watchers[w] \in Watchers /\ lifecycle \in [Buses -> Lifecycles]
  BY <1>1 DEF Typed
<1>5. CASE RunEvent(w) \/ RunLost(w)
  <2>1. TakesNews(w) /\ UNCHANGED lifecycle BY <1>1, <1>5, NewsTaken DEF RunEvent, RunLost
  <2>2. BusInv' /\ LockOK' /\ \A x \in Buses : LocalBus(x) BY <1>3, <2>1, BusesStay DEF Stopping
  <2>3. /\ WatchInv' /\ RemovalInv' /\ watchers' \in [WatcherIds -> Watchers]
        /\ monitor' \in [watcher : Watcher, generation : Nat, holds : Nat, subscribers : SUBSET Buses]
        /\ monitor'.holds = monitor.holds /\ monitor'.subscribers = monitor.subscribers
    BY <1>3, <2>1, <2>2, NewsKeeps DEF LocalBus
  <2>4. \A h : Holding(h)' = Holding(h) BY <1>3 DEF Holding
  <2>5. CountInv' BY <1>1, <1>3, <2>3, <2>4 DEF CountInv
  <2>6. Typed' BY <1>1, <1>3, <2>1, <2>3 DEF Typed
  <2>. QED BY <2>2, <2>3, <2>5, <2>6 DEF IInv
<1>6. ASSUME NEW b \in Buses, RunStopBus(w, b) PROVE IInv'
  <2>. DEFINE r == [watchers[w] EXCEPT !.todo = watchers[w].todo \ {b}]
  <2>1. watchers' = [watchers EXCEPT ![w] = r] /\ Stop(b, "removed") /\ UNCHANGED monitor
    BY <1>6 DEF RunStopBus
  <2>2. /\ r \in Watchers /\ r.todo = watchers[w].todo \ {b} /\ r.registered = watchers[w].registered
        /\ r.running = watchers[w].running /\ r.stop = watchers[w].stop
        /\ r.events = watchers[w].events /\ r.lost = watchers[w].lost
    BY <1>4 DEF Watchers
  <2>. HIDE DEF r
  <2>3. StopsOnly(b) /\ Stopping(b)' BY <1>1, <2>1, StopEffect DEF Errors
  <2>4. WatcherMoves(w) BY <1>4, <2>1, <2>2, <2>3 DEF WatcherMoves
  <2>5. BusInv' /\ LockOK' /\ \A x \in Buses : LocalBus(x)
    BY <1>3, <2>3, BusesStay DEF StopsOnly, Stopping
  <2>6. WatchInv' /\ RemovalInv' BY <2>1, <2>4, <2>5, WatcherStep DEF LocalBus
  <2>7. CountInv' BY <1>1, <1>3, <2>1, <2>5, LocalCount
  <2>8. Typed' BY <1>1, <1>3, <2>1, <2>3, <2>4 DEF Typed, WatcherMoves, StopsOnly
  <2>. QED BY <2>5, <2>6, <2>7, <2>8 DEF IInv
<1>7. CASE RunEnd(w)
  <2>. DEFINE r == [watchers[w] EXCEPT !.running = FALSE]
  <2>1. watchers' = [watchers EXCEPT ![w] = r] /\ watchers[w].stop /\ UNCHANGED <<monitor, lifecycle>>
    BY <1>7 DEF RunEnd
  <2>2. r \in Watchers /\ r.todo = watchers[w].todo /\ r.stop = watchers[w].stop BY Zenon, <1>4 DEF Watchers
  <2>. HIDE DEF r
  <2>3. w # monitor.watcher BY <1>1, <2>1, MonitorTyped DEF IInv, WatchInv
  <2>4. WatcherMoves(w) BY Zenon, <1>4, <2>1, <2>2, <2>3 DEF WatcherMoves
  <2>5. BusInv' /\ LockOK' /\ \A x \in Buses : LocalBus(x) BY <1>3, <2>1, BusesStay DEF Stopping
  <2>6. WatchInv' /\ RemovalInv' BY <2>1, <2>4, <2>5, WatcherStep DEF LocalBus
  <2>7. CountInv' BY <1>1, <1>3, <2>1, <2>5, LocalCount
  <2>8. Typed' BY <1>1, <1>3, <2>1, <2>4 DEF Typed, WatcherMoves
  <2>. QED BY <2>5, <2>6, <2>7, <2>8 DEF IInv
<1>. QED BY <1>2, <1>5, <1>6, <1>7 DEF Run

\* Windows tells a registered watcher of the removal.
LEMMA NotifyEffect ==
  ASSUME NEW watcher \in Watchers
  PROVE  /\ Notify(watcher) \in Watchers /\ Notify(watcher).registered = watcher.registered
         /\ Notify(watcher).running = watcher.running /\ Notify(watcher).stop = watcher.stop
         /\ Notify(watcher).todo = watcher.todo
         /\ watcher.registered => Notify(watcher).events > 0 \/ Notify(watcher).lost
<1>1. EventBuffer \in Nat \ {0} BY NativeAssumption
<1>2. CASE ~watcher.registered BY <1>2 DEF Notify
<1>3. CASE watcher.registered /\ watcher.events < EventBuffer
  <2>1. watcher.events + 1 \in 0..EventBuffer /\ watcher.events + 1 > 0 BY <1>1, <1>3 DEF Watchers
  <2>2. Notify(watcher) = [watcher EXCEPT !.events = watcher.events + 1] BY <1>3 DEF Notify
  <2>. QED BY <2>1, <2>2 DEF Watchers
<1>4. CASE watcher.registered /\ ~(watcher.events < EventBuffer)
  <2>1. Notify(watcher) = [watcher EXCEPT !.lost = TRUE] BY <1>4 DEF Notify
  <2>. QED BY Zenon, <2>1 DEF Watchers
<1>. QED BY <1>2, <1>3, <1>4

LEMMA DeviceRemovedKeeps ==
  ASSUME IInv, DeviceRemoved
  PROVE  IInv'
<1>1. Typed /\ BusInv /\ LockOK /\ CountInv /\ WatchInv /\ RemovalInv BY DEF IInv
<1>2. UNCHANGED <<scenario, lifecycle, monitor, call, xl>> /\ present' = FALSE BY DEF DeviceRemoved
<1>3. left' \in Lefts
  <2>1. left \in Lefts /\ left.removals > 0 /\ left' = [left EXCEPT !.removals = left.removals - 1]
    BY <1>1 DEF Typed, DeviceRemoved
  <2>2. left.removals - 1 \in Nat BY <2>1 DEF Lefts
  <2>. QED BY <2>1, <2>2 DEF Lefts
<1>4. /\ watchers' \in [WatcherIds -> Watchers]
      /\ \A w \in WatcherIds :
           /\ watchers'[w].registered = watchers[w].registered /\ watchers'[w].running = watchers[w].running
           /\ watchers'[w].stop = watchers[w].stop /\ watchers'[w].todo = watchers[w].todo
           /\ watchers[w].registered => watchers'[w].events > 0 \/ watchers'[w].lost
  <2>1. watchers' = [w \in WatcherIds |-> Notify(watchers[w])] BY DEF DeviceRemoved
  <2>2. \A w \in WatcherIds : watchers[w] \in Watchers BY <1>1 DEF Typed
  <2>3. \A w \in WatcherIds : watchers'[w] = Notify(watchers[w]) BY <2>1
  <2>. QED BY <2>1, <2>2, <2>3, NotifyEffect
<1>5. /\ bus' \in [Buses -> BusRecords]
      /\ \A b \in Buses :
           /\ bus'[b].opener = bus[b].opener /\ bus'[b].held = bus[b].held /\ bus'[b].loop = bus[b].loop
           /\ bus'[b].generation = bus[b].generation /\ bus'[b].watcher = bus[b].watcher
           /\ bus'[b].teardown = bus[b].teardown /\ bus'[b].ioMu = bus[b].ioMu
           /\ bus'[b].items = bus[b].items /\ bus'[b].queue = bus[b].queue
           /\ bus'[b].stale => bus[b].stale \/ bus[b].held # {}
  <2>. DEFINE marked == [b \in Buses |-> bus[b].stale \/ bus[b].held # {}]
  <2>1. bus' = [b \in Buses |-> [bus[b] EXCEPT !.stale = marked[b]]] BY DEF DeviceRemoved
  <2>2. \A b \in Buses : marked[b] \in BOOLEAN /\ (marked[b] => bus[b].stale \/ bus[b].held # {})
    BY Zenon
  <2>3. \A b \in Buses : bus[b] \in BusRecords BY <1>1 DEF Typed
  <2>. HIDE DEF marked
  <2>4. ASSUME NEW b \in Buses
        PROVE  /\ [bus[b] EXCEPT !.stale = marked[b]] \in BusRecords
               /\ bus'[b] = [bus[b] EXCEPT !.stale = marked[b]]
               /\ bus'[b].opener = bus[b].opener /\ bus'[b].held = bus[b].held /\ bus'[b].loop = bus[b].loop
               /\ bus'[b].generation = bus[b].generation /\ bus'[b].watcher = bus[b].watcher
               /\ bus'[b].teardown = bus[b].teardown /\ bus'[b].ioMu = bus[b].ioMu
               /\ bus'[b].items = bus[b].items /\ bus'[b].queue = bus[b].queue
               /\ bus'[b].stale => bus[b].stale \/ bus[b].held # {}
    <3>1. bus[b] \in BusRecords /\ marked[b] \in BOOLEAN BY <2>2, <2>3
    <3>2. bus'[b] = [bus[b] EXCEPT !.stale = marked[b]] BY <2>1
    <3>3. [bus[b] EXCEPT !.stale = marked[b]] \in BusRecords BY Zenon, <3>1 DEF BusRecords
    <3>4. bus'[b].stale = marked[b] BY <3>1, <3>2 DEF BusRecords
    <3>. QED BY Zenon, <2>2, <3>1, <3>2, <3>3, <3>4 DEF BusRecords
  <2>. QED BY <2>1, <2>4
<1>6. \A h : Holding(h)' = Holding(h) BY <1>5 DEF Holding
<1>7. ASSUME NEW b \in Buses PROVE PlaceOK(b)' /\ HeldOK(b)' /\ ItemsOK(b)'
  <2>1. PlaceOK(b) /\ HeldOK(b) /\ ItemsOK(b) BY <1>1 DEF BusInv
  <2>2. Kind' = Kind /\ Stopping(b)' = Stopping(b) BY <1>2 DEF Kind, Stopping
  <2>3. /\ bus'[b].opener = bus[b].opener /\ bus'[b].held = bus[b].held /\ bus'[b].loop = bus[b].loop
        /\ bus'[b].items = bus[b].items /\ bus'[b].queue = bus[b].queue
    BY <1>5
  <2>4. PlaceOK(b)' BY <1>2, <2>1, <2>2, <2>3 DEF PlaceOK
  <2>5. HeldOK(b)' BY <2>1, <2>2, <2>3 DEF HeldOK
  <2>6. ItemsOK(b)' BY <2>1, <2>3 DEF ItemsOK
  <2>. QED BY <2>4, <2>5, <2>6
<1>8. BusInv' BY <1>7 DEF BusInv
<1>9. LockOK'
  <2>1. \A b \in Buses : /\ bus'[b].opener = bus[b].opener /\ bus'[b].loop = bus[b].loop
                         /\ bus'[b].ioMu = bus[b].ioMu
    BY <1>5
  <2>2. \A s \in Senders : /\ call[s].pc # "idle" => call[s].on \in Buses
                           /\ call[s].pc \in {"writing", "accepted"} => call[s].on \in Buses
    BY <1>1 DEF LockOK
  <2>. QED BY <1>1, <1>2, <2>1, <2>2 DEF LockOK
<1>10. CountInv' BY <1>1, <1>2, <1>6 DEF CountInv
<1>11. WatchInv'
  <2>1. monitor.watcher # 0 => monitor.watcher \in WatcherIds BY <1>1, MonitorTyped
  <2>2. monitor'.watcher # 0 => /\ watchers'[monitor'.watcher].registered /\ watchers'[monitor'.watcher].running
                                /\ ~watchers'[monitor'.watcher].stop
    BY <1>1, <1>2, <1>4, <2>1 DEF WatchInv
  <2>3. \A b \in Buses : "teardown" \in {bus'[b].opener, bus'[b].loop} =>
          /\ bus'[b].teardown \notin {0, monitor'.watcher}
          /\ watchers'[bus'[b].teardown].registered \/ watchers'[bus'[b].teardown].stop
    <3>1. ASSUME NEW b \in Buses, "teardown" \in {bus[b].opener, bus[b].loop}
          PROVE  /\ bus[b].teardown \notin {0, monitor.watcher}
                 /\ watchers'[bus[b].teardown].registered \/ watchers'[bus[b].teardown].stop
      <4>1. /\ bus[b].teardown \notin {0, monitor.watcher} /\ bus[b].teardown \in Watcher
            /\ watchers[bus[b].teardown].registered \/ watchers[bus[b].teardown].stop
        BY <1>1, <3>1, BusTyped DEF WatchInv, Used
      <4>2. bus[b].teardown \in WatcherIds BY <1>1, <4>1, MonitorTyped
      <4>. QED BY <1>4, <4>1, <4>2
    <3>. QED BY <1>2, <1>5, <3>1
  <2>4. \A b \in Buses : \A v \in WatcherIds : b \in watchers'[v].todo =>
          bus'[b].watcher = v /\ bus'[b].opener # "idle"
    BY <1>1, <1>4, <1>5 DEF WatchInv
  <2>5. /\ monitor'.holds > 0 \/ monitor'.subscribers # {} => monitor'.watcher # 0
        /\ \A b \in Buses : b \in Holding("hold")' \union Holding("subscription")' =>
             bus'[b].watcher = monitor'.watcher
    BY <1>1, <1>2, <1>5, <1>6 DEF WatchInv
  <2>. QED BY <2>2, <2>3, <2>4, <2>5 DEF WatchInv, Used
<1>12. RemovalInv'
  <2>1. \A b \in Buses : b \in Holding("hold")' \union Holding("subscription")' =>
          watchers'[monitor'.watcher].events > 0 \/ watchers'[monitor'.watcher].lost
    <3>1. ASSUME NEW b \in Holding("hold") \union Holding("subscription")
          PROVE  watchers'[monitor.watcher].events > 0 \/ watchers'[monitor.watcher].lost
      <4>1. monitor.watcher \in WatcherIds BY Attached
      <4>2. monitor.watcher # 0 BY <1>1, <4>1, MonitorTyped
      <4>. QED BY <1>1, <1>4, <4>1, <4>2 DEF WatchInv
    <3>. QED BY <1>2, <1>6, <3>1
  <2>2. RemovalNotMissed' BY <2>1 DEF RemovalNotMissed
  <2>3. \A b \in Buses : bus'[b].opener = "idle" => ~bus'[b].stale
    <3>1. \A b \in Buses : bus[b].opener = "idle" => bus[b].held = {}
      BY <1>1 DEF BusInv, PlaceOK, HeldOK
    <3>. QED BY <1>1, <1>5, <3>1 DEF RemovalInv
  <2>4. \A b \in Buses : b \in Holding("hold")' => bus'[b].generation <= monitor'.generation
    BY <1>1, <1>2, <1>5, <1>6 DEF RemovalInv
  <2>. QED BY <2>2, <2>3, <2>4 DEF RemovalInv
<1>13. Typed' BY Zenon, <1>1, <1>2, <1>3, <1>4, <1>5 DEF Typed
<1>. QED BY <1>8, <1>9, <1>10, <1>11, <1>12, <1>13 DEF IInv

-----------------------------------------------------------------------------
(* The inductive invariant, and what follows from it.                      *)

\* What a scenario lets happen is well typed.
LEMMA BudgetType ==
  ASSUME NEW c \in Scenarios
  PROVE  c.budget \in Lefts
<1>1. ScenarioOK(c) BY NativeAssumption
<1>2. /\ c.budget \in [faults : Nat, packets : Seq([kind : PacketKinds, of : Names(c)]),
                       answers : SUBSET Senders, changes : Seq(States),
                       ticks : Nat, removals : Nat, discovers : Nat]
  BY <1>1 DEF ScenarioOK
<1>3. [kind : PacketKinds, of : Names(c)] \subseteq Packets
  <2>1. Names(c) \subseteq Values BY DEF Values
  <2>. HIDE DEF Names, Values
  <2>. QED BY <2>1 DEF Packets
<1>4. c.budget.packets \in Seq(Packets)
  <2>. DEFINE s == c.budget.packets
  <2>1. s \in Seq([kind : PacketKinds, of : Names(c)]) BY <1>2
  <2>. HIDE DEF s
  <2>2. Len(s) \in Nat /\ s \in [1..Len(s) -> [kind : PacketKinds, of : Names(c)]] BY Zenon, <2>1, LenProperties
  <2>3. s \in [1..Len(s) -> Packets] BY <1>3, <2>2
  <2>4. s \in Seq(Packets) BY <2>2, <2>3, SeqDef
  <2>. QED BY <2>4 DEF s
<1>. QED BY <1>2, <1>4 DEF Lefts

LEMMA InitHolds == Init => IInv
<1>. SUFFICES ASSUME Init PROVE IInv
  OBVIOUS
<1>1. \A b \in Buses : bus[b] = NewBus /\ lifecycle[b] = NewLifecycle BY Zenon DEF Init
<1>2. /\ NewBus.opener = "idle" /\ NewBus.held = {} /\ NewBus.loop = "off" /\ NewBus.stale = FALSE
      /\ NewBus.ioMu = None /\ NewLifecycle.stop = FALSE /\ NewLifecycle.done = FALSE
  BY DEF NewBus, NewLifecycle
<1>3. Typed
  <2>1. scenario \in Scenarios /\ left \in Lefts BY BudgetType DEF Init
  <2>2. NewLifecycle \in Lifecycles BY DEF NewLifecycle, Lifecycles
  <2>3. lifecycle \in [Buses -> Lifecycles] BY <2>2 DEF Init
  <2>4. 0 \in Watcher BY NativeAssumption DEF Watcher
  <2>5. monitor \in [watcher : Watcher, generation : Nat, holds : Nat, subscribers : SUBSET Buses]
    BY <2>4 DEF Init, NewMonitor
  <2>6. NewWatcher \in Watchers BY NativeAssumption DEF NewWatcher, Watchers
  <2>7. watchers \in [WatcherIds -> Watchers] BY <2>6 DEF Init
  <2>8. None \in Values /\ "unknown" \in Values /\ "active" \in States BY DEF Values, States
  <2>9. NewBus \in BusRecords
    <3>1. <<>> \in Seq(Packets) /\ <<>> \in Seq(Values) BY EmptySeq
    <3>. QED BY <2>4, <2>8, <3>1 DEF NewBus, BusRecords, Openers, Places
  <2>10. bus \in [Buses -> BusRecords] BY <2>9 DEF Init
  <2>11. NewCall \in Calls BY DEF NewCall, Calls
  <2>12. call \in [Senders -> Calls] BY <2>11 DEF Init
  <2>13. present \in BOOLEAN
         /\ xl \in [users : Nat, closeFailed : BOOLEAN, open : BOOLEAN, discovering : BOOLEAN]
    BY DEF Init, NewXlDriver
  <2>. QED BY <2>1, <2>3, <2>5, <2>7, <2>10, <2>12, <2>13 DEF Typed
<1>4. BusInv BY Zenon, <1>1, <1>2 DEF BusInv, PlaceOK, HeldOK, ItemsOK, Stopping, Running, Leaving, Channel
<1>5. LockOK
  <2>1. \A s \in Senders : call[s].pc = "idle" /\ call[s].accepted = FALSE BY DEF Init, NewCall
  <2>2. None \notin Senders /\ None # "loop" BY NativeAssumption
  <2>. QED BY <1>1, <1>2, <2>1, <2>2 DEF LockOK
<1>6. \A h : Holding(h) = {} BY <1>1, <1>2 DEF Holding
<1>7. Cardinality({}) = 0 BY FS_EmptySet
<1>8. CountInv
  <2>1. monitor.holds = 0 /\ monitor.subscribers = {} BY DEF Init, NewMonitor
  <2>2. xl.users = 0 /\ ~xl.open /\ ~xl.closeFailed /\ ~xl.discovering BY DEF Init, NewXlDriver
  <2>3. xl.users = Cardinality(Holding("driver")) + (IF xl.discovering THEN 1 ELSE 0)
    BY <1>6, <1>7, <2>2
  <2>4. ~(xl.users > 0) BY <2>2
  <2>5. xl.open <=> xl.users > 0 \/ xl.closeFailed BY <2>2, <2>4
  <2>6. monitor.holds = Cardinality(Holding("hold")) /\ monitor.subscribers = Holding("subscription")
    BY <1>6, <1>7, <2>1
  <2>. QED BY <2>2, <2>3, <2>5, <2>6 DEF CountInv
<1>9. WatchInv
  <2>1. monitor.watcher = 0 /\ monitor.holds = 0 /\ monitor.subscribers = {} BY DEF Init, NewMonitor
  <2>2. \A w \in WatcherIds : watchers[w].todo = {} BY DEF Init, NewWatcher
  <2>. QED BY <1>1, <1>2, <1>6, <2>1, <2>2 DEF WatchInv
<1>10. RemovalInv BY <1>1, <1>2, <1>6 DEF RemovalInv, RemovalNotMissed
<1>. QED BY <1>3, <1>4, <1>5, <1>8, <1>9, <1>10 DEF IInv

LEMMA OpenKeeps ==
  ASSUME IInv, NEW b \in Buses, Open(b)
  PROVE  IInv'
<1>1. CASE SocketOpen(b) \/ NixnetOpen(b) BY <1>1, SocketOpenKeeps, NixnetOpenKeeps
<1>2. CASE VectorOpen(b) \/ VectorOpenRefused(b) \/ VectorOpenFails(b) BY <1>2, VectorOpenKeeps
<1>3. CASE VectorOpenUndo(b) BY <1>3, VectorOpenUndoKeeps
<1>4. CASE PcanHold(b) BY <1>4, PcanHoldKeeps
<1>5. CASE PcanInitialize(b) \/ PcanInventory(b) BY <1>5, PcanInitializeKeeps
<1>6. CASE PcanBind(b) BY <1>6, PcanBindKeeps
<1>7. CASE PcanRefused(b) BY <1>7, PcanRefusedKeeps
<1>8. CASE PcanSettle(b) \/ PcanSettleClosed(b) BY <1>8, PcanSettleKeeps
<1>. QED BY <1>1, <1>2, <1>3, <1>4, <1>5, <1>6, <1>7, <1>8 DEF Open

LEMMA ProgressKeeps ==
  ASSUME IInv, Progress
  PROVE  IInv'
<1>1. ASSUME NEW s \in Senders, Sending(s), UNCHANGED <<present, xl>> PROVE IInv'
  BY <1>1, SendingKeeps
<1>2. ASSUME NEW b \in Buses, Loop(b), UNCHANGED <<present, xl>> PROVE IInv'
  BY <1>2, LoopKeeps
<1>3. ASSUME NEW b \in Buses, PcanCancel(b) PROVE IInv' BY <1>3, PcanCancelKeeps
<1>4. ASSUME NEW b \in Buses, Teardown(b) PROVE IInv' BY <1>4, TeardownKeeps
<1>5. ASSUME NEW b \in Buses, Cleanup(b) PROVE IInv' BY <1>5, CleanupKeeps
<1>6. ASSUME NEW b \in Buses, CloseReturns(b) PROVE IInv' BY <1>6, CloseKeeps
<1>7. ASSUME NEW b \in Buses, Open(b) PROVE IInv' BY <1>7, OpenKeeps
<1>8. ASSUME NEW b \in Buses, HealthTimer(b) PROVE IInv' BY <1>8, HealthKeeps
<1>9. CASE Monitoring BY <1>9, MonitoringKeeps
<1>10. CASE DiscoverEnds BY <1>10, DiscoverKeeps
<1>. QED BY <1>1, <1>2, <1>3, <1>4, <1>5, <1>6, <1>7, <1>8, <1>9, <1>10 DEF Progress

LEMMA NextKeeps == IInv /\ [Next]_vars => IInv'
<1>. SUFFICES ASSUME IInv, [Next]_vars PROVE IInv'
  OBVIOUS
<1>1. CASE Progress BY <1>1, ProgressKeeps
<1>2. ASSUME NEW b \in Buses, Open(b) PROVE IInv' BY <1>2, OpenKeeps
<1>3. ASSUME NEW s \in scenario.senders, NEW b \in Buses, SendCall(s, b), UNCHANGED <<present, xl>>
      PROVE  IInv'
  <2>1. ScenarioOK(scenario) BY NativeAssumption DEF IInv, Typed
  <2>2. s \in Senders BY <2>1 DEF ScenarioOK
  <2>. QED BY <1>3, <2>2, SendCallKeeps
<1>4. ASSUME NEW b \in Buses, Close(b) PROVE IInv' BY <1>4, CloseKeeps
<1>5. ASSUME NEW b \in Buses, Deliver(b) PROVE IInv' BY <1>5, DeliverKeeps
<1>6. ASSUME NEW s \in Senders, Answer(s) PROVE IInv' BY <1>6, AnswerKeeps
<1>7. ASSUME NEW b \in Buses, ControllerChanges(b) PROVE IInv' BY <1>7, ControllerKeeps
<1>8. CASE Discover BY <1>8, DiscoverKeeps
<1>9. CASE DeviceRemoved BY <1>9, DeviceRemovedKeeps
<1>10. CASE DeviceAttached BY <1>10, AttachedKeeps
<1>11. CASE UNCHANGED vars
  <2>1. UNCHANGED <<scenario, left, lifecycle, monitor, watchers, bus, call, present, xl>>
    BY <1>11 DEF vars
  <2>2. BusInv' /\ LockOK' /\ \A b \in Buses : LocalBus(b) BY <2>1, BusesStay DEF Stopping
  <2>3. WatchInv' /\ RemovalInv' /\ CountInv' BY <2>1, <2>2, LocalWatch, LocalCount DEF IInv, LocalBus
  <2>4. Typed' BY <2>1 DEF IInv, Typed
  <2>. QED BY <2>2, <2>3, <2>4 DEF IInv
<1>. QED BY <1>1, <1>2, <1>3, <1>4, <1>5, <1>6, <1>7, <1>8, <1>9, <1>10, <1>11 DEF Next

\* The invariant of the drivers, for every number of buses, senders and
\* watchers, and whatever the scenario lets fail.
THEOREM NativeInvariant == Spec => []IInv
  BY InitHolds, NextKeeps, PTL DEF Spec

-----------------------------------------------------------------------------
(* What the invariant says of native handles and references.               *)

\* A native call finds its channel open.
LEMMA CallsFindChannel ==
  ASSUME IInv
  PROVE  NativeCallsOpen
<1>1. Typed /\ BusInv /\ LockOK /\ CountInv BY DEF IInv
<1>2. ASSUME NEW b \in Buses, bus[b].opener = "opened"
      PROVE  Channel \in bus[b].held \/ (bus[b].loop = "ended" /\ Stopping(b))
  <2>1. PlaceOK(b) /\ HeldOK(b) /\ bus[b].loop \in Places BY OpenerFacts
  <2>2. bus[b].loop # "off" BY <1>2, <2>1 DEF PlaceOK
  <2>3. CASE bus[b].loop \in Running \union Leaving BY <2>1, <2>3 DEF HeldOK
  <2>4. CASE bus[b].loop = "ended" BY <2>1, <2>4 DEF PlaceOK
  <2>. QED BY <2>1, <2>2, <2>3, <2>4 DEF Places
<1>3. ASSUME NEW s \in Senders, call[s].pc = "writing"
      PROVE  Channel \in bus[call[s].on].held
  <2>1. PICK b \in Buses : b = call[s].on /\ bus[b].opener = "opened" /\ bus[b].ioMu = s
    BY <1>1, <1>3 DEF LockOK
  <2>2. bus[b].loop = "ended" => bus[b].ioMu = None BY <1>1 DEF LockOK
  <2>3. s # None BY NativeAssumption
  <2>. QED BY <1>2, <2>1, <2>2, <2>3
<1>4. ASSUME NEW b \in Buses
      PROVE  /\ bus[b].loop \notin {"off", "cleanup", "teardown", "ended"} => Channel \in bus[b].held
             /\ bus[b].opener = "opened" /\ Channel \notin bus[b].held => Stopping(b)
             /\ Kind = "vector" /\ Channel \in bus[b].held => xl.open /\ ~xl.closeFailed
  <2>1. PlaceOK(b) /\ HeldOK(b) /\ bus[b].loop \in Places BY OpenerFacts
  <2>2. bus[b].loop \notin {"off", "cleanup", "teardown", "ended"} => Channel \in bus[b].held
    BY <2>1 DEF HeldOK, Places, Leaving
  <2>3. ASSUME Kind = "vector", Channel \in bus[b].held PROVE xl.open /\ ~xl.closeFailed
    <3>1. Holding("driver") # {} BY <2>1, <2>3 DEF HeldOK, Holding
    <3>2. Cardinality(Holding("driver")) \in Nat /\ Cardinality(Holding("driver")) # 0
      BY <3>1, HoldingFinite
    <3>3. xl.users > 0 BY <1>1, <3>2 DEF CountInv
    <3>. QED BY <1>1, <3>3 DEF CountInv
  <2>. QED BY <1>2, <2>2, <2>3
<1>. QED BY <1>3, <1>4 DEF NativeCallsOpen

LEMMA HandlesFollow ==
  ASSUME IInv
  PROVE  HandlesExact
<1>1. Typed /\ BusInv /\ LockOK /\ CountInv /\ WatchInv /\ RemovalInv BY DEF IInv
<1>2. TypeOK
  <2>1. \A b \in Buses : bus[b].held \subseteq Handles /\ bus[b].ioMu \in Senders \union {None, "loop"}
    BY Zenon, <1>1, BusTyped
  <2>2. \A s \in Senders : call[s].pc \in {"idle", "waiting", "writing", "accepted", "returned"}
    BY <1>1 DEF Typed, Calls
  <2>3. \A w \in WatcherIds : watchers[w].events \in 0..EventBuffer /\ watchers[w].todo \subseteq Buses
    BY <1>1 DEF Typed, Watchers
  <2>4. monitor.watcher \in 0..MaxWatchers /\ monitor.holds \in Nat /\ monitor.subscribers \subseteq Buses
    BY <1>1 DEF Typed, Watcher
  <2>. QED BY <1>1, <2>1, <2>2, <2>3, <2>4 DEF TypeOK, Typed, Lifecycles, Handles
<1>3. NativeCallsOpen BY CallsFindChannel
<1>4. ReferencesExact
  <2>1. ASSUME NEW b \in Buses, bus[b].opener = "failed" \/ lifecycle[b].done PROVE bus[b].held = {}
    <3>1. PlaceOK(b) /\ HeldOK(b) BY OpenerFacts
    <3>. QED BY <2>1, <3>1 DEF PlaceOK, HeldOK
  <2>. QED BY <1>1, <2>1 DEF ReferencesExact, CountInv
<1>5. WatchedWhileHeld
  <2>1. \A w \in WatcherIds : \A b \in watchers[w].todo : b \in Buses BY <1>1 DEF Typed, Watchers
  <2>. QED BY <1>1, <2>1 DEF WatchedWhileHeld, WatchInv
<1>6. RemovalNotMissed BY <1>1 DEF RemovalInv
<1>. QED BY <1>2, <1>3, <1>4, <1>5, <1>6 DEF HandlesExact

\* Whatever fails, and whoever stops a bus: native calls find their channel
\* open, every handle, reference, subscription and hold is given back once,
\* and no removal of a device is missed.
THEOREM HandlesAlwaysExact == Spec => []HandlesExact
  BY NativeInvariant, HandlesFollow, PTL

-----------------------------------------------------------------------------
(* A failed close of the Vector driver is final.                           *)

\* After a failed close nobody holds the driver, and nobody acquires it.
LEMMA ClosedStep ==
  ASSUME IInv, [Next]_vars, xl.closeFailed
  PROVE  xl'.closeFailed /\ xl'.users <= xl.users
<1>1. CountInv /\ Typed BY DEF IInv
<1>2. xl.users = 0 /\ Cardinality(Holding("driver")) = 0 /\ ~xl.discovering
  <2>1. xl.users = 0 BY <1>1 DEF CountInv
  <2>2. Cardinality(Holding("driver")) \in Nat BY HoldingFinite
  <2>3. xl.users = Cardinality(Holding("driver")) + (IF xl.discovering THEN 1 ELSE 0)
    BY <1>1 DEF CountInv
  <2>. QED BY <2>1, <2>2, <2>3
<1>3. \A b \in Buses : "driver" \notin bus[b].held
  <2>1. Holding("driver") = {} BY <1>2, HoldingFinite
  <2>. QED BY <2>1 DEF Holding
<1>4. UNCHANGED xl
  <2>1. ASSUME NEW b \in Buses, Open(b) PROVE UNCHANGED xl
    <3>1. ~VectorOpenUndo(b)
      <4>1. HeldOK(b) BY OpenerFacts
      <4>. QED BY <1>3, <4>1 DEF VectorOpenUndo, HeldOK
    <3>2. CASE VectorOpen(b) BY <3>2 DEF VectorOpen
    <3>3. CASE SocketOpen(b) \/ NixnetOpen(b) \/ VectorOpenRefused(b) \/ VectorOpenFails(b)
      BY <3>3 DEF SocketOpen, NixnetOpen, VectorOpenRefused, VectorOpenFails
    <3>4. CASE PcanHold(b) \/ PcanInitialize(b) \/ PcanInventory(b) \/ PcanBind(b)
               \/ PcanRefused(b) \/ PcanSettle(b) \/ PcanSettleClosed(b)
      BY <3>4 DEF PcanHold, PcanInitialize, PcanInventory, PcanBind, PcanRefused, PcanSettle,
                  PcanSettleClosed
    <3>. QED BY <2>1, <3>1, <3>2, <3>3, <3>4 DEF Open
  <2>2. ASSUME NEW b \in Buses, Cleanup(b) PROVE UNCHANGED xl
    <3>1. Kind # "vector"
      <4>1. HeldOK(b) BY OpenerFacts
      <4>. QED BY <1>3, <2>2, <4>1 DEF Cleanup, HeldOK, Running
    <3>. QED BY <2>2, <3>1 DEF Cleanup
  <2>3. ASSUME NEW b \in Buses, PcanCancel(b) \/ Teardown(b) \/ CloseReturns(b) \/ HealthTimer(b)
                                \/ Close(b) \/ Deliver(b) \/ ControllerChanges(b)
        PROVE  UNCHANGED xl
    BY Zenon, <2>3 DEF PcanCancel, Teardown, CloseReturns, HealthTimer, Close, Deliver, ControllerChanges
  <2>4. ASSUME NEW s \in Senders, Answer(s) PROVE UNCHANGED xl BY <2>4 DEF Answer
  <2>5. ~Discover /\ ~DiscoverEnds BY <1>2 DEF Discover, DiscoverEnds
  <2>6. CASE Monitoring BY <2>6 DEF Monitoring
  <2>7. CASE DeviceRemoved \/ DeviceAttached BY <2>7 DEF DeviceRemoved, DeviceAttached
  <2>8. CASE UNCHANGED vars BY <2>8 DEF vars
  <2>. QED BY <2>1, <2>2, <2>3, <2>4, <2>5, <2>6, <2>7, <2>8 DEF Next, Progress
<1>. QED BY <1>2, <1>4

\* After a failed native close nobody opens the Vector driver again.
THEOREM StaysClosed == Spec => ClosedForGood
<1>1. IInv /\ [Next]_vars => [xl.closeFailed => xl'.closeFailed /\ xl'.users <= xl.users]_vars
  BY ClosedStep
<1>. QED BY <1>1, NativeInvariant, PTL DEF Spec, ClosedForGood

-----------------------------------------------------------------------------
(* Packets in a queue.                                                     *)

LEMMA CarriesTail ==
  ASSUME NEW q \in Seq(Packets), q # <<>>, NEW s, Carries(Tail(q), s)
  PROVE  Carries(q, s)
<1>1. Len(Tail(q)) = Len(q) - 1 /\ \A i \in 1..Len(Tail(q)) : Tail(q)[i] = q[i + 1]
  BY HeadTailProperties
<1>2. Len(q) \in Nat BY LenProperties
<1>3. PICK i \in 1..Len(Tail(q)) : Tail(q)[i].kind = "frame" /\ Tail(q)[i].of = s BY DEF Carries
<1>4. i + 1 \in 1..Len(q) /\ q[i + 1] = Tail(q)[i] BY <1>1, <1>2, <1>3
<1>. QED BY <1>3, <1>4 DEF Carries

LEMMA CarriesAppend ==
  ASSUME NEW q \in Seq(Packets), NEW p \in Packets, NEW s, Carries(Append(q, p), s)
  PROVE  Carries(q, s) \/ (p.kind = "frame" /\ p.of = s)
<1>1. /\ Len(Append(q, p)) = Len(q) + 1 /\ Len(q) \in Nat
      /\ \A i \in 1..Len(q) : Append(q, p)[i] = q[i]
      /\ Append(q, p)[Len(q) + 1] = p
  BY AppendProperties, LenProperties
<1>2. PICK i \in 1..Len(Append(q, p)) : Append(q, p)[i].kind = "frame" /\ Append(q, p)[i].of = s
  BY DEF Carries
<1>3. i \in 1..Len(q) \/ i = Len(q) + 1 BY <1>1
<1>. QED BY <1>1, <1>2, <1>3 DEF Carries

LEMMA CarriesOne ==
  ASSUME NEW p, NEW s, Carries(<<p>>, s)
  PROVE  p.kind = "frame" /\ p.of = s
  BY DEF Carries

LEMMA CarriesNone ==
  ASSUME NEW s
  PROVE  ~Carries(<<>>, s)
  BY DEF Carries

LEMMA CarriesHead ==
  ASSUME NEW q \in Seq(Packets), q # <<>>
  PROVE  Head(q) \in Packets /\ Head(q).kind = "frame" => Carries(q, Head(q).of)
<1>1. Len(q) \in Nat /\ Len(q) >= 1 /\ Head(q) = q[1] BY LenProperties, HeadTailProperties, EmptySeq
<1>. QED BY <1>1 DEF Carries

LEMMA CarriesSub ==
  ASSUME NEW q \in Seq(Packets), NEW m \in Nat, NEW n \in Nat, m >= 1, n <= Len(q),
         NEW s, Carries(SubSeq(q, m, n), s)
  PROVE  Carries(q, s)
<1>1. Len(q) \in Nat BY LenProperties
<1>2. CASE m > n
  <2>1. Len(SubSeq(q, m, n)) = 0 BY <1>1, <1>2
  <2>. QED BY <2>1 DEF Carries
<1>3. CASE m <= n
  <2>1. Len(SubSeq(q, m, n)) = n - m + 1
        /\ \A i \in 1..(n - m + 1) : SubSeq(q, m, n)[i] = q[m + i - 1]
    BY <1>1, <1>3
  <2>2. PICK i \in 1..(n - m + 1) : SubSeq(q, m, n)[i].kind = "frame" /\ SubSeq(q, m, n)[i].of = s
    BY <2>1 DEF Carries
  <2>3. m + i - 1 \in 1..Len(q) BY <1>1, <1>3
  <2>. QED BY <2>1, <2>2, <2>3 DEF Carries
<1>. QED BY <1>2, <1>3

-----------------------------------------------------------------------------
(* What the capture records.                                               *)

LEMMA RecordEffect ==
  ASSUME NEW events \in Seq(LogEvents), LogInv, scenario.capacity \in Nat, Record(events)
  PROVE  Grows(events)
<1>1. /\ log \in Seq(LogEvents) /\ Len(log) \in Nat /\ Len(events) \in Nat
      /\ Len(log) <= scenario.capacity
  BY LenProperties DEF LogInv
<1>2. /\ log \o events \in Seq(LogEvents) /\ Len(log \o events) = Len(log) + Len(events)
      /\ \A i \in 1..Len(log) : (log \o events)[i] = log[i]
      /\ \A i \in (Len(log) + 1)..(Len(log) + Len(events)) : (log \o events)[i] = events[i - Len(log)]
  BY <1>1, ConcatProperties
<1>3. CASE Fits(events)
  <2>1. log' = log \o events /\ Len(log) + Len(events) <= scenario.capacity BY <1>3 DEF Record, Fits
  <2>. QED BY <1>1, <1>2, <1>3, <2>1 DEF Grows
<1>4. CASE ~Fits(events)
  <2>. DEFINE all == log \o events
              n == scenario.capacity
  <2>1. log' = SubSeq(all, 1, n) /\ ~(Len(log) + Len(events) <= n) BY <1>4 DEF Record, Fits
  <2>2. all \in Seq(LogEvents) /\ n \in Nat /\ n <= Len(all) /\ Len(log) <= n BY <1>1, <1>2, <2>1
  <2>. HIDE DEF all, n
  <2>3. Len(SubSeq(all, 1, n)) = n /\ \A i \in 1..n : SubSeq(all, 1, n)[i] = all[i]
    BY <2>2, LenProperties
  <2>4. SubSeq(all, 1, n) \in Seq(LogEvents)
    <3>1. \A i \in 1..n : all[i] \in LogEvents BY <2>2, ElementOfSeq, LenProperties
    <3>. QED BY <2>2, <3>1, LenProperties
  <2>5. Len(log') = n /\ \A i \in 1..n : log'[i] = all[i] BY Zenon, <2>1, <2>3
  <2>6. \A i \in 1..Len(log) : log'[i] = log[i] BY <1>1, <1>2, <2>2, <2>5 DEF all
  <2>7. \A i \in (Len(log) + 1)..n : i - Len(log) \in 1..Len(events) /\ log'[i] = events[i - Len(log)]
    <3>1. ASSUME NEW i \in (Len(log) + 1)..n
          PROVE  i - Len(log) \in 1..Len(events) /\ log'[i] = events[i - Len(log)]
      <4>1. i \in 1..n /\ i \in (Len(log) + 1)..(Len(log) + Len(events)) BY <1>1, <1>2, <2>2 DEF all
      <4>. QED BY <1>1, <1>2, <2>5, <4>1 DEF all
    <3>. QED BY <3>1
  <2>. QED BY <1>1, <1>4, <2>1, <2>2, <2>4, <2>5, <2>6, <2>7 DEF Grows, n
<1>. QED BY <1>3, <1>4

LEMMA ReceivesMore ==
  ASSUME NEW b, NEW p, NEW d, NEW e, Receives(d, b, p), Receives(e, b, p)
  PROVE  Receives(d \o e, b, p)
<1>1. d \in Seq(LogEvents) /\ e \in Seq(LogEvents) BY DEF Receives
<1>2. /\ d \o e \in Seq(LogEvents) /\ Len(d \o e) = Len(d) + Len(e)
      /\ Len(d) \in Nat /\ Len(e) \in Nat
      /\ \A i \in 1..Len(d) : (d \o e)[i] = d[i]
      /\ \A i \in (Len(d) + 1)..(Len(d) + Len(e)) : (d \o e)[i] = e[i - Len(d)]
  BY <1>1, ConcatProperties, LenProperties
<1>3. ASSUME NEW i \in 1..Len(d \o e)
      PROVE  \/ i \in 1..Len(d) /\ (d \o e)[i] = d[i]
             \/ i - Len(d) \in 1..Len(e) /\ (d \o e)[i] = e[i - Len(d)]
  BY <1>2
<1>. QED BY <1>2, <1>3 DEF Receives

LEMMA SocketErrorEvents ==
  ASSUME NEW b \in Buses, NEW p, Receives(<<>>, b, p), Receives(StateEvents(b, p.of), b, p),
         Receives(<<Event(b, "error", None)>>, b, p), Receives(<<Event(b, "overrun", None)>>, b, p)
  PROVE  Receives(SocketErrors(b, p).events, b, p)
<1>. DEFINE error == IF p.kind \in {"error", "error overflow"} THEN <<Event(b, "error", None)>> ELSE <<>>
            state == IF p.of = None THEN <<>> ELSE StateEvents(b, p.of)
<1>1. \/ SocketErrors(b, p) = Observed(error \o state \o <<Event(b, "overrun", None)>>, "overrun", None)
      \/ SocketErrors(b, p) = Observed(error \o state, Ends(p.of), None)
  BY Zenon DEF SocketErrors
<1>2. Receives(error, b, p) /\ Receives(state, b, p) BY Zenon
<1>. HIDE DEF error, state
<1>3. Receives(error \o state, b, p) BY ONLY <1>2, ReceivesMore
<1>4. Receives(error \o state \o <<Event(b, "overrun", None)>>, b, p)
  BY ONLY <1>3, Receives(<<Event(b, "overrun", None)>>, b, p), ReceivesMore
<1>5. CASE SocketErrors(b, p) = Observed(error \o state \o <<Event(b, "overrun", None)>>, "overrun", None)
  <2>1. SocketErrors(b, p).events = error \o state \o <<Event(b, "overrun", None)>> BY <1>5 DEF Observed
  <2>. QED BY ONLY <1>4, <2>1, Zenon
<1>6. CASE SocketErrors(b, p) = Observed(error \o state, Ends(p.of), None)
  <2>1. SocketErrors(b, p).events = error \o state BY <1>6 DEF Observed
  <2>. QED BY ONLY <1>3, <2>1, Zenon
<1>. QED BY ONLY <1>1, <1>5, <1>6

LEMMA DecodedEvents ==
  ASSUME NEW b \in Buses, NEW p \in Packets
  PROVE  \A o \in {SocketDecode(b, p), PcanDecode(b, p), VectorDecode(b, p), NixnetDecode(b, p)} :
           Receives(o.events, b, p)
<1>1. p.kind \in PacketKinds /\ p.of \in Values /\ None \in Values BY DEF Packets, Values
<1>2. /\ Event(b, "RX", p.of) \in LogEvents /\ Event(b, "state", p.of) \in LogEvents
      /\ Event(b, "error", None) \in LogEvents /\ Event(b, "overrun", None) \in LogEvents
      /\ Event(b, "RX", p.of).kind = "RX" /\ Event(b, "RX", p.of).of = p.of
      /\ Event(b, "state", p.of).kind = "state" /\ Event(b, "error", None).kind = "error"
      /\ Event(b, "overrun", None).kind = "overrun"
  BY <1>1 DEF Event, LogEvents
<1>3. /\ Receives(<<>>, b, p)
      /\ p.kind = "frame" => Receives(<<Event(b, "RX", p.of)>>, b, p)
      /\ Receives(<<Event(b, "overrun", None)>>, b, p)
      /\ Receives(StateEvents(b, p.of), b, p)
      /\ Receives(<<Event(b, "error", None)>>, b, p)
      /\ Receives(<<Event(b, "error", None)>> \o <<>>, b, p)
      /\ Receives(<<Event(b, "error", None)>> \o StateEvents(b, p.of), b, p)
  BY <1>2 DEF Receives, StateEvents
<1>4. \A events, terminal, error : Observed(events, terminal, error).events = events BY DEF Observed
<1>5. Receives(SocketDecode(b, p).events, b, p)
  <2>1. Receives(SocketErrors(b, p).events, b, p) BY <1>3, SocketErrorEvents
  <2>. QED BY <1>1, <1>3, <1>4, <2>1 DEF SocketDecode, Frame, Overrun, Undecoded
<1>6. Receives(PcanDecode(b, p).events, b, p)
  BY <1>1, <1>3, <1>4 DEF PcanDecode, Frame, Overrun, Undecoded
<1>7. Receives(VectorDecode(b, p).events, b, p)
  BY <1>1, <1>3, <1>4 DEF VectorDecode, Frame, Overrun, Undecoded
<1>8. Receives(NixnetDecode(b, p).events, b, p)
  <2>. DEFINE o == NixnetState(b, p.of)
              e == [o EXCEPT !.events = <<Event(b, "error", None)>> \o @]
  <2>1. o.events \in {<<>>, StateEvents(b, p.of)} BY <1>4 DEF NixnetState
  <2>2. e.events = <<Event(b, "error", None)>> \o o.events BY DEF NixnetState, Observed
  <2>3. Receives(o.events, b, p) /\ Receives(e.events, b, p) BY Zenon, <1>3, <2>1, <2>2
  <2>4. CASE p.kind = "error"
    <3>1. NixnetDecode(b, p) = e BY <2>4 DEF NixnetDecode
    <3>. QED BY <2>3, <3>1
  <2>5. CASE p.kind = "state"
    <3>1. NixnetDecode(b, p) \in {o, Observed(<<>>, None, None)} BY <2>5 DEF NixnetDecode
    <3>. QED BY <1>3, <1>4, <2>3, <3>1
  <2>. HIDE DEF o, e
  <2>6. CASE p.kind \notin {"error", "state"}
    BY <1>1, <1>3, <1>4, <2>6 DEF NixnetDecode, Frame, Undecoded
  <2>. QED BY <2>4, <2>5, <2>6
<1>. QED BY <1>5, <1>6, <1>7, <1>8

-----------------------------------------------------------------------------
(* What a step does to what is said here.                                  *)

\* Neither the callers nor the capture notice.
LEMMA SilentStep ==
  ASSUME SendInv, Typed, LockOK, UNCHANGED <<scenario, call, log>>, Deaf, ErrKept, Foreign'
  PROVE  SendInv'
<1>1. LogInv' BY DEF SendInv, LogInv
<1>2. ASSUME NEW s \in Senders PROVE CallInv(s)'
  <2>1. CallInv(s) /\ (Transmitted(s)' <=> Transmitted(s)) BY DEF SendInv, Transmitted
  <2>2. call[s].accepted => call[s].on \in Buses BY DEF LockOK
  <2>. QED BY <2>1, <2>2 DEF CallInv, ErrKept
<1>3. AnswerInv'
  <2>1. ASSUME NEW x \in Buses, NEW s \in Senders, Heard(x, s)' PROVE call'[s].accepted /\ call'[s].on = x
    BY <2>1 DEF SendInv, AnswerInv, Deaf
  <2>. QED BY <2>1 DEF AnswerInv
<1>4. TransmitFirst' BY DEF SendInv, TransmitFirst
<1>. QED BY <1>1, <1>2, <1>3, <1>4 DEF SendInv

\* The log keeps what it has: who was transmitted stays transmitted.
LEMMA LogKept ==
  ASSUME NEW events, LogInv, Grows(events)
  PROVE  /\ Len(log) \in Nat /\ Len(log') \in Nat
         /\ \A i \in DOMAIN log : i \in DOMAIN log' /\ log'[i] = log[i]
         /\ \A i \in DOMAIN log' : i \in DOMAIN log \/ i \in (Len(log) + 1)..Len(log')
         /\ DOMAIN log = 1..Len(log) /\ DOMAIN log' = 1..Len(log')
<1>1. log \in Seq(LogEvents) /\ log' \in Seq(LogEvents) BY DEF LogInv, Grows
<1>2. Len(log) \in Nat /\ Len(log') \in Nat /\ DOMAIN log = 1..Len(log) /\ DOMAIN log' = 1..Len(log')
  BY <1>1, LenProperties
<1>3. Len(log) <= Len(log') /\ \A i \in 1..Len(log) : log'[i] = log[i] BY DEF Grows
<1>. DEFINE m == Len(log)
            n == Len(log')
<1>4. \A i \in 1..m : i \in 1..n /\ log'[i] = log[i]
  <2>1. m \in Nat /\ n \in Nat /\ m <= n /\ \A i \in 1..m : log'[i] = log[i] BY <1>2, <1>3
  <2>. HIDE DEF m, n
  <2>. QED BY <2>1
<1>5. \A i \in 1..n : i \in 1..m \/ i \in (m + 1)..n
  <2>1. m \in Nat /\ n \in Nat BY <1>2
  <2>. HIDE DEF m, n
  <2>. QED BY <2>1
<1>. QED BY <1>2, <1>4, <1>5

\* The receive goroutine records the packet p.  An answer in p comes from a
\* call that was accepted: ioMu being with the goroutine, that call has
\* returned, and its frame is recorded or nothing more is.
LEMMA RecordsReceived ==
  ASSUME SendInv, Typed, LockOK, NEW b \in Buses, bus[b].loop = "apply", NEW p,
         p.kind = "frame" => Heard(b, p.of), scenario.capacity \in Nat,
         NEW events, Receives(events, b, p), Record(events),
         UNCHANGED <<scenario, call>>, Deaf, ErrKept, Foreign'
  PROVE  SendInv'
<1>1. LogInv /\ Grows(events) BY RecordEffect DEF SendInv, Receives
<1>2. LogInv' BY <1>1 DEF LogInv, Grows
<1>3. ASSUME NEW i \in (Len(log) + 1)..Len(log')
      PROVE  log'[i].kind # "TX" /\ (log'[i].kind = "RX" => p.kind = "frame" /\ log'[i].of = p.of)
  BY <1>1 DEF Grows, Receives
<1>4. ASSUME NEW s \in Senders PROVE Transmitted(s)' <=> Transmitted(s)
  BY <1>1, <1>3, LogKept DEF Transmitted
<1>5. ASSUME NEW s \in Senders PROVE CallInv(s)'
  <2>1. CallInv(s) /\ (Transmitted(s)' <=> Transmitted(s)) BY <1>4 DEF SendInv
  <2>2. call[s].accepted => call[s].on \in Buses BY DEF LockOK
  <2>3. Len(log) = scenario.capacity => Len(log') = scenario'.capacity
    BY <1>1, LogKept DEF Grows
  <2>. QED BY <2>1, <2>2, <2>3 DEF CallInv, ErrKept
<1>6. AnswerInv'
  <2>1. ASSUME NEW x \in Buses, NEW s \in Senders, Heard(x, s)' PROVE call'[s].accepted /\ call'[s].on = x
    BY <2>1 DEF SendInv, AnswerInv, Deaf
  <2>. QED BY <2>1 DEF AnswerInv
<1>7. TransmitFirst'
  <2>1. ASSUME NEW i \in DOMAIN log', log'[i].kind = "RX", log'[i].of \in Senders
        PROVE  \E j \in 1..(i - 1) : log'[j].kind = "TX" /\ log'[j].of = log'[i].of
    <3>1. CASE i \in DOMAIN log
      <4>1. log'[i] = log[i] BY <1>1, <3>1, LogKept
      <4>2. PICK j \in 1..(i - 1) : log[j].kind = "TX" /\ log[j].of = log[i].of
        BY <2>1, <3>1, <4>1 DEF SendInv, TransmitFirst
      <4>3. j \in DOMAIN log /\ log'[j] = log[j] BY <1>1, <3>1, <4>2, LogKept
      <4>. QED BY <4>1, <4>2, <4>3
    <3>2. CASE i \in (Len(log) + 1)..Len(log')
      <4>. DEFINE s == log'[i].of
      <4>1. p.kind = "frame" /\ s = p.of BY <1>3, <2>1, <3>2
      <4>2. call[s].accepted /\ call[s].on = b BY <2>1, <4>1 DEF SendInv, AnswerInv
      <4>3. call[s].pc # "accepted"
        <5>1. bus[b].ioMu = "loop" BY DEF LockOK
        <5>2. "loop" \notin Senders BY NativeAssumption
        <5>. QED BY <2>1, <4>2, <5>1, <5>2 DEF LockOK
      <4>4. CallInv(s) /\ call[s].pc \in {"idle", "waiting", "writing", "accepted", "returned"}
        BY <2>1, CallTyped DEF SendInv
      <4>5. call[s].pc = "returned" BY <2>1, <4>2, <4>3, <4>4 DEF CallInv, LockOK
      <4>6. Len(log) # scenario.capacity BY <1>1, <3>2, LogKept DEF Grows
      <4>7. Transmitted(s) BY <4>2, <4>4, <4>5, <4>6 DEF CallInv
      <4>8. PICK j \in DOMAIN log : log[j].kind = "TX" /\ log[j].of = s BY <4>7 DEF Transmitted
      <4>9. j \in 1..(i - 1) /\ log'[j] = log[j] BY <1>1, <3>2, <4>8, LogKept
      <4>. QED BY <4>8, <4>9
    <3>. QED BY <1>1, <3>1, <3>2, LogKept
  <2>. QED BY <2>1 DEF TransmitFirst
<1>. QED BY <1>2, <1>5, <1>6, <1>7 DEF SendInv

-----------------------------------------------------------------------------
(* The callers of Send.                                                    *)

\* A step of the call of s that records nothing.
LEMMA SenderStep ==
  ASSUME SendInv, Typed, LockOK, NEW s \in Senders, OnlyCall(s), call' \in [Senders -> Calls],
         call[s].accepted => call'[s].accepted /\ call'[s].on = call[s].on,
         CallInv(s)', UNCHANGED <<scenario, log>>, Deaf, ErrKept, Foreign'
  PROVE  SendInv'
<1>1. LogInv' BY DEF SendInv, LogInv
<1>2. ASSUME NEW t \in Senders, t # s PROVE CallInv(t)'
  <2>1. CallInv(t) /\ (Transmitted(t)' <=> Transmitted(t)) BY DEF SendInv, Transmitted
  <2>2. call[t].accepted => call[t].on \in Buses BY DEF LockOK
  <2>3. call'[t] = call[t] BY <1>2 DEF OnlyCall
  <2>. QED BY <2>1, <2>2, <2>3 DEF CallInv, ErrKept
<1>3. AnswerInv'
  <2>1. ASSUME NEW x \in Buses, NEW t \in Senders, Heard(x, t)' PROVE call'[t].accepted /\ call'[t].on = x
    <3>1. call[t].accepted /\ call[t].on = x BY <2>1 DEF SendInv, AnswerInv, Deaf
    <3>. QED BY <3>1 DEF OnlyCall
  <2>. QED BY <2>1 DEF AnswerInv
<1>4. TransmitFirst' BY DEF SendInv, TransmitFirst
<1>. QED BY <1>1, <1>2, <1>3, <1>4 DEF SendInv

LEMMA SameQueuesDeaf ==
  ASSUME SameQueues
  PROVE  Deaf
  BY DEF SameQueues, Deaf, Heard, Carries

LEMMA StopKeepsErr ==
  ASSUME Typed, NEW b \in Buses, NEW e, Stop(b, e)
  PROVE  /\ ErrKept /\ Stopping(b)'
         /\ lifecycle'[b].err # None <=> lifecycle[b].err # None \/ e # None
<1>. DEFINE l == [lifecycle[b] EXCEPT !.stop = TRUE, !.err = IF @ = None THEN e ELSE @]
<1>1. lifecycle[b] \in Lifecycles /\ lifecycle \in [Buses -> Lifecycles] BY DEF Typed
<1>2. l.stop /\ l.err = IF lifecycle[b].err = None THEN e ELSE lifecycle[b].err BY <1>1 DEF Lifecycles
<1>3. lifecycle' = [lifecycle EXCEPT ![b] = l] BY <1>1 DEF Stop, StoppedWith
<1>. HIDE DEF l
<1>4. lifecycle'[b] = l /\ \A x \in Buses : x # b => lifecycle'[x] = lifecycle[x] BY <1>1, <1>3
<1>. QED BY <1>2, <1>4 DEF ErrKept, Stopping

LEMMA DoneKeepsErr ==
  ASSUME Typed, NEW b \in Buses, MarkDone(b)
  PROVE  ErrKept
<1>. DEFINE l == [lifecycle[b] EXCEPT !.done = TRUE]
<1>1. lifecycle[b] \in Lifecycles /\ lifecycle \in [Buses -> Lifecycles] BY DEF Typed
<1>2. l.stop = lifecycle[b].stop /\ l.err = lifecycle[b].err BY <1>1 DEF Lifecycles
<1>3. lifecycle' = [lifecycle EXCEPT ![b] = l] BY DEF MarkDone
<1>. HIDE DEF l
<1>4. lifecycle'[b] = l /\ \A x \in Buses : x # b => lifecycle'[x] = lifecycle[x] BY <1>1, <1>3
<1>. QED BY <1>2, <1>4 DEF ErrKept, Stopping

LEMMA RefusedCall ==
  ASSUME SendInv, Typed, NEW s \in Senders, ~call[s].accepted, NEW result \in Refusals,
         call' = Returned(s, result), UNCHANGED log
  PROVE  /\ CallInv(s)' /\ OnlyCall(s) /\ call' \in [Senders -> Calls]
<1>1. result \in Results /\ result # "nil" BY DEF Refusals
<1>2. /\ call' \in [Senders -> Calls] /\ OnlyCall(s) /\ call'[s].pc = "returned"
      /\ call'[s].result = result /\ call'[s].accepted = call[s].accepted
  BY <1>1, CallReturns
<1>3. CallInv(s) /\ (Transmitted(s)' <=> Transmitted(s)) BY DEF SendInv, Transmitted
<1>4. ~Transmitted(s) BY <1>3 DEF CallInv
<1>. QED BY <1>1, <1>2, <1>3, <1>4 DEF CallInv

LEMMA OperationErrorRefuses ==
  ASSUME Typed, NEW b \in Buses
  PROVE  OperationError(b) \in Refusals
<1>1. OperationError(b) \in Results BY OperationErrorType
<1>2. lifecycle[b].err \in Errors \union {None} BY DEF Typed, Lifecycles
<1>3. "nil" \notin Errors BY DEF Errors
<1>. QED BY <1>1, <1>2, <1>3 DEF OperationError, Refusals

LEMMA RefusalRefuses ==
  ASSUME Typed, NEW b \in Buses, NEW status \in {"full", "gone", "io"}
  PROVE  Refusal(b, status).result \in Refusals
<1>1. OperationError(b) \in Refusals /\ status \in Refusals
  BY OperationErrorRefuses DEF Refusals, Results, Errors
<1>2. Kind \in Kinds BY Zenon, NativeAssumption DEF Typed, ScenarioOK, Kind
<1>. QED BY <1>1, <1>2 DEF Refusal, SocketRefusal, PcanRefusal, VectorRefusal, NixnetRefusal, Kinds

\* The caller changes nothing but ioMu of its bus.
LEMMA IoMuQueues ==
  ASSUME Typed, NEW b \in Buses, NEW holder \in Senders \union {None},
         bus' = Set(b, "ioMu", holder) \/ UNCHANGED bus
  PROVE  Deaf
<1>1. CASE bus' = Set(b, "ioMu", holder)
  <2>1. OnlyBus(b) /\ KeepsPlace(b) BY <1>1, IoMuSet
  <2>. QED BY <2>1, SameQueuesDeaf DEF SameQueues, OnlyBus, KeepsPlace
<1>2. CASE UNCHANGED bus BY <1>2, SameQueuesDeaf DEF SameQueues
<1>. QED BY <1>1, <1>2

LEMMA SendLockSays ==
  ASSUME SendInv, Typed, LockOK, NEW s \in Senders, SendLock(s)
  PROVE  SendInv'
<1>1. PICK b \in Buses : b = call[s].on BY CallPlace DEF SendLock
<1>2. call[s].pc = "waiting" /\ ~call[s].accepted BY DEF SendLock, SendInv, CallInv
<1>3. UNCHANGED <<scenario, left, lifecycle, log>> BY DEF SendLock
<1>4. Foreign' /\ ErrKept BY <1>3 DEF SendInv, Foreign, ErrKept, Stopping
<1>5. CASE Stopping(b)
  <2>1. call' = Returned(s, OperationError(b)) /\ UNCHANGED bus BY <1>1, <1>5 DEF SendLock
  <2>2. CallInv(s)' /\ OnlyCall(s) /\ call' \in [Senders -> Calls]
    BY <1>2, <1>3, <2>1, RefusedCall, OperationErrorRefuses
  <2>3. Deaf BY <2>1, SameQueuesDeaf DEF SameQueues
  <2>. QED BY <1>2, <1>3, <1>4, <2>2, <2>3, SenderStep
<1>6. CASE ~Stopping(b)
  <2>1. call' = [call EXCEPT ![s].pc = "writing"] /\ bus' = Set(b, "ioMu", s)
    BY <1>1, <1>6 DEF SendLock
  <2>. DEFINE c == [call[s] EXCEPT !.pc = "writing"]
  <2>2. call[s] \in Calls BY CallTyped
  <2>3. c \in Calls /\ c.pc = "writing" /\ c.accepted = call[s].accepted /\ c.on = call[s].on
    BY <2>2 DEF Calls
  <2>4. call' = [call EXCEPT ![s] = c] BY <2>1
  <2>. HIDE DEF c
  <2>5. call'[s] = c /\ OnlyCall(s) /\ call' \in [Senders -> Calls] BY Zenon, <2>3, <2>4, CallUpdate
  <2>6. CallInv(s)
    BY DEF SendInv
  <2>7. Transmitted(s)' <=> Transmitted(s) BY <1>3 DEF Transmitted
  <2>8. CallInv(s)' BY <1>2, <2>3, <2>5, <2>6, <2>7 DEF CallInv
  <2>9. Deaf BY <2>1, IoMuQueues
  <2>. QED BY <1>2, <1>3, <1>4, <2>5, <2>8, <2>9, SenderStep
<1>. QED BY <1>5, <1>6

LEMMA SendCanceledSays ==
  ASSUME SendInv, Typed, LockOK, NEW s \in Senders, SendCanceled(s)
  PROVE  SendInv'
<1>1. call[s].pc = "waiting" /\ ~call[s].accepted BY DEF SendCanceled, SendInv, CallInv
<1>2. UNCHANGED <<scenario, left, lifecycle, bus, log>> BY DEF SendCanceled
<1>3. Foreign' /\ ErrKept BY <1>2 DEF SendInv, Foreign, ErrKept, Stopping
<1>4. "canceled" \in Refusals BY DEF Refusals, Results
<1>5. CallInv(s)' /\ OnlyCall(s) /\ call' \in [Senders -> Calls]
  BY <1>1, <1>2, <1>4, RefusedCall DEF SendCanceled
<1>6. Deaf BY <1>2, SameQueuesDeaf DEF SameQueues
<1>. QED BY <1>1, <1>2, <1>3, <1>5, <1>6, SenderStep

LEMMA NativeAcceptsSays ==
  ASSUME SendInv, Typed, LockOK, NEW s \in Senders, NativeAccepts(s)
  PROVE  SendInv'
<1>1. call[s].pc = "writing" BY DEF NativeAccepts
<1>2. UNCHANGED <<scenario, left, lifecycle, bus, log>> BY DEF NativeAccepts
<1>3. Foreign' /\ ErrKept /\ Deaf
  BY <1>2, SameQueuesDeaf DEF SendInv, Foreign, ErrKept, Stopping, SameQueues
<1>. DEFINE c == [call[s] EXCEPT !.pc = "accepted", !.accepted = TRUE]
<1>4. call[s] \in Calls BY CallTyped
<1>5. c \in Calls /\ c.pc = "accepted" /\ c.accepted /\ c.on = call[s].on BY Zenon, <1>4 DEF Calls
<1>6. call' = [call EXCEPT ![s] = c] BY Zenon DEF NativeAccepts
<1>. HIDE DEF c
<1>7. call'[s] = c /\ OnlyCall(s) /\ call' \in [Senders -> Calls] BY Zenon, <1>5, <1>6, CallUpdate
<1>8. CallInv(s) /\ (Transmitted(s)' <=> Transmitted(s)) BY <1>2 DEF SendInv, Transmitted
<1>9. CallInv(s)' BY <1>1, <1>5, <1>7, <1>8 DEF CallInv
<1>. QED BY <1>2, <1>3, <1>5, <1>7, <1>9, SenderStep

LEMMA NativeRefusesSays ==
  ASSUME SendInv, Typed, LockOK, NEW s \in Senders, NativeRefuses(s)
  PROVE  SendInv'
<1>1. PICK b \in Buses : b = call[s].on BY CallPlace DEF NativeRefuses
<1>2. call[s].pc = "writing" /\ ~call[s].accepted BY DEF NativeRefuses, SendInv, CallInv
<1>3. PICK status \in {"full", "gone", "io"} :
        LET r == Refusal(b, status) IN
          /\ call' = Returned(s, r.result) /\ bus' = Unlocked(b)
          /\ IF r.stop = None THEN UNCHANGED lifecycle ELSE Stop(b, r.stop)
  BY <1>1 DEF NativeRefuses
<1>4. UNCHANGED <<scenario, log>> BY DEF NativeRefuses
<1>5. Foreign'
  <2>1. left.faults > 0 /\ left' = [left EXCEPT !.faults = @ - 1] /\ left \in Lefts
    BY DEF NativeRefuses, Typed
  <2>2. left'.packets = left.packets BY <2>1 DEF Lefts
  <2>. QED BY <2>2 DEF SendInv, Foreign
<1>6. ErrKept BY <1>3, StopKeepsErr DEF ErrKept, Stopping
<1>7. CallInv(s)' /\ OnlyCall(s) /\ call' \in [Senders -> Calls]
  BY <1>2, <1>3, <1>4, RefusedCall, RefusalRefuses
<1>8. Deaf BY <1>3, IoMuQueues DEF Unlocked
<1>. QED BY <1>2, <1>4, <1>5, <1>6, <1>7, <1>8, SenderStep

\* The record of a frame and the return of its Send are one step under ioMu.
LEMMA SendRecordSays ==
  ASSUME SendInv, Typed, LockOK, scenario.capacity \in Nat, NEW s \in Senders, SendRecord(s)
  PROVE  SendInv'
<1>1. PICK b \in Buses : b = call[s].on BY CallPlace DEF SendRecord
<1>. DEFINE tx == Event(b, "TX", s)
<1>2. tx \in LogEvents /\ tx.kind = "TX" /\ tx.of = s BY DEF Event, LogEvents, Values
<1>3. call[s].pc = "accepted" /\ call[s].accepted /\ ~Transmitted(s)
  BY DEF SendRecord, SendInv, CallInv
<1>4. /\ Record(<<tx>>) /\ UNCHANGED <<scenario, left>>
      /\ bus' = Unlocked(b)
      /\ \/ Fits(<<tx>>) /\ call' = Returned(s, "nil") /\ UNCHANGED lifecycle
         \/ ~Fits(<<tx>>) /\ call' = Returned(s, "capture") /\ Stop(b, "capture")
  BY <1>1 DEF SendRecord
<1>. HIDE DEF tx
<1>5. LogInv /\ Grows(<<tx>>)
  <2>1. <<tx>> \in Seq(LogEvents) BY <1>2
  <2>. QED BY Zenon, <1>4, <2>1, RecordEffect DEF SendInv
<1>6. LogInv' BY <1>4, <1>5 DEF LogInv, Grows
<1>7. \A i \in (Len(log) + 1)..Len(log') : i = Len(log) + 1 /\ log'[i] = tx
  BY <1>5, LogKept DEF Grows
<1>8. /\ Fits(<<tx>>) => Len(log') = Len(log) + 1
      /\ ~Fits(<<tx>>) => Len(log) = scenario.capacity /\ Len(log') = scenario.capacity
  BY <1>5, LogKept DEF Grows, Fits, LogInv
<1>9. /\ OnlyCall(s) /\ call' \in [Senders -> Calls] /\ call'[s].on = b
      /\ call'[s].pc = "returned" /\ call'[s].accepted = call[s].accepted
      /\ call'[s].result = IF Fits(<<tx>>) THEN "nil" ELSE "capture"
  <2>1. {"nil", "capture"} \subseteq Results BY DEF Results, Errors
  <2>. QED BY <1>1, <1>4, <2>1, CallReturns
<1>10. ASSUME NEW t \in Senders, t # s PROVE Transmitted(t)' <=> Transmitted(t)
  BY <1>2, <1>5, <1>7, <1>10, LogKept DEF Transmitted
<1>11. Transmitted(s)' <=> Fits(<<tx>>)
  <2>1. CASE Fits(<<tx>>)
    <3>1. Len(log') \in DOMAIN log' /\ log'[Len(log')] = tx BY <1>5, <1>7, <1>8, <2>1, LogKept
    <3>. QED BY <1>2, <2>1, <3>1 DEF Transmitted
  <2>2. CASE ~Fits(<<tx>>)
    <3>1. \A i \in DOMAIN log' : i \in DOMAIN log /\ log'[i] = log[i] BY <1>5, <1>8, <2>2, LogKept
    <3>. QED BY <1>3, <2>2, <3>1 DEF Transmitted
  <2>. QED BY <2>1, <2>2
<1>12. ErrKept BY <1>4, StopKeepsErr DEF ErrKept, Stopping
<1>13. ASSUME NEW t \in Senders, t # s PROVE CallInv(t)'
  <2>1. CallInv(t) /\ call'[t] = call[t] BY <1>9, <1>13 DEF SendInv, OnlyCall
  <2>2. call[t].accepted => call[t].on \in Buses BY DEF LockOK
  <2>3. Len(log) = scenario.capacity => Len(log') = scenario'.capacity
    BY <1>4, <1>5, LogKept DEF Grows
  <2>. QED BY <1>10, <1>12, <1>13, <2>1, <2>2, <2>3 DEF CallInv, ErrKept
<1>14. CallInv(s)'
  <2>1. ~Fits(<<tx>>) => Stopping(b)' /\ lifecycle'[b].err # None
    <3>1. "capture" # None BY NativeAssumption DEF Errors
    <3>. QED BY <1>4, <3>1, StopKeepsErr
  <2>. QED BY <1>3, <1>4, <1>8, <1>9, <1>11, <2>1 DEF CallInv
<1>15. Deaf BY <1>4, IoMuQueues DEF Unlocked
<1>16. AnswerInv'
  <2>1. ASSUME NEW x \in Buses, NEW t \in Senders, Heard(x, t)' PROVE call'[t].accepted /\ call'[t].on = x
    <3>1. call[t].accepted /\ call[t].on = x BY <1>15, <2>1 DEF SendInv, AnswerInv, Deaf
    <3>. QED BY <1>1, <1>9, <3>1 DEF OnlyCall
  <2>. QED BY <2>1 DEF AnswerInv
<1>17. TransmitFirst'
  <2>1. ASSUME NEW i \in DOMAIN log', log'[i].kind = "RX", log'[i].of \in Senders
        PROVE  \E j \in 1..(i - 1) : log'[j].kind = "TX" /\ log'[j].of = log'[i].of
    <3>1. i \in DOMAIN log /\ log'[i] = log[i] BY <1>2, <1>5, <1>7, <2>1, LogKept
    <3>2. PICK j \in 1..(i - 1) : log[j].kind = "TX" /\ log[j].of = log[i].of
      BY <2>1, <3>1 DEF SendInv, TransmitFirst
    <3>3. j \in DOMAIN log /\ log'[j] = log[j] BY <1>5, <3>1, <3>2, LogKept
    <3>. QED BY <3>1, <3>2, <3>3
  <2>. QED BY <2>1 DEF TransmitFirst
<1>18. Foreign' BY <1>4 DEF SendInv, Foreign
<1>. QED BY <1>6, <1>13, <1>14, <1>16, <1>17, <1>18 DEF SendInv

LEMMA SendCallSays ==
  ASSUME SendInv, Typed, LockOK, NEW s \in Senders, NEW b \in Buses, SendCall(s, b)
  PROVE  SendInv'
<1>1. call[s].pc = "idle" /\ UNCHANGED <<scenario, left, lifecycle, bus, log>> BY DEF SendCall
<1>2. CallInv(s) /\ (Transmitted(s)' <=> Transmitted(s)) BY <1>1 DEF SendInv, Transmitted
<1>3. ~call[s].accepted /\ ~Transmitted(s) BY <1>1, <1>2 DEF CallInv
<1>4. Foreign' /\ ErrKept /\ Deaf
  BY <1>1, SameQueuesDeaf DEF SendInv, Foreign, ErrKept, Stopping, SameQueues
<1>. DEFINE called == [NewCall EXCEPT !.pc = "waiting", !.on = b]
            refused == [called EXCEPT !.pc = "returned", !.result = OperationError(b)]
<1>5. /\ called \in Calls /\ called.pc = "waiting" /\ ~called.accepted
      /\ refused \in Calls /\ refused.pc = "returned" /\ ~refused.accepted /\ refused.result # "nil"
  BY Zenon, OperationErrorRefuses DEF NewCall, Calls, Refusals, Results
<1>6. PICK c \in {called, refused} : call' = [call EXCEPT ![s] = c] BY DEF SendCall
<1>. HIDE DEF called, refused
<1>7. call'[s] = c /\ OnlyCall(s) /\ call' \in [Senders -> Calls] BY Zenon, <1>5, <1>6, CallUpdate
<1>8. CallInv(s)' BY <1>2, <1>3, <1>5, <1>6, <1>7 DEF CallInv
<1>. QED BY <1>1, <1>3, <1>4, <1>7, <1>8, SenderStep

-----------------------------------------------------------------------------
(* The receive goroutines: which packets they have.                        *)

LEMMA HasDeaf ==
  ASSUME NEW b \in Buses, NEW queue, NEW items, Has(b, queue, items),
         \A s \in Senders : Carries(queue, s) \/ Carries(items, s) => Heard(b, s)
  PROVE  Deaf
<1>1. ASSUME NEW x \in Buses, NEW s \in Senders, Heard(x, s)' PROVE Heard(x, s)
  <2>1. Carries(bus'[x].queue, s) \/ Carries(bus'[x].items, s) BY <1>1 DEF Heard, Carries
  <2>2. CASE x = b BY <2>1, <2>2 DEF Has
  <2>3. CASE x # b BY <2>1, <2>3 DEF Has, OnlyBus, Heard
  <2>. QED BY <2>2, <2>3
<1>. QED BY <1>1 DEF Deaf

\* A packet that is not a frame tells nobody anything.
LEMMA StateQueued ==
  ASSUME Typed, NEW b \in Buses, NEW p \in Packets, p.kind # "frame",
         \/ Has(b, Append(bus[b].queue, p), bus[b].items)
         \/ Has(b, Append(bus[b].queue, p), <<>>)
  PROVE  Deaf
<1>1. bus[b].queue \in Seq(Packets) BY BusTyped
<1>2. \A s \in Senders : Carries(Append(bus[b].queue, p), s) => Heard(b, s)
  BY <1>1, CarriesAppend DEF Heard
<1>. QED BY <1>2, HasDeaf, CarriesNone DEF Heard

\* The shapes of the updates of the goroutines.
LEMMA HasForms ==
  ASSUME Typed, NEW b \in Buses, NEW place, NEW mu, NEW queue, NEW items, NEW due
  PROVE  /\ bus' = GoTo(b, place) => Has(b, bus[b].queue, bus[b].items)
         /\ bus' = [bus EXCEPT ![b].signal = FALSE, ![b].loop = place] => Has(b, bus[b].queue, bus[b].items)
         /\ bus' = [bus EXCEPT ![b].ioMu = mu, ![b].loop = place] => Has(b, bus[b].queue, bus[b].items)
         /\ bus' = [bus EXCEPT ![b].ioMu = mu, ![b].loop = place, ![b].items = items, ![b].queue = queue]
              => Has(b, queue, items)
         /\ bus' = [bus EXCEPT ![b].items = items, ![b].queue = queue, ![b].due = due, ![b].ioMu = mu,
                               ![b].loop = place]
              => Has(b, queue, items)
         /\ bus' = [bus EXCEPT ![b].loop = place, ![b].due = FALSE, ![b].signal = TRUE, ![b].queue = queue]
              => Has(b, queue, bus[b].items)
<1>1. bus \in [Buses -> BusRecords] /\ bus[b] \in BusRecords BY DEF Typed
<1>2. bus' = GoTo(b, place) => Has(b, bus[b].queue, bus[b].items)
  BY <1>1 DEF GoTo, Set, Has, OnlyBus, BusRecords
<1>3. bus' = [bus EXCEPT ![b].signal = FALSE, ![b].loop = place] => Has(b, bus[b].queue, bus[b].items)
  BY <1>1 DEF Has, OnlyBus, BusRecords
<1>4. bus' = [bus EXCEPT ![b].ioMu = mu, ![b].loop = place] => Has(b, bus[b].queue, bus[b].items)
  BY <1>1 DEF Has, OnlyBus, BusRecords
<1>5. bus' = [bus EXCEPT ![b].ioMu = mu, ![b].loop = place, ![b].items = items, ![b].queue = queue]
        => Has(b, queue, items)
  BY <1>1 DEF Has, OnlyBus, BusRecords
<1>6. bus' = [bus EXCEPT ![b].items = items, ![b].queue = queue, ![b].due = due, ![b].ioMu = mu,
                         ![b].loop = place]
        => Has(b, queue, items)
  BY <1>1 DEF Has, OnlyBus, BusRecords
<1>7. bus' = [bus EXCEPT ![b].loop = place, ![b].due = FALSE, ![b].signal = TRUE, ![b].queue = queue]
        => Has(b, queue, bus[b].items)
  BY <1>1 DEF Has, OnlyBus, BusRecords
<1>. QED BY Zenon, <1>2, <1>3, <1>4, <1>5, <1>6, <1>7

\* What the goroutine has stays what it was.
LEMMA HasSame ==
  ASSUME NEW b \in Buses, Has(b, bus[b].queue, bus[b].items)
  PROVE  Deaf
  BY HasDeaf DEF Heard

LEMMA FaultForeign ==
  ASSUME SendInv, Typed, UNCHANGED left \/ left' = [left EXCEPT !.faults = @ - 1]
  PROVE  Foreign'
<1>1. left \in Lefts BY DEF Typed
<1>2. left'.packets = left.packets BY <1>1 DEF Lefts
<1>. QED BY <1>2 DEF SendInv, Foreign

\* The goroutine goes to another place, and may stop the bus.
LEMMA GoesUnheard ==
  ASSUME SendInv, Typed, NEW b \in Buses, NEW place, bus' = GoTo(b, place),
         UNCHANGED lifecycle \/ \E e : Stop(b, e),
         UNCHANGED left \/ left' = [left EXCEPT !.faults = @ - 1], UNCHANGED <<scenario, call, log>>
  PROVE  Unheard
<1>1. Deaf BY Zenon, HasForms, HasSame
<1>2. ErrKept BY StopKeepsErr DEF ErrKept, Stopping
<1>. QED BY <1>1, <1>2, FaultForeign DEF Unheard

LEMMA WaitUnheard ==
  ASSUME SendInv, Typed, NEW b \in Buses, SocketWait(b) \/ WindowsWait(b)
  PROVE  Unheard
<1>1. CASE SocketWait(b)
  <2>1. /\ \E place : bus' = GoTo(b, place)
        /\ UNCHANGED lifecycle \/ \E e : Stop(b, e)
        /\ UNCHANGED left \/ left' = [left EXCEPT !.faults = @ - 1]
        /\ UNCHANGED <<scenario, call, log>>
    BY <1>1 DEF SocketWait, LoopFault, LoopStops
  <2>. QED BY <2>1, GoesUnheard
<1>2. CASE WindowsWait(b)
  <2>1. \/ bus' = [bus EXCEPT ![b].signal = FALSE, ![b].loop = "drain"] /\ UNCHANGED <<lifecycle, left>>
        \/ /\ \E place : bus' = GoTo(b, place)
           /\ UNCHANGED lifecycle \/ \E e : Stop(b, e)
           /\ UNCHANGED left \/ left' = [left EXCEPT !.faults = @ - 1]
    BY Zenon, <1>2 DEF WindowsWait, LoopFault, LoopStops
  <2>2. UNCHANGED <<scenario, call, log>> BY <1>2 DEF WindowsWait
  <2>3. CASE bus' = [bus EXCEPT ![b].signal = FALSE, ![b].loop = "drain"] /\ UNCHANGED <<lifecycle, left>>
    <3>1. Deaf BY Zenon, <2>3, HasForms, HasSame
    <3>. QED BY <2>2, <2>3, <3>1, FaultForeign DEF Unheard, ErrKept, Stopping
  <2>. QED BY Zenon, <2>1, <2>2, <2>3, GoesUnheard
<1>. QED BY <1>1, <1>2

\* One packet leaves the queue for the goroutine.
LEMMA TakesOneDeaf ==
  ASSUME Typed, NEW b \in Buses, bus[b].queue # <<>>,
         bus' = [bus EXCEPT ![b].ioMu = "loop", ![b].loop = "apply",
                            ![b].items = <<Head(bus[b].queue)>>, ![b].queue = Tail(@)]
  PROVE  Deaf
<1>. DEFINE q == bus[b].queue
<1>1. Has(b, Tail(q), <<Head(q)>>) BY Zenon, HasForms
<1>2. q \in Seq(Packets) BY BusTyped
<1>3. ASSUME NEW s \in Senders, Carries(Tail(q), s) \/ Carries(<<Head(q)>>, s) PROVE Heard(b, s)
  BY <1>2, <1>3, CarriesTail, CarriesOne, CarriesHead DEF Heard
<1>. QED BY <1>1, <1>3, HasDeaf

LEMMA ReceiveUnheard ==
  ASSUME SendInv, Typed, NEW b \in Buses, ItemsOK(b), SocketReceive(b) \/ WindowsReceive(b)
  PROVE  Unheard
<1>1. UNCHANGED <<scenario, left, lifecycle, call, log>> BY DEF SocketReceive, WindowsReceive
<1>2. Foreign' /\ ErrKept BY <1>1, FaultForeign DEF ErrKept, Stopping
<1>3. \/ \E place : bus' = GoTo(b, place)
      \/ /\ bus[b].queue # <<>>
         /\ bus' = [bus EXCEPT ![b].ioMu = "loop", ![b].loop = "apply",
                               ![b].items = <<Head(bus[b].queue)>>, ![b].queue = Tail(@)]
  BY DEF SocketReceive, WindowsReceive, ItemsOK
<1>4. Deaf BY Zenon, <1>3, HasForms, HasSame, TakesOneDeaf
<1>. QED BY <1>1, <1>2, <1>4 DEF Unheard

LEMMA RequestUnheard ==
  ASSUME SendInv, Typed, NEW b \in Buses, RequestChipState(b)
  PROVE  Unheard
<1>. DEFINE p == Packet("state", bus[b].controller)
<1>1. UNCHANGED <<scenario, call, log>> BY DEF RequestChipState
<1>2. p \in Packets /\ p.kind # "frame"
  <2>1. bus[b].controller \in States BY BusTyped
  <2>. QED BY <2>1 DEF Packet, Packets, PacketKinds, Values
<1>3. \/ /\ UNCHANGED <<lifecycle, left>>
         /\ bus' = [bus EXCEPT ![b].loop = "wait", ![b].due = FALSE, ![b].signal = TRUE,
                               ![b].queue = Append(@, p)]
      \/ LoopFault(b) /\ LoopStops(b, "gone")
  BY DEF RequestChipState
<1>. HIDE DEF p
<1>4. CASE /\ UNCHANGED <<lifecycle, left>>
           /\ bus' = [bus EXCEPT ![b].loop = "wait", ![b].due = FALSE, ![b].signal = TRUE,
                                 ![b].queue = Append(@, p)]
  <2>1. Has(b, Append(bus[b].queue, p), bus[b].items) BY Zenon, <1>4, HasForms
  <2>2. Deaf BY <1>2, <2>1, StateQueued
  <2>. QED BY <1>1, <1>4, <2>2, FaultForeign DEF Unheard, ErrKept, Stopping
<1>5. CASE LoopFault(b) /\ LoopStops(b, "gone")
  BY <1>1, <1>5, GoesUnheard DEF LoopFault, LoopStops
<1>. QED BY <1>3, <1>4, <1>5

LEMMA TakesHas ==
  ASSUME Typed, NEW b \in Buses, NEW items, NEW queue, NEW due, Takes(b, items, queue, due)
  PROVE  Has(b, queue, items)
<1>. DEFINE mu == IF scenario.concurrent THEN bus[b].ioMu ELSE "loop"
            place == IF scenario.concurrent THEN "publish" ELSE "apply"
<1>1. bus' = [bus EXCEPT ![b].items = items, ![b].queue = queue, ![b].due = due, ![b].ioMu = mu,
                         ![b].loop = place]
  BY DEF Takes
<1>. HIDE DEF mu, place
<1>. QED BY Zenon, <1>1, HasForms

LEMMA NixnetUnheard ==
  ASSUME SendInv, Typed, NEW b \in Buses,
         NixnetPoll(b) \/ NixnetRead(b) \/ NixnetPublish(b) \/ NixnetCheck(b)
  PROVE  Unheard
<1>1. UNCHANGED <<scenario, lifecycle, call, log>>
  BY Zenon DEF NixnetRead, NixnetPublish, NixnetCheck, NixnetPoll
<1>2. UNCHANGED left \/ left' = [left EXCEPT !.faults = @ - 1]
  BY Zenon DEF NixnetRead, NixnetPublish, NixnetCheck, NixnetPoll, LoopFault
<1>3. Foreign' /\ ErrKept BY <1>1, <1>2, FaultForeign DEF ErrKept, Stopping
<1>4. SUFFICES Deaf BY <1>1, <1>3 DEF Unheard
<1>5. ASSUME NEW place, bus' = GoTo(b, place) PROVE Deaf BY Zenon, <1>5, HasForms, HasSame
<1>6. CASE NixnetRead(b)
  <2>. DEFINE q == bus[b].queue
              n == Batch(q)
  <2>1. CASE q # <<>> /\ Takes(b, SubSeq(q, 1, n), SubSeq(q, n + 1, Len(q)), bus[b].due)
    <3>1. q \in Seq(Packets) /\ q # <<>> BY <2>1, BusTyped
    <3>2. n \in 1..Len(q) /\ Len(q) \in Nat BY <3>1, BatchSize, LenProperties
    <3>3. Has(b, SubSeq(q, n + 1, Len(q)), SubSeq(q, 1, n)) BY <2>1, TakesHas
    <3>. HIDE DEF n
    <3>4. ASSUME NEW s \in Senders, Carries(SubSeq(q, n + 1, Len(q)), s) \/ Carries(SubSeq(q, 1, n), s)
          PROVE  Heard(b, s)
      <4>1. n + 1 \in Nat /\ n + 1 >= 1 /\ 1 \in Nat /\ n \in Nat /\ n <= Len(q) BY <3>2
      <4>. QED BY <3>1, <3>2, <3>4, <4>1, CarriesSub DEF Heard
    <3>. QED BY <3>3, <3>4, HasDeaf
  <2>. QED BY <1>5, <1>6, <2>1 DEF NixnetRead
<1>7. CASE NixnetPublish(b) BY Zenon, <1>7, HasForms, HasSame DEF NixnetPublish
<1>8. CASE NixnetCheck(b)
  <2>1. ASSUME NEW p, p.kind # "frame", Takes(b, <<p>>, bus[b].queue, FALSE) PROVE Deaf
    <3>1. Has(b, bus[b].queue, <<p>>) BY Zenon, <2>1, TakesHas
    <3>. QED BY <2>1, <3>1, HasDeaf, CarriesOne DEF Heard
  <2>2. Packet("state", bus[b].controller).kind # "frame" /\ Packet("gone", None).kind # "frame"
    BY DEF Packet
  <2>. QED BY Zenon, <1>5, <1>8, <2>1, <2>2 DEF NixnetCheck
<1>9. CASE NixnetPoll(b) BY <1>5, <1>9 DEF NixnetPoll
<1>. QED BY <1>6, <1>7, <1>8, <1>9

LEMMA FailedUnheard ==
  ASSUME SendInv, Typed, NEW b \in Buses, LoopFailed(b)
  PROVE  Unheard
  BY GoesUnheard DEF LoopFailed, LoopStops

LEMMA AppliesDeaf ==
  ASSUME Typed, NEW b \in Buses, bus[b].items # <<>>, NEW p, Applies(b, p)
  PROVE  Deaf
<1>1. bus[b].items \in Seq(Packets) BY BusTyped
<1>2. ASSUME NEW items \in {<<>>, Tail(bus[b].items)}, Has(b, bus[b].queue, items) PROVE Deaf
  <2>1. \A s \in Senders : Carries(items, s) => Carries(bus[b].items, s)
    BY Zenon, <1>1, <1>2, CarriesNone, CarriesTail
  <2>. QED BY <1>2, <2>1, HasDeaf DEF Heard
<1>. QED BY <1>2, StateQueued DEF Applies

\* The form of a step that applies the first packet.
LEMMA ApplySays ==
  ASSUME SendInv, Typed, LockOK, NEW b \in Buses, ItemsOK(b), bus[b].loop = "apply",
         Applies(b, Head(bus[b].items)), UNCHANGED lifecycle \/ \E e : Stop(b, e),
         NEW events, Receives(events, b, Head(bus[b].items)), Record(events),
         UNCHANGED left \/ left' = [left EXCEPT !.faults = @ - 1], UNCHANGED <<scenario, call>>
  PROVE  SendInv'
<1>. DEFINE p == Head(bus[b].items)
<1>1. bus[b].items \in Seq(Packets) /\ bus[b].items # <<>> BY BusTyped DEF ItemsOK
<1>2. p.kind = "frame" => Heard(b, p.of) BY <1>1, CarriesHead DEF Heard
<1>3. Deaf BY <1>1, AppliesDeaf
<1>4. ErrKept BY StopKeepsErr DEF ErrKept, Stopping
<1>5. Foreign' BY FaultForeign
<1>6. scenario.capacity \in Nat BY Zenon, NativeAssumption DEF Typed, ScenarioOK
<1>. QED BY <1>2, <1>3, <1>4, <1>5, <1>6, RecordsReceived

LEMMA SocketApplySays ==
  ASSUME SendInv, Typed, LockOK, NEW b \in Buses, ItemsOK(b), SocketApply(b)
  PROVE  SendInv'
<1>. DEFINE p == Head(bus[b].items)
            o == SocketDecode(b, p)
            known == Known(b, p)
<1>1. bus[b].loop = "apply" /\ UNCHANGED <<scenario, left, call>> /\ Record(o.events)
  BY DEF SocketApply
<1>2. p \in Packets /\ known \in Values BY <1>1, FirstItem
<1>3. Receives(o.events, b, p) BY <1>2, DecodedEvents
<1>4. UNCHANGED lifecycle \/ \E e : Stop(b, e) BY DEF SocketApply
<1>5. bus' = [bus EXCEPT ![b].ioMu = None, ![b].loop = "wait", ![b].items = <<>>, ![b].known = known]
  BY DEF SocketApply
<1>. HIDE DEF o, known
<1>6. bus \in [Buses -> BusRecords] /\ bus[b] \in BusRecords BY DEF Typed
<1>7. Has(b, bus[b].queue, <<>>) BY <1>5, <1>6 DEF Has, OnlyBus, BusRecords
<1>8. Applies(b, p) BY <1>7 DEF Applies
<1>. QED BY <1>1, <1>3, <1>4, <1>8, ApplySays

\* The shapes of the updates of PCAN and Vector.
LEMMA ReadyForms ==
  ASSUME Typed, NEW b \in Buses, NEW known \in Values, NEW place, NEW v, NEW queue
  PROVE  /\ bus' = [Ready(b, known) EXCEPT ![b].loop = place] => Has(b, bus[b].queue, <<>>)
         /\ bus' = [Ready(b, known) EXCEPT ![b].loop = place, ![b].failure = v] => Has(b, bus[b].queue, <<>>)
         /\ bus' = [Ready(b, known) EXCEPT ![b].loop = place, ![b].due = v, ![b].queue = queue]
              => Has(b, queue, <<>>)
<1>. DEFINE ready == Ready(b, known)
<1>1. /\ ready \in [Buses -> BusRecords] /\ ready[b].items = <<>> /\ ready[b].queue = bus[b].queue
      /\ \A other \in Buses : other # b => ready[other] = bus[other]
  BY AppliedRecord
<1>. HIDE DEF ready
<1>2. bus' = [ready EXCEPT ![b].loop = place] => Has(b, bus[b].queue, <<>>)
  BY <1>1 DEF Has, OnlyBus, BusRecords
<1>3. bus' = [ready EXCEPT ![b].loop = place, ![b].failure = v] => Has(b, bus[b].queue, <<>>)
  BY <1>1 DEF Has, OnlyBus, BusRecords
<1>4. bus' = [ready EXCEPT ![b].loop = place, ![b].due = v, ![b].queue = queue] => Has(b, queue, <<>>)
  BY <1>1 DEF Has, OnlyBus, BusRecords
<1>. QED BY <1>2, <1>3, <1>4 DEF ready

LEMMA PcanApplySays ==
  ASSUME SendInv, Typed, LockOK, NEW b \in Buses, ItemsOK(b), PcanApply(b)
  PROVE  SendInv'
<1>. DEFINE p == Head(bus[b].items)
            o == PcanDecode(b, p)
            known == Known(b, p)
<1>1. bus[b].loop = "apply" /\ UNCHANGED <<scenario, left, call>> /\ Record(o.events)
  BY DEF PcanApply
<1>2. p \in Packets /\ known \in Values BY <1>1, FirstItem
<1>3. Receives(o.events, b, p) BY <1>2, DecodedEvents
<1>4. UNCHANGED lifecycle \/ \E e : Stop(b, e) BY DEF PcanApply
<1>5. \/ \E place : bus' = [Ready(b, known) EXCEPT ![b].loop = place]
      \/ \E place, v : bus' = [Ready(b, known) EXCEPT ![b].loop = place, ![b].failure = v]
  BY Zenon DEF PcanApply, Ready
<1>. HIDE DEF o, known
<1>6. Has(b, bus[b].queue, <<>>) BY Zenon, <1>2, <1>5, ReadyForms
<1>7. Applies(b, p) BY <1>6 DEF Applies
<1>. QED BY <1>1, <1>3, <1>4, <1>7, ApplySays

LEMMA VectorApplySays ==
  ASSUME SendInv, Typed, LockOK, NEW b \in Buses, ItemsOK(b), VectorApply(b)
  PROVE  SendInv'
<1>. DEFINE p == Head(bus[b].items)
            o == VectorDecode(b, p)
            known == Known(b, p)
            q == Packet("state", bus[b].controller)
            asks == p.kind = "error" /\ bus[b].due
            due == bus[b].due /\ ~asks
            queue == IF asks THEN Append(bus[b].queue, q) ELSE bus[b].queue
            failure == IF Fits(o.events) THEN o.error ELSE "capture"
<1>1. /\ bus[b].loop = "apply" /\ UNCHANGED <<scenario, call>> /\ Record(o.events)
      /\ UNCHANGED left \/ left' = [left EXCEPT !.faults = @ - 1]
  BY DEF VectorApply, LoopFault
<1>2. p \in Packets /\ known \in Values BY <1>1, FirstItem
<1>3. Receives(o.events, b, p) BY <1>2, DecodedEvents
<1>4. UNCHANGED lifecycle \/ \E e : Stop(b, e) BY DEF VectorApply
<1>5. \/ bus' = [Ready(b, known) EXCEPT ![b].loop = "wait"]
      \/ bus' = [Ready(b, known) EXCEPT ![b].loop = "drain", ![b].due = due, ![b].queue = queue]
      \/ bus' = [Ready(b, known) EXCEPT ![b].loop = "failed", ![b].failure = failure]
      \/ bus' = [Ready(b, known) EXCEPT ![b].loop = "failed", ![b].failure = "gone"]
  BY Zenon DEF VectorApply, Ready
<1>6. q \in Packets /\ q.kind # "frame"
  <2>1. bus[b].controller \in States BY BusTyped
  <2>. QED BY <2>1 DEF Packet, Packets, PacketKinds, Values
<1>7. queue \in {bus[b].queue, Append(bus[b].queue, q)} OBVIOUS
<1>. HIDE DEF o, known, q, due, queue, failure
<1>8. Has(b, bus[b].queue, <<>>) \/ Has(b, queue, <<>>)
  <2>1. CASE bus' = [Ready(b, known) EXCEPT ![b].loop = "wait"] BY Zenon, <1>2, <2>1, ReadyForms
  <2>2. CASE bus' = [Ready(b, known) EXCEPT ![b].loop = "drain", ![b].due = due, ![b].queue = queue]
    BY Zenon, <1>2, <2>2, ReadyForms
  <2>3. CASE bus' = [Ready(b, known) EXCEPT ![b].loop = "failed", ![b].failure = failure]
    BY Zenon, <1>2, <2>3, ReadyForms
  <2>4. CASE bus' = [Ready(b, known) EXCEPT ![b].loop = "failed", ![b].failure = "gone"]
    BY Zenon, <1>2, <2>4, ReadyForms
  <2>. QED BY <1>5, <2>1, <2>2, <2>3, <2>4
<1>9. Applies(b, p) BY Zenon, <1>6, <1>7, <1>8 DEF Applies
<1>. QED BY <1>1, <1>3, <1>4, <1>9, ApplySays

LEMMA NixnetApplySays ==
  ASSUME SendInv, Typed, LockOK, NEW b \in Buses, ItemsOK(b), NixnetApply(b)
  PROVE  SendInv'
<1>. DEFINE p == Head(bus[b].items)
            o == NixnetDecode(b, p)
<1>1. bus[b].loop = "apply" /\ UNCHANGED <<scenario, left, lifecycle, call>> /\ Record(o.events)
  BY Zenon DEF NixnetApply
<1>2. p \in Packets BY <1>1, FirstItem
<1>3. Receives(o.events, b, p) BY <1>2, DecodedEvents
<1>4. PICK known, mu, failure, place : \E items \in {<<>>, Tail(bus[b].items)} :
        bus' = [bus EXCEPT ![b].known = known, ![b].items = items, ![b].ioMu = mu,
                           ![b].failure = failure, ![b].loop = place]
  BY ZenonT(40) DEF NixnetApply
<1>. HIDE DEF o
<1>5. bus \in [Buses -> BusRecords] /\ bus[b] \in BusRecords BY DEF Typed
<1>6. PICK items \in {<<>>, Tail(bus[b].items)} :
        bus' = [bus EXCEPT ![b].known = known, ![b].items = items, ![b].ioMu = mu,
                           ![b].failure = failure, ![b].loop = place]
  BY Zenon, <1>4
<1>7. Has(b, bus[b].queue, items) BY <1>5, <1>6 DEF Has, OnlyBus, BusRecords
<1>8. Applies(b, p) BY Zenon, <1>7 DEF Applies
<1>. QED BY <1>1, <1>3, <1>8, ApplySays

\* The receive goroutine records answers after what they answer.
LEMMA LoopSays ==
  ASSUME SendInv, Typed, LockOK, NEW b \in Buses, ItemsOK(b), Loop(b)
  PROVE  SendInv'
<1>1. CASE SocketApply(b) \/ PcanApply(b) \/ VectorApply(b) \/ NixnetApply(b)
  BY <1>1, SocketApplySays, PcanApplySays, VectorApplySays, NixnetApplySays
<1>2. CASE \/ SocketWait(b) \/ WindowsWait(b) \/ SocketReceive(b) \/ WindowsReceive(b)
           \/ RequestChipState(b) \/ LoopFailed(b)
           \/ NixnetPoll(b) \/ NixnetRead(b) \/ NixnetPublish(b) \/ NixnetCheck(b)
  <2>1. Unheard
    BY <1>2, WaitUnheard, ReceiveUnheard, RequestUnheard, NixnetUnheard, FailedUnheard
  <2>. QED BY <2>1, SilentStep DEF Unheard
<1>. QED BY <1>1, <1>2 DEF Loop

-----------------------------------------------------------------------------
(* Everything else is unheard, but the answers of the network.             *)

LEMMA OpenForms ==
  ASSUME Typed, NEW b \in Buses, NEW v, NEW w, NEW x, NEW y
  PROVE  /\ bus' = [bus EXCEPT ![b].opener = v] => Has(b, bus[b].queue, bus[b].items)
         /\ bus' = [bus EXCEPT ![b].closer = v] => Has(b, bus[b].queue, bus[b].items)
         /\ bus' = [bus EXCEPT ![b].due = v] => Has(b, bus[b].queue, bus[b].items)
         /\ bus' = [bus EXCEPT ![b].loop = v] => Has(b, bus[b].queue, bus[b].items)
         /\ bus' = [bus EXCEPT ![b].controller = v] => Has(b, bus[b].queue, bus[b].items)
         /\ bus' = [bus EXCEPT ![b].opener = v, ![b].held = w] => Has(b, bus[b].queue, bus[b].items)
         /\ bus' = [bus EXCEPT ![b].opener = v, ![b].loop = w] => Has(b, bus[b].queue, bus[b].items)
         /\ bus' = [bus EXCEPT ![b].opener = v, ![b].loop = w, ![b].held = x] => Has(b, bus[b].queue, bus[b].items)
         /\ bus' = [bus EXCEPT ![b].opener = v, ![b].held = w, ![b].generation = x, ![b].watcher = y]
              => Has(b, bus[b].queue, bus[b].items)
         /\ bus' = [bus EXCEPT ![b].loop = v, ![b].held = w, ![b].queue = x] => Has(b, x, bus[b].items)
         /\ bus' = [bus EXCEPT ![b].opener = v, ![b].loop = w, ![b].queue = x, ![b].signal = y]
              => Has(b, x, bus[b].items)
<1>1. bus \in [Buses -> BusRecords] /\ bus[b] \in BusRecords BY DEF Typed
<1>2. /\ bus' = [bus EXCEPT ![b].opener = v] => Has(b, bus[b].queue, bus[b].items)
      /\ bus' = [bus EXCEPT ![b].closer = v] => Has(b, bus[b].queue, bus[b].items)
      /\ bus' = [bus EXCEPT ![b].due = v] => Has(b, bus[b].queue, bus[b].items)
      /\ bus' = [bus EXCEPT ![b].loop = v] => Has(b, bus[b].queue, bus[b].items)
      /\ bus' = [bus EXCEPT ![b].controller = v] => Has(b, bus[b].queue, bus[b].items)
  BY <1>1 DEF Has, OnlyBus, BusRecords
<1>3. bus' = [bus EXCEPT ![b].opener = v, ![b].held = w] => Has(b, bus[b].queue, bus[b].items)
  BY <1>1 DEF Has, OnlyBus, BusRecords
<1>4. bus' = [bus EXCEPT ![b].opener = v, ![b].loop = w] => Has(b, bus[b].queue, bus[b].items)
  BY <1>1 DEF Has, OnlyBus, BusRecords
<1>5. bus' = [bus EXCEPT ![b].opener = v, ![b].loop = w, ![b].held = x] => Has(b, bus[b].queue, bus[b].items)
  BY <1>1 DEF Has, OnlyBus, BusRecords
<1>6. bus' = [bus EXCEPT ![b].opener = v, ![b].held = w, ![b].generation = x, ![b].watcher = y]
        => Has(b, bus[b].queue, bus[b].items)
  BY <1>1 DEF Has, OnlyBus, BusRecords
<1>7. bus' = [bus EXCEPT ![b].loop = v, ![b].held = w, ![b].queue = x] => Has(b, x, bus[b].items)
  BY <1>1 DEF Has, OnlyBus, BusRecords
<1>8. bus' = [bus EXCEPT ![b].opener = v, ![b].loop = w, ![b].queue = x, ![b].signal = y]
        => Has(b, x, bus[b].items)
  BY <1>1 DEF Has, OnlyBus, BusRecords
<1>. QED BY Zenon, <1>2, <1>3, <1>4, <1>5, <1>6, <1>7, <1>8

LEMMA UntouchedSays ==
  ASSUME SendInv, Typed, LockOK, NEW b \in Buses, Untouched(b)
  PROVE  SendInv'
<1>1. Deaf BY HasSame DEF Untouched
<1>2. ErrKept BY StopKeepsErr DEF Untouched, ErrKept, Stopping
<1>. QED BY <1>1, <1>2, FaultForeign, SilentStep DEF Untouched

LEMMA OpeningHas ==
  ASSUME Typed, NEW b \in Buses, NEW from, NEW to, NEW got, Opening(b, from, to, got)
  PROVE  Has(b, bus[b].queue, bus[b].items)
<1>. DEFINE held == bus[b].held \union got
<1>1. bus' = [bus EXCEPT ![b].opener = to, ![b].held = held] BY DEF Opening
<1>. HIDE DEF held
<1>. QED BY Zenon, <1>1, OpenForms

LEMMA SocketOpenUntouched ==
  ASSUME Typed, NEW b \in Buses, SocketOpen(b)
  PROVE  Untouched(b)
<1>1. /\ \/ \E v, w : bus' = [bus EXCEPT ![b].opener = v, ![b].held = w]
         \/ \E v, w : bus' = [bus EXCEPT ![b].opener = v, ![b].loop = w]
      /\ UNCHANGED <<scenario, lifecycle, call, log>>
      /\ UNCHANGED left \/ left' = [left EXCEPT !.faults = @ - 1]
  BY Zenon DEF SocketOpen, Opening, OpenFault
<1>. QED BY Zenon, <1>1, OpenForms DEF Untouched

LEMMA NixnetOpenUntouched ==
  ASSUME Typed, NEW b \in Buses, NixnetOpen(b)
  PROVE  Untouched(b)
<1>. DEFINE held == bus[b].held \union {Channel}
<1>1. /\ \/ \E from, to, got : Opening(b, from, to, got)
         \/ bus' = [bus EXCEPT ![b].opener = "failed", ![b].held = {}]
         \/ bus' = [bus EXCEPT ![b].opener = "opened", ![b].loop = "poll", ![b].held = held]
      /\ UNCHANGED <<scenario, lifecycle, call, log>>
      /\ UNCHANGED left \/ left' = [left EXCEPT !.faults = @ - 1]
  BY DEF NixnetOpen, OpenFault
<1>. HIDE DEF held
<1>2. Has(b, bus[b].queue, bus[b].items)
  <2>1. ASSUME NEW from, NEW to, NEW got, Opening(b, from, to, got)
        PROVE  Has(b, bus[b].queue, bus[b].items)
    BY <2>1, OpeningHas
  <2>2. CASE bus' = [bus EXCEPT ![b].opener = "failed", ![b].held = {}] BY Zenon, <2>2, OpenForms
  <2>3. CASE bus' = [bus EXCEPT ![b].opener = "opened", ![b].loop = "poll", ![b].held = held]
    BY Zenon, <2>3, OpenForms
  <2>. QED BY <1>1, <2>1, <2>2, <2>3
<1>. QED BY <1>1, <1>2 DEF Untouched

LEMMA VectorOpenSays ==
  ASSUME SendInv, Typed, LockOK, NEW b \in Buses, VectorOpen(b)
  PROVE  SendInv'
<1>. DEFINE q == Packet("state", bus[b].controller)
<1>1. UNCHANGED <<scenario, left, lifecycle, call, log>> BY DEF VectorOpen
<1>. DEFINE queue == Append(bus[b].queue, q)
<1>2. \/ \E from, to, got : Opening(b, from, to, got)
      \/ bus' = [bus EXCEPT ![b].opener = "opened", ![b].loop = "wait",
                            ![b].queue = queue, ![b].signal = TRUE]
  BY DEF VectorOpen
<1>3. q \in Packets /\ q.kind # "frame"
  <2>1. bus[b].controller \in States BY BusTyped
  <2>. QED BY <2>1 DEF Packet, Packets, PacketKinds, Values
<1>. HIDE DEF q, queue
<1>4. Has(b, bus[b].queue, bus[b].items) \/ Has(b, queue, bus[b].items)
  <2>1. ASSUME NEW from, NEW to, NEW got, Opening(b, from, to, got)
        PROVE  Has(b, bus[b].queue, bus[b].items)
    BY <2>1, OpeningHas
  <2>2. ASSUME bus' = [bus EXCEPT ![b].opener = "opened", ![b].loop = "wait",
                                  ![b].queue = queue, ![b].signal = TRUE]
        PROVE  Has(b, queue, bus[b].items)
    BY Zenon, <2>2, OpenForms
  <2>. QED BY <1>2, <2>1, <2>2
<1>5. Deaf BY <1>3, <1>4, HasSame, StateQueued DEF queue
<1>. QED BY <1>1, <1>5, FaultForeign, SilentStep DEF ErrKept, Stopping

LEMMA VectorOthersUntouched ==
  ASSUME Typed, NEW b \in Buses, VectorOpenRefused(b) \/ VectorOpenFails(b) \/ VectorOpenUndo(b)
  PROVE  Untouched(b)
<1>1. /\ \/ \E v, w : bus' = [bus EXCEPT ![b].opener = v, ![b].held = w]
         \/ \E v : bus' = [bus EXCEPT ![b].opener = v]
      /\ UNCHANGED <<scenario, lifecycle, call, log>>
      /\ UNCHANGED left \/ left' = [left EXCEPT !.faults = @ - 1]
  BY Zenon DEF VectorOpenRefused, VectorOpenFails, VectorOpenUndo, VectorRelease, VectorReleaseOf, OpenFault, Set
<1>. QED BY Zenon, <1>1, OpenForms DEF Untouched

LEMMA TeardownForms ==
  ASSUME Typed, NEW b \in Buses, NEW v, NEW w, NEW x,
         \/ bus' = [bus EXCEPT ![b].teardown = v, ![b].opener = w, ![b].held = x]
         \/ bus' = [bus EXCEPT ![b].teardown = v, ![b].loop = w, ![b].held = x]
  PROVE  Has(b, bus[b].queue, bus[b].items)
<1>1. bus \in [Buses -> BusRecords] /\ bus[b] \in BusRecords BY DEF Typed
<1>2. CASE bus' = [bus EXCEPT ![b].teardown = v, ![b].opener = w, ![b].held = x]
  BY <1>1, <1>2 DEF Has, OnlyBus, BusRecords
<1>3. CASE bus' = [bus EXCEPT ![b].teardown = v, ![b].loop = w, ![b].held = x]
  BY <1>1, <1>3 DEF Has, OnlyBus, BusRecords
<1>. QED BY <1>2, <1>3

LEMMA TearsDownHas ==
  ASSUME Typed, NEW b \in Buses, NEW place \in {"opener", "loop"}, NEW next, NEW held,
         bus' = [TearsDown(b, place, next) EXCEPT ![b].held = held]
  PROVE  Has(b, bus[b].queue, bus[b].items)
<1>. DEFINE w == Detached
            to == IF w = 0 THEN next ELSE "teardown"
<1>1. bus' = [bus EXCEPT ![b].teardown = w, ![b].opener = to, ![b].held = held]
      \/ bus' = [bus EXCEPT ![b].teardown = w, ![b].loop = to, ![b].held = held]
  BY Zenon DEF TearsDown
<1>. HIDE DEF w, to
<1>. QED BY Zenon, <1>1, TeardownForms

LEMMA PcanOpenUntouched ==
  ASSUME Typed, NEW b \in Buses,
         PcanHold(b) \/ PcanInitialize(b) \/ PcanInventory(b) \/ PcanBind(b)
  PROVE  Untouched(b)
<1>1. UNCHANGED <<scenario, lifecycle, call, log>>
  BY DEF PcanHold, PcanInitialize, PcanInventory, PcanBind
<1>2. UNCHANGED left \/ left' = [left EXCEPT !.faults = @ - 1]
  BY DEF PcanHold, PcanInitialize, PcanInventory, PcanBind, OpenFault
<1>3. CASE PcanHold(b)
  <2>. DEFINE watcher == monitor'.watcher
              generation == monitor.generation
              held == {"hold"}
  <2>1. bus' = [bus EXCEPT ![b].opener = "initialize", ![b].held = held,
                           ![b].generation = generation, ![b].watcher = watcher]
    BY <1>3 DEF PcanHold
  <2>. HIDE DEF watcher, generation, held
  <2>2. Has(b, bus[b].queue, bus[b].items) BY Zenon, <2>1, OpenForms
  <2>. QED BY <1>1, <1>2, <2>2 DEF Untouched
<1>4. CASE PcanInitialize(b) \/ PcanInventory(b)
  <2>1. (\E from, to, got : Opening(b, from, to, got)) \/ PcanRelease(b)
    BY <1>4 DEF PcanInitialize, PcanInventory
  <2>2. Has(b, bus[b].queue, bus[b].items) BY <2>1, OpeningHas, TearsDownHas DEF PcanRelease
  <2>. QED BY <1>1, <1>2, <2>2 DEF Untouched
<1>5. CASE PcanBind(b)
  <2>. DEFINE held == (bus[b].held \ {"hold"}) \union {"subscription"}
              rest == bus[b].held \ {"hold"}
  <2>1. \/ bus' = [bus EXCEPT ![b].opener = "settle", ![b].loop = "wait", ![b].held = held]
        \/ bus' = [TearsDown(b, "opener", "refused") EXCEPT ![b].held = @ \ {"hold"}]
    BY <1>5 DEF PcanBind
  <2>2. CASE bus' = [bus EXCEPT ![b].opener = "settle", ![b].loop = "wait", ![b].held = held]
    <3>. HIDE DEF held
    <3>1. Has(b, bus[b].queue, bus[b].items) BY Zenon, <2>2, OpenForms
    <3>. QED BY <1>1, <1>2, <3>1 DEF Untouched
  <2>3. CASE bus' = [TearsDown(b, "opener", "refused") EXCEPT ![b].held = @ \ {"hold"}]
    <3>1. PICK gone : bus' = [TearsDown(b, "opener", "refused") EXCEPT ![b].held = gone] BY Zenon, <2>3
    <3>2. Has(b, bus[b].queue, bus[b].items) BY <3>1, TearsDownHas
    <3>. QED BY <1>1, <1>2, <3>2 DEF Untouched
  <2>. QED BY <2>1, <2>2, <2>3
<1>. QED BY <1>3, <1>4, <1>5

LEMMA PcanEndUntouched ==
  ASSUME Typed, NEW b \in Buses, PcanRefused(b) \/ PcanSettle(b) \/ PcanSettleClosed(b)
  PROVE  Untouched(b)
<1>1. /\ \/ \E v, w : bus' = [bus EXCEPT ![b].opener = v, ![b].held = w]
         \/ \E v : bus' = [bus EXCEPT ![b].opener = v]
      /\ UNCHANGED <<scenario, call, log>>
      /\ UNCHANGED lifecycle \/ (\E e : Stop(b, e))
      /\ UNCHANGED left \/ left' = [left EXCEPT !.faults = @ - 1]
  BY DEF PcanRefused, PcanSettle, PcanSettleClosed, OpenFault, Set
<1>. QED BY Zenon, <1>1, OpenForms DEF Untouched

LEMMA OpenSays ==
  ASSUME SendInv, Typed, LockOK, NEW b \in Buses, Open(b)
  PROVE  SendInv'
  BY SocketOpenUntouched, NixnetOpenUntouched, VectorOpenSays, VectorOthersUntouched,
     PcanOpenUntouched, PcanEndUntouched, UntouchedSays DEF Open

\* The end of a bus, and the clock.
LEMMA EndSays ==
  ASSUME SendInv, Typed, LockOK, NEW b \in Buses,
         PcanCancel(b) \/ Teardown(b) \/ Close(b) \/ CloseReturns(b)
  PROVE  SendInv'
<1>1. UNCHANGED <<scenario, left, call, log>> BY DEF PcanCancel, Teardown, Close, CloseReturns
<1>2. UNCHANGED lifecycle \/ (\E e : Stop(b, e)) BY DEF PcanCancel, Teardown, Close, CloseReturns
<1>3. CASE PcanCancel(b)
  <2>1. PICK gone : bus' = [TearsDown(b, "loop", "cleanup") EXCEPT ![b].held = gone]
    BY Zenon, <1>3 DEF PcanCancel
  <2>2. Has(b, bus[b].queue, bus[b].items) BY <2>1, TearsDownHas
  <2>. QED BY <1>1, <1>2, <2>2, UntouchedSays DEF Untouched
<1>4. CASE Teardown(b)
  <2>1. UNCHANGED bus \/ bus' = Resumed(b) BY <1>4 DEF Teardown
  <2>2. CASE UNCHANGED bus
    <3>1. Has(b, bus[b].queue, bus[b].items) BY <2>2 DEF Has, OnlyBus
    <3>. QED BY <1>1, <1>2, <3>1, UntouchedSays DEF Untouched
  <2>3. CASE bus' = Resumed(b)
    <3>1. \E v : bus' = [bus EXCEPT ![b].loop = v] \/ bus' = [bus EXCEPT ![b].opener = v]
      BY Zenon, <2>3 DEF Resumed
    <3>2. Has(b, bus[b].queue, bus[b].items) BY Zenon, <3>1, OpenForms
    <3>. QED BY <1>1, <1>2, <3>2, UntouchedSays DEF Untouched
  <2>. QED BY <2>1, <2>2, <2>3
<1>5. CASE Close(b) \/ CloseReturns(b)
  <2>1. \E v : bus' = [bus EXCEPT ![b].closer = v] BY <1>5 DEF Close, CloseReturns, Set
  <2>2. Has(b, bus[b].queue, bus[b].items) BY Zenon, <2>1, OpenForms
  <2>. QED BY <1>1, <1>2, <2>2, UntouchedSays DEF Untouched
<1>. QED BY <1>3, <1>4, <1>5

LEMMA CleanupSays ==
  ASSUME SendInv, Typed, LockOK, NEW b \in Buses, Cleanup(b)
  PROVE  SendInv'
<1>1. UNCHANGED <<scenario, call, log>> /\ MarkDone(b) BY DEF Cleanup
<1>2. bus' = [bus EXCEPT ![b].loop = "ended", ![b].held = {}, ![b].queue = <<>>] BY DEF Cleanup
<1>3. Has(b, <<>>, bus[b].items) BY Zenon, <1>2, OpenForms
<1>4. Deaf BY <1>3, HasDeaf, CarriesNone DEF Heard
<1>5. ErrKept BY <1>1, DoneKeepsErr
<1>6. UNCHANGED left \/ left' = [left EXCEPT !.faults = @ - 1] BY Zenon DEF Cleanup, VectorRelease, VectorReleaseOf
<1>. QED BY <1>1, <1>4, <1>5, <1>6, FaultForeign, SilentStep

LEMMA HealthSays ==
  ASSUME SendInv, Typed, LockOK, NEW b \in Buses, HealthTimer(b)
  PROVE  SendInv'
<1>1. UNCHANGED <<scenario, lifecycle, call, log>> BY DEF HealthTimer
<1>2. Has(b, bus[b].queue, bus[b].items)
  <2>1. bus' = [bus EXCEPT ![b].due = TRUE] BY Zenon DEF HealthTimer, Set
  <2>. QED BY Zenon, <2>1, OpenForms
<1>3. left'.packets = left.packets
  <2>1. left \in Lefts BY DEF Typed
  <2>2. UNCHANGED left \/ left' = [left EXCEPT !.ticks = @ - 1] BY DEF HealthTimer
  <2>. QED BY <2>1, <2>2 DEF Lefts
<1>4. Foreign' BY <1>3 DEF SendInv, Foreign
<1>. QED BY <1>1, <1>2, <1>4, HasSame, SilentStep DEF ErrKept, Stopping

\* The device monitor, Discover, and the attached devices.
LEMMA MonitorSays ==
  ASSUME SendInv, Typed, LockOK,
         Monitoring \/ Discover \/ DiscoverEnds \/ DeviceRemoved \/ DeviceAttached
  PROVE  SendInv'
<1>1. UNCHANGED <<scenario, call, log>>
  BY DEF Monitoring, Discover, DiscoverEnds, DeviceRemoved, DeviceAttached
<1>2. ErrKept
  <2>1. UNCHANGED lifecycle \/ \E b \in Buses : \E e : Stop(b, e)
    BY Zenon DEF Monitoring, Discover, DiscoverEnds, DeviceRemoved, DeviceAttached, Run, RunEvent, RunLost,
           RunStopBus, RunEnd
  <2>. QED BY <2>1, StopKeepsErr DEF ErrKept, Stopping
<1>3. Foreign'
  <2>1. left \in Lefts BY DEF Typed
  <2>2. \/ UNCHANGED left \/ left' = [left EXCEPT !.discovers = @ - 1]
        \/ left' = [left EXCEPT !.removals = @ - 1] \/ left' = [left EXCEPT !.faults = @ - 1]
    BY Zenon DEF Monitoring, Discover, DiscoverEnds, VectorReleaseOf, DeviceRemoved, DeviceAttached
  <2>3. left'.packets = left.packets BY <2>1, <2>2 DEF Lefts
  <2>. QED BY <2>3 DEF SendInv, Foreign
<1>4. SameQueues
  <2>1. UNCHANGED bus \/ bus' = [b \in Buses |-> [bus[b] EXCEPT !.stale = @ \/ bus[b].held # {}]]
    BY DEF Monitoring, Discover, DiscoverEnds, DeviceRemoved, DeviceAttached
  <2>2. ASSUME NEW x \in Buses, bus' = [b \in Buses |-> [bus[b] EXCEPT !.stale = @ \/ bus[b].held # {}]]
        PROVE  bus'[x].queue = bus[x].queue /\ bus'[x].items = bus[x].items
    <3>1. bus[x] \in BusRecords BY BusTyped
    <3>. QED BY <2>2, <3>1 DEF BusRecords
  <2>. QED BY <2>1, <2>2 DEF SameQueues
<1>. QED BY <1>1, <1>2, <1>3, <1>4, SameQueuesDeaf, SilentStep

\* A packet reaches the native queue of b.
LEMMA QueuedHas ==
  ASSUME Typed, NEW b \in Buses, NEW p \in Packets, bus' = Queued(b, p)
  PROVE  \E q \in Packets : /\ q = p \/ q.kind # "frame"
                            /\ Has(b, Append(bus[b].queue, q), bus[b].items)
<1>. DEFINE q == IF Len(bus[b].queue) < QueueSize THEN p ELSE Packet("overrun", None)
            queue == Append(bus[b].queue, q)
            delivered == IF p.kind \in {"frame", "bad"} THEN Append(bus[b].delivered, p.of)
                         ELSE bus[b].delivered
<1>1. bus' = [bus EXCEPT ![b].queue = queue, ![b].delivered = delivered, ![b].signal = TRUE]
  BY DEF Queued
<1>2. q \in Packets /\ (q = p \/ q.kind # "frame")
  BY Zenon DEF Packet, Packets, PacketKinds, Values
<1>. HIDE DEF queue, delivered, q
<1>3. bus \in [Buses -> BusRecords] /\ bus[b] \in BusRecords BY DEF Typed
<1>4. Has(b, queue, bus[b].items) BY <1>1, <1>3 DEF Has, OnlyBus, BusRecords
<1>. QED BY <1>2, <1>4 DEF queue

LEMMA DeliverSays ==
  ASSUME SendInv, Typed, LockOK, NEW b \in Buses, Deliver(b)
  PROVE  SendInv'
<1>. DEFINE p == Head(left.packets)
<1>1. UNCHANGED <<scenario, lifecycle, call, log>> /\ bus' = Queued(b, p) BY DEF Deliver
<1>2. left \in Lefts /\ left.packets \in Seq(Packets) /\ left.packets # <<>> BY DEF Typed, Lefts, Deliver
<1>3. /\ Len(left.packets) \in Nat /\ Len(left.packets) >= 1 /\ p = left.packets[1]
      /\ p \in Packets /\ Len(Tail(left.packets)) = Len(left.packets) - 1
      /\ \A i \in 1..Len(Tail(left.packets)) : Tail(left.packets)[i] = left.packets[i + 1]
  BY <1>2, LenProperties, HeadTailProperties, EmptySeq
<1>4. Foreign'
  <2>1. left' = [left EXCEPT !.packets = Tail(left.packets)] BY DEF Deliver
  <2>2. left'.packets = Tail(left.packets) BY <1>2, <2>1 DEF Lefts
  <2>3. \A i \in 1..Len(Tail(left.packets)) : Tail(left.packets)[i].of \notin Senders
    BY <1>3 DEF SendInv, Foreign
  <2>. QED BY <2>2, <2>3 DEF Foreign
<1>5. p.of \notin Senders BY <1>3 DEF SendInv, Foreign
<1>. HIDE DEF p
<1>6. PICK q \in Packets : /\ q = p \/ q.kind # "frame"
                           /\ Has(b, Append(bus[b].queue, q), bus[b].items)
  BY <1>1, <1>3, QueuedHas
<1>7. Deaf
  <2>1. bus[b].queue \in Seq(Packets) BY BusTyped
  <2>2. \A s \in Senders : Carries(Append(bus[b].queue, q), s) => Carries(bus[b].queue, s)
    BY <1>5, <1>6, <2>1, CarriesAppend
  <2>. QED BY <1>6, <2>2, HasDeaf DEF Heard
<1>. QED BY <1>1, <1>4, <1>7, SilentStep DEF ErrKept, Stopping

LEMMA ControllerSays ==
  ASSUME SendInv, Typed, LockOK, NEW b \in Buses, ControllerChanges(b)
  PROVE  SendInv'
<1>. DEFINE state == Head(left.changes)
            p == Packet("state", state)
            q == IF Len(bus[b].queue) < QueueSize THEN p ELSE Packet("overrun", None)
            queue == Append(bus[b].queue, q)
<1>1. UNCHANGED <<scenario, lifecycle, call, log>> BY DEF ControllerChanges
<1>2. left \in Lefts /\ left.changes \in Seq(States) /\ left.changes # <<>>
  BY DEF Typed, Lefts, ControllerChanges
<1>3. state \in States BY <1>2, HeadTailProperties
<1>4. q \in Packets /\ q.kind # "frame" BY <1>3 DEF Packet, Packets, PacketKinds, Values
<1>5. bus' = [Queued(b, p) EXCEPT ![b].controller = state] \/ bus' = [bus EXCEPT ![b].controller = state]
  BY DEF ControllerChanges
<1>6. Foreign'
  <2>1. left'.packets = left.packets BY <1>2 DEF ControllerChanges, Lefts
  <2>. QED BY <2>1 DEF SendInv, Foreign
<1>7. bus \in [Buses -> BusRecords] /\ bus[b] \in BusRecords BY DEF Typed
<1>8. CASE bus' = [bus EXCEPT ![b].controller = state]
  <2>1. Has(b, bus[b].queue, bus[b].items) BY Zenon, <1>8, OpenForms
  <2>. QED BY <1>1, <1>6, <2>1, HasSame, SilentStep DEF ErrKept, Stopping
<1>9. CASE bus' = [Queued(b, p) EXCEPT ![b].controller = state]
  <2>1. PICK delivered : bus' = [bus EXCEPT ![b].queue = queue, ![b].delivered = delivered,
                                            ![b].signal = TRUE, ![b].controller = state]
    BY Zenon, <1>9 DEF Queued
  <2>. HIDE DEF queue, state, q
  <2>2. Has(b, queue, bus[b].items) BY <1>7, <2>1 DEF Has, OnlyBus, BusRecords
  <2>3. Deaf BY <1>4, <2>2, StateQueued DEF queue
  <2>. QED BY <1>1, <1>6, <2>3, SilentStep DEF ErrKept, Stopping
<1>. QED BY <1>5, <1>8, <1>9

\* An answer reaches the bus of the call that was accepted there.
LEMMA AnswerSays ==
  ASSUME SendInv, Typed, LockOK, NEW s \in Senders, Answer(s)
  PROVE  SendInv'
<1>. DEFINE p == Packet("frame", s)
<1>1. PICK b \in Buses : b = call[s].on BY DEF Answer, LockOK
<1>2. call[s].accepted /\ UNCHANGED <<scenario, lifecycle, call, log>> /\ bus' = Queued(b, p)
  BY <1>1 DEF Answer
<1>3. p \in Packets /\ p.of = s BY DEF Packet, Packets, PacketKinds, Values
<1>. HIDE DEF p
<1>4. PICK q \in Packets : /\ q = p \/ q.kind # "frame"
                           /\ Has(b, Append(bus[b].queue, q), bus[b].items)
  BY <1>2, <1>3, QueuedHas
<1>5. ASSUME NEW x \in Buses, NEW t \in Senders, Heard(x, t)' PROVE call[t].accepted /\ call[t].on = x
  <2>1. Carries(bus'[x].queue, t) \/ Carries(bus'[x].items, t) BY <1>5 DEF Heard, Carries
  <2>2. CASE x # b
    <3>1. Heard(x, t) BY <1>4, <2>1, <2>2 DEF Has, OnlyBus, Heard
    <3>. QED BY <3>1 DEF SendInv, AnswerInv
  <2>3. CASE x = b
    <3>1. Carries(Append(bus[b].queue, q), t) \/ Carries(bus[b].items, t) BY Zenon, <1>4, <2>1, <2>3 DEF Has
    <3>2. bus[b].queue \in Seq(Packets) BY BusTyped
    <3>3. Heard(b, t) \/ t = s BY <1>3, <1>4, <3>1, <3>2, CarriesAppend DEF Heard
    <3>. QED BY <1>1, <1>2, <2>3, <3>3 DEF SendInv, AnswerInv
  <2>. QED BY <2>2, <2>3
<1>6. AnswerInv' BY <1>2, <1>5 DEF AnswerInv
<1>7. LogInv' /\ TransmitFirst' BY <1>2 DEF SendInv, LogInv, TransmitFirst
<1>8. ASSUME NEW t \in Senders PROVE CallInv(t)'
  <2>1. CallInv(t) /\ (Transmitted(t)' <=> Transmitted(t)) BY <1>2 DEF SendInv, Transmitted
  <2>. QED BY <1>2, <2>1 DEF CallInv, Stopping
<1>9. Foreign'
  <2>1. left \in Lefts BY DEF Typed
  <2>2. left'.packets = left.packets BY <2>1 DEF Answer, Lefts
  <2>. QED BY <2>2 DEF SendInv, Foreign
<1>. QED BY <1>6, <1>7, <1>8, <1>9 DEF SendInv

LEMMA InitSays ==
  ASSUME Init
  PROVE  SendInv
<1>1. scenario \in Scenarios /\ left = scenario.budget /\ log = <<>> BY DEF Init
<1>2. ScenarioOK(scenario) BY <1>1, NativeAssumption
<1>3. LogInv BY <1>1, <1>2 DEF LogInv, ScenarioOK
<1>4. Foreign
  <2>1. left.packets \in Seq([kind : PacketKinds, of : Names(scenario)])
    BY <1>1, <1>2 DEF ScenarioOK
  <2>2. \A i \in 1..Len(left.packets) : left.packets[i].of \in Names(scenario)
    <3>1. \A i \in 1..Len(left.packets) : left.packets[i] \in [kind : PacketKinds, of : Names(scenario)]
      BY Zenon, <2>1, ElementOfSeq
    <3>. QED BY <3>1
  <2>. QED BY <1>2, <2>2 DEF Foreign, ScenarioOK
<1>5. \A s \in Senders : call[s].pc = "idle" /\ ~call[s].accepted BY DEF Init, NewCall
<1>6. \A s : ~Transmitted(s) BY <1>1 DEF Transmitted
<1>7. \A s \in Senders : CallInv(s) BY <1>5, <1>6 DEF CallInv
<1>8. \A b \in Buses : bus[b].queue = <<>> /\ bus[b].items = <<>> BY Zenon DEF Init, NewBus
<1>9. AnswerInv BY <1>8, CarriesNone DEF AnswerInv, Heard
<1>10. TransmitFirst BY <1>1 DEF TransmitFirst
<1>. QED BY <1>3, <1>4, <1>7, <1>9, <1>10 DEF SendInv

LEMMA NextSays ==
  ASSUME SendInv, IInv, [Next]_vars
  PROVE  SendInv'
<1>1. Typed /\ LockOK /\ \A b \in Buses : ItemsOK(b) BY DEF IInv, BusInv
<1>2. ASSUME NEW b \in Buses,
             \/ Loop(b) \/ Open(b) \/ Cleanup(b) \/ HealthTimer(b) \/ Deliver(b) \/ ControllerChanges(b)
             \/ PcanCancel(b) \/ Teardown(b) \/ Close(b) \/ CloseReturns(b)
      PROVE  SendInv'
  BY <1>1, <1>2, LoopSays, OpenSays, EndSays, CleanupSays, HealthSays, DeliverSays, ControllerSays
<1>3. ASSUME NEW s \in Senders, Sending(s) \/ Answer(s)
      PROVE  SendInv'
  <2>1. scenario.capacity \in Nat BY Zenon, <1>1, NativeAssumption DEF Typed, ScenarioOK
  <2>. QED BY <1>1, <1>3, <2>1, SendLockSays, SendCanceledSays, NativeAcceptsSays, NativeRefusesSays,
              SendRecordSays, AnswerSays DEF Sending
<1>4. ASSUME NEW s \in scenario.senders, NEW b \in Buses, SendCall(s, b)
      PROVE  SendInv'
  <2>1. s \in Senders BY Zenon, <1>1, NativeAssumption DEF Typed, ScenarioOK
  <2>. QED BY <1>1, <1>4, <2>1, SendCallSays
<1>5. CASE Monitoring \/ Discover \/ DiscoverEnds \/ DeviceRemoved \/ DeviceAttached
  BY <1>1, <1>5, MonitorSays
<1>6. CASE UNCHANGED vars
  <2>1. UNCHANGED <<scenario, left, lifecycle, bus, call, log>> BY <1>6 DEF vars
  <2>2. Deaf /\ ErrKept /\ Foreign'
    BY <1>1, <2>1, SameQueuesDeaf, FaultForeign DEF SameQueues, ErrKept, Stopping
  <2>. QED BY <1>1, <2>1, <2>2, SilentStep
<1>. QED BY <1>2, <1>3, <1>4, <1>5, <1>6 DEF Next, Progress

LEMMA SendFollows ==
  ASSUME SendInv, IInv
  PROVE  SendExact
<1>1. ASSUME NEW s \in Senders, call[s].pc = "returned"
      PROVE  LET recorded == \E i \in DOMAIN log : log[i].kind = "TX" /\ log[i].of = s IN
               /\ recorded <=> call[s].result = "nil"
               /\ recorded => call[s].accepted
               /\ call[s].accepted /\ ~recorded =>
                    call[s].result = "capture" /\ Stopping(call[s].on) /\ lifecycle[call[s].on].err # None
  <2>1. CallInv(s) BY DEF SendInv
  <2>. QED BY <1>1, <2>1 DEF CallInv, Transmitted
<1>2. AcceptanceDefinite BY <1>1 DEF AcceptanceDefinite
<1>. QED BY <1>2 DEF SendInv, SendExact

\* Send of every driver, whatever its callers, the network and the capture do:
\* it returns nil exactly for a frame that was taken and recorded, a frame that
\* was taken and not recorded has stopped its bus, and no answer is recorded
\* before the frame it answers.
THEOREM SendAlwaysExact == Spec => []SendExact
<1>1. SendInv /\ IInv /\ [Next]_vars => SendInv' BY NextSays
<1>2. Init => SendInv BY InitSays
<1>3. SendInv /\ IInv => SendExact BY SendFollows
<1>. QED BY <1>1, <1>2, <1>3, NativeInvariant, PTL DEF Spec

-----------------------------------------------------------------------------
(* What is received and what is reported.                                  *)

\* A packet arrives, with the delivery that stands behind it.
LEMMA FollowsAppend ==
  ASSUME NEW s \in Seq(Packets), NEW q \in Packets, NEW r \in Nat,
         NEW d \in Seq(Values), NEW e \in Seq(Values), Follows(s, r, d), Longer(d, e),
         Counted(q) => Len(e) = Len(d) + 1 /\ e[Len(e)] = q.of,
         ~Counted(q) /\ ~Lost(q) => Len(e) = Len(d)
  PROVE  Follows(Append(s, q), r, e)
<1>. DEFINE n == Len(s)
            t == Append(s, q)
            one == IF Counted(q) THEN 1 ELSE 0
<1>1. n \in Nat /\ Len(d) \in Nat /\ Len(e) \in Nat /\ one \in Nat BY LenProperties
<1>2. Len(t) = n + 1 /\ t[n + 1] = q /\ \A k \in 1..n : t[k] = s[k] BY AppendProperties
<1>3. PICK place \in [0..n -> Nat] : Stands(place, s, r, d) BY DEF Follows
<1>. DEFINE next == [k \in 0..n + 1 |-> IF k = n + 1 THEN place[n] + one ELSE place[k]]
<1>. HIDE DEF n, t, one
<1>4. next \in [0..n + 1 -> Nat] BY <1>1
<1>5. next[n + 1] = place[n] + one /\ \A k \in 0..n : next[k] = place[k] BY <1>1
<1>. HIDE DEF next
<1>6. next[0] = r BY <1>1, <1>3, <1>5 DEF Stands
<1>7. ASSUME NEW k \in 1..n + 1
      PROVE  next[k] = next[k - 1] + (IF Counted(t[k]) THEN 1 ELSE 0)
  <2>1. CASE k = n + 1 BY <1>1, <1>2, <1>5, <2>1 DEF one
  <2>2. CASE k # n + 1
    <3>1. k \in 1..n /\ k \in 0..n /\ k - 1 \in 0..n BY <1>1, <2>2
    <3>2. place[k] = place[k - 1] + (IF Counted(s[k]) THEN 1 ELSE 0) BY <1>3, <3>1 DEF Stands, n
    <3>. QED BY <1>2, <1>5, <3>1, <3>2
  <2>. QED BY <2>1, <2>2
<1>8. ASSUME \A j \in 1..n : ~Lost(t[j])
      PROVE  place[n] = Len(d)
  <2>1. \A j \in 1..n : ~Lost(s[j]) BY <1>2, <1>8
  <2>. QED BY <1>3, <2>1 DEF Stands, n
<1>9. ASSUME NEW k \in 1..n + 1, Counted(t[k]), \A j \in 1..k : ~Lost(t[j])
      PROVE  next[k] \in 1..Len(e) /\ e[next[k]] = t[k].of
  <2>1. CASE k = n + 1
    <3>1. \A j \in 1..n : ~Lost(t[j]) BY <1>1, <1>9, <2>1
    <3>2. next[k] = Len(d) + 1 /\ Counted(q) BY <1>2, <1>5, <1>8, <1>9, <2>1, <3>1 DEF one
    <3>. QED BY <1>1, <1>2, <2>1, <3>2
  <2>2. CASE k # n + 1
    <3>1. k \in 1..n /\ k \in 0..n BY <1>1, <2>2
    <3>2. Counted(s[k]) /\ t[k] = s[k] BY <1>2, <1>9, <3>1
    <3>3. \A j \in 1..k : ~Lost(s[j])
      <4>1. \A j \in 1..k : j \in 1..n BY <1>1, <3>1
      <4>. QED BY <1>2, <1>9, <4>1
    <3>4. place[k] \in 1..Len(d) /\ d[place[k]] = s[k].of BY <1>3, <3>1, <3>2, <3>3 DEF Stands, n
    <3>5. next[k] = place[k] BY <1>5, <3>1
    <3>. QED BY <1>1, <3>2, <3>4, <3>5 DEF Longer
  <2>. QED BY <2>1, <2>2
<1>10. ASSUME \A j \in 1..n + 1 : ~Lost(t[j])
       PROVE  next[n + 1] = Len(e)
  <2>1. ~Lost(q) /\ \A j \in 1..n : ~Lost(t[j]) BY <1>1, <1>2, <1>10
  <2>. QED BY <1>1, <1>5, <1>8, <2>1 DEF one
<1>11. Stands(next, t, r, e) BY <1>2, <1>6, <1>7, <1>9, <1>10 DEF Stands
<1>. QED BY <1>2, <1>4, <1>11 DEF Follows, t

\* A packet that no delivery stands behind comes first.
LEMMA FollowsFront ==
  ASSUME NEW s \in Seq(Packets), NEW q \in Packets, NEW r \in Nat, NEW d \in Seq(Values),
         Follows(s, r, d), ~Counted(q), ~Lost(q)
  PROVE  Follows(<<q>> \o s, r, d)
<1>. DEFINE n == Len(s)
            t == <<q>> \o s
<1>1. n \in Nat /\ Len(d) \in Nat BY LenProperties
<1>2. Len(t) = n + 1 /\ t[1] = q /\ \A k \in 2..n + 1 : t[k] = s[k - 1]
  <2>1. <<q>> \in Seq(Packets) /\ Len(<<q>>) = 1 /\ <<q>>[1] = q OBVIOUS
  <2>2. Len(t) = 1 + n /\ \A k \in 1..1 + n : t[k] = IF k <= 1 THEN <<q>>[k] ELSE s[k - 1]
    BY <2>1, ConcatProperties
  <2>. HIDE DEF n, t
  <2>. QED BY <1>1, <2>1, <2>2
<1>3. PICK place \in [0..n -> Nat] : Stands(place, s, r, d) BY DEF Follows
<1>. DEFINE next == [k \in 0..n + 1 |-> IF k = 0 THEN r ELSE place[k - 1]]
<1>. HIDE DEF n, t
<1>4. next \in [0..n + 1 -> Nat] BY <1>1
<1>5. next[0] = r /\ \A k \in 1..n + 1 : next[k] = place[k - 1] BY <1>1
<1>. HIDE DEF next
<1>6. place[0] = r BY <1>3 DEF Stands
<1>7. ASSUME NEW k \in 1..n + 1
      PROVE  next[k] = next[k - 1] + (IF Counted(t[k]) THEN 1 ELSE 0)
  <2>1. CASE k = 1 BY <1>1, <1>2, <1>5, <1>6, <2>1
  <2>2. CASE k # 1
    <3>1. k - 1 \in 1..n /\ k \in 2..n + 1 /\ k - 1 \in 1..n + 1 BY <1>1, <2>2
    <3>2. place[k - 1] = place[k - 1 - 1] + (IF Counted(s[k - 1]) THEN 1 ELSE 0)
      BY <1>3, <3>1 DEF Stands, n
    <3>. QED BY <1>2, <1>5, <3>1, <3>2
  <2>. QED BY <2>1, <2>2
<1>8. ASSUME NEW m \in 0..n, \A j \in 1..m + 1 : ~Lost(t[j])
      PROVE  \A j \in 1..m : ~Lost(s[j])
  <2>1. ASSUME NEW j \in 1..m PROVE ~Lost(s[j])
    <3>1. j + 1 \in 1..m + 1 /\ j + 1 \in 2..n + 1 BY <1>1, <1>8, <2>1
    <3>2. t[j + 1] = s[j] BY <1>1, <1>2, <3>1
    <3>. QED BY <1>8, <3>1, <3>2
  <2>. QED BY <2>1
<1>9. ASSUME NEW k \in 1..n + 1, Counted(t[k]), \A j \in 1..k : ~Lost(t[j])
      PROVE  next[k] \in 1..Len(d) /\ d[next[k]] = t[k].of
  <2>1. k \in 2..n + 1 BY <1>1, <1>2, <1>9
  <2>2. k - 1 \in 1..n /\ k - 1 \in 0..n /\ k = (k - 1) + 1 BY <1>1, <2>1
  <2>3. Counted(s[k - 1]) /\ t[k] = s[k - 1] BY <1>2, <1>9, <2>1
  <2>4. \A j \in 1..k - 1 : ~Lost(s[j]) BY <1>8, <1>9, <2>2
  <2>5. place[k - 1] \in 1..Len(d) /\ d[place[k - 1]] = s[k - 1].of
    BY <1>3, <2>2, <2>3, <2>4 DEF Stands, n
  <2>. QED BY <1>5, <2>3, <2>5
<1>10. ASSUME \A j \in 1..n + 1 : ~Lost(t[j])
       PROVE  next[n + 1] = Len(d)
  <2>1. n \in 0..n /\ n + 1 \in 1..n + 1 BY <1>1
  <2>2. \A j \in 1..n : ~Lost(s[j]) BY <1>8, <1>10, <2>1
  <2>3. place[n] = Len(d) BY <1>3, <2>2 DEF Stands, n
  <2>. QED BY <1>1, <1>5, <2>1, <2>3
<1>11. Stands(next, t, r, d) BY <1>2, <1>5, <1>7, <1>9, <1>10 DEF Stands
<1>. QED BY <1>2, <1>4, <1>11 DEF Follows, t

\* The first packet is taken: a frame is the next delivery.
LEMMA FollowsHead ==
  ASSUME NEW s \in Seq(Packets), s # <<>>, NEW r \in Nat, NEW d \in Seq(Values),
         Follows(s, r, d), ~Lost(Head(s))
  PROVE  /\ Counted(Head(s)) => r + 1 \in 1..Len(d) /\ d[r + 1] = Head(s).of
         /\ Follows(Tail(s), r + (IF Counted(Head(s)) THEN 1 ELSE 0), d)
<1>. DEFINE n == Len(s)
            t == Tail(s)
            p == Head(s)
            first == r + (IF Counted(p) THEN 1 ELSE 0)
<1>1. n \in Nat /\ n >= 1 /\ Len(d) \in Nat /\ p = s[1] BY LenProperties, EmptySeq, HeadTailProperties
<1>2. Len(t) = n - 1 /\ \A k \in 1..n - 1 : t[k] = s[k + 1] BY HeadTailProperties
<1>3. PICK place \in [0..n -> Nat] : Stands(place, s, r, d) BY DEF Follows
<1>. DEFINE next == [k \in 0..n - 1 |-> place[k + 1]]
<1>. HIDE DEF n, t, p, first
<1>4. next \in [0..n - 1 -> Nat] BY <1>1
<1>5. \A k \in 0..n - 1 : next[k] = place[k + 1] BY <1>1
<1>. HIDE DEF next
<1>6. place[1] = first /\ next[0] = first
  <2>1. 1 \in 1..n /\ 0 \in 0..n - 1 BY <1>1
  <2>2. place[1] = place[0] + (IF Counted(s[1]) THEN 1 ELSE 0) /\ place[0] = r
    <3>1. \A k \in 1..n : place[k] = place[k - 1] + (IF Counted(s[k]) THEN 1 ELSE 0)
      BY <1>3 DEF Stands, n
    <3>2. place[0] = r BY <1>3 DEF Stands
    <3>. QED BY <2>1, <3>1, <3>2
  <2>3. next[0] = place[0 + 1] BY <1>5, <2>1
  <2>. QED BY <1>1, <2>2, <2>3 DEF first
<1>7. Counted(p) => r + 1 \in 1..Len(d) /\ d[r + 1] = p.of
  <2>1. 1 \in 1..n /\ \A j \in 1..1 : ~Lost(s[j]) BY <1>1 DEF p
  <2>2. Counted(s[1]) => place[1] \in 1..Len(d) /\ d[place[1]] = s[1].of
    BY <1>3, <2>1 DEF Stands, n
  <2>. QED BY <1>1, <1>6, <2>2 DEF first
<1>8. ASSUME NEW k \in 1..n - 1
      PROVE  next[k] = next[k - 1] + (IF Counted(t[k]) THEN 1 ELSE 0)
  <2>1. k + 1 \in 1..n /\ k \in 0..n - 1 /\ k - 1 \in 0..n - 1 /\ (k + 1) - 1 = (k - 1) + 1 BY <1>1
  <2>2. place[k + 1] = place[(k + 1) - 1] + (IF Counted(s[k + 1]) THEN 1 ELSE 0)
    BY <1>3, <2>1 DEF Stands, n
  <2>. QED BY <1>2, <1>5, <2>1, <2>2
<1>9. ASSUME NEW m \in 0..n - 1, \A j \in 1..m : ~Lost(t[j])
      PROVE  \A j \in 1..m + 1 : ~Lost(s[j])
  <2>1. ASSUME NEW j \in 1..m + 1 PROVE ~Lost(s[j])
    <3>1. CASE j = 1 BY <1>1, <3>1 DEF p
    <3>2. CASE j # 1
      <4>1. j - 1 \in 1..m /\ j - 1 \in 1..n - 1 /\ (j - 1) + 1 = j BY <1>1, <1>9, <3>2
      <4>2. t[j - 1] = s[j] BY <1>2, <4>1
      <4>. QED BY <1>9, <4>1, <4>2
    <3>. QED BY <3>1, <3>2
  <2>. QED BY <2>1
<1>10. ASSUME NEW k \in 1..n - 1, Counted(t[k]), \A j \in 1..k : ~Lost(t[j])
       PROVE  next[k] \in 1..Len(d) /\ d[next[k]] = t[k].of
  <2>1. k \in 0..n - 1 /\ k + 1 \in 1..n BY <1>1
  <2>2. \A j \in 1..k + 1 : ~Lost(s[j]) BY <1>9, <1>10, <2>1
  <2>3. t[k] = s[k + 1] BY <1>2
  <2>4. place[k + 1] \in 1..Len(d) /\ d[place[k + 1]] = s[k + 1].of
    BY <1>3, <1>10, <2>1, <2>2, <2>3 DEF Stands, n
  <2>. QED BY <1>5, <2>1, <2>3, <2>4
<1>11. ASSUME \A j \in 1..n - 1 : ~Lost(t[j])
       PROVE  next[n - 1] = Len(d)
  <2>1. n - 1 \in 0..n - 1 /\ (n - 1) + 1 = n BY <1>1
  <2>2. \A j \in 1..n : ~Lost(s[j]) BY <1>9, <1>11, <2>1
  <2>3. place[n] = Len(d) BY <1>3, <2>2 DEF Stands, n
  <2>. QED BY <1>5, <2>1, <2>3
<1>12. Stands(next, t, first, d) BY <1>2, <1>6, <1>8, <1>10, <1>11 DEF Stands
<1>. QED BY <1>2, <1>4, <1>7, <1>12 DEF Follows, t, first, p

-----------------------------------------------------------------------------
(* What b's new records, if any, do to the log.                            *)

\* Nothing is recorded.
LEMMA NoRecords ==
  ASSUME LogInv, UNCHANGED <<log, scenario>>, NEW b
  PROVE  LogStep(b, <<>>)
<1>1. log \in Seq(LogEvents) /\ Len(log) \in Nat /\ Len(log) <= scenario.capacity
  BY LenProperties DEF LogInv
<1>2. Fits(<<>>) BY <1>1 DEF Fits
<1>3. <<>> \in Seq(LogEvents) /\ Len(<<>>) = 0 BY EmptySeq
<1>4. \A i \in (Len(log) + 1)..Len(log') : FALSE BY <1>1
<1>. QED BY <1>1, <1>2, <1>3, <1>4 DEF LogStep, Grows

\* The records of the log, old and new.
LEMMA LogRecords ==
  ASSUME LogInv, NEW b, NEW events, LogStep(b, events)
  PROVE  /\ Len(log) \in Nat /\ Len(log') \in Nat /\ Len(log) <= Len(log')
         /\ DOMAIN log = 1..Len(log) /\ DOMAIN log' = 1..Len(log')
         /\ \A i \in 1..Len(log) : i \in 1..Len(log') /\ log'[i] = log[i]
         /\ \A i \in 1..Len(log') : i \in 1..Len(log) \/ i \in Len(log) + 1..Len(log')
         /\ \A i \in Len(log) + 1..Len(log') :
              i \in 1..Len(log') /\ log'[i].bus = b /\ i - Len(log) \in 1..Len(events)
              /\ log'[i] = events[i - Len(log)]
<1>1. Grows(events) BY DEF LogStep
<1>2. /\ Len(log) \in Nat /\ Len(log') \in Nat
      /\ DOMAIN log = 1..Len(log) /\ DOMAIN log' = 1..Len(log')
  BY <1>1, LogKept
<1>3. /\ Len(log) <= Len(log') /\ \A i \in 1..Len(log) : log'[i] = log[i]
      /\ \A i \in Len(log) + 1..Len(log') : i - Len(log) \in 1..Len(events) /\ log'[i] = events[i - Len(log)]
  BY <1>1 DEF Grows
<1>. DEFINE m == Len(log)
            n == Len(log')
<1>4. /\ \A i \in 1..m : i \in 1..n
      /\ \A i \in 1..n : i \in 1..m \/ i \in m + 1..n
      /\ \A i \in m + 1..n : i \in 1..n
  <2>1. m \in Nat /\ n \in Nat /\ m <= n BY <1>2, <1>3
  <2>. HIDE DEF m, n
  <2>. QED BY <2>1
<1>5. \A i \in m + 1..n : log'[i].bus = b BY <1>3 DEF LogStep
<1>. QED BY <1>2, <1>3, <1>4, <1>5

LEMMA ReceptionsKept ==
  ASSUME LogInv, NEW b, NEW events, LogStep(b, events), NEW x, NEW i \in 0..Len(log)
  PROVE  Receptions(x, i)' = Receptions(x, i)
<1>1. Len(log) \in Nat /\ \A k \in 1..Len(log) : log'[k] = log[k] BY LogRecords
<1>2. \A k \in 1..i : k \in 1..Len(log) BY <1>1
<1>3. \A k \in 1..i : log'[k] = log[k] BY <1>1, <1>2
<1>. QED BY <1>3 DEF Receptions

\* A bus of which no reception is recorded.
LEMMA ReceivedSame ==
  ASSUME LogInv, NEW b, NEW events, LogStep(b, events), NEW x,
         x # b \/ \A i \in 1..Len(events) : events[i].kind # "RX"
  PROVE  Received(x)' = Received(x)
<1>. DEFINE m == Len(log)
            n == Len(log')
<1>1. /\ m \in Nat /\ n \in Nat /\ m <= n
      /\ \A k \in 1..m : k \in 1..n /\ log'[k] = log[k]
      /\ \A k \in 1..n : k \in 1..m \/ k \in m + 1..n
      /\ \A k \in m + 1..n : log'[k].bus = b /\ k - m \in 1..Len(events) /\ log'[k] = events[k - m]
  BY LogRecords
<1>2. \A k \in m + 1..n : ~(log'[k].bus = x /\ log'[k].kind = "RX") BY <1>1
<1>. HIDE DEF m, n
<1>3. {k \in 1..n : log'[k].bus = x /\ log'[k].kind = "RX"} = {k \in 1..m : log[k].bus = x /\ log[k].kind = "RX"}
  BY <1>1, <1>2
<1>. QED BY Zenon, <1>3 DEF Received, Receptions, m, n

LEMMA ReceptionsFinite ==
  ASSUME NEW x, NEW n \in Nat
  PROVE  IsFiniteSet(Receptions(x, n)) /\ Cardinality(Receptions(x, n)) \in Nat
<1>1. IsFiniteSet(1..n) BY FS_Interval
<1>2. Receptions(x, n) \subseteq 1..n BY DEF Receptions
<1>. QED BY <1>1, <1>2, FS_Subset, FS_CardinalityType

\* The bus of which one reception is recorded.
LEMMA ReceivedMore ==
  ASSUME LogInv, NEW b, NEW events, LogStep(b, events), Len(events) = 1, events[1].kind = "RX",
         Len(log) < Len(log')
  PROVE  Received(b)' = Received(b) + 1 /\ Len(log') = Len(log) + 1 /\ log'[Len(log) + 1] = events[1]
<1>. DEFINE m == Len(log)
            n == Len(log')
            old == Receptions(b, m)
<1>1. /\ m \in Nat /\ n \in Nat /\ m <= n
      /\ \A k \in 1..m : log'[k] = log[k]
      /\ \A k \in m + 1..n : log'[k].bus = b /\ k - m \in 1..Len(events) /\ log'[k] = events[k - m]
  BY LogRecords
<1>2. n = m + 1
  <2>1. m < n BY DEF m, n
  <2>. HIDE DEF m, n
  <2>2. n \in m + 1..n BY <1>1, <2>1
  <2>3. n - m \in 1..1 BY <1>1, <2>2
  <2>. QED BY <1>1, <2>1, <2>3
<1>3. log'[m + 1] = events[1] /\ log'[m + 1].bus = b
  <2>. HIDE DEF m, n
  <2>1. m + 1 \in m + 1..n /\ (m + 1) - m = 1 BY <1>1, <1>2
  <2>. QED BY <1>1, <2>1
<1>4. IsFiniteSet(old) /\ Cardinality(old) \in Nat BY <1>1, ReceptionsFinite
<1>5. m + 1 \notin old BY <1>1 DEF Receptions
<1>6. {k \in 1..n : log'[k].bus = b /\ log'[k].kind = "RX"} = old \union {m + 1}
  <2>1. old = {k \in 1..m : log[k].bus = b /\ log[k].kind = "RX"} BY DEF Receptions
  <2>. HIDE DEF m, n, old
  <2>2. \A k \in 1..n : k \in 1..m \/ k = m + 1 BY <1>1, <1>2
  <2>3. \A k \in 1..m : k \in 1..n BY <1>1, <1>2
  <2>4. m + 1 \in 1..n BY <1>1, <1>2
  <2>. QED BY <1>1, <1>3, <2>1, <2>2, <2>3, <2>4
<1>7. Cardinality(old \union {m + 1}) = Cardinality(old) + 1 BY <1>4, <1>5, FS_AddElement
<1>. QED BY Zenon, <1>2, <1>3, <1>6, <1>7 DEF Received, Receptions

LEMMA NothingLost ==
  ASSUME Typed, NoSilentLoss, LogInv, NEW b \in Buses, NEW events, LogStep(b, events), Extends,
         Recorded(b, events), bus' \in [Buses -> BusRecords]
  PROVE  NoSilentLoss'
<1>1. ASSUME NEW x \in Buses, NEW i \in Receptions(x, Len(log))'
      PROVE  LET place == Cardinality(Receptions(x, i)') IN
               place <= Len(bus'[x].delivered) /\ log'[i].of = bus'[x].delivered[place]
  <2>. DEFINE d == bus[x].delivered
              e == bus'[x].delivered
              place == Cardinality(Receptions(x, i)')
  <2>1. i \in 1..Len(log') /\ log'[i].bus = x /\ log'[i].kind = "RX" BY DEF Receptions
  <2>2. d \in Seq(Values) /\ Len(d) \in Nat /\ e \in Seq(Values) /\ Len(e) \in Nat
    <3>1. d \in Seq(Values) BY BusTyped
    <3>2. e \in Seq(Values) BY DEF BusRecords
    <3>. QED BY <3>1, <3>2, LenProperties
  <2>3. Len(d) <= Len(e) /\ \A k \in 1..Len(d) : e[k] = d[k] BY DEF Extends, Longer
  <2>4. Len(log) \in Nat /\ Len(log') \in Nat BY LogRecords
  <2>5. CASE i \in 1..Len(log)
    <3>1. log'[i] = log[i] /\ i \in 0..Len(log) BY <2>4, <2>5, LogRecords
    <3>2. Receptions(x, i)' = Receptions(x, i) BY <3>1, ReceptionsKept
    <3>3. i \in Receptions(x, Len(log)) BY <2>1, <2>5, <3>1 DEF Receptions
    <3>4. place <= Len(d) /\ log[i].of = d[place] BY <3>2, <3>3 DEF NoSilentLoss
    <3>5. place \in Nat /\ place >= 1
      <4>1. i \in Nat /\ i \in Receptions(x, i) BY <2>1, <2>4, <2>5, <3>1 DEF Receptions
      <4>2. IsFiniteSet(Receptions(x, i)) /\ Cardinality(Receptions(x, i)) \in Nat BY <4>1, ReceptionsFinite
      <4>3. Cardinality(Receptions(x, i)) # 0 BY <4>1, <4>2, FS_EmptySet
      <4>. QED BY <3>2, <4>2, <4>3
    <3>6. place \in 1..Len(d) BY <2>2, <3>4, <3>5
    <3>. QED BY <2>2, <2>3, <3>1, <3>4, <3>5, <3>6
  <2>6. CASE i \in Len(log) + 1..Len(log')
    <3>1. x = b /\ i - Len(log) \in 1..Len(events) /\ log'[i] = events[i - Len(log)]
      BY <2>1, <2>6, LogRecords
    <3>2. /\ Len(events) = 1 /\ Received(b) + 1 <= Len(d) /\ d[Received(b) + 1] = events[1].of
      BY <2>1, <3>1 DEF Recorded
    <3>3. i - Len(log) = 1 /\ i = Len(log) + 1 /\ log'[i] = events[1] BY <2>4, <2>6, <3>1, <3>2
    <3>4. Received(b)' = Received(b) + 1 /\ Len(log') = Len(log) + 1
      BY <2>1, <2>4, <2>6, <3>2, <3>3, ReceivedMore
    <3>5. place = Received(b) + 1 BY <3>1, <3>3, <3>4 DEF Received
    <3>6. Received(b) \in Nat BY <2>4, ReceptionsFinite DEF Received
    <3>7. Received(b) + 1 \in 1..Len(d) BY <2>2, <3>2, <3>6
    <3>. QED BY <2>2, <2>3, <3>1, <3>2, <3>3, <3>5, <3>6, <3>7
  <2>. QED BY <2>1, <2>5, <2>6, LogRecords
<1>. QED BY <1>1 DEF NoSilentLoss

-----------------------------------------------------------------------------
(* What a step does to the buses it is not about.                          *)

LEMMA CalmFlow ==
  ASSUME NEW x \in Buses, Calm(x), StopsKept, UNCHANGED scenario
  PROVE  /\ Live(x)' => Live(x)
         /\ ReadOK(x) => ReadOK(x)'
         /\ Stream(x)' = Stream(x)
<1>1. bus'[x].items = bus[x].items /\ bus'[x].queue = bus[x].queue BY DEF Calm
<1>2. Kind' = Kind BY DEF Kind
<1>3. Stopping(x) => Stopping(x)' BY DEF StopsKept
<1>4. bus'[x].loop = bus[x].loop \/ HushedTo(x, bus'[x].loop) BY DEF Calm
<1>5. Live(x)' => Live(x) BY <1>3, <1>4 DEF Live, Busy, HushedTo
<1>6. ReadOK(x) => ReadOK(x)' BY Zenon, <1>1, <1>2, <1>4 DEF ReadOK, HushedTo
<1>. QED BY <1>1, <1>5, <1>6 DEF Stream

LEMMA CalmSilent ==
  ASSUME NEW x \in Buses, Calm(x), StopsKept, Callers, Silenced(x)
  PROVE  Silenced(x)'
<1>1. Stopping(x) /\ Stopping(x)' /\ bus[x].loop # "apply" BY DEF Silenced, StopsKept
<1>2. bus'[x].loop # "apply" BY Zenon, <1>1 DEF Calm, HushedTo
<1>3. ASSUME NEW s \in Senders, call'[s].pc \in {"writing", "accepted"}, call'[s].on = x PROVE FALSE
  BY <1>1, <1>3 DEF Callers, Silenced
<1>. QED BY <1>1, <1>2, <1>3 DEF Silenced

\* Nothing is recorded and no packet moves.
LEMMA CalmStep ==
  ASSUME ReportInv, LogInv, UNCHANGED <<log, scenario>>, StopsKept, Callers, \A x \in Buses : Calm(x)
  PROVE  ReportInv'
<1>1. Kind' = Kind BY DEF Kind
<1>2. \A x \in Buses : bus'[x].delivered = bus[x].delivered /\ bus'[x].known = bus[x].known BY DEF Calm
<1>3. \A x, i : Receptions(x, i)' = Receptions(x, i) BY DEF Receptions
<1>4. NoSilentLoss'
  <2>1. ASSUME NEW x \in Buses, NEW i \in Receptions(x, Len(log))
        PROVE  LET place == Cardinality(Receptions(x, i)) IN
                 place <= Len(bus'[x].delivered) /\ log[i].of = bus'[x].delivered[place]
    BY <1>2 DEF ReportInv, FlowInv, NoSilentLoss
  <2>. QED BY <2>1 DEF NoSilentLoss, Receptions
<1>5. FlowInv'
  <2>1. ASSUME NEW x \in Buses
        PROVE  ReadOK(x)' /\ (Live(x)' => Follows(Stream(x), Received(x), bus[x].delivered)')
    <3>1. /\ Live(x)' => Live(x)
          /\ ReadOK(x)'
          /\ Stream(x)' = Stream(x)
      BY CalmFlow DEF ReportInv, FlowInv
    <3>2. Received(x)' = Received(x) BY <1>3 DEF Received
    <3>3. Live(x) => Follows(Stream(x), Received(x), bus[x].delivered) BY DEF ReportInv, FlowInv
    <3>. QED BY <1>2, <3>1, <3>2, <3>3
  <2>. QED BY <1>4, <2>1 DEF FlowInv
<1>6. TerminalInv'
  <2>1. ASSUME NEW i \in DOMAIN log, Kind # "nixnet", Terminal(log[i])
        PROVE  Silenced(log[i].bus)'
    <3>1. PICK x : x = log[i].bus OBVIOUS
    <3>2. log[i] \in LogEvents BY ElementOfSeq, LenProperties DEF LogInv
    <3>3. x \in Buses /\ Silenced(x) BY <2>1, <3>1, <3>2 DEF LogEvents, ReportInv, TerminalInv
    <3>4. Silenced(x)' BY <3>3, CalmSilent
    <3>5. log'[i].bus = x BY <3>1
    <3>. QED BY <3>1, <3>4, <3>5
  <2>2. TerminalLast' BY <1>1 DEF ReportInv, TerminalInv, TerminalLast, Terminal
  <2>3. ASSUME NEW i \in DOMAIN log', Kind' # "nixnet", Terminal(log[i])'
        PROVE  Silenced(log[i].bus)'
    BY <1>1, <2>1, <2>3 DEF Terminal
  <2>. QED BY <2>2, <2>3 DEF TerminalInv
<1>7. StateInv'
  <2>1. StatesAreChanges' BY <1>1 DEF ReportInv, StateInv, StatesAreChanges
  <2>2. ASSUME NEW x \in Buses, Kind \in {"vector", "nixnet"}, Live(x)'
        PROVE  KnownOK(x)'
    <3>1. KnownOK(x) BY <2>2, CalmFlow DEF ReportInv, StateInv
    <3>. QED BY <1>1, <1>2, <3>1 DEF KnownOK, StateRecord
  <2>. QED BY <1>1, <2>1, <2>2 DEF StateInv
<1>. QED BY <1>5, <1>6, <1>7 DEF ReportInv

-----------------------------------------------------------------------------
(* What a step does to the bus it is about.                                *)

LEMMA FlowKept ==
  ASSUME FlowInv, Typed, LogInv, NEW b \in Buses, NEW events, ReportStep(b, events)
  PROVE  FlowInv'
<1>1. LogStep(b, events) /\ bus' \in [Buses -> BusRecords] /\ FlowStep(b, events) BY DEF ReportStep
<1>2. Extends
  <2>1. ASSUME NEW x \in Buses PROVE Longer(bus[x].delivered, bus'[x].delivered)
    <3>1. CASE x = b BY <1>1, <3>1 DEF FlowStep
    <3>2. CASE x # b
      <4>1. bus[x].delivered \in Seq(Values) /\ bus'[x].delivered = bus[x].delivered
        BY <3>2, BusTyped DEF ReportStep, Calm
      <4>2. Len(bus[x].delivered) \in Nat BY <4>1, LenProperties
      <4>. QED BY <4>1, <4>2 DEF Longer
    <3>. QED BY <3>1, <3>2
  <2>. QED BY <2>1 DEF Extends
<1>3. NoSilentLoss' BY <1>1, <1>2, NothingLost DEF FlowInv, FlowStep
<1>4. ASSUME NEW x \in Buses
      PROVE  ReadOK(x)' /\ (Live(x)' => Follows(Stream(x), Received(x), bus[x].delivered)')
  <2>1. CASE x = b BY <1>1, <2>1 DEF FlowStep
  <2>2. CASE x # b
    <3>1. Calm(x) /\ StopsKept /\ UNCHANGED scenario BY <2>2 DEF ReportStep
    <3>2. /\ Live(x)' => Live(x)
          /\ ReadOK(x)'
          /\ Stream(x)' = Stream(x)
      BY <3>1, CalmFlow DEF FlowInv
    <3>3. Received(x)' = Received(x) BY <1>1, <2>2, ReceivedSame
    <3>4. bus'[x].delivered = bus[x].delivered BY <3>1 DEF Calm
    <3>5. Live(x) => Follows(Stream(x), Received(x), bus[x].delivered) BY DEF FlowInv
    <3>. QED BY <3>2, <3>3, <3>4, <3>5
  <2>. QED BY <2>1, <2>2
<1>. QED BY <1>3, <1>4 DEF FlowInv

LEMMA TerminalKept ==
  ASSUME TerminalInv, LogInv, NEW b \in Buses, NEW events, ReportStep(b, events)
  PROVE  TerminalInv'
<1>. DEFINE m == Len(log)
            n == Len(log')
<1>1. /\ m \in Nat /\ n \in Nat /\ m <= n
      /\ DOMAIN log = 1..m /\ DOMAIN log' = 1..n
      /\ \A k \in 1..m : k \in 1..n /\ log'[k] = log[k]
      /\ \A k \in 1..n : k \in 1..m \/ k \in m + 1..n
      /\ \A k \in m + 1..n : log'[k].bus = b /\ k - m \in 1..Len(events) /\ log'[k] = events[k - m]
  BY LogRecords DEF ReportStep
<1>2. Kind' = Kind /\ TerminalStep(b, events) BY DEF ReportStep, Kind
<1>3. CASE Kind = "nixnet" BY <1>2, <1>3 DEF TerminalInv, TerminalLast
<1>4. CASE Kind # "nixnet"
  <2>. HIDE DEF m, n
  <2>1. ASSUME NEW i \in 1..m, Terminal(log[i])
        PROVE  Silenced(log[i].bus) /\ Silenced(log[i].bus)'
    <3>1. PICK x : x = log[i].bus OBVIOUS
    <3>2. log[i] \in LogEvents
      <4>1. log \in Seq(LogEvents) /\ i \in DOMAIN log BY <1>1 DEF LogInv
      <4>. QED BY <4>1, ElementOfSeq, LenProperties
    <3>3. x \in Buses /\ Silenced(x)
      <4>1. i \in DOMAIN log BY <1>1
      <4>. QED BY <1>4, <2>1, <3>1, <3>2, <4>1 DEF LogEvents, TerminalInv
    <3>4. Silenced(x)'
      <4>1. CASE x = b BY <1>2, <1>4, <3>3, <4>1 DEF TerminalStep
      <4>2. CASE x # b BY <3>3, <4>2, CalmSilent DEF ReportStep
      <4>. QED BY <4>1, <4>2
    <3>5. log'[i].bus = x BY <1>1, <3>1
    <3>. QED BY <3>1, <3>3, <3>4, <3>5
  <2>2. ASSUME NEW i \in m + 1..n, Terminal(log'[i])
        PROVE  Silenced(b)'
    <3>1. i - m \in 1..Len(events) /\ log'[i] = events[i - m] BY <1>1
    <3>2. Terminal(events[i - m]) BY <2>2, <3>1
    <3>. QED BY <1>2, <1>4, <3>1, <3>2 DEF TerminalStep
  <2>3. ASSUME NEW i \in 1..n, Terminal(log[i])'
        PROVE  Silenced(log[i].bus)'
    <3>1. CASE i \in 1..m
      <4>1. log'[i] = log[i] /\ Terminal(log[i]) BY <1>1, <2>3, <3>1 DEF Terminal
      <4>2. PICK x : x = log[i].bus OBVIOUS
      <4>. QED BY <2>1, <3>1, <4>1
    <3>2. CASE i \in m + 1..n
      <4>1. Terminal(log'[i]) BY <2>3 DEF Terminal
      <4>2. Silenced(b)' /\ log'[i].bus = b BY <1>1, <2>2, <3>2, <4>1
      <4>. QED BY <4>2
    <3>. QED BY <1>1, <3>1, <3>2
  <2>4. ASSUME NEW i \in 1..n, NEW j \in 1..n, i < j, Terminal(log[i])'
        PROVE  log'[j].bus # log'[i].bus \/ Closes(log'[i], log'[j])
    <3>1. CASE i \in 1..m /\ j \in 1..m
      <4>1. log'[i] = log[i] /\ log'[j] = log[j] /\ Terminal(log[i])
        BY <1>1, <2>4, <3>1 DEF Terminal
      <4>. QED BY <1>1, <1>4, <2>4, <3>1, <4>1 DEF TerminalInv, TerminalLast, Closes
    <3>2. CASE i \in 1..m /\ j \in m + 1..n
      <4>1. log'[i] = log[i] /\ Terminal(log[i]) BY <1>1, <2>4, <3>2 DEF Terminal
      <4>2. log'[j].bus = b /\ Len(events) # 0 BY <1>1, <3>2
      <4>3. ASSUME log[i].bus = b PROVE FALSE
        <5>1. Silenced(b) BY <2>1, <3>2, <4>1, <4>3
        <5>. QED BY <1>2, <1>4, <4>2, <5>1 DEF TerminalStep
      <4>. QED BY <4>1, <4>2, <4>3
    <3>3. CASE i \in m + 1..n
      <4>1. Terminal(log'[i]) BY <2>4 DEF Terminal
      <4>2. j \in m + 1..n BY <1>1, <2>4, <3>3
      <4>3. /\ i - m \in 1..Len(events) /\ log'[i] = events[i - m]
            /\ j - m \in 1..Len(events) /\ log'[j] = events[j - m]
        BY <1>1, <3>3, <4>2
      <4>4. i - m < j - m BY <1>1, <2>4
      <4>. QED BY <1>2, <1>4, <4>1, <4>3, <4>4 DEF TerminalStep
    <3>. QED BY <1>1, <2>4, <3>1, <3>2, <3>3
  <2>5. TerminalLast' BY <1>1, <1>2, <2>4 DEF TerminalLast, Closes
  <2>. QED BY <1>1, <2>3, <2>5 DEF TerminalInv
<1>. QED BY <1>3, <1>4

LEMMA StateKept ==
  ASSUME StateInv, LogInv, NEW b \in Buses, NEW events, ReportStep(b, events)
  PROVE  StateInv'
<1>. DEFINE m == Len(log)
            n == Len(log')
<1>1. /\ m \in Nat /\ n \in Nat /\ m <= n
      /\ DOMAIN log = 1..m /\ DOMAIN log' = 1..n
      /\ \A k \in 1..m : k \in 1..n /\ log'[k] = log[k]
      /\ \A k \in 1..n : k \in 1..m \/ k \in m + 1..n
      /\ \A k \in m + 1..n : log'[k].bus = b /\ k - m \in 1..Len(events) /\ log'[k] = events[k - m]
  BY LogRecords DEF ReportStep
<1>2. Kind' = Kind /\ StateStep(b, events) BY DEF ReportStep, Kind
<1>3. CASE Kind \notin {"vector", "nixnet"} BY <1>2, <1>3 DEF StateInv, StatesAreChanges
<1>4. CASE Kind \in {"vector", "nixnet"}
  <2>1. events \in Seq(LogEvents) /\ Len(events) \in Nat BY LenProperties DEF ReportStep, LogStep
  <2>2. ASSUME NEW x \in Buses, KnownOK(x), NEW i \in 1..m, log[i].kind = "state", log[i].bus = x,
               \A k \in i + 1..m : log[k].kind # "state" \/ log[k].bus # x
        PROVE  log[i].of = bus[x].known
    BY <1>1, <2>2 DEF KnownOK, StateRecord
  <2>3. /\ \A i \in 1..Len(events) : events[i].kind = "state" =>
             i = Len(events) /\ Live(b) /\ events[i].of # bus[b].known
        /\ Live(b)' =>
             /\ Live(b) /\ (Kind = "vector" => bus'[b].known # "busoff")
             /\ IF \E i \in 1..Len(events) : events[i].kind = "state"
                THEN n = m + Len(events) /\ bus'[b].known = events[Len(events)].of
                ELSE bus'[b].known = bus[b].known
    BY <1>2, <1>4 DEF StateStep
  <2>4. \A x \in Buses : Live(x) => KnownOK(x) BY <1>4 DEF StateInv
  <2>5. \A i, j \in 1..m :
          /\ i < j /\ log[i].kind = "state" /\ log[j].kind = "state" /\ log[i].bus = log[j].bus
          /\ \A k \in i + 1..j - 1 : log[k].kind # "state" \/ log[k].bus # log[i].bus
          => log[i].of # log[j].of
    BY <1>1, <1>4 DEF StateInv, StatesAreChanges
  <2>. HIDE DEF m, n
  <2>6. ASSUME NEW i \in 1..n, NEW j \in 1..n, i < j, log'[i].kind = "state", log'[j].kind = "state",
               log'[i].bus = log'[j].bus,
               \A k \in i + 1..j - 1 : log'[k].kind # "state" \/ log'[k].bus # log'[i].bus
        PROVE  log'[i].of # log'[j].of
    <3>1. CASE j \in 1..m
      <4>1. i \in 1..m /\ \A k \in i + 1..j - 1 : k \in 1..m BY <1>1, <2>6, <3>1
      <4>2. log'[i] = log[i] /\ log'[j] = log[j] /\ \A k \in i + 1..j - 1 : log'[k] = log[k]
        BY <1>1, <3>1, <4>1
      <4>. QED BY <2>5, <2>6, <3>1, <4>1, <4>2
    <3>2. CASE j \in m + 1..n
      <4>1. /\ j - m \in 1..Len(events) /\ log'[j] = events[j - m] /\ log'[j].bus = b
        BY <1>1, <3>2
      <4>2. j - m = Len(events) /\ Live(b) /\ log'[j].of # bus[b].known BY <2>3, <2>6, <4>1
      <4>3. i \in 1..m
        <5>1. ASSUME i \in m + 1..n PROVE FALSE
          <6>1. i - m \in 1..Len(events) /\ log'[i] = events[i - m] BY <1>1, <5>1
          <6>2. i - m = Len(events) BY <2>3, <2>6, <6>1
          <6>. QED BY <1>1, <2>1, <2>6, <4>2, <6>2
        <5>. QED BY <1>1, <5>1
      <4>4. log'[i] = log[i] /\ \A k \in i + 1..m : k \in i + 1..j - 1 /\ log'[k] = log[k]
        BY <1>1, <3>2, <4>3
      <4>5. log[i].of = bus[b].known BY <2>2, <2>4, <2>6, <4>1, <4>2, <4>3, <4>4
      <4>. QED BY <4>2, <4>4, <4>5
    <3>. QED BY <1>1, <3>1, <3>2
  <2>7. StatesAreChanges' BY <1>1, <2>6, ZenonT(40) DEF StatesAreChanges
  <2>8. ASSUME NEW x \in Buses, Live(x)', NEW i \in 1..n, log'[i].kind = "state", log'[i].bus = x,
               \A k \in i + 1..n : ~(log'[k].kind = "state" /\ log'[k].bus = x)
        PROVE  log'[i].of = bus'[x].known
    <3>1. ASSUME i \in 1..m, KnownOK(x) PROVE log'[i].of = bus[x].known
      <4>1. log'[i] = log[i] /\ \A k \in i + 1..m : k \in i + 1..n /\ log'[k] = log[k]
        BY <1>1, <3>1
      <4>. QED BY <2>2, <2>8, <3>1, <4>1
    <3>2. CASE x # b
      <4>1. Calm(x) /\ StopsKept /\ UNCHANGED scenario BY <3>2 DEF ReportStep
      <4>2. Live(x) /\ bus'[x].known = bus[x].known BY <2>8, <4>1, CalmFlow DEF Calm
      <4>3. i \in 1..m BY <1>1, <2>8, <3>2
      <4>. QED BY <2>4, <3>1, <4>2, <4>3
    <3>3. CASE x = b /\ \E k \in 1..Len(events) : events[k].kind = "state"
      <4>1. PICK k \in 1..Len(events) : events[k].kind = "state" BY <3>3
      <4>2. k = Len(events) /\ n = m + Len(events) /\ bus'[b].known = events[k].of
        BY <2>3, <2>8, <3>3, <4>1
      <4>3. n \in m + 1..n /\ n - m = k BY <1>1, <2>1, <4>1, <4>2
      <4>4. log'[n] = events[k] /\ log'[n].bus = b BY <1>1, <4>3
      <4>5. i = n BY <1>1, <2>8, <3>3, <4>1, <4>4
      <4>. QED BY <3>3, <4>2, <4>4, <4>5
    <3>4. CASE x = b /\ ~\E k \in 1..Len(events) : events[k].kind = "state"
      <4>1. Live(b) /\ bus'[b].known = bus[b].known BY <2>3, <2>8, <3>4
      <4>2. i \in 1..m BY <1>1, <2>8, <3>4
      <4>. QED BY <2>4, <3>1, <3>4, <4>1, <4>2
    <3>. QED BY <3>2, <3>3, <3>4
  <2>9. ASSUME NEW x \in Buses, Live(x)' PROVE KnownOK(x)'
    <3>1. \A i \in DOMAIN log' :
            (log'[i].kind = "state" /\ log'[i].bus = x)
            /\ (\A k \in i + 1..Len(log') : ~(log'[k].kind = "state" /\ log'[k].bus = x))
            => log'[i].of = bus'[x].known
      BY <1>1, <2>8, <2>9 DEF n
    <3>2. Kind = "vector" => bus'[x].known # "busoff"
      <4>1. CASE x = b BY <2>3, <2>9, <4>1
      <4>2. CASE x # b
        <5>1. Calm(x) /\ StopsKept /\ UNCHANGED scenario BY <4>2 DEF ReportStep
        <5>2. Live(x) /\ bus'[x].known = bus[x].known BY <2>9, <5>1, CalmFlow DEF Calm
        <5>. QED BY <2>4, <5>2 DEF KnownOK
      <4>. QED BY <4>1, <4>2
    <3>. QED BY <1>2, <3>1, <3>2 DEF KnownOK, StateRecord
  <2>. QED BY <1>2, <2>7, <2>9 DEF StateInv
<1>. QED BY <1>3, <1>4

LEMMA ReportKept ==
  ASSUME ReportInv, Typed, LogInv, NEW b \in Buses, NEW events, ReportStep(b, events)
  PROVE  ReportInv'
  BY FlowKept, TerminalKept, StateKept DEF ReportInv

-----------------------------------------------------------------------------
(* The steps that record nothing and move no packet.                       *)

LEMMA StaysForms ==
  ASSUME Typed, NEW b \in Buses, NEW v, NEW w, NEW x, NEW y
  PROVE  /\ UNCHANGED bus => Stays(b, bus[b].loop)
         /\ bus' = [bus EXCEPT ![b].opener = v] => Stays(b, bus[b].loop)
         /\ bus' = [bus EXCEPT ![b].closer = v] => Stays(b, bus[b].loop)
         /\ bus' = [bus EXCEPT ![b].due = v] => Stays(b, bus[b].loop)
         /\ bus' = [bus EXCEPT ![b].ioMu = v] => Stays(b, bus[b].loop)
         /\ bus' = [bus EXCEPT ![b].controller = v] => Stays(b, bus[b].loop)
         /\ bus' = [bus EXCEPT ![b].loop = v] => Stays(b, v)
         /\ bus' = [bus EXCEPT ![b].opener = v, ![b].held = w] => Stays(b, bus[b].loop)
         /\ bus' = [bus EXCEPT ![b].opener = v, ![b].loop = w] => Stays(b, w)
         /\ bus' = [bus EXCEPT ![b].signal = v, ![b].loop = w] => Stays(b, w)
         /\ bus' = [bus EXCEPT ![b].ioMu = v, ![b].loop = w] => Stays(b, w)
         /\ bus' = [bus EXCEPT ![b].opener = v, ![b].loop = w, ![b].held = x] => Stays(b, w)
         /\ bus' = [bus EXCEPT ![b].opener = v, ![b].held = w, ![b].generation = x, ![b].watcher = y]
              => Stays(b, bus[b].loop)
<1>1. bus \in [Buses -> BusRecords] /\ bus[b] \in BusRecords BY DEF Typed
<1>2. /\ UNCHANGED bus => Stays(b, bus[b].loop)
      /\ bus' = [bus EXCEPT ![b].opener = v] => Stays(b, bus[b].loop)
      /\ bus' = [bus EXCEPT ![b].closer = v] => Stays(b, bus[b].loop)
      /\ bus' = [bus EXCEPT ![b].due = v] => Stays(b, bus[b].loop)
  BY <1>1 DEF Stays, Shows, OnlyBus, BusRecords
<1>3. /\ bus' = [bus EXCEPT ![b].ioMu = v] => Stays(b, bus[b].loop)
      /\ bus' = [bus EXCEPT ![b].controller = v] => Stays(b, bus[b].loop)
      /\ bus' = [bus EXCEPT ![b].loop = v] => Stays(b, v)
  BY <1>1 DEF Stays, Shows, OnlyBus, BusRecords
<1>4. bus' = [bus EXCEPT ![b].opener = v, ![b].held = w] => Stays(b, bus[b].loop)
  BY <1>1 DEF Stays, Shows, OnlyBus, BusRecords
<1>5. bus' = [bus EXCEPT ![b].opener = v, ![b].loop = w] => Stays(b, w)
  BY <1>1 DEF Stays, Shows, OnlyBus, BusRecords
<1>6. bus' = [bus EXCEPT ![b].signal = v, ![b].loop = w] => Stays(b, w)
  BY <1>1 DEF Stays, Shows, OnlyBus, BusRecords
<1>7. bus' = [bus EXCEPT ![b].ioMu = v, ![b].loop = w] => Stays(b, w)
  BY <1>1 DEF Stays, Shows, OnlyBus, BusRecords
<1>8. bus' = [bus EXCEPT ![b].opener = v, ![b].loop = w, ![b].held = x] => Stays(b, w)
  BY <1>1 DEF Stays, Shows, OnlyBus, BusRecords
<1>9. bus' = [bus EXCEPT ![b].opener = v, ![b].held = w, ![b].generation = x, ![b].watcher = y]
        => Stays(b, bus[b].loop)
  BY <1>1 DEF Stays, Shows, OnlyBus, BusRecords
<1>. QED BY <1>2, <1>3, <1>4, <1>5, <1>6, <1>7, <1>8, <1>9

LEMMA StaysCalm ==
  ASSUME NEW b \in Buses, NEW place, Stays(b, place), Hush(b, place)
  PROVE  AllCalm
<1>1. ASSUME NEW x \in Buses PROVE Calm(x)
  <2>1. CASE x = b BY <2>1 DEF Stays, Shows, Hush, Calm
  <2>2. CASE x # b BY <2>2 DEF Stays, Shows, OnlyBus, Calm
  <2>. QED BY <2>1, <2>2
<1>. QED BY Zenon, <1>1 DEF AllCalm

LEMMA StopsStay ==
  ASSUME Typed, StopChanges
  PROVE  StopsKept
<1>1. CASE UNCHANGED lifecycle BY <1>1 DEF StopsKept, Stopping
<1>2. ASSUME NEW b \in Buses, MarkDone(b) \/ \E e : Stop(b, e)
      PROVE  StopsKept
  <2>1. lifecycle \in [Buses -> Lifecycles] /\ lifecycle[b] \in Lifecycles BY DEF Typed
  <2>2. PICK l : lifecycle' = [lifecycle EXCEPT ![b] = l] /\ (lifecycle[b].stop => l.stop)
    <3>1. CASE MarkDone(b)
      <4>. DEFINE l == [lifecycle[b] EXCEPT !.done = TRUE]
      <4>1. lifecycle' = [lifecycle EXCEPT ![b] = l] BY <3>1 DEF MarkDone
      <4>2. l.stop = lifecycle[b].stop BY <2>1 DEF Lifecycles
      <4>. QED BY Zenon, <4>1, <4>2
    <3>2. ASSUME NEW e, Stop(b, e)
          PROVE  \E l : lifecycle' = [lifecycle EXCEPT ![b] = l] /\ (lifecycle[b].stop => l.stop)
      <4>. DEFINE l == [lifecycle[b] EXCEPT !.stop = TRUE, !.err = IF @ = None THEN e ELSE @]
      <4>1. lifecycle' = [lifecycle EXCEPT ![b] = l] BY <2>1, <3>2 DEF Stop, StoppedWith
      <4>2. l.stop BY <2>1 DEF Lifecycles
      <4>. QED BY Zenon, <4>1, <4>2
    <3>. QED BY <1>2, <3>1, <3>2
  <2>3. lifecycle'[b] = l /\ \A x \in Buses : x # b => lifecycle'[x] = lifecycle[x] BY <2>1, <2>2
  <2>. QED BY <2>2, <2>3 DEF StopsKept, Stopping
<1>. QED BY <1>1, <1>2 DEF StopChanges

LEMMA CalmlyKept ==
  ASSUME ReportInv, Typed, LogInv, Calmly
  PROVE  ReportInv'
<1>1. StopsKept BY StopsStay DEF Calmly
<1>2. Callers BY DEF Calmly, Callers
<1>. QED BY <1>1, <1>2, CalmStep DEF Calmly, AllCalm

\* One place to another, in a step of b.
LEMMA StaysCalmly ==
  ASSUME NEW b \in Buses, NEW place, Stays(b, place), Hush(b, place), StopChanges,
         UNCHANGED <<scenario, call, log>>
  PROVE  Calmly
  BY StaysCalm DEF Calmly

-----------------------------------------------------------------------------
(* Open and the end of a bus.                                              *)

\* The receive goroutine of a bus that is being opened has not started.
LEMMA NotStarted ==
  ASSUME NEW b \in Buses, PlaceOK(b),
         bus[b].opener \notin {"settle", "opened", "closing", "failed"}
  PROVE  bus[b].loop = "off"
  BY DEF PlaceOK

LEMMA OpeningStays ==
  ASSUME Typed, NEW b \in Buses, NEW from, NEW to, NEW got, Opening(b, from, to, got)
  PROVE  Stays(b, bus[b].loop)
<1>. DEFINE held == bus[b].held \union got
<1>1. bus' = [bus EXCEPT ![b].opener = to, ![b].held = held] BY DEF Opening
<1>. HIDE DEF held
<1>. QED BY Zenon, <1>1, StaysForms

LEMMA SocketOpenCalm ==
  ASSUME Typed, NEW b \in Buses, PlaceOK(b), SocketOpen(b)
  PROVE  Calmly
<1>1. UNCHANGED <<scenario, lifecycle, call, log>> BY DEF SocketOpen
<1>2. \/ \E v, w : bus' = [bus EXCEPT ![b].opener = v, ![b].held = w]
      \/ /\ bus[b].opener = "configure"
         /\ bus' = [bus EXCEPT ![b].opener = "opened", ![b].loop = "wait"]
  BY DEF SocketOpen, Opening
<1>3. ASSUME NEW v, NEW w, bus' = [bus EXCEPT ![b].opener = v, ![b].held = w] PROVE Calmly
  <2>1. Stays(b, bus[b].loop) BY Zenon, <1>3, StaysForms
  <2>. QED BY <1>1, <2>1, StaysCalmly DEF Hush, HushedTo, Busy, StopChanges
<1>4. CASE /\ bus[b].opener = "configure"
           /\ bus' = [bus EXCEPT ![b].opener = "opened", ![b].loop = "wait"]
  <2>1. Stays(b, "wait") BY Zenon, <1>4, StaysForms
  <2>2. bus[b].loop = "off" BY <1>4, NotStarted
  <2>. QED BY <1>1, <2>1, <2>2, StaysCalmly DEF Hush, HushedTo, Busy, StopChanges
<1>. QED BY Zenon, <1>2, <1>3, <1>4

LEMMA NixnetOpenCalm ==
  ASSUME Typed, NEW b \in Buses, PlaceOK(b), NixnetOpen(b)
  PROVE  Calmly
<1>. DEFINE held == bus[b].held \union {Channel}
<1>1. UNCHANGED <<scenario, lifecycle, call, log>> BY DEF NixnetOpen
<1>2. \/ \E from, to, got : Opening(b, from, to, got)
      \/ bus' = [bus EXCEPT ![b].opener = "failed", ![b].held = {}]
      \/ /\ bus[b].opener = "start"
         /\ bus' = [bus EXCEPT ![b].opener = "opened", ![b].loop = "poll", ![b].held = held]
  BY DEF NixnetOpen
<1>. HIDE DEF held
<1>3. ASSUME NEW from, NEW to, NEW got, Opening(b, from, to, got) PROVE Calmly
  <2>1. Stays(b, bus[b].loop) BY <1>3, OpeningStays
  <2>. QED BY <1>1, <2>1, StaysCalmly DEF Hush, HushedTo, Busy, StopChanges
<1>4. CASE bus' = [bus EXCEPT ![b].opener = "failed", ![b].held = {}]
  <2>1. Stays(b, bus[b].loop) BY Zenon, <1>4, StaysForms
  <2>. QED BY <1>1, <2>1, StaysCalmly DEF Hush, HushedTo, Busy, StopChanges
<1>5. CASE /\ bus[b].opener = "start"
           /\ bus' = [bus EXCEPT ![b].opener = "opened", ![b].loop = "poll", ![b].held = held]
  <2>1. Stays(b, "poll") BY Zenon, <1>5, StaysForms
  <2>2. bus[b].loop = "off" BY <1>5, NotStarted
  <2>. QED BY <1>1, <2>1, <2>2, StaysCalmly DEF Hush, HushedTo, Busy, StopChanges
<1>. QED BY <1>2, <1>3, <1>4, <1>5

LEMMA VectorOthersCalm ==
  ASSUME Typed, NEW b \in Buses, VectorOpenRefused(b) \/ VectorOpenFails(b) \/ VectorOpenUndo(b)
  PROVE  Calmly
<1>1. /\ \/ \E v, w : bus' = [bus EXCEPT ![b].opener = v, ![b].held = w]
         \/ \E v : bus' = [bus EXCEPT ![b].opener = v]
      /\ UNCHANGED <<scenario, lifecycle, call, log>>
  BY DEF VectorOpenRefused, VectorOpenFails, VectorOpenUndo, Set
<1>2. Stays(b, bus[b].loop) BY Zenon, <1>1, StaysForms
<1>. QED BY <1>1, <1>2, StaysCalmly DEF Hush, HushedTo, Busy, StopChanges

LEMMA TeardownStays ==
  ASSUME Typed, NEW b \in Buses, NEW v, NEW w, NEW x
  PROVE  /\ bus' = [bus EXCEPT ![b].teardown = v, ![b].opener = w, ![b].held = x] => Stays(b, bus[b].loop)
         /\ bus' = [bus EXCEPT ![b].teardown = v, ![b].loop = w, ![b].held = x] => Stays(b, w)
<1>1. bus \in [Buses -> BusRecords] /\ bus[b] \in BusRecords BY DEF Typed
<1>2. bus' = [bus EXCEPT ![b].teardown = v, ![b].opener = w, ![b].held = x] => Stays(b, bus[b].loop)
  BY <1>1 DEF Stays, Shows, OnlyBus, BusRecords
<1>3. bus' = [bus EXCEPT ![b].teardown = v, ![b].loop = w, ![b].held = x] => Stays(b, w)
  BY <1>1 DEF Stays, Shows, OnlyBus, BusRecords
<1>. QED BY <1>2, <1>3

LEMMA OpenerStays ==
  ASSUME Typed, NEW b \in Buses, NEW next, NEW held, Torn(b, "opener", next, held)
  PROVE  Stays(b, bus[b].loop)
<1>. DEFINE w == Detached
            to == IF w = 0 THEN next ELSE "teardown"
<1>1. bus' = [bus EXCEPT ![b].teardown = w, ![b].opener = to, ![b].held = held] BY Zenon DEF Torn, TearsDown
<1>. HIDE DEF w, to
<1>. QED BY Zenon, <1>1, TeardownStays

LEMMA LoopStays ==
  ASSUME Typed, NEW b \in Buses, NEW next, NEW held, Torn(b, "loop", next, held)
  PROVE  Stays(b, "teardown") \/ Stays(b, next)
<1>. DEFINE w == Detached
            to == IF w = 0 THEN next ELSE "teardown"
<1>1. bus' = [bus EXCEPT ![b].teardown = w, ![b].loop = to, ![b].held = held] BY Zenon DEF Torn, TearsDown
<1>2. to \in {next, "teardown"} OBVIOUS
<1>. HIDE DEF w, to
<1>3. Stays(b, to) BY Zenon, <1>1, TeardownStays
<1>. QED BY <1>2, <1>3

LEMMA PcanOpenCalm ==
  ASSUME Typed, NEW b \in Buses, PlaceOK(b),
         PcanHold(b) \/ PcanInitialize(b) \/ PcanInventory(b) \/ PcanBind(b)
  PROVE  Calmly
<1>1. UNCHANGED <<scenario, lifecycle, call, log>>
  BY DEF PcanHold, PcanInitialize, PcanInventory, PcanBind
<1>2. CASE PcanHold(b)
  <2>. DEFINE watcher == monitor'.watcher
              generation == monitor.generation
              held == {"hold"}
  <2>1. bus' = [bus EXCEPT ![b].opener = "initialize", ![b].held = held,
                           ![b].generation = generation, ![b].watcher = watcher]
    BY <1>2 DEF PcanHold
  <2>. HIDE DEF watcher, generation, held
  <2>2. Stays(b, bus[b].loop) BY Zenon, <2>1, StaysForms
  <2>. QED BY <1>1, <2>2, StaysCalmly DEF Hush, HushedTo, Busy, StopChanges
<1>3. CASE PcanInitialize(b) \/ PcanInventory(b)
  <2>1. (\E from, to, got : Opening(b, from, to, got)) \/ PcanRelease(b)
    BY <1>3 DEF PcanInitialize, PcanInventory
  <2>2. Stays(b, bus[b].loop) BY <2>1, OpeningStays, OpenerStays DEF PcanRelease, Torn
  <2>. QED BY <1>1, <2>2, StaysCalmly DEF Hush, HushedTo, Busy, StopChanges
<1>4. CASE PcanBind(b)
  <2>. DEFINE held == (bus[b].held \ {"hold"}) \union {"subscription"}
  <2>1. bus[b].opener = "bind" BY <1>4 DEF PcanBind
  <2>2. \/ bus' = [bus EXCEPT ![b].opener = "settle", ![b].loop = "wait", ![b].held = held]
        \/ bus' = [TearsDown(b, "opener", "refused") EXCEPT ![b].held = @ \ {"hold"}]
    BY <1>4 DEF PcanBind
  <2>3. CASE bus' = [bus EXCEPT ![b].opener = "settle", ![b].loop = "wait", ![b].held = held]
    <3>. HIDE DEF held
    <3>1. Stays(b, "wait") BY Zenon, <2>3, StaysForms
    <3>2. bus[b].loop = "off" BY <2>1, NotStarted
    <3>. QED BY <1>1, <3>1, <3>2, StaysCalmly DEF Hush, HushedTo, Busy, StopChanges
  <2>4. CASE bus' = [TearsDown(b, "opener", "refused") EXCEPT ![b].held = @ \ {"hold"}]
    <3>1. PICK gone : bus' = [TearsDown(b, "opener", "refused") EXCEPT ![b].held = gone] BY Zenon, <2>4
    <3>2. Stays(b, bus[b].loop) BY <3>1, OpenerStays DEF Torn
    <3>. QED BY <1>1, <3>2, StaysCalmly DEF Hush, HushedTo, Busy, StopChanges
  <2>. QED BY <2>2, <2>3, <2>4
<1>. QED BY <1>2, <1>3, <1>4

LEMMA PcanEndCalm ==
  ASSUME Typed, NEW b \in Buses, PcanRefused(b) \/ PcanSettle(b) \/ PcanSettleClosed(b)
  PROVE  Calmly
<1>1. /\ \/ \E v, w : bus' = [bus EXCEPT ![b].opener = v, ![b].held = w]
         \/ \E v : bus' = [bus EXCEPT ![b].opener = v]
      /\ UNCHANGED <<scenario, call, log>>
      /\ StopChanges
  BY DEF PcanRefused, PcanSettle, PcanSettleClosed, Set, StopChanges
<1>2. Stays(b, bus[b].loop) BY Zenon, <1>1, StaysForms
<1>. QED BY <1>1, <1>2, StaysCalmly DEF Hush, HushedTo, Busy

\* The end of a bus, but for its cleanup, and the clock.
LEMMA EndCalm ==
  ASSUME Typed, NEW b \in Buses,
         PcanCancel(b) \/ Teardown(b) \/ Close(b) \/ CloseReturns(b) \/ HealthTimer(b)
  PROVE  Calmly
<1>1. UNCHANGED <<scenario, call, log>> /\ StopChanges
  BY Zenon DEF PcanCancel, Teardown, Close, CloseReturns, HealthTimer, StopChanges
<1>2. CASE PcanCancel(b)
  <2>1. PICK gone : bus' = [TearsDown(b, "loop", "cleanup") EXCEPT ![b].held = gone]
    BY Zenon, <1>2 DEF PcanCancel
  <2>2. Stays(b, "teardown") \/ Stays(b, "cleanup") BY <2>1, LoopStays DEF Torn
  <2>3. bus[b].loop = "finish" BY <1>2 DEF PcanCancel
  <2>. QED BY <1>1, <2>2, <2>3, StaysCalmly DEF Hush, HushedTo, Busy
<1>3. CASE Teardown(b)
  <2>1. UNCHANGED bus \/ bus' = Resumed(b) BY <1>3 DEF Teardown
  <2>2. \/ UNCHANGED bus \/ \E v : bus' = [bus EXCEPT ![b].opener = v]
        \/ bus[b].loop = "teardown" /\ bus' = [bus EXCEPT ![b].loop = "cleanup"]
    BY <1>3, <2>1 DEF Resumed, Teardown
  <2>3. \/ Stays(b, bus[b].loop)
        \/ bus[b].loop = "teardown" /\ Stays(b, "cleanup")
    BY Zenon, <2>2, StaysForms
  <2>. QED BY <1>1, <2>3, StaysCalmly DEF Hush, HushedTo, Busy
<1>4. CASE Close(b) \/ CloseReturns(b) \/ HealthTimer(b)
  <2>1. \E v : bus' = [bus EXCEPT ![b].closer = v] \/ bus' = [bus EXCEPT ![b].due = v]
    BY <1>4 DEF Close, CloseReturns, HealthTimer, Set
  <2>2. Stays(b, bus[b].loop) BY Zenon, <2>1, StaysForms
  <2>. QED BY <1>1, <2>2, StaysCalmly DEF Hush, HushedTo, Busy
<1>. QED BY <1>2, <1>3, <1>4

\* The device monitor, Discover, and the attached devices.
LEMMA MonitorCalm ==
  ASSUME Typed, Monitoring \/ Discover \/ DiscoverEnds \/ DeviceRemoved \/ DeviceAttached
  PROVE  Calmly
<1>1. UNCHANGED <<scenario, call, log>>
  BY DEF Monitoring, Discover, DiscoverEnds, DeviceRemoved, DeviceAttached
<1>2. StopChanges
  BY Zenon DEF Monitoring, Discover, DiscoverEnds, DeviceRemoved, DeviceAttached, Run, RunEvent, RunLost,
         RunStopBus, RunEnd, StopChanges
<1>3. UNCHANGED bus \/ bus' = [b \in Buses |-> [bus[b] EXCEPT !.stale = @ \/ bus[b].held # {}]]
  BY DEF Monitoring, Discover, DiscoverEnds, DeviceRemoved, DeviceAttached
<1>4. ASSUME NEW x \in Buses, bus' = [b \in Buses |-> [bus[b] EXCEPT !.stale = @ \/ bus[b].held # {}]]
      PROVE  Calm(x)
  <2>1. bus[x] \in BusRecords BY BusTyped
  <2>. QED BY <1>4, <2>1 DEF BusRecords, Calm
<1>5. AllCalm BY <1>3, <1>4 DEF AllCalm, Calm
<1>. QED BY <1>1, <1>2, <1>5 DEF Calmly

-----------------------------------------------------------------------------
(* The callers of Send.                                                    *)

LEMMA CallersKept ==
  ASSUME ReportInv, Typed, LogInv, AllCalm, StopChanges, Callers, UNCHANGED <<scenario, log>>
  PROVE  ReportInv'
<1>1. StopsKept BY StopsStay
<1>. QED BY <1>1, CalmStep DEF AllCalm

\* ioMu is given or given back, or nothing happens to the bus.
LEMMA IoMuCalm ==
  ASSUME Typed, NEW b \in Buses, NEW holder, bus' = Set(b, "ioMu", holder) \/ UNCHANGED bus
  PROVE  AllCalm /\ Stays(b, bus[b].loop)
<1>1. bus' = [bus EXCEPT ![b].ioMu = holder] \/ UNCHANGED bus BY DEF Set
<1>2. Stays(b, bus[b].loop) BY Zenon, <1>1, StaysForms
<1>. QED BY <1>2, StaysCalm DEF Hush, HushedTo, Busy

\* A call that does not write now.
LEMMA CallerLeaves ==
  ASSUME NEW s \in Senders, OnlyCall(s), call'[s].pc \notin {"writing", "accepted"}
  PROVE  Callers
  BY DEF OnlyCall, Callers

LEMMA SendCallReports ==
  ASSUME ReportInv, Typed, LogInv, NEW s \in Senders, NEW b \in Buses, SendCall(s, b)
  PROVE  ReportInv'
<1>1. UNCHANGED <<scenario, lifecycle, bus, log>> BY DEF SendCall
<1>. DEFINE called == [NewCall EXCEPT !.pc = "waiting", !.on = b]
            refused == [called EXCEPT !.pc = "returned", !.result = OperationError(b)]
<1>2. /\ called \in Calls /\ called.pc = "waiting" /\ refused \in Calls /\ refused.pc = "returned"
  BY Zenon, OperationErrorRefuses DEF NewCall, Calls, Refusals, Results
<1>3. PICK c \in {called, refused} : call' = [call EXCEPT ![s] = c] BY DEF SendCall
<1>. HIDE DEF called, refused
<1>4. call'[s] = c /\ OnlyCall(s) BY Zenon, <1>2, <1>3, CallUpdate
<1>5. Callers BY <1>2, <1>3, <1>4, CallerLeaves
<1>6. AllCalm BY <1>1, IoMuCalm
<1>. QED BY <1>1, <1>5, <1>6, CallersKept DEF StopChanges

LEMMA SendLockReports ==
  ASSUME ReportInv, Typed, LockOK, LogInv, NEW s \in Senders, SendLock(s)
  PROVE  ReportInv'
<1>1. PICK b \in Buses : b = call[s].on BY CallPlace DEF SendLock
<1>2. UNCHANGED <<scenario, lifecycle, log>> BY DEF SendLock
<1>3. AllCalm
  <2>1. bus' = Set(b, "ioMu", s) \/ UNCHANGED bus BY <1>1 DEF SendLock
  <2>. QED BY <2>1, IoMuCalm
<1>4. Callers
  <2>1. CASE Stopping(b)
    <3>1. call' = Returned(s, OperationError(b)) BY <1>1, <2>1 DEF SendLock
    <3>2. OnlyCall(s) /\ call'[s].pc = "returned" BY <3>1, OperationErrorType, CallReturns
    <3>. QED BY <3>2, CallerLeaves
  <2>2. CASE ~Stopping(b)
    <3>1. call' = [call EXCEPT ![s].pc = "writing"] BY <1>1, <2>2 DEF SendLock
    <3>2. OnlyCall(s) /\ call'[s].on = b BY Zenon, <1>1, <3>1, CallGoes
    <3>. QED BY <2>2, <3>2 DEF OnlyCall, Callers
  <2>. QED BY <2>1, <2>2
<1>. QED BY <1>2, <1>3, <1>4, CallersKept DEF StopChanges

LEMMA SendCanceledReports ==
  ASSUME ReportInv, Typed, LogInv, NEW s \in Senders, SendCanceled(s)
  PROVE  ReportInv'
<1>1. UNCHANGED <<scenario, lifecycle, bus, log>> /\ call' = Returned(s, "canceled")
  BY DEF SendCanceled
<1>2. "canceled" \in Results BY DEF Results
<1>3. OnlyCall(s) /\ call'[s].pc = "returned" BY <1>1, <1>2, CallReturns
<1>4. AllCalm BY <1>1 DEF AllCalm, Calm
<1>. QED BY <1>1, <1>3, <1>4, CallerLeaves, CallersKept DEF StopChanges

LEMMA NativeAcceptsReports ==
  ASSUME ReportInv, Typed, LogInv, NEW s \in Senders, NativeAccepts(s)
  PROVE  ReportInv'
<1>1. UNCHANGED <<scenario, lifecycle, bus, log>> /\ call[s].pc = "writing" BY DEF NativeAccepts
<1>2. call' = [call EXCEPT ![s].pc = "accepted", ![s].accepted = TRUE] BY DEF NativeAccepts
<1>3. OnlyCall(s) /\ call'[s].on = call[s].on BY Zenon, <1>2, CallGoes
<1>4. Callers BY <1>1, <1>3 DEF OnlyCall, Callers
<1>5. AllCalm BY <1>1 DEF AllCalm, Calm
<1>. QED BY <1>1, <1>4, <1>5, CallersKept DEF StopChanges

LEMMA NativeRefusesReports ==
  ASSUME ReportInv, Typed, LockOK, LogInv, NEW s \in Senders, NativeRefuses(s)
  PROVE  ReportInv'
<1>1. PICK b \in Buses : b = call[s].on BY CallPlace DEF NativeRefuses
<1>2. PICK status \in {"full", "gone", "io"} :
        LET r == Refusal(b, status) IN
          /\ call' = Returned(s, r.result) /\ bus' = Unlocked(b)
          /\ IF r.stop = None THEN UNCHANGED lifecycle ELSE Stop(b, r.stop)
  BY <1>1 DEF NativeRefuses
<1>3. UNCHANGED <<scenario, log>> BY DEF NativeRefuses
<1>4. Refusal(b, status).result \in Results BY RefusalRefuses DEF Refusals
<1>5. OnlyCall(s) /\ call'[s].pc = "returned" BY <1>2, <1>4, CallReturns
<1>6. AllCalm BY <1>2, IoMuCalm DEF Unlocked
<1>7. StopChanges BY <1>2 DEF StopChanges
<1>. QED BY <1>3, <1>5, <1>6, <1>7, CallerLeaves, CallersKept

\* A transmission is no reception, no state and no end; its caller being in
\* its section, nothing has ended the bus.
LEMMA SendRecordReports ==
  ASSUME ReportInv, Typed, Typed', LockOK, LogInv, NEW s \in Senders, SendRecord(s)
  PROVE  ReportInv'
<1>1. PICK b \in Buses : b = call[s].on BY CallPlace DEF SendRecord
<1>. DEFINE tx == Event(b, "TX", s)
<1>2. tx \in LogEvents /\ tx.kind = "TX" /\ tx.bus = b BY DEF Event, LogEvents, Values
<1>3. call[s].pc = "accepted" /\ UNCHANGED scenario BY DEF SendRecord
<1>4. /\ Record(<<tx>>)
      /\ bus' = Unlocked(b)
      /\ \/ Fits(<<tx>>) /\ call' = Returned(s, "nil") /\ UNCHANGED lifecycle
         \/ ~Fits(<<tx>>) /\ call' = Returned(s, "capture") /\ Stop(b, "capture")
  BY <1>1 DEF SendRecord
<1>. HIDE DEF tx
<1>5. LogStep(b, <<tx>>)
  <2>1. <<tx>> \in Seq(LogEvents) /\ Len(<<tx>>) = 1 /\ <<tx>>[1] = tx BY <1>2
  <2>2. scenario.capacity \in Nat BY Zenon, NativeAssumption DEF Typed, ScenarioOK
  <2>3. Grows(<<tx>>) BY Zenon, <1>4, <2>1, <2>2, RecordEffect
  <2>. QED BY <1>2, <2>1, <2>3 DEF LogStep
<1>6. OnlyCall(s) /\ call'[s].pc = "returned"
  <2>1. {"nil", "capture"} \subseteq Results BY DEF Results, Errors
  <2>. QED BY <1>4, <2>1, CallReturns
<1>7. Callers BY <1>6, CallerLeaves
<1>8. AllCalm /\ Stays(b, bus[b].loop) BY <1>4, IoMuCalm DEF Unlocked
<1>9. StopsKept BY <1>4, StopsStay DEF StopChanges
<1>10. bus' \in [Buses -> BusRecords] BY DEF Typed
<1>11. FlowStep(b, <<tx>>)
  <2>1. Calm(b) BY <1>8 DEF AllCalm
  <2>2. /\ Live(b)' => Live(b)
        /\ ReadOK(b)'
        /\ Stream(b)' = Stream(b)
    BY <1>3, <1>9, <2>1, CalmFlow DEF ReportInv, FlowInv
  <2>3. Received(b)' = Received(b)
    <3>1. \A i \in 1..Len(<<tx>>) : <<tx>>[i].kind # "RX" BY <1>2
    <3>. QED BY <1>5, <3>1, ReceivedSame
  <2>4. bus'[b].delivered = bus[b].delivered BY <2>1 DEF Calm
  <2>5. Live(b) => Follows(Stream(b), Received(b), bus[b].delivered) BY DEF ReportInv, FlowInv
  <2>6. Longer(bus[b].delivered, bus'[b].delivered)
    <3>1. Len(bus[b].delivered) \in Nat BY BusTyped, LenProperties
    <3>. QED BY <2>4, <3>1 DEF Longer
  <2>7. Recorded(b, <<tx>>) BY <1>2 DEF Recorded
  <2>. QED BY <2>2, <2>3, <2>4, <2>5, <2>6, <2>7 DEF FlowStep
<1>12. TerminalStep(b, <<tx>>)
  <2>1. ~Silenced(b) BY <1>1, <1>3 DEF Silenced
  <2>2. \A i \in 1..Len(<<tx>>) : ~Terminal(<<tx>>[i]) BY <1>2 DEF Terminal
  <2>. QED BY <2>1, <2>2 DEF TerminalStep
<1>13. StateStep(b, <<tx>>)
  <2>1. \A i \in 1..Len(<<tx>>) : <<tx>>[i].kind # "state" BY <1>2
  <2>2. ASSUME Kind \in {"vector", "nixnet"}, Live(b)'
        PROVE  /\ Live(b) /\ (Kind = "vector" => bus'[b].known # "busoff")
               /\ bus'[b].known = bus[b].known
    <3>1. Calm(b) BY <1>8 DEF AllCalm
    <3>2. Live(b) /\ bus'[b].known = bus[b].known BY <1>3, <1>9, <2>2, <3>1, CalmFlow DEF Calm
    <3>3. KnownOK(b) BY <2>2, <3>2 DEF ReportInv, StateInv
    <3>. QED BY <3>2, <3>3 DEF KnownOK
  <2>. QED BY <2>1, <2>2 DEF StateStep
<1>14. ReportStep(b, <<tx>>)
  BY <1>3, <1>5, <1>7, <1>8, <1>9, <1>10, <1>11, <1>12, <1>13 DEF ReportStep, AllCalm
<1>. QED BY <1>14, ReportKept

-----------------------------------------------------------------------------
(* The steps that record nothing and move packets.                         *)

\* The goroutine of b has these packets now, having recorded nothing.
LEMMA Unrecorded ==
  ASSUME ReportInv, Typed, Typed', LogInv, NEW b \in Buses, NEW place, NEW items, NEW queue, NEW delivered,
         Shows(b, place, items, queue, delivered, bus[b].known), StopChanges,
         UNCHANGED <<scenario, call, log>>, Longer(bus[b].delivered, delivered),
         place \notin {"publish", "apply"} => items = <<>>,
         Kind # "nixnet" => place # "publish" /\ (place = "apply" => Len(items) = 1),
         Kind # "nixnet" /\ Silenced(b) => place # "apply",
         Live(b)' => Live(b) /\ Follows(items \o queue, Received(b), delivered)
  PROVE  ReportInv'
<1>1. /\ OnlyBus(b) /\ bus'[b].loop = place /\ bus'[b].items = items /\ bus'[b].queue = queue
      /\ bus'[b].delivered = delivered /\ bus'[b].known = bus[b].known
  BY DEF Shows
<1>2. StopsKept BY StopsStay
<1>3. Callers BY DEF Callers
<1>4. LogStep(b, <<>>) BY NoRecords
<1>5. \A x \in Buses : x # b => Calm(x) BY <1>1 DEF OnlyBus, Calm
<1>6. Received(b)' = Received(b) BY DEF Received, Receptions
<1>7. FlowStep(b, <<>>)
  <2>1. ReadOK(b)' BY <1>1 DEF ReadOK, Kind
  <2>2. Live(b)' => Follows(Stream(b), Received(b), bus[b].delivered)'
    BY <1>1, <1>6 DEF Stream
  <2>3. Recorded(b, <<>>) BY DEF Recorded
  <2>. QED BY <1>1, <2>1, <2>2, <2>3 DEF FlowStep
<1>8. TerminalStep(b, <<>>)
  <2>1. Kind # "nixnet" /\ Silenced(b) => Silenced(b)' BY <1>1, <1>2 DEF Silenced, StopsKept
  <2>. QED BY <2>1 DEF TerminalStep
<1>9. StateStep(b, <<>>)
  <2>1. ASSUME Kind \in {"vector", "nixnet"}, Live(b)'
        PROVE  Live(b) /\ (Kind = "vector" => bus'[b].known # "busoff")
    <3>1. KnownOK(b) BY <2>1 DEF ReportInv, StateInv
    <3>. QED BY <1>1, <2>1, <3>1 DEF KnownOK
  <2>. QED BY <1>1, <2>1 DEF StateStep
<1>10. bus' \in [Buses -> BusRecords] BY DEF Typed
<1>11. ReportStep(b, <<>>) BY <1>2, <1>3, <1>4, <1>5, <1>7, <1>8, <1>9, <1>10 DEF ReportStep
<1>. QED BY <1>11, ReportKept

\* What is in order while b is live.
LEMMA InOrder ==
  ASSUME ReportInv, Typed, LogInv, NEW b \in Buses
  PROVE  /\ bus[b].items \in Seq(Packets) /\ bus[b].queue \in Seq(Packets)
         /\ Stream(b) \in Seq(Packets) /\ Received(b) \in Nat
         /\ bus[b].delivered \in Seq(Values) /\ ReadOK(b)
         /\ Live(b) => Follows(Stream(b), Received(b), bus[b].delivered)
<1>1. bus[b].items \in Seq(Packets) /\ bus[b].queue \in Seq(Packets) /\ bus[b].delivered \in Seq(Values)
  BY BusTyped
<1>2. Stream(b) \in Seq(Packets) BY <1>1, ConcatProperties DEF Stream
<1>3. Received(b) \in Nat
  <2>1. Len(log) \in Nat BY LenProperties DEF LogInv
  <2>. QED BY <2>1, ReceptionsFinite DEF Received
<1>. QED BY <1>1, <1>2, <1>3 DEF ReportInv, FlowInv

\* Appending to the second of two sequences appends to the two together.
LEMMA AppendLast ==
  \A s, t \in Seq(Packets), x \in Packets : s \o Append(t, x) = Append(s \o t, x)
<1>. TAKE s \in Seq(Packets), t \in Seq(Packets), x \in Packets
<1>1. s \o t \in Seq(Packets) BY ConcatProperties
<1>0. <<x>> \in Seq(Packets) OBVIOUS
<1>. PICK u \in Seq(Packets) : u = <<x>> BY Zenon, <1>0
<1>2. Append(t, x) = t \o u BY AppendIsConcat
<1>3. Append(s \o t, x) = (s \o t) \o u BY <1>1, AppendIsConcat
<1>4. (s \o t) \o u = s \o (t \o u) BY ConcatAssociative
<1>. QED BY <1>2, <1>3, <1>4

\* A packet is queued, with the delivery that stands behind it.
LEMMA QueueGrows ==
  ASSUME ReportInv, Typed, Typed', LogInv, NEW b \in Buses, NEW place, NEW q \in Packets,
         NEW delivered \in Seq(Values),
         Shows(b, place, bus[b].items, Append(bus[b].queue, q), delivered, bus[b].known),
         Hush(b, place), bus[b].loop # "failed" \/ place = "failed", StopChanges,
         UNCHANGED <<scenario, call, log>>, Longer(bus[b].delivered, delivered),
         Counted(q) => Len(delivered) = Len(bus[b].delivered) + 1 /\ delivered[Len(delivered)] = q.of,
         ~Counted(q) /\ ~Lost(q) => Len(delivered) = Len(bus[b].delivered)
  PROVE  ReportInv'
<1>. DEFINE items == bus[b].items
            queue == bus[b].queue
<1>1. /\ items \in Seq(Packets) /\ queue \in Seq(Packets)
      /\ Stream(b) \in Seq(Packets) /\ Received(b) \in Nat
      /\ bus[b].delivered \in Seq(Values) /\ ReadOK(b)
      /\ Live(b) => Follows(Stream(b), Received(b), bus[b].delivered)
  BY InOrder
<1>2. items \o Append(queue, q) = Append(Stream(b), q)
  <2>1. Stream(b) = items \o queue BY DEF Stream
  <2>. HIDE DEF items, queue
  <2>2. items \o Append(queue, q) = Append(items \o queue, q) BY <1>1, AppendLast
  <2>. QED BY <2>1, <2>2
<1>3. ASSUME Live(b)' PROVE Live(b) /\ Follows(items \o Append(queue, q), Received(b), delivered)
  <2>1. bus'[b].loop = place BY DEF Shows
  <2>2. StopsKept BY StopsStay
  <2>3. Live(b) BY <1>3, <2>1, <2>2 DEF Live, Busy, Hush, HushedTo, StopsKept
  <2>. QED BY <1>1, <1>2, <2>3, FollowsAppend
<1>4. /\ place \notin {"publish", "apply"} => items = <<>>
      /\ Kind # "nixnet" => place # "publish" /\ (place = "apply" => Len(items) = 1)
  BY Zenon, <1>1 DEF Hush, HushedTo, Busy, ReadOK
<1>5. Silenced(b) => place # "apply" BY Zenon DEF Silenced, Hush, HushedTo, Busy
<1>. QED BY Zenon, <1>3, <1>4, <1>5, Unrecorded

\* A controller state is queued: no delivery stands behind it.
LEMMA StateGrows ==
  ASSUME ReportInv, Typed, Typed', LogInv, NEW b \in Buses, NEW place,
         Shows(b, place, bus[b].items, Append(bus[b].queue, Packet("state", bus[b].controller)),
               bus[b].delivered, bus[b].known),
         Hush(b, place), bus[b].loop # "failed" \/ place = "failed", StopChanges,
         UNCHANGED <<scenario, call, log>>
  PROVE  ReportInv'
<1>1. PICK q : q = Packet("state", bus[b].controller) OBVIOUS
<1>2. q \in Packets /\ ~Counted(q) /\ ~Lost(q)
  <2>1. bus[b].controller \in States BY BusTyped
  <2>. QED BY <1>1, <2>1 DEF Packet, Packets, PacketKinds, Values, Counted, Lost
<1>3. bus[b].delivered \in Seq(Values) /\ Longer(bus[b].delivered, bus[b].delivered)
  <2>1. bus[b].delivered \in Seq(Values) BY BusTyped
  <2>2. Len(bus[b].delivered) \in Nat BY <2>1, LenProperties
  <2>. QED BY <2>1, <2>2 DEF Longer
<1>. QED BY <1>1, <1>2, <1>3, QueueGrows

LEMMA GrowsForms ==
  ASSUME Typed, NEW b \in Buses, NEW v, NEW w, NEW queue, NEW delivered, NEW state
  PROVE  /\ bus' = [bus EXCEPT ![b].opener = v, ![b].loop = w, ![b].queue = queue, ![b].signal = TRUE]
              => Shows(b, w, bus[b].items, queue, bus[b].delivered, bus[b].known)
         /\ bus' = [bus EXCEPT ![b].loop = w, ![b].due = FALSE, ![b].signal = TRUE, ![b].queue = queue]
              => Shows(b, w, bus[b].items, queue, bus[b].delivered, bus[b].known)
         /\ bus' = [bus EXCEPT ![b].queue = queue, ![b].delivered = delivered, ![b].signal = TRUE]
              => Shows(b, bus[b].loop, bus[b].items, queue, delivered, bus[b].known)
         /\ bus' = [bus EXCEPT ![b].queue = queue, ![b].delivered = delivered, ![b].signal = TRUE,
                               ![b].controller = state]
              => Shows(b, bus[b].loop, bus[b].items, queue, delivered, bus[b].known)
<1>1. bus \in [Buses -> BusRecords] /\ bus[b] \in BusRecords BY DEF Typed
<1>2. bus' = [bus EXCEPT ![b].opener = v, ![b].loop = w, ![b].queue = queue, ![b].signal = TRUE]
        => Shows(b, w, bus[b].items, queue, bus[b].delivered, bus[b].known)
  BY <1>1 DEF Shows, OnlyBus, BusRecords
<1>3. bus' = [bus EXCEPT ![b].loop = w, ![b].due = FALSE, ![b].signal = TRUE, ![b].queue = queue]
        => Shows(b, w, bus[b].items, queue, bus[b].delivered, bus[b].known)
  BY <1>1 DEF Shows, OnlyBus, BusRecords
<1>4. bus' = [bus EXCEPT ![b].queue = queue, ![b].delivered = delivered, ![b].signal = TRUE]
        => Shows(b, bus[b].loop, bus[b].items, queue, delivered, bus[b].known)
  BY <1>1 DEF Shows, OnlyBus, BusRecords
<1>5. bus' = [bus EXCEPT ![b].queue = queue, ![b].delivered = delivered, ![b].signal = TRUE,
                         ![b].controller = state]
        => Shows(b, bus[b].loop, bus[b].items, queue, delivered, bus[b].known)
  BY <1>1 DEF Shows, OnlyBus, BusRecords
<1>. QED BY Zenon, <1>2, <1>3, <1>4, <1>5

\* A packet reaches the native queue of b.
LEMMA QueuedReports ==
  ASSUME ReportInv, Typed, Typed', LogInv, NEW b \in Buses, NEW p \in Packets,
         bus' = Queued(b, p) \/ \E state : bus' = [Queued(b, p) EXCEPT ![b].controller = state],
         UNCHANGED <<scenario, lifecycle, call, log>>
  PROVE  ReportInv'
<1>. DEFINE q == IF Len(bus[b].queue) < QueueSize THEN p ELSE Packet("overrun", None)
            queue == Append(bus[b].queue, q)
            d == bus[b].delivered
            delivered == IF p.kind \in {"frame", "bad"} THEN Append(d, p.of) ELSE d
<1>1. \/ bus' = [bus EXCEPT ![b].queue = queue, ![b].delivered = delivered, ![b].signal = TRUE]
      \/ \E state : bus' = [bus EXCEPT ![b].queue = queue, ![b].delivered = delivered,
                                       ![b].signal = TRUE, ![b].controller = state]
  BY Zenon DEF Queued
<1>2. q \in Packets /\ (q = p \/ (Lost(q) /\ ~Counted(q)))
  <2>. DEFINE over == Packet("overrun", None)
  <2>1. over \in Packets /\ Lost(over) /\ ~Counted(over)
    BY Zenon DEF Packet, Packets, PacketKinds, Values, Lost, Counted
  <2>2. q = p \/ q = over OBVIOUS
  <2>. HIDE DEF q, over
  <2>3. CASE q = p BY <2>3
  <2>4. CASE q = over BY <2>1, <2>4
  <2>. QED BY <2>2, <2>3, <2>4
<1>3. d \in Seq(Values) /\ Len(d) \in Nat /\ p.of \in Values BY BusTyped, LenProperties DEF Packets
<1>4. /\ delivered \in Seq(Values) /\ Longer(d, delivered)
      /\ Counted(q) => Len(delivered) = Len(d) + 1 /\ delivered[Len(delivered)] = q.of
      /\ ~Counted(q) /\ ~Lost(q) => Len(delivered) = Len(d)
  <2>1. CASE p.kind \in {"frame", "bad"}
    <3>1. delivered = Append(d, p.of) BY <2>1
    <3>2. /\ delivered \in Seq(Values) /\ Len(delivered) = Len(d) + 1
          /\ \A i \in 1..Len(d) : delivered[i] = d[i]
          /\ delivered[Len(d) + 1] = p.of
      BY <1>3, <3>1, AppendProperties
    <3>. HIDE DEF delivered, q, d
    <3>3. Longer(d, delivered) BY <1>3, <3>2 DEF Longer
    <3>4. Counted(p) BY <2>1 DEF Counted
    <3>. QED BY <1>2, <3>2, <3>3, <3>4
  <2>2. CASE p.kind \notin {"frame", "bad"}
    <3>1. delivered = d BY <2>2
    <3>. HIDE DEF delivered, q, d
    <3>2. Longer(d, delivered) /\ ~Counted(p) BY <1>3, <2>2, <3>1 DEF Longer, Counted
    <3>. QED BY <1>2, <1>3, <3>1, <3>2
  <2>. QED BY <2>1, <2>2
<1>. HIDE DEF queue, delivered, q
<1>5. Shows(b, bus[b].loop, bus[b].items, queue, delivered, bus[b].known) BY Zenon, <1>1, GrowsForms
<1>6. Hush(b, bus[b].loop) /\ StopChanges BY DEF Hush, HushedTo, Busy, StopChanges
<1>. QED BY <1>2, <1>4, <1>5, <1>6, QueueGrows DEF queue

LEMMA DeliverReports ==
  ASSUME ReportInv, Typed, Typed', LogInv, NEW b \in Buses, Deliver(b)
  PROVE  ReportInv'
<1>1. PICK p : p = Head(left.packets) OBVIOUS
<1>2. p \in Packets
  <2>1. left.packets \in Seq(Packets) /\ left.packets # <<>> BY DEF Typed, Lefts, Deliver
  <2>. QED BY <1>1, <2>1, HeadTailProperties
<1>3. bus' = Queued(b, p) /\ UNCHANGED <<scenario, lifecycle, call, log>> BY <1>1 DEF Deliver
<1>. QED BY <1>2, <1>3, QueuedReports

LEMMA AnswerReports ==
  ASSUME ReportInv, Typed, Typed', LockOK, LogInv, NEW s \in Senders, Answer(s)
  PROVE  ReportInv'
<1>1. PICK p : p = Packet("frame", s) OBVIOUS
<1>2. PICK b \in Buses : b = call[s].on BY DEF Answer, LockOK
<1>3. p \in Packets BY <1>1 DEF Packet, Packets, PacketKinds, Values
<1>4. bus' = Queued(b, p) /\ UNCHANGED <<scenario, lifecycle, call, log>> BY <1>1, <1>2 DEF Answer
<1>. QED BY <1>3, <1>4, QueuedReports

LEMMA ControllerReports ==
  ASSUME ReportInv, Typed, Typed', LogInv, NEW b \in Buses, ControllerChanges(b)
  PROVE  ReportInv'
<1>1. PICK state : state = Head(left.changes) OBVIOUS
<1>2. PICK p : p = Packet("state", state) OBVIOUS
<1>3. p \in Packets
  <2>1. left.changes \in Seq(States) /\ left.changes # <<>> BY DEF Typed, Lefts, ControllerChanges
  <2>2. state \in States BY <1>1, <2>1, HeadTailProperties
  <2>. QED BY <1>2, <2>2 DEF Packet, Packets, PacketKinds, Values
<1>4. UNCHANGED <<scenario, lifecycle, call, log>> BY DEF ControllerChanges
<1>5. \/ bus' = [Queued(b, p) EXCEPT ![b].controller = state]
      \/ bus' = [bus EXCEPT ![b].controller = state]
  BY <1>1, <1>2 DEF ControllerChanges
<1>6. CASE bus' = [Queued(b, p) EXCEPT ![b].controller = state]
  BY Zenon, <1>3, <1>4, <1>6, QueuedReports
<1>7. CASE bus' = [bus EXCEPT ![b].controller = state]
  <2>1. Stays(b, bus[b].loop) BY Zenon, <1>7, StaysForms
  <2>2. Calmly BY <1>4, <2>1, StaysCalmly DEF Hush, HushedTo, Busy, StopChanges
  <2>. QED BY <2>2, CalmlyKept
<1>. QED BY <1>5, <1>6, <1>7

\* An activated Vector bus asks for its state.
LEMMA VectorOpenReports ==
  ASSUME ReportInv, Typed, Typed', LogInv, NEW b \in Buses, PlaceOK(b), VectorOpen(b)
  PROVE  ReportInv'
<1>. DEFINE queue == Append(bus[b].queue, Packet("state", bus[b].controller))
<1>1. UNCHANGED <<scenario, lifecycle, call, log>> BY DEF VectorOpen
<1>2. \/ \E from, to, got : Opening(b, from, to, got)
      \/ /\ bus[b].opener = "activated"
         /\ bus' = [bus EXCEPT ![b].opener = "opened", ![b].loop = "wait",
                               ![b].queue = queue, ![b].signal = TRUE]
  BY DEF VectorOpen
<1>. HIDE DEF queue
<1>3. ASSUME NEW from, NEW to, NEW got, Opening(b, from, to, got) PROVE ReportInv'
  <2>1. Stays(b, bus[b].loop) BY <1>3, OpeningStays
  <2>2. Calmly BY <1>1, <2>1, StaysCalmly DEF Hush, HushedTo, Busy, StopChanges
  <2>. QED BY <2>2, CalmlyKept
<1>4. CASE /\ bus[b].opener = "activated"
           /\ bus' = [bus EXCEPT ![b].opener = "opened", ![b].loop = "wait",
                                 ![b].queue = queue, ![b].signal = TRUE]
  <2>1. bus[b].loop = "off" BY <1>4, NotStarted
  <2>2. Shows(b, "wait", bus[b].items, queue, bus[b].delivered, bus[b].known) BY Zenon, <1>4, GrowsForms
  <2>. QED BY <1>1, <2>1, <2>2, StateGrows DEF Hush, HushedTo, Busy, StopChanges, queue
<1>. QED BY <1>2, <1>3, <1>4

\* The goroutine of b goes to another place, and may stop the bus.
LEMMA GoesCalmly ==
  ASSUME Typed, NEW b \in Buses, NEW place, bus' = GoTo(b, place), Hush(b, place),
         StopChanges, UNCHANGED <<scenario, call, log>>
  PROVE  Calmly
<1>1. Stays(b, place) BY Zenon, StaysForms DEF GoTo, Set
<1>. QED BY <1>1, StaysCalmly

LEMMA RequestReports ==
  ASSUME ReportInv, Typed, Typed', LogInv, NEW b \in Buses, RequestChipState(b)
  PROVE  ReportInv'
<1>. DEFINE queue == Append(bus[b].queue, Packet("state", bus[b].controller))
<1>1. UNCHANGED <<scenario, call, log>> /\ bus[b].loop = "request" BY DEF RequestChipState
<1>2. \/ /\ UNCHANGED lifecycle
         /\ bus' = [bus EXCEPT ![b].loop = "wait", ![b].due = FALSE, ![b].signal = TRUE, ![b].queue = queue]
      \/ LoopStops(b, "gone")
  BY DEF RequestChipState
<1>. HIDE DEF queue
<1>3. CASE /\ UNCHANGED lifecycle
           /\ bus' = [bus EXCEPT ![b].loop = "wait", ![b].due = FALSE, ![b].signal = TRUE, ![b].queue = queue]
  <2>1. Shows(b, "wait", bus[b].items, queue, bus[b].delivered, bus[b].known) BY Zenon, <1>3, GrowsForms
  <2>. QED BY Zenon, <1>1, <1>3, <2>1, StateGrows DEF Hush, HushedTo, Busy, StopChanges, queue
<1>4. CASE LoopStops(b, "gone")
  <2>1. bus' = GoTo(b, "finish") /\ StopChanges BY <1>4 DEF LoopStops, StopChanges
  <2>2. Calmly BY <1>1, <2>1, GoesCalmly DEF Hush, HushedTo, Busy
  <2>. QED BY <2>2, CalmlyKept
<1>. QED BY <1>2, <1>3, <1>4

LEMMA WaitCalm ==
  ASSUME Typed, NEW b \in Buses, SocketWait(b) \/ WindowsWait(b) \/ NixnetPoll(b) \/ LoopFailed(b)
  PROVE  Calmly
<1>1. UNCHANGED <<scenario, call, log>> BY DEF SocketWait, WindowsWait, NixnetPoll, LoopFailed
<1>2. StopChanges
  BY DEF SocketWait, WindowsWait, NixnetPoll, LoopFailed, LoopStops, StopChanges
<1>3. CASE SocketWait(b) \/ WindowsWait(b) \/ NixnetPoll(b)
  <2>1. /\ bus[b].loop \in {"wait", "poll"}
        /\ \/ \E place \in {"finish", "receive", "request"} : bus' = GoTo(b, place)
           \/ bus' = GoTo(b, "read") /\ ~Stopping(b)
           \/ bus' = [bus EXCEPT ![b].signal = FALSE, ![b].loop = "drain"]
    BY Zenon, <1>3 DEF SocketWait, WindowsWait, NixnetPoll, LoopStops
  <2>2. PICK place \in {"finish", "receive", "request", "read", "drain"} :
          Stays(b, place) /\ (place = "read" => ~Stopping(b))
    BY Zenon, <2>1, StaysForms DEF GoTo, Set
  <2>3. Hush(b, place) BY <2>1, <2>2 DEF Hush, HushedTo, Live, Busy
  <2>. QED BY <1>1, <1>2, <2>2, <2>3, StaysCalmly
<1>4. CASE LoopFailed(b)
  <2>1. bus[b].loop = "failed" /\ bus' = GoTo(b, "finish") /\ \E e : Stop(b, e)
    BY <1>4 DEF LoopFailed, LoopStops
  <2>2. Stopping(b)' BY <2>1, StopKeepsErr
  <2>. QED BY <1>1, <1>2, <2>1, <2>2, GoesCalmly DEF Hush, HushedTo, Busy
<1>. QED BY <1>3, <1>4

-----------------------------------------------------------------------------
(* The receive goroutines take packets.                                    *)

LEMMA TakesForms ==
  ASSUME Typed, NEW b \in Buses, NEW v, NEW w, NEW items, NEW queue, NEW due, NEW place
  PROVE  /\ bus' = [bus EXCEPT ![b].ioMu = v, ![b].loop = place, ![b].items = items, ![b].queue = queue]
              => Shows(b, place, items, queue, bus[b].delivered, bus[b].known)
         /\ bus' = [bus EXCEPT ![b].items = items, ![b].queue = queue, ![b].due = due, ![b].ioMu = v,
                               ![b].loop = place]
              => Shows(b, place, items, queue, bus[b].delivered, bus[b].known)
         /\ bus' = [bus EXCEPT ![b].loop = place, ![b].held = w, ![b].queue = queue]
              => Shows(b, place, bus[b].items, queue, bus[b].delivered, bus[b].known)
<1>1. bus \in [Buses -> BusRecords] /\ bus[b] \in BusRecords BY DEF Typed
<1>2. bus' = [bus EXCEPT ![b].ioMu = v, ![b].loop = place, ![b].items = items, ![b].queue = queue]
        => Shows(b, place, items, queue, bus[b].delivered, bus[b].known)
  BY <1>1 DEF Shows, OnlyBus, BusRecords
<1>3. bus' = [bus EXCEPT ![b].items = items, ![b].queue = queue, ![b].due = due, ![b].ioMu = v,
                         ![b].loop = place]
        => Shows(b, place, items, queue, bus[b].delivered, bus[b].known)
  BY <1>1 DEF Shows, OnlyBus, BusRecords
<1>4. bus' = [bus EXCEPT ![b].loop = place, ![b].held = w, ![b].queue = queue]
        => Shows(b, place, bus[b].items, queue, bus[b].delivered, bus[b].known)
  BY <1>1 DEF Shows, OnlyBus, BusRecords
<1>. QED BY Zenon, <1>2, <1>3, <1>4

\* What was delivered is what it was.
LEMMA LongerSame ==
  ASSUME Typed, NEW b \in Buses
  PROVE  Longer(bus[b].delivered, bus[b].delivered)
<1>1. Len(bus[b].delivered) \in Nat BY BusTyped, LenProperties
<1>. QED BY <1>1 DEF Longer

\* The goroutine of a live bus has taken packets, in their order.
LEMMA TakesReports ==
  ASSUME ReportInv, Typed, Typed', LogInv, NEW b \in Buses, NEW place \in {"publish", "apply"},
         NEW items, NEW queue,
         Shows(b, place, items, queue, bus[b].delivered, bus[b].known),
         Live(b), Kind # "nixnet" => place = "apply" /\ Len(items) = 1 /\ ~Stopping(b),
         Follows(Stream(b), Received(b), bus[b].delivered)
           => Follows(items \o queue, Received(b), bus[b].delivered),
         UNCHANGED <<scenario, lifecycle, call, log>>
  PROVE  ReportInv'
<1>1. Live(b) => Follows(Stream(b), Received(b), bus[b].delivered) BY InOrder
<1>2. Live(b) /\ Follows(items \o queue, Received(b), bus[b].delivered) BY <1>1
<1>3. /\ place \notin {"publish", "apply"} => items = <<>>
      /\ Kind # "nixnet" => place # "publish" /\ (place = "apply" => Len(items) = 1)
      /\ Kind # "nixnet" /\ Silenced(b) => place # "apply"
  BY DEF Silenced
<1>4. Longer(bus[b].delivered, bus[b].delivered) /\ StopChanges BY LongerSame DEF StopChanges
<1>. QED BY Zenon, <1>2, <1>3, <1>4, Unrecorded

\* One packet leaves the queue for the goroutine.
LEMMA TakesOneReports ==
  ASSUME ReportInv, Typed, Typed', LogInv, NEW b \in Buses, bus[b].queue # <<>>,
         ~Stopping(b), bus[b].loop \in {"receive", "drain"},
         bus' = [bus EXCEPT ![b].ioMu = "loop", ![b].loop = "apply",
                            ![b].items = <<Head(bus[b].queue)>>, ![b].queue = Tail(@)],
         UNCHANGED <<scenario, lifecycle, call, log>>
  PROVE  ReportInv'
<1>. DEFINE q == bus[b].queue
            items == <<Head(q)>>
            rest == Tail(q)
<1>1. bus' = [bus EXCEPT ![b].ioMu = "loop", ![b].loop = "apply", ![b].items = items, ![b].queue = rest]
  OBVIOUS
<1>2. q \in Seq(Packets) /\ bus[b].items = <<>>
  <2>1. q \in Seq(Packets) /\ ReadOK(b) BY InOrder
  <2>. QED BY <2>1 DEF ReadOK
<1>3. items \o rest = Stream(b)
  <2>1. items \o rest = q
    <3>1. Len(q) \in Nat /\ Len(q) >= 1 BY <1>2, EmptySeq
    <3>2. SubSeq(q, 1, Len(q)) = <<q[1]>> \o SubSeq(q, 2, Len(q)) BY <1>2, <3>1, SubSeqRecursiveFirst
    <3>3. SubSeq(q, 1, Len(q)) = q /\ rest = SubSeq(q, 2, Len(q)) BY <1>2, SubSeqFull, TailIsSubSeq
    <3>4. Head(q) = q[1] BY <1>2
    <3>. QED BY <3>2, <3>3, <3>4
  <2>2. <<>> \o q = q BY <1>2, ConcatEmptySeq
  <2>. QED BY <1>2, <2>1, <2>2 DEF Stream
<1>4. Len(items) = 1 OBVIOUS
<1>. HIDE DEF q, items, rest
<1>5. Shows(b, "apply", items, rest, bus[b].delivered, bus[b].known) BY Zenon, <1>1, TakesForms
<1>6. Live(b) BY DEF Live
<1>. QED BY Zenon, <1>3, <1>4, <1>5, <1>6, TakesReports

LEMMA ReceiveReports ==
  ASSUME ReportInv, Typed, Typed', LogInv, NEW b \in Buses, ItemsOK(b),
         SocketReceive(b) \/ WindowsReceive(b)
  PROVE  ReportInv'
<1>1. UNCHANGED <<scenario, lifecycle, call, log>> /\ bus[b].loop \in {"receive", "drain"}
  BY DEF SocketReceive, WindowsReceive
<1>2. \/ \E place \in {"finish", "wait"} : bus' = GoTo(b, place)
      \/ /\ bus[b].queue # <<>> /\ ~Stopping(b)
         /\ bus' = [bus EXCEPT ![b].ioMu = "loop", ![b].loop = "apply",
                               ![b].items = <<Head(bus[b].queue)>>, ![b].queue = Tail(@)]
  BY DEF SocketReceive, WindowsReceive, ItemsOK
<1>3. ASSUME NEW place \in {"finish", "wait"}, bus' = GoTo(b, place) PROVE ReportInv'
  <2>1. Calmly BY <1>1, <1>3, GoesCalmly DEF Hush, HushedTo, Busy, StopChanges
  <2>. QED BY <2>1, CalmlyKept
<1>. QED BY Zenon, <1>1, <1>2, <1>3, TakesOneReports

\* NI-XNET has the items of a native call.
LEMMA TakenReports ==
  ASSUME ReportInv, Typed, Typed', LogInv, NEW b \in Buses, Kind = "nixnet", bus[b].loop \in Busy,
         NEW items, NEW queue, NEW due, Takes(b, items, queue, due),
         Follows(Stream(b), Received(b), bus[b].delivered)
           => Follows(items \o queue, Received(b), bus[b].delivered),
         UNCHANGED <<scenario, lifecycle, call, log>>
  PROVE  ReportInv'
<1>. DEFINE mu == IF scenario.concurrent THEN bus[b].ioMu ELSE "loop"
            place == IF scenario.concurrent THEN "publish" ELSE "apply"
<1>1. bus' = [bus EXCEPT ![b].items = items, ![b].queue = queue, ![b].due = due, ![b].ioMu = mu,
                         ![b].loop = place]
  BY DEF Takes
<1>2. place \in {"publish", "apply"} /\ Live(b) BY DEF Live
<1>. HIDE DEF mu, place
<1>3. Shows(b, place, items, queue, bus[b].delivered, bus[b].known) BY Zenon, <1>1, TakesForms
<1>. QED BY <1>2, <1>3, TakesReports

LEMMA NixnetReadReports ==
  ASSUME ReportInv, Typed, Typed', LogInv, NEW b \in Buses, NixnetRead(b)
  PROVE  ReportInv'
<1>. DEFINE q == bus[b].queue
            n == Batch(q)
            items == SubSeq(q, 1, n)
            rest == SubSeq(q, n + 1, Len(q))
<1>1. Kind = "nixnet" /\ bus[b].loop = "read" /\ UNCHANGED <<scenario, lifecycle, call, log>>
  BY DEF NixnetRead
<1>2. \/ q # <<>> /\ Takes(b, items, rest, bus[b].due)
      \/ bus' = GoTo(b, "check")
  BY DEF NixnetRead
<1>3. CASE q # <<>> /\ Takes(b, items, rest, bus[b].due)
  <2>1. q \in Seq(Packets) /\ bus[b].items = <<>>
    <3>1. q \in Seq(Packets) /\ ReadOK(b) BY InOrder
    <3>. QED BY <1>1, <3>1 DEF ReadOK
  <2>2. items \o rest = Stream(b)
    <3>1. n \in 1..Len(q) /\ Len(q) \in Nat BY <1>3, <2>1, BatchSize, LenProperties
    <3>2. <<>> \o q = q BY <2>1, ConcatEmptySeq
    <3>3. SubSeq(q, 1, Len(q)) = q BY <2>1, SubSeqFull
    <3>4. items \o rest = SubSeq(q, 1, Len(q))
      <4>. HIDE DEF n, q
      <4>1. 1 \in 1..Len(q) + 1 /\ n \in 0..Len(q) BY <3>1
      <4>. QED BY <2>1, <3>1, <4>1, ConcatAdjacentSubSeq DEF q
    <3>. QED BY Zenon, <2>1, <3>2, <3>3, <3>4 DEF Stream
  <2>3. bus[b].loop \in Busy BY <1>1 DEF Busy
  <2>. HIDE DEF items, rest, q
  <2>. QED BY Zenon, <1>1, <1>3, <2>2, <2>3, TakenReports
<1>4. CASE bus' = GoTo(b, "check")
  <2>1. Hush(b, "check") BY <1>1 DEF Hush, HushedTo, Live, Busy
  <2>2. Calmly BY <1>1, <1>4, <2>1, GoesCalmly DEF StopChanges
  <2>. QED BY <2>2, CalmlyKept
<1>. QED BY <1>2, <1>3, <1>4

\* What checkState read comes before the packets of the queue.
LEMMA NixnetCheckReports ==
  ASSUME ReportInv, Typed, Typed', LogInv, NEW b \in Buses, NixnetCheck(b)
  PROVE  ReportInv'
<1>1. Kind = "nixnet" /\ bus[b].loop = "check" /\ UNCHANGED <<scenario, lifecycle, call, log>>
  BY DEF NixnetCheck
<1>2. \/ bus' = GoTo(b, "poll")
      \/ \E p \in {Packet("state", bus[b].controller), Packet("gone", None)} :
           Takes(b, <<p>>, bus[b].queue, FALSE)
  BY Zenon DEF NixnetCheck
<1>3. CASE bus' = GoTo(b, "poll")
  <2>1. Hush(b, "poll") BY <1>1 DEF Hush, HushedTo, Busy
  <2>2. Calmly BY <1>1, <1>3, <2>1, GoesCalmly DEF StopChanges
  <2>. QED BY <2>2, CalmlyKept
<1>4. ASSUME NEW p \in {Packet("state", bus[b].controller), Packet("gone", None)},
             Takes(b, <<p>>, bus[b].queue, FALSE)
      PROVE  ReportInv'
  <2>. DEFINE items == <<p>>
              q == bus[b].queue
  <2>1. p \in Packets /\ ~Counted(p) /\ ~Lost(p)
    <3>1. bus[b].controller \in Values /\ None \in Values BY Zenon, BusTyped DEF Values
    <3>2. CASE p = Packet("state", bus[b].controller)
      BY <3>1, <3>2 DEF Packet, Packets, PacketKinds, Counted, Lost
    <3>3. CASE p = Packet("gone", None)
      BY <3>1, <3>3 DEF Packet, Packets, PacketKinds, Counted, Lost
    <3>. QED BY <1>4, <3>2, <3>3
  <2>2. /\ q \in Seq(Packets) /\ bus[b].items = <<>> /\ Received(b) \in Nat
        /\ bus[b].delivered \in Seq(Values)
    <3>1. /\ q \in Seq(Packets) /\ ReadOK(b) /\ Received(b) \in Nat
          /\ bus[b].delivered \in Seq(Values)
      BY InOrder
    <3>. QED BY <1>1, <3>1 DEF ReadOK
  <2>3. Stream(b) = q
    <3>1. <<>> \o q = q BY <2>2, ConcatEmptySeq
    <3>. QED BY <2>2, <3>1 DEF Stream
  <2>4. ASSUME Follows(Stream(b), Received(b), bus[b].delivered)
        PROVE  Follows(items \o q, Received(b), bus[b].delivered)
    <3>1. Follows(q, Received(b), bus[b].delivered) BY <2>3, <2>4
    <3>. HIDE DEF q
    <3>. QED BY <2>1, <2>2, <3>1, FollowsFront
  <2>5. bus[b].loop \in Busy /\ Takes(b, items, q, FALSE) BY Zenon, <1>1, <1>4 DEF Busy
  <2>. HIDE DEF items, q
  <2>. QED BY Zenon, <1>1, <2>4, <2>5, TakenReports
<1>. QED BY Zenon, <1>2, <1>3, <1>4

LEMMA NixnetPublishReports ==
  ASSUME ReportInv, Typed, Typed', LogInv, NEW b \in Buses, NixnetPublish(b)
  PROVE  ReportInv'
<1>1. bus[b].loop = "publish" /\ UNCHANGED <<scenario, lifecycle, call, log>> BY DEF NixnetPublish
<1>2. Stays(b, "apply") BY Zenon, StaysForms DEF NixnetPublish
<1>3. ReadOK(b) /\ (Live(b) => Follows(Stream(b), Received(b), bus[b].delivered)) BY InOrder
<1>4. Live(b) /\ Kind = "nixnet" BY <1>1, <1>3 DEF Live, Busy, ReadOK
<1>5. Shows(b, "apply", bus[b].items, bus[b].queue, bus[b].delivered, bus[b].known) BY <1>2 DEF Stays
<1>6. Longer(bus[b].delivered, bus[b].delivered) /\ StopChanges BY <1>1, LongerSame DEF StopChanges
<1>7. Follows(bus[b].items \o bus[b].queue, Received(b), bus[b].delivered) BY <1>3, <1>4 DEF Stream
<1>. QED BY <1>1, <1>4, <1>5, <1>6, <1>7, Unrecorded

\* Cleanup drops what was not received: the bus has stopped.
LEMMA CleanupReports ==
  ASSUME ReportInv, Typed, Typed', LogInv, NEW b \in Buses, PlaceOK(b), Cleanup(b)
  PROVE  ReportInv'
<1>1. /\ UNCHANGED <<scenario, call, log>> /\ StopChanges /\ bus[b].loop \in {"cleanup", "finish"}
      /\ bus' = [bus EXCEPT ![b].loop = "ended", ![b].held = {}, ![b].queue = <<>>]
  BY DEF Cleanup, StopChanges
<1>2. Shows(b, "ended", bus[b].items, <<>>, bus[b].delivered, bus[b].known) BY Zenon, <1>1, TakesForms
<1>3. bus[b].items = <<>>
  <2>1. ReadOK(b) BY InOrder
  <2>. QED BY <1>1, <2>1 DEF ReadOK
<1>4. Stopping(b)'
  <2>1. Stopping(b) BY <1>1 DEF PlaceOK, Leaving
  <2>. QED BY <1>1, <2>1, StopsStay DEF StopsKept
<1>5. ~Live(b)' BY <1>2, <1>4 DEF Live, Busy, Shows
<1>6. Longer(bus[b].delivered, bus[b].delivered) BY LongerSame
<1>. QED BY Zenon, <1>1, <1>2, <1>3, <1>5, <1>6, Unrecorded

-----------------------------------------------------------------------------
(* What a packet becomes.                                                  *)

LEMMA EventShapes ==
  ASSUME NEW b \in Buses, NEW p \in Packets
  PROVE  LET failed == <<Event(b, "error", None)>>
             states == StateEvents(b, p.of)
             over == <<Event(b, "overrun", None)>>
             received == <<Event(b, "RX", p.of)>> IN
         /\ p.kind = "frame" => Shape(b, p, received) /\ Harmless(received)
         /\ p.kind # "frame" =>
              /\ Shape(b, p, <<>>) /\ Harmless(<<>>)
              /\ Shape(b, p, over) /\ Silent(over)
              /\ Shape(b, p, failed) /\ Harmless(failed)
              /\ Shape(b, p, failed \o <<>>) /\ Harmless(failed \o <<>>)
              /\ Shape(b, p, states) /\ Reports(p, states)
              /\ Shape(b, p, failed \o states) /\ Reports(p, failed \o states)
<1>. DEFINE error == Event(b, "error", None)
            state == Event(b, "state", p.of)
            lost == Event(b, "overrun", None)
            rx == Event(b, "RX", p.of)
<1>1. p.kind \in PacketKinds /\ p.of \in Values /\ None \in Values BY DEF Packets, Values
<1>2. /\ error \in LogEvents /\ error.kind = "error" /\ error.bus = b
      /\ state \in LogEvents /\ state.kind = "state" /\ state.bus = b /\ state.of = p.of
      /\ lost \in LogEvents /\ lost.kind = "overrun" /\ lost.bus = b
      /\ rx \in LogEvents /\ rx.kind = "RX" /\ rx.bus = b /\ rx.of = p.of
  BY <1>1 DEF Event, LogEvents
<1>3. StateEvents(b, p.of) = <<state>> BY DEF StateEvents
<1>. HIDE DEF error, state, lost, rx
<1>. DEFINE both == <<error>> \o <<state>>
<1>4. <<error>> \o <<>> = <<error>>
  <2>1. <<error>> \in Seq(LogEvents) BY <1>2
  <2>. QED BY <2>1, ConcatEmptySeq
<1>5. both \in Seq(LogEvents) /\ Len(both) = 2 /\ both[1] = error /\ both[2] = state
  <2>1. /\ <<error>> \in Seq(LogEvents) /\ Len(<<error>>) = 1 /\ <<error>>[1] = error
        /\ <<state>> \in Seq(LogEvents) /\ Len(<<state>>) = 1 /\ <<state>>[1] = state
    BY <1>2
  <2>2. /\ both \in Seq(LogEvents) /\ Len(both) = Len(<<error>>) + Len(<<state>>)
        /\ \A i \in 1..Len(<<error>>) + Len(<<state>>) :
             both[i] = IF i <= Len(<<error>>) THEN <<error>>[i] ELSE <<state>>[i - Len(<<error>>)]
    BY <2>1, ConcatProperties
  <2>. HIDE DEF both
  <2>. QED BY <2>1, <2>2
<1>. HIDE DEF both
<1>6. p.kind = "frame" => Shape(b, p, <<rx>>) /\ Harmless(<<rx>>) BY <1>2 DEF Shape, Harmless
<1>7. ASSUME p.kind # "frame"
      PROVE  /\ Shape(b, p, <<>>) /\ Harmless(<<>>)
             /\ Shape(b, p, <<lost>>) /\ Silent(<<lost>>)
             /\ Shape(b, p, <<error>>) /\ Harmless(<<error>>)
             /\ Shape(b, p, <<state>>) /\ Reports(p, <<state>>)
             /\ Shape(b, p, both) /\ Reports(p, both)
  <2>1. Shape(b, p, <<>>) /\ Harmless(<<>>) BY <1>7 DEF Shape, Harmless
  <2>2. Shape(b, p, <<lost>>) /\ Silent(<<lost>>) BY <1>2, <1>7 DEF Shape, Silent
  <2>3. Shape(b, p, <<error>>) /\ Harmless(<<error>>) BY <1>2, <1>7 DEF Shape, Harmless
  <2>4. Shape(b, p, <<state>>) /\ Reports(p, <<state>>)
    <3>1. Len(<<state>>) = 1 /\ <<state>>[1] = state /\ 1 \in 1..1 OBVIOUS
    <3>. QED BY <1>2, <1>7, <3>1 DEF Shape, Reports, Mild
  <2>5. 2 \in 1..2 /\ \A i \in 1..2 : i = 1 \/ i = 2 OBVIOUS
  <2>6. Shape(b, p, both) BY <1>2, <1>5, <1>7, <2>5 DEF Shape
  <2>7. Reports(p, both) BY <1>2, <1>5, <2>5 DEF Reports, Mild
  <2>. QED BY <2>1, <2>2, <2>3, <2>4, <2>6, <2>7
<1>. QED BY <1>3, <1>4, <1>6, <1>7 DEF error, state, lost, rx, both

LEMMA Means ==
  ASSUME NEW b \in Buses, NEW p \in Packets, NEW events, NEW t, NEW r, Shape(b, p, events),
         p.kind \in {"bad", "overrun"} => t # None \/ r # None
  PROVE  LET o == Observed(events, t, r) IN
         /\ Outcome(b, p, o)
         /\ Harmless(events) \/ (Mild(p, events) /\ t = Ends(p.of)) \/ t # None => Ending(o)
         /\ \/ Reports(p, events) /\ p.of # bus[b].known /\ Known(b, p) = p.of
            \/ Silent(events) /\ Known(b, p) = bus[b].known
            => Changes(b, p, o)
<1>. DEFINE o == Observed(events, t, r)
<1>1. o.events = events /\ o.terminal = t /\ o.error = r BY DEF Observed
<1>. HIDE DEF o
<1>2. Outcome(b, p, o) BY <1>1 DEF Outcome
<1>3. Harmless(events) => Ending(o) BY <1>1 DEF Harmless, Ending, Terminal
<1>4. ASSUME Mild(p, events), t = Ends(p.of) PROVE Ending(o)
  <2>1. "busoff" # None BY NativeAssumption DEF Errors
  <2>2. ASSUME NEW i \in 1..Len(events), Terminal(events[i]) PROVE t # None
    <3>1. events[i].kind = "state" /\ events[i].of = "busoff" BY <1>4, <2>2 DEF Mild, Terminal
    <3>2. p.of = "busoff" BY <1>4, <3>1 DEF Mild
    <3>. QED BY <1>4, <2>1, <3>2 DEF Ends
  <2>. QED BY <1>1, <2>2 DEF Ending
<1>5. t # None => Ending(o) BY <1>1 DEF Ending
<1>6. ASSUME Reports(p, events), p.of # bus[b].known, Known(b, p) = p.of PROVE Changes(b, p, o)
  BY <1>1, <1>6 DEF Reports, Mild, Changes, Silent
<1>7. ASSUME Silent(events), Known(b, p) = bus[b].known PROVE Changes(b, p, o)
  BY <1>1, <1>7 DEF Changes, Silent
<1>. QED BY <1>2, <1>3, <1>4, <1>5, <1>6, <1>7 DEF o

\* None is neither a reason to stop nor the kind of a packet that is one.
LEMMA Reasons ==
  /\ "overrun" # None /\ "busoff" # None /\ "capture" # None
  /\ "bad" # None /\ "invalid" # None /\ "gone" # None
  BY NativeAssumption DEF Errors

\* A packet that is no observation stops the bus.
LEMMA Undecodes ==
  ASSUME NEW p
  PROVE  \E r : r # None /\ Undecoded(p) = Observed(<<>>, None, r)
<1>. DEFINE r == IF p.kind \in {"bad", "gone"} THEN p.kind ELSE "invalid"
<1>1. r # None BY Reasons
<1>. QED BY <1>1 DEF Undecoded

\* One more record behind those of p.
LEMMA ShapeMore ==
  ASSUME NEW b \in Buses, NEW p, p.kind # "frame", NEW d, Shape(b, p, d),
         NEW e \in LogEvents, e.bus = b, e.kind # "RX",
         \A i \in 1..Len(d) : d[i].kind \in {"state", "overrun"} => Closes(d[i], e)
  PROVE  /\ Shape(b, p, d \o <<e>>)
         /\ Mild(p, d) /\ e.kind # "overrun" /\ (e.kind = "state" => e.of = p.of)
              => Mild(p, d \o <<e>>)
<1>. DEFINE all == d \o <<e>>
            n == Len(d)
<1>1. d \in Seq(LogEvents) /\ n \in Nat BY LenProperties DEF Shape
<1>2. /\ <<e>> \in Seq(LogEvents) /\ Len(<<e>>) = 1 /\ <<e>>[1] = e OBVIOUS
<1>3. /\ all \in Seq(LogEvents) /\ Len(all) = n + 1
      /\ \A i \in 1..n + 1 : all[i] = IF i <= n THEN d[i] ELSE <<e>>[i - n]
  BY <1>1, <1>2, ConcatProperties
<1>4. n + 1 - n = 1 BY <1>1
<1>. HIDE DEF all
<1>5. (\A i \in 1..n : all[i] = d[i]) /\ all[n + 1] = e BY <1>1, <1>2, <1>3, <1>4
<1>6. \A i \in 1..Len(all) : i \in 1..n \/ i = n + 1 BY <1>1, <1>3
<1>7. Shape(b, p, all)
  <2>1. \A i \in 1..Len(all) : all[i].bus = b /\ all[i].kind # "RX" BY <1>5, <1>6 DEF Shape
  <2>2. ASSUME NEW i \in 1..Len(all), NEW j \in 1..Len(all), i < j,
               all[i].kind \in {"state", "overrun"}
        PROVE  Closes(all[i], all[j])
    <3>1. i \in 1..n BY <1>1, <1>3, <2>2
    <3>2. all[i] = d[i] BY <1>5, <3>1
    <3>3. CASE j \in 1..n BY <1>5, <2>2, <3>1, <3>2, <3>3 DEF Shape
    <3>4. CASE j = n + 1 BY <1>5, <2>2, <3>1, <3>2, <3>4
    <3>. QED BY <1>6, <3>3, <3>4
  <2>. QED BY <1>3, <2>1, <2>2 DEF Shape
<1>8. ASSUME Mild(p, d), e.kind # "overrun", e.kind = "state" => e.of = p.of PROVE Mild(p, all)
  BY <1>5, <1>6, <1>8 DEF Mild
<1>. QED BY <1>7, <1>8 DEF all

\* A Linux error packet: the overrun of the controller ends the bus behind a
\* bus-off state.
LEMMA SocketErrorShapes ==
  ASSUME Kind = "socketcan", NEW b \in Buses, NEW p \in Packets, p.kind \in SocketClasses
  PROVE  \E events, t : /\ SocketErrors(b, p) = Observed(events, t, None) /\ Shape(b, p, events)
                        /\ (Mild(p, events) /\ t = Ends(p.of)) \/ t # None
<1>. DEFINE failed == Event(b, "error", None)
            changed == Event(b, "state", p.of)
            lost == Event(b, "overrun", None)
            error == IF p.kind \in {"error", "error overflow"} THEN <<failed>> ELSE <<>>
            state == IF p.of = None THEN <<>> ELSE StateEvents(b, p.of)
            both == error \o state
<1>1. p.kind # "frame" BY Zenon DEF SocketClasses
<1>2. p.of \in Values /\ None \in Values BY DEF Packets, Values
<1>3. /\ changed \in LogEvents /\ changed.kind = "state" /\ changed.bus = b /\ changed.of = p.of
      /\ lost \in LogEvents /\ lost.kind = "overrun" /\ lost.bus = b
  BY <1>2 DEF Event, LogEvents
<1>4. Shape(b, p, error) /\ Harmless(error) BY Zenon, <1>1, EventShapes
<1>5. Mild(p, error) BY Zenon, <1>4 DEF Harmless, Mild
<1>6. \/ SocketErrors(b, p) = Observed(both \o <<lost>>, "overrun", None)
      \/ SocketErrors(b, p) = Observed(both, Ends(p.of), None)
  BY Zenon DEF SocketErrors
<1>7. state = <<>> \/ state = <<changed>> BY DEF StateEvents
<1>. HIDE DEF failed, changed, lost, error, state
<1>8. Shape(b, p, both) /\ Mild(p, both)
  <2>1. CASE state = <<>>
    <3>1. error \in Seq(LogEvents) BY <1>4 DEF Shape
    <3>2. error \o <<>> = error BY <3>1, ConcatEmptySeq
    <3>3. both = error BY <2>1, <3>2
    <3>. QED BY <1>4, <1>5, <3>3
  <2>2. CASE state = <<changed>>
    <3>1. both = error \o <<changed>> BY <2>2
    <3>2. \A i \in 1..Len(error) : error[i].kind \in {"state", "overrun"} => Closes(error[i], changed)
      BY <1>4 DEF Harmless
    <3>3. changed.kind # "RX" /\ changed.kind # "overrun" BY <1>3
    <3>. HIDE DEF both
    <3>. QED BY <1>1, <1>3, <1>4, <1>5, <3>1, <3>2, <3>3, ShapeMore
  <2>. QED BY <1>7, <2>1, <2>2
<1>. HIDE DEF both
<1>9. Shape(b, p, both \o <<lost>>)
  <2>1. \A i \in 1..Len(both) : both[i].kind \in {"state", "overrun"} => Closes(both[i], lost)
    BY <1>3, <1>8 DEF Mild, Closes
  <2>2. lost.kind # "RX" BY <1>3
  <2>. QED BY <1>1, <1>3, <1>8, <2>1, <2>2, ShapeMore
<1>10. CASE SocketErrors(b, p) = Observed(both \o <<lost>>, "overrun", None)
  <2>1. "overrun" # None BY Reasons
  <2>2. PICK all : all = both \o <<lost>> BY Zenon
  <2>. QED BY ONLY <1>9, <1>10, <2>1, <2>2
<1>11. CASE SocketErrors(b, p) = Observed(both, Ends(p.of), None) BY ONLY <1>8, <1>11, Zenon
<1>. QED BY ONLY <1>6, <1>10, <1>11, Zenon

LEMMA SocketOutcome ==
  ASSUME Kind = "socketcan", NEW b \in Buses, NEW p \in Packets
  PROVE  Outcome(b, p, SocketDecode(b, p)) /\ Ending(SocketDecode(b, p))
<1>1. p.kind \in PacketKinds BY DEF Packets
<1>2. PICK events, t, r :
        /\ SocketDecode(b, p) = Observed(events, t, r) /\ Shape(b, p, events)
        /\ p.kind \in {"bad", "overrun"} => t # None \/ r # None
        /\ Harmless(events) \/ (Mild(p, events) /\ t = Ends(p.of)) \/ t # None
  <2>1. CASE p.kind = "frame"
    <3>1. SocketDecode(b, p) = Frame(b, p) BY <2>1 DEF SocketDecode, SocketClasses
    <3>. QED BY Zenon, <2>1, <3>1, EventShapes DEF Frame
  <2>2. CASE p.kind = "overrun"
    <3>1. SocketDecode(b, p) = Overrun(b) BY <2>2 DEF SocketDecode, SocketClasses
    <3>. QED BY Zenon, <2>2, <3>1, EventShapes, Reasons DEF Overrun
  <2>3. CASE p.kind \in SocketClasses
    <3>1. SocketDecode(b, p) = SocketErrors(b, p) /\ p.kind \notin {"bad", "overrun"}
      BY Zenon, <2>3 DEF SocketDecode, SocketClasses
    <3>. QED BY <2>3, <3>1, SocketErrorShapes
  <2>4. CASE p.kind \in {"bad", "invalid", "gone"}
    <3>1. SocketDecode(b, p) = Undecoded(p) BY Zenon, <2>4 DEF SocketDecode, SocketClasses
    <3>. QED BY Zenon, <2>4, <3>1, EventShapes, Undecodes
  <2>. QED BY Zenon, <1>1, <2>1, <2>2, <2>3, <2>4 DEF PacketKinds, SocketClasses
<1>. QED BY <1>2, Means

LEMMA PcanOutcome ==
  ASSUME NEW b \in Buses, NEW p \in Packets
  PROVE  Outcome(b, p, PcanDecode(b, p)) /\ Ending(PcanDecode(b, p))
<1>1. p.kind \in PacketKinds BY DEF Packets
<1>2. PICK events, t, r :
        /\ PcanDecode(b, p) = Observed(events, t, r) /\ Shape(b, p, events)
        /\ p.kind \in {"bad", "overrun"} => t # None \/ r # None
        /\ Harmless(events) \/ (Mild(p, events) /\ t = Ends(p.of)) \/ t # None
  <2>1. CASE p.kind = "frame" BY Zenon, <2>1, EventShapes DEF PcanDecode, Frame
  <2>2. CASE p.kind = "overrun" BY Zenon, <2>2, EventShapes, Reasons DEF PcanDecode, Overrun
  <2>3. CASE p.kind = "state" BY Zenon, <2>3, EventShapes DEF PcanDecode, Reports
  <2>4. CASE p.kind = "error" BY Zenon, <2>4, EventShapes DEF PcanDecode, Reports
  <2>5. CASE p.kind = "invalid" BY Zenon, <2>5, EventShapes DEF PcanDecode
  <2>6. CASE p.kind \in {"bad", "gone", "overflow", "error overflow"}
    <3>1. PcanDecode(b, p) = Undecoded(p) BY Zenon, <2>6 DEF PcanDecode
    <3>. QED BY Zenon, <2>6, <3>1, EventShapes, Undecodes
  <2>. QED BY Zenon, <1>1, <2>1, <2>2, <2>3, <2>4, <2>5, <2>6 DEF PacketKinds
<1>. QED BY <1>2, Means

LEMMA VectorOutcome ==
  ASSUME NEW b \in Buses, NEW p \in Packets
  PROVE  /\ Outcome(b, p, VectorDecode(b, p)) /\ Ending(VectorDecode(b, p))
         /\ Kind = "vector" /\ bus[b].known # "busoff" => Changes(b, p, VectorDecode(b, p))
<1>1. p.kind \in PacketKinds BY DEF Packets
<1>. DEFINE New == Kind = "vector" /\ bus[b].known # "busoff"
<1>2. PICK events, t, r :
        /\ VectorDecode(b, p) = Observed(events, t, r) /\ Shape(b, p, events)
        /\ p.kind \in {"bad", "overrun"} => t # None \/ r # None
        /\ Harmless(events) \/ (Mild(p, events) /\ t = Ends(p.of)) \/ t # None
        /\ New => \/ Reports(p, events) /\ p.of # bus[b].known /\ Known(b, p) = p.of
                  \/ Silent(events) /\ Known(b, p) = bus[b].known
  <2>1. \A e : Harmless(e) => Silent(e) BY DEF Harmless, Silent
  <2>2. Kind = "vector" => Known(b, p) = IF p.kind = "state" THEN p.of ELSE bus[b].known BY DEF Known
  <2>3. CASE p.kind = "frame" BY Zenon, <2>1, <2>2, <2>3, EventShapes DEF VectorDecode, Frame
  <2>4. CASE p.kind = "overrun" BY Zenon, <2>2, <2>4, EventShapes, Reasons DEF VectorDecode, Overrun
  <2>5. CASE p.kind = "state"
    <3>1. CASE p.of = bus[b].known /\ Ends(p.of) = None
      BY Zenon, <2>1, <2>2, <2>5, <3>1, EventShapes DEF VectorDecode
    <3>2. CASE ~(p.of = bus[b].known /\ Ends(p.of) = None)
      <4>1. New => p.of # bus[b].known BY <3>2 DEF Ends
      <4>. QED BY Zenon, <2>2, <2>5, <3>2, <4>1, EventShapes DEF VectorDecode, Reports
    <3>. QED BY <3>1, <3>2
  <2>6. CASE p.kind = "error" BY Zenon, <2>1, <2>2, <2>6, EventShapes DEF VectorDecode
  <2>7. CASE p.kind \in {"bad", "invalid", "gone", "overflow", "error overflow"}
    <3>1. VectorDecode(b, p) = Undecoded(p) BY Zenon, <2>7 DEF VectorDecode
    <3>. QED BY Zenon, <2>1, <2>2, <2>7, <3>1, EventShapes, Undecodes
  <2>. QED BY Zenon, <1>1, <2>3, <2>4, <2>5, <2>6, <2>7 DEF PacketKinds
<1>. QED BY <1>2, Means

LEMMA NixnetOutcome ==
  ASSUME NEW b \in Buses, NEW p \in Packets
  PROVE  /\ Outcome(b, p, NixnetDecode(b, p)) /\ NixnetDecode(b, p).terminal = None
         /\ Kind = "nixnet" => Changes(b, p, NixnetDecode(b, p))
<1>1. p.kind \in PacketKinds BY DEF Packets
<1>2. PICK events, r :
        /\ NixnetDecode(b, p) = Observed(events, None, r) /\ Shape(b, p, events)
        /\ p.kind \in {"bad", "overrun"} => r # None
        /\ Kind = "nixnet" => \/ Reports(p, events) /\ p.of # bus[b].known /\ Known(b, p) = p.of
                              \/ Silent(events) /\ Known(b, p) = bus[b].known
  <2>. DEFINE old == p.of \in {bus[b].known, "init"}
              states == IF old THEN <<>> ELSE StateEvents(b, p.of)
              reason == IF p.of = "init" THEN "invalid" ELSE Ends(p.of)
  <2>1. \A e : Harmless(e) => Silent(e) BY DEF Harmless, Silent
  <2>2. Kind = "nixnet" =>
          Known(b, p) = IF p.kind \in {"state", "error"} /\ p.of # "init" THEN p.of ELSE bus[b].known
    BY DEF Known
  <2>3. CASE p.kind = "frame" BY Zenon, <2>1, <2>2, <2>3, EventShapes DEF NixnetDecode, Frame
  <2>4. CASE p.kind = "overrun" BY Zenon, <2>2, <2>4, EventShapes, Reasons DEF NixnetDecode
  <2>5. CASE p.kind = "state"
    <3>1. CASE p.of = "init"
      <4>1. NixnetDecode(b, p) = Observed(<<>>, None, None) BY <2>5, <3>1 DEF NixnetDecode
      <4>. QED BY Zenon, <2>1, <2>2, <2>5, <3>1, <4>1, EventShapes
    <3>2. CASE p.of # "init"
      <4>1. NixnetDecode(b, p) = Observed(states, None, reason)
        BY <2>5, <3>2, Zenon DEF NixnetDecode, NixnetState
      <4>2. CASE old BY Zenon, <2>1, <2>2, <2>5, <3>2, <4>1, <4>2, EventShapes
      <4>3. CASE ~old BY Zenon, <2>2, <2>5, <4>1, <4>3, EventShapes
      <4>. QED BY <4>2, <4>3
    <3>. QED BY <3>1, <3>2
  <2>6. CASE p.kind = "error"
    <3>. DEFINE failed == <<Event(b, "error", None)>>
    <3>1. NixnetDecode(b, p) = Observed(failed \o states, None, reason)
      BY Zenon, <2>6 DEF NixnetDecode, NixnetState, Observed
    <3>2. CASE old
      <4>1. states = <<>> BY <3>2
      <4>2. Kind = "nixnet" => Known(b, p) = bus[b].known BY <2>2, <3>2
      <4>. HIDE DEF states, old, reason
      <4>. QED BY Zenon, <2>1, <2>6, <3>1, <4>1, <4>2, EventShapes
    <3>3. CASE ~old
      <4>1. states = StateEvents(b, p.of) BY <3>3
      <4>2. Kind = "nixnet" => p.of # bus[b].known /\ Known(b, p) = p.of BY <2>2, <2>6, <3>3
      <4>. HIDE DEF states, old, reason
      <4>. QED BY Zenon, <2>6, <3>1, <4>1, <4>2, EventShapes
    <3>. QED BY <3>2, <3>3
  <2>7. CASE p.kind \in {"bad", "invalid", "gone", "overflow", "error overflow"}
    <3>1. NixnetDecode(b, p) = Undecoded(p) BY Zenon, <2>7 DEF NixnetDecode
    <3>. QED BY Zenon, <2>1, <2>2, <2>7, <3>1, EventShapes, Undecodes
  <2>. QED BY Zenon, <1>1, <2>3, <2>4, <2>5, <2>6, <2>7 DEF PacketKinds
<1>3. NixnetDecode(b, p).terminal = None BY <1>2 DEF Observed
<1>. QED BY <1>2, <1>3, Means

-----------------------------------------------------------------------------
(* The receive goroutine publishes a packet.                               *)

LEMMA StreamHead ==
  ASSUME Typed, NEW b \in Buses, bus[b].items # <<>>
  PROVE  /\ Stream(b) # <<>> /\ Head(Stream(b)) = Head(bus[b].items)
         /\ Tail(Stream(b)) = Tail(bus[b].items) \o bus[b].queue
<1>. DEFINE s == bus[b].items
            q == bus[b].queue
            all == s \o q
            rest == Tail(s) \o q
            m == Len(s)
            n == Len(q)
<1>1. s \in Seq(Packets) /\ q \in Seq(Packets) /\ s # <<>> BY BusTyped
<1>2. m \in Nat /\ n \in Nat /\ m >= 1 /\ Head(s) = s[1]
  BY <1>1, LenProperties, EmptySeq, HeadTailProperties
<1>. HIDE DEF s, q
<1>3. all \in Seq(Packets) /\ Len(all) = m + n
      /\ \A i \in 1..m + n : all[i] = IF i <= m THEN s[i] ELSE q[i - m]
  BY <1>1, ConcatProperties
<1>4. Tail(s) \in Seq(Packets) /\ Len(Tail(s)) = m - 1 /\ \A i \in 1..m - 1 : Tail(s)[i] = s[i + 1]
  BY <1>1, HeadTailProperties
<1>5. rest \in Seq(Packets) /\ Len(rest) = (m - 1) + n
      /\ \A i \in 1..(m - 1) + n : rest[i] = IF i <= m - 1 THEN Tail(s)[i] ELSE q[i - (m - 1)]
  BY <1>1, <1>4, ConcatProperties
<1>. HIDE DEF all, rest, m, n
<1>6. all # <<>> /\ Head(all) = all[1] /\ all[1] = s[1]
  <2>1. Len(all) >= 1 /\ 1 \in 1..m + n BY <1>2, <1>3
  <2>2. all # <<>> BY <1>3, <2>1, EmptySeq
  <2>. QED BY <1>2, <1>3, <2>1, <2>2
<1>7. Tail(all) \in Seq(Packets) /\ Len(Tail(all)) = (m + n) - 1
      /\ \A i \in 1..(m + n) - 1 : Tail(all)[i] = all[i + 1]
  BY <1>3, <1>6, HeadTailProperties
<1>8. Len(Tail(all)) = Len(rest) BY <1>2, <1>5, <1>7
<1>9. ASSUME NEW i \in 1..Len(Tail(all)) PROVE Tail(all)[i] = rest[i]
  <2>1. i \in 1..(m + n) - 1 /\ i \in 1..(m - 1) + n /\ i + 1 \in 1..m + n BY <1>2, <1>7
  <2>2. Tail(all)[i] = all[i + 1] /\ all[i + 1] = IF i + 1 <= m THEN s[i + 1] ELSE q[(i + 1) - m]
    BY <1>3, <1>7, <2>1
  <2>3. CASE i <= m - 1
    <3>1. i \in 1..m - 1 /\ i + 1 <= m BY <1>2, <2>1, <2>3
    <3>. QED BY <1>4, <1>5, <2>1, <2>2, <2>3, <3>1
  <2>4. CASE ~(i <= m - 1)
    <3>1. ~(i + 1 <= m) /\ (i + 1) - m = i - (m - 1) BY <1>2, <2>1, <2>4
    <3>. QED BY <1>5, <2>1, <2>2, <2>4, <3>1
  <2>. QED BY <2>3, <2>4
<1>10. Tail(all) = rest BY <1>5, <1>7, <1>8, <1>9, SeqEqual
<1>. QED BY Zenon, <1>2, <1>6, <1>10 DEF Stream, all, rest, s, q

\* What is recorded of the first packet agrees with the deliveries, and so do
\* the packets behind it.
LEMMA AppliedInOrder ==
  ASSUME ReportInv, Typed, LogInv, NEW b \in Buses, bus[b].loop = "apply", bus[b].items # <<>>,
         NEW o, Outcome(b, Head(bus[b].items), o), LogStep(b, o.events)
  PROVE  /\ Recorded(b, o.events)
         /\ o.terminal = None /\ o.error = None /\ Fits(o.events) =>
              Follows(Tail(bus[b].items) \o bus[b].queue, Received(b)', bus[b].delivered)
<1>. DEFINE s == Stream(b)
            p == Head(bus[b].items)
            d == bus[b].delivered
            r == Received(b)
            rest == Tail(bus[b].items) \o bus[b].queue
<1>1. s \in Seq(Packets) /\ s # <<>> /\ Head(s) = p /\ Tail(s) = rest BY Zenon, InOrder, StreamHead
<1>2. r \in Nat /\ d \in Seq(Values) /\ Follows(s, r, d) BY InOrder DEF Live, Busy
<1>3. Shape(b, p, o.events) BY DEF Outcome
<1>4. Len(d) \in Nat BY <1>2, LenProperties
<1>. HIDE DEF s, p, d, r, rest
<1>5. ~Lost(p) => /\ Counted(p) => r + 1 \in 1..Len(d) /\ d[r + 1] = p.of
                  /\ Follows(rest, r + (IF Counted(p) THEN 1 ELSE 0), d)
  BY Zenon, <1>1, <1>2, FollowsHead
<1>6. Recorded(b, o.events)
  <2>1. ASSUME NEW i \in 1..Len(o.events), o.events[i].kind = "RX"
        PROVE  /\ Len(o.events) = 1 /\ r + 1 <= Len(d) /\ d[r + 1] = o.events[1].of
    <3>1. p.kind = "frame" BY <1>3, <2>1 DEF Shape
    <3>2. Len(o.events) = 1 /\ o.events[1].of = p.of BY <1>3, <3>1 DEF Shape
    <3>3. Counted(p) /\ ~Lost(p) BY <3>1 DEF Counted, Lost
    <3>4. r + 1 \in 1..Len(d) /\ d[r + 1] = p.of BY <1>5, <3>3
    <3>. QED BY <1>2, <1>4, <3>2, <3>4
  <2>. QED BY <2>1 DEF Recorded, r, d
<1>7. ASSUME o.terminal = None, o.error = None, Fits(o.events)
      PROVE  Follows(rest, Received(b)', d)
  <2>1. p.kind \notin {"bad", "overrun"} BY <1>7 DEF Outcome, p
  <2>2. ~Lost(p) /\ (Counted(p) <=> p.kind = "frame") BY <2>1 DEF Lost, Counted
  <2>3. CASE p.kind = "frame"
    <3>1. Len(o.events) = 1 /\ o.events[1].kind = "RX" BY <1>3, <2>3 DEF Shape
    <3>2. Len(log) \in Nat /\ Len(log') = Len(log) + 1
      BY <1>7, <3>1, LenProperties DEF LogStep, Grows, LogInv
    <3>3. Len(log) < Len(log') BY <3>2
    <3>4. Received(b)' = r + 1 BY <3>1, <3>3, ReceivedMore DEF r
    <3>. QED BY <1>5, <2>2, <2>3, <3>4
  <2>4. CASE p.kind # "frame"
    <3>1. \A i \in 1..Len(o.events) : o.events[i].kind # "RX" BY <1>3, <2>4 DEF Shape
    <3>2. Received(b)' = r BY <3>1, ReceivedSame DEF r
    <3>3. r + 0 = r BY <1>2
    <3>. QED BY <1>5, <2>2, <2>4, <3>2, <3>3
  <2>. QED BY <2>3, <2>4
<1>. QED BY <1>6, <1>7 DEF rest, d

\* No sender is in its section on the bus of a goroutine that publishes.
LEMMA AloneOnBus ==
  ASSUME LockOK, NEW b \in Buses, bus[b].loop = "apply", NEW s \in Senders,
         call[s].pc \in {"writing", "accepted"}
  PROVE  call[s].on # b
  BY NativeAssumption DEF LockOK

\* The goroutine has published a packet and goes on only when everything fits.
LEMMA AppliesReport ==
  ASSUME ReportInv, Typed, Typed', LockOK, LogInv, NEW b \in Buses, ItemsOK(b), bus[b].loop = "apply",
         NEW o, Outcome(b, Head(bus[b].items), o), Record(o.events),
         NEW place, NEW items, NEW queue, NEW known,
         Shows(b, place, items, queue, bus[b].delivered, known), StopChanges,
         UNCHANGED <<scenario, call>>, place # "publish", place # "apply" => items = <<>>,
         Kind # "nixnet" => /\ place # "apply"
                            /\ \A i \in 1..Len(o.events) : Terminal(o.events[i]) => Stopping(b)',
         Live(b)' =>
           /\ o.terminal = None /\ o.error = None /\ Fits(o.events)
           /\ LET rest == Tail(bus[b].items) \o bus[b].queue IN
              \/ items \o queue = rest
              \/ \E q \in Packets : ~Counted(q) /\ ~Lost(q) /\ items \o queue = Append(rest, q),
         Kind \in {"vector", "nixnet"} =>
           /\ Changes(b, Head(bus[b].items), o)
           /\ Live(b)' => known = Known(b, Head(bus[b].items)) /\ (Kind = "vector" => known # "busoff")
  PROVE  ReportInv'
<1>. DEFINE p == Head(bus[b].items)
            rest == Tail(bus[b].items) \o bus[b].queue
            events == o.events
<1>1. /\ OnlyBus(b) /\ bus'[b].loop = place /\ bus'[b].items = items /\ bus'[b].queue = queue
      /\ bus'[b].delivered = bus[b].delivered /\ bus'[b].known = known
  BY DEF Shows
<1>2. StopsKept BY StopsStay
<1>3. Callers BY DEF Callers
<1>4. \A x \in Buses : x # b => Calm(x) BY <1>1 DEF OnlyBus, Calm
<1>5. Shape(b, p, events) BY DEF Outcome
<1>6. bus[b].items # <<>> /\ Live(b) BY DEF ItemsOK, Live, Busy
<1>7. LogStep(b, events)
  <2>1. scenario.capacity \in Nat BY Zenon, NativeAssumption DEF Typed, ScenarioOK
  <2>2. Grows(events) BY <1>5, <2>1, RecordEffect DEF Shape
  <2>. QED BY <1>5, <2>2 DEF LogStep, Shape
<1>8. /\ Recorded(b, events)
      /\ o.terminal = None /\ o.error = None /\ Fits(events) =>
           Follows(rest, Received(b)', bus[b].delivered)
  BY <1>6, <1>7, AppliedInOrder
<1>9. FlowStep(b, events)
  <2>1. Longer(bus[b].delivered, bus'[b].delivered) BY <1>1, LongerSame
  <2>2. ReadOK(b)' BY <1>1 DEF ReadOK, Kind
  <2>3. ASSUME Live(b)' PROVE Follows(Stream(b), Received(b), bus[b].delivered)'
    <3>1. Follows(rest, Received(b)', bus[b].delivered) BY <1>8, <2>3
    <3>2. CASE items \o queue = rest BY <1>1, <3>1, <3>2 DEF Stream
    <3>3. ASSUME NEW q \in Packets, ~Counted(q), ~Lost(q), items \o queue = Append(rest, q)
          PROVE  Follows(Stream(b), Received(b), bus[b].delivered)'
      <4>1. rest \in Seq(Packets)
        <5>1. Tail(bus[b].items) \in Seq(Packets) /\ bus[b].queue \in Seq(Packets)
          BY FirstItem, BusTyped
        <5>. QED BY <5>1, ConcatProperties
      <4>2. Received(b)' \in Nat
        <5>1. Len(log') \in Nat BY <1>7, LogRecords
        <5>2. Received(b)' = Cardinality({i \in 1..Len(log') : log'[i].bus = b /\ log'[i].kind = "RX"})
          BY DEF Received, Receptions
        <5>3. IsFiniteSet(1..Len(log')) BY <5>1, FS_Interval
        <5>. QED BY <5>2, <5>3, FS_Subset, FS_CardinalityType
      <4>3. bus[b].delivered \in Seq(Values) /\ Longer(bus[b].delivered, bus[b].delivered)
        BY BusTyped, LongerSame
      <4>4. PICK r \in Nat : r = Received(b)' BY <4>2
      <4>. HIDE DEF rest
      <4>5. Follows(Append(rest, q), r, bus[b].delivered)
        BY <3>1, <3>3, <4>1, <4>3, <4>4, FollowsAppend
      <4>. QED BY <1>1, <3>3, <4>4, <4>5 DEF Stream
    <3>. QED BY Zenon, <2>3, <3>2, <3>3
  <2>. QED BY <1>8, <2>1, <2>2, <2>3 DEF FlowStep
<1>10. TerminalStep(b, events)
  <2>1. ~Silenced(b) BY DEF Silenced
  <2>2. ASSUME Kind # "nixnet", NEW i \in 1..Len(events), Terminal(events[i])
        PROVE  Silenced(b)'
    <3>1. Stopping(b)' /\ place # "apply" BY <2>2
    <3>2. \A s \in Senders : call'[s].pc \in {"writing", "accepted"} => call'[s].on # b BY AloneOnBus
    <3>. QED BY <1>1, <3>1, <3>2 DEF Silenced
  <2>3. ASSUME NEW i \in 1..Len(events), NEW j \in 1..Len(events), i < j, Terminal(events[i])
        PROVE  Closes(events[i], events[j])
    BY <1>5, <2>3 DEF Shape, Terminal
  <2>. QED BY <2>1, <2>2, <2>3 DEF TerminalStep
<1>11. StateStep(b, events)
  <2>1. ASSUME Kind \in {"vector", "nixnet"}, NEW i \in 1..Len(events), events[i].kind = "state"
        PROVE  i = Len(events) /\ events[i].of # bus[b].known
    <3>1. Len(events) \in Nat BY <1>5, LenProperties DEF Shape
    <3>2. ASSUME i # Len(events) PROVE FALSE
      <4>1. Len(events) \in 1..Len(events) /\ i < Len(events) BY <3>1, <3>2
      <4>. QED BY <1>5, <2>1, <4>1 DEF Shape, Closes
    <3>. QED BY <2>1, <3>2 DEF Changes
  <2>2. ASSUME Kind \in {"vector", "nixnet"}, Live(b)'
        PROVE  /\ Kind = "vector" => bus'[b].known # "busoff"
               /\ IF \E i \in 1..Len(events) : events[i].kind = "state"
                  THEN Len(log') = Len(log) + Len(events) /\ bus'[b].known = events[Len(events)].of
                  ELSE bus'[b].known = bus[b].known
    <3>1. known = Known(b, p) /\ Fits(events) /\ Changes(b, p, o) BY <2>2
    <3>2. Len(log') = Len(log) + Len(events) BY <1>7, <3>1 DEF LogStep, Grows
    <3>3. ASSUME NEW i \in 1..Len(events), events[i].kind = "state"
          PROVE  known = events[Len(events)].of
      <4>1. i = Len(events) BY <2>1, <2>2, <3>3
      <4>. QED BY <3>1, <3>3, <4>1 DEF Changes
    <3>4. (\A i \in 1..Len(events) : events[i].kind # "state") => known = bus[b].known
      BY <3>1 DEF Changes, Silent
    <3>. QED BY <1>1, <2>2, <3>2, <3>3, <3>4
  <2>. QED BY <1>6, <2>1, <2>2 DEF StateStep
<1>12. bus' \in [Buses -> BusRecords] BY DEF Typed
<1>13. ReportStep(b, events)
  BY <1>2, <1>3, <1>4, <1>7, <1>9, <1>10, <1>11, <1>12 DEF ReportStep
<1>. QED BY <1>13, ReportKept

\* A goroutine that reads one packet at a time has no other.
LEMMA OneItem ==
  ASSUME ReportInv, Typed, LogInv, NEW b \in Buses, ItemsOK(b), bus[b].loop = "apply", Kind # "nixnet"
  PROVE  /\ Tail(bus[b].items) = <<>> /\ bus[b].queue \in Seq(Packets)
         /\ \A queue \in Seq(Packets) : Tail(bus[b].items) \o queue = queue /\ <<>> \o queue = queue
<1>1. ReadOK(b) /\ bus[b].items \in Seq(Packets) /\ bus[b].queue \in Seq(Packets) BY InOrder
<1>2. Len(bus[b].items) = 1 /\ bus[b].items # <<>> BY <1>1 DEF ReadOK, ItemsOK
<1>3. Tail(bus[b].items) \in Seq(Packets) /\ Len(Tail(bus[b].items)) = 1 - 1
  BY <1>1, <1>2, HeadTailProperties
<1>4. Tail(bus[b].items) = <<>>
  <2>1. PICK t \in Seq(Packets) : t = Tail(bus[b].items) BY Zenon, <1>3
  <2>2. Len(t) = 0 BY <1>3, <2>1
  <2>. QED BY <2>1, <2>2, EmptySeq
<1>5. \A queue \in Seq(Packets) : <<>> \o queue = queue BY ConcatEmptySeq
<1>. QED BY Zenon, <1>1, <1>4, <1>5

LEMMA SocketApplyReports ==
  ASSUME ReportInv, Typed, Typed', LockOK, LogInv, NEW b \in Buses, ItemsOK(b), SocketApply(b)
  PROVE  ReportInv'
<1>. DEFINE p == Head(bus[b].items)
            o == SocketDecode(b, p)
            e == IF ~Fits(o.events) THEN "capture" ELSE IF o.terminal # None THEN o.terminal ELSE o.error
            known == Known(b, p)
<1>1. /\ Kind = "socketcan" /\ bus[b].loop = "apply" /\ UNCHANGED <<scenario, call>> /\ Record(o.events)
      /\ IF e = None THEN UNCHANGED lifecycle ELSE Stop(b, e)
  BY DEF SocketApply
<1>2. bus' = [bus EXCEPT ![b].ioMu = None, ![b].loop = "wait", ![b].items = <<>>, ![b].known = known]
  BY DEF SocketApply
<1>3. p \in Packets BY <1>1, FirstItem
<1>4. Outcome(b, p, o) /\ Ending(o) BY <1>1, <1>3, SocketOutcome
<1>5. o.terminal # None => e # None BY Reasons
<1>6. e = None => o.terminal = None /\ o.error = None /\ Fits(o.events) BY Reasons
<1>. HIDE DEF o, e, known
<1>7. Shows(b, "wait", <<>>, bus[b].queue, bus[b].delivered, known)
  <2>1. bus \in [Buses -> BusRecords] /\ bus[b] \in BusRecords BY DEF Typed
  <2>. QED BY <1>2, <2>1 DEF Shows, OnlyBus, BusRecords
<1>8. StopChanges BY <1>1 DEF StopChanges
<1>9. e # None => Stopping(b)' BY <1>1, StopKeepsErr
<1>10. \A i \in 1..Len(o.events) : Terminal(o.events[i]) => Stopping(b)'
  BY <1>4, <1>5, <1>9 DEF Ending
<1>11. Live(b)' => e = None BY <1>7, <1>9 DEF Live, Busy, Shows
<1>12. <<>> \o bus[b].queue = Tail(bus[b].items) \o bus[b].queue BY Zenon, <1>1, OneItem
<1>13. Live(b)' => o.terminal = None /\ o.error = None /\ Fits(o.events) BY <1>6, <1>11
<1>14. PICK place \in {"wait"} : Shows(b, place, <<>>, bus[b].queue, bus[b].delivered, known)
  BY <1>7
<1>. QED BY Zenon, <1>1, <1>4, <1>8, <1>10, <1>12, <1>13, <1>14, AppliesReport

\* The records that PCAN and Vector leave.
LEMMA ReadyShows ==
  ASSUME Typed, NEW b \in Buses, NEW known \in Values, NEW place, NEW v, NEW queue
  PROVE  /\ bus' = [Ready(b, known) EXCEPT ![b].loop = place]
              => Shows(b, place, <<>>, bus[b].queue, bus[b].delivered, known)
         /\ bus' = [Ready(b, known) EXCEPT ![b].loop = place, ![b].failure = v]
              => Shows(b, place, <<>>, bus[b].queue, bus[b].delivered, known)
         /\ bus' = [Ready(b, known) EXCEPT ![b].loop = place, ![b].due = v, ![b].queue = queue]
              => Shows(b, place, <<>>, queue, bus[b].delivered, known)
<1>. DEFINE ready == Ready(b, known)
<1>1. /\ ready \in [Buses -> BusRecords] /\ ready[b].items = <<>> /\ ready[b].queue = bus[b].queue
      /\ \A other \in Buses : other # b => ready[other] = bus[other]
  BY AppliedRecord
<1>2. ready[b].delivered = bus[b].delivered /\ ready[b].known = known
  <2>1. bus \in [Buses -> BusRecords] /\ bus[b] \in BusRecords BY DEF Typed
  <2>. QED BY <2>1 DEF Ready, BusRecords
<1>. HIDE DEF ready
<1>3. bus' = [ready EXCEPT ![b].loop = place]
        => Shows(b, place, <<>>, bus[b].queue, bus[b].delivered, known)
  BY <1>1, <1>2 DEF Shows, OnlyBus, BusRecords
<1>4. bus' = [ready EXCEPT ![b].loop = place, ![b].failure = v]
        => Shows(b, place, <<>>, bus[b].queue, bus[b].delivered, known)
  BY <1>1, <1>2 DEF Shows, OnlyBus, BusRecords
<1>5. bus' = [ready EXCEPT ![b].loop = place, ![b].due = v, ![b].queue = queue]
        => Shows(b, place, <<>>, queue, bus[b].delivered, known)
  BY <1>1, <1>2 DEF Shows, OnlyBus, BusRecords
<1>. QED BY <1>3, <1>4, <1>5 DEF ready

LEMMA PcanApplyReports ==
  ASSUME ReportInv, Typed, Typed', LockOK, LogInv, NEW b \in Buses, ItemsOK(b), PcanApply(b)
  PROVE  ReportInv'
<1>. DEFINE p == Head(bus[b].items)
            o == PcanDecode(b, p)
            known == Known(b, p)
            failure == IF Fits(o.events) THEN o.error ELSE "capture"
            reason == IF Fits(o.events) THEN o.terminal ELSE "capture"
<1>1. Kind = "pcan" /\ bus[b].loop = "apply" /\ UNCHANGED <<scenario, call>> /\ Record(o.events)
  BY DEF PcanApply
<1>2. \/ o.terminal # None /\ Stop(b, reason) /\ bus' = [Ready(b, known) EXCEPT ![b].loop = "wait"]
      \/ /\ o.terminal = None /\ o.error = None /\ Fits(o.events) /\ UNCHANGED lifecycle
         /\ bus' = [Ready(b, known) EXCEPT ![b].loop = "drain"]
      \/ /\ o.terminal = None /\ UNCHANGED lifecycle
         /\ bus' = [Ready(b, known) EXCEPT ![b].loop = "failed", ![b].failure = failure]
  BY Zenon DEF PcanApply, Ready
<1>3. p \in Packets /\ known \in Values BY <1>1, FirstItem
<1>4. Outcome(b, p, o) /\ Ending(o) BY <1>3, PcanOutcome
<1>5. <<>> \o bus[b].queue = Tail(bus[b].items) \o bus[b].queue BY Zenon, <1>1, OneItem
<1>. HIDE DEF o, known, failure, reason
<1>6. PICK place \in {"wait", "drain", "failed"} :
        /\ Shows(b, place, <<>>, bus[b].queue, bus[b].delivered, known)
        /\ o.terminal # None => Stopping(b)'
        /\ Stopping(b)' \/ place = "failed" \/ (o.terminal = None /\ o.error = None /\ Fits(o.events))
        /\ StopChanges
  <2>1. CASE o.terminal # None /\ Stop(b, reason) /\ bus' = [Ready(b, known) EXCEPT ![b].loop = "wait"]
    <3>1. Shows(b, "wait", <<>>, bus[b].queue, bus[b].delivered, known) BY Zenon, <1>3, <2>1, ReadyShows
    <3>2. Stopping(b)' BY <2>1, StopKeepsErr
    <3>. QED BY <2>1, <3>1, <3>2 DEF StopChanges
  <2>2. CASE /\ o.terminal = None /\ o.error = None /\ Fits(o.events) /\ UNCHANGED lifecycle
             /\ bus' = [Ready(b, known) EXCEPT ![b].loop = "drain"]
    <3>1. Shows(b, "drain", <<>>, bus[b].queue, bus[b].delivered, known) BY Zenon, <1>3, <2>2, ReadyShows
    <3>. QED BY <2>2, <3>1 DEF StopChanges
  <2>3. CASE /\ o.terminal = None /\ UNCHANGED lifecycle
             /\ bus' = [Ready(b, known) EXCEPT ![b].loop = "failed", ![b].failure = failure]
    <3>1. Shows(b, "failed", <<>>, bus[b].queue, bus[b].delivered, known) BY Zenon, <1>3, <2>3, ReadyShows
    <3>. QED BY <2>3, <3>1 DEF StopChanges
  <2>. QED BY <1>2, <2>1, <2>2, <2>3
<1>7. \A i \in 1..Len(o.events) : Terminal(o.events[i]) => Stopping(b)' BY <1>4, <1>6 DEF Ending
<1>8. Live(b)' => o.terminal = None /\ o.error = None /\ Fits(o.events) BY <1>6 DEF Live, Busy, Shows
<1>. QED BY Zenon, <1>1, <1>4, <1>5, <1>6, <1>7, <1>8, AppliesReport

LEMMA VectorApplyReports ==
  ASSUME ReportInv, Typed, Typed', LockOK, LogInv, NEW b \in Buses, ItemsOK(b), VectorApply(b)
  PROVE  ReportInv'
<1>. DEFINE p == Head(bus[b].items)
            o == VectorDecode(b, p)
            known == Known(b, p)
            q == Packet("state", bus[b].controller)
            asks == p.kind = "error" /\ bus[b].due
            due == bus[b].due /\ ~asks
            queue == IF asks THEN Append(bus[b].queue, q) ELSE bus[b].queue
            failure == IF Fits(o.events) THEN o.error ELSE "capture"
            reason == IF Fits(o.events) THEN o.terminal ELSE "capture"
            rest == Tail(bus[b].items) \o bus[b].queue
            Sound(next) == \/ <<>> \o next = rest
                           \/ \E r \in Packets : ~Counted(r) /\ ~Lost(r) /\ <<>> \o next = Append(rest, r)
<1>1. Kind = "vector" /\ bus[b].loop = "apply" /\ UNCHANGED <<scenario, call>> /\ Record(o.events)
  BY DEF VectorApply
<1>2. \/ o.terminal # None /\ Stop(b, reason) /\ bus' = [Ready(b, known) EXCEPT ![b].loop = "wait"]
      \/ /\ o.terminal = None /\ o.error = None /\ Fits(o.events) /\ UNCHANGED lifecycle
         /\ bus' = [Ready(b, known) EXCEPT ![b].loop = "drain", ![b].due = due, ![b].queue = queue]
      \/ /\ o.terminal = None /\ UNCHANGED lifecycle
         /\ bus' = [Ready(b, known) EXCEPT ![b].loop = "failed", ![b].failure = failure]
      \/ /\ asks /\ UNCHANGED lifecycle
         /\ bus' = [Ready(b, known) EXCEPT ![b].loop = "failed", ![b].failure = "gone"]
  BY Zenon DEF VectorApply, Ready
<1>3. p \in Packets /\ known \in Values BY <1>1, FirstItem
<1>4. bus[b].known # "busoff"
  <2>1. KnownOK(b) BY <1>1 DEF ReportInv, StateInv, Live, Busy
  <2>. QED BY <1>1, <2>1 DEF KnownOK
<1>5. Outcome(b, p, o) /\ Ending(o) /\ Changes(b, p, o) BY <1>1, <1>3, <1>4, VectorOutcome
<1>6. Sound(bus[b].queue) /\ Sound(queue)
  <2>1. q \in Packets /\ ~Counted(q) /\ ~Lost(q)
    <3>1. bus[b].controller \in States BY BusTyped
    <3>. QED BY <3>1 DEF Packet, Packets, PacketKinds, Values, Counted, Lost
  <2>. HIDE DEF q
  <2>2. rest = bus[b].queue /\ <<>> \o bus[b].queue = bus[b].queue /\ bus[b].queue \in Seq(Packets)
    BY Zenon, <1>1, OneItem
  <2>3. <<>> \o Append(bus[b].queue, q) = Append(bus[b].queue, q)
    <3>1. Append(bus[b].queue, q) \in Seq(Packets) BY <2>1, <2>2, AppendProperties
    <3>. QED BY <3>1, ConcatEmptySeq
  <2>. HIDE DEF rest, asks
  <2>. QED BY <2>1, <2>2, <2>3
<1>7. o.terminal = None => known # "busoff"
  <2>1. CASE p.kind = "state"
    <3>1. o.terminal = Ends(p.of) /\ known = p.of BY <1>1, <2>1 DEF VectorDecode, Observed, Known
    <3>. HIDE DEF o, known
    <3>. QED BY <3>1, Reasons DEF Ends
  <2>2. CASE p.kind # "state"
    <3>1. known = bus[b].known BY <1>1, <2>2 DEF Known
    <3>. QED BY <1>4, <3>1
  <2>. QED BY <2>1, <2>2
<1>14. asks => o.terminal = None
  <2>1. ASSUME asks PROVE o.terminal = None BY <2>1 DEF VectorDecode, Observed
  <2>. QED BY <2>1
<1>. HIDE DEF o, known, failure, reason, due, queue, rest, asks, Sound
<1>8. PICK place \in {"wait", "drain", "failed"} : \E next :
        /\ Shows(b, place, <<>>, next, bus[b].delivered, known) /\ Sound(next)
        /\ o.terminal # None => Stopping(b)'
        /\ Stopping(b)' \/ place = "failed" \/ (o.terminal = None /\ o.error = None /\ Fits(o.events))
        /\ StopChanges
  <2>1. CASE o.terminal # None /\ Stop(b, reason) /\ bus' = [Ready(b, known) EXCEPT ![b].loop = "wait"]
    <3>1. Shows(b, "wait", <<>>, bus[b].queue, bus[b].delivered, known) BY Zenon, <1>3, <2>1, ReadyShows
    <3>2. Stopping(b)' BY <2>1, StopKeepsErr
    <3>. QED BY <1>6, <2>1, <3>1, <3>2 DEF StopChanges
  <2>2. CASE /\ o.terminal = None /\ o.error = None /\ Fits(o.events) /\ UNCHANGED lifecycle
             /\ bus' = [Ready(b, known) EXCEPT ![b].loop = "drain", ![b].due = due, ![b].queue = queue]
    <3>1. Shows(b, "drain", <<>>, queue, bus[b].delivered, known) BY Zenon, <1>3, <2>2, ReadyShows
    <3>. QED BY <1>6, <2>2, <3>1 DEF StopChanges
  <2>3. CASE /\ o.terminal = None /\ UNCHANGED lifecycle
             /\ bus' = [Ready(b, known) EXCEPT ![b].loop = "failed", ![b].failure = failure]
    <3>1. Shows(b, "failed", <<>>, bus[b].queue, bus[b].delivered, known) BY Zenon, <1>3, <2>3, ReadyShows
    <3>. QED BY <1>6, <2>3, <3>1 DEF StopChanges
  <2>4. CASE /\ asks /\ UNCHANGED lifecycle
             /\ bus' = [Ready(b, known) EXCEPT ![b].loop = "failed", ![b].failure = "gone"]
    <3>1. Shows(b, "failed", <<>>, bus[b].queue, bus[b].delivered, known) BY Zenon, <1>3, <2>4, ReadyShows
    <3>. QED BY <1>6, <1>14, <2>4, <3>1 DEF StopChanges
  <2>. QED BY <1>2, <2>1, <2>2, <2>3, <2>4
<1>9. PICK next : Shows(b, place, <<>>, next, bus[b].delivered, known) /\ Sound(next) BY <1>8
<1>10. StopChanges /\ \A i \in 1..Len(o.events) : Terminal(o.events[i]) => Stopping(b)'
  BY <1>5, <1>8 DEF Ending
<1>11. Live(b)' => o.terminal = None /\ o.error = None /\ Fits(o.events) BY <1>8 DEF Live, Busy, Shows
<1>12. \/ <<>> \o next = rest
       \/ \E r \in Packets : ~Counted(r) /\ ~Lost(r) /\ <<>> \o next = Append(rest, r)
  BY <1>9 DEF Sound
<1>13. Live(b)' => known = Known(b, p) /\ known # "busoff" BY <1>7, <1>11 DEF known
<1>. QED BY Zenon, <1>1, <1>5, <1>8, <1>9, <1>10, <1>11, <1>12, <1>13, AppliesReport DEF rest

LEMMA NixnetApplyReports ==
  ASSUME ReportInv, Typed, Typed', LockOK, LogInv, NEW b \in Buses, ItemsOK(b), NixnetApply(b)
  PROVE  ReportInv'
<1>. DEFINE p == Head(bus[b].items)
            o == NixnetDecode(b, p)
            more == Tail(bus[b].items)
            e == IF p.kind = "overrun" THEN "overrun" ELSE IF Fits(o.events) THEN o.error ELSE "capture"
            ends == e # None \/ more = <<>>
            known == IF Fits(o.events) THEN Known(b, p) ELSE bus[b].known
            items == IF ends THEN <<>> ELSE more
            mu == IF ends THEN None ELSE bus[b].ioMu
            after == IF p.kind = "state" THEN "poll" ELSE "check"
            place == IF e # None THEN "failed" ELSE IF ~ends THEN bus[b].loop ELSE after
<1>1. Kind = "nixnet" /\ bus[b].loop = "apply" /\ UNCHANGED <<scenario, lifecycle, call>> /\ Record(o.events)
  BY Zenon DEF NixnetApply
<1>2. bus' = [bus EXCEPT ![b].known = known, ![b].items = items, ![b].ioMu = mu, ![b].failure = e,
                         ![b].loop = place]
  BY Zenon DEF NixnetApply
<1>3. p \in Packets BY <1>1, FirstItem
<1>4. Outcome(b, p, o) /\ Changes(b, p, o) /\ o.terminal = None BY <1>1, <1>3, NixnetOutcome
<1>5. e = None => o.error = None /\ Fits(o.events) BY Reasons
<1>6. /\ place = IF e # None THEN "failed" ELSE IF ~ends THEN "apply" ELSE after
      /\ after \in {"poll", "check"}
  BY <1>1
<1>7. Fits(o.events) => known = Known(b, p) OBVIOUS
<1>. HIDE DEF o, e, known, place, after, mu
<1>8. e = None => items = more BY Zenon
<1>9. place # "publish" /\ (place # "apply" => items = <<>>) /\ (e # None => place = "failed")
  BY <1>6
<1>. HIDE DEF items, ends, more
<1>10. Shows(b, place, items, bus[b].queue, bus[b].delivered, known)
  <2>1. bus \in [Buses -> BusRecords] /\ bus[b] \in BusRecords BY DEF Typed
  <2>. QED BY <1>2, <2>1 DEF Shows, OnlyBus, BusRecords
<1>11. Live(b)' => e = None BY <1>9, <1>10 DEF Live, Busy, Shows
<1>12. StopChanges BY <1>1 DEF StopChanges
<1>13. Live(b)' => items \o bus[b].queue = Tail(bus[b].items) \o bus[b].queue BY Zenon, <1>8, <1>11 DEF more
<1>. QED BY Zenon, <1>1, <1>4, <1>5, <1>7, <1>9, <1>10, <1>11, <1>12, <1>13, AppliesReport

LEMMA LoopReports ==
  ASSUME ReportInv, Typed, Typed', LockOK, LogInv, NEW b \in Buses, ItemsOK(b), Loop(b)
  PROVE  ReportInv'
<1>1. CASE SocketApply(b) \/ PcanApply(b) \/ VectorApply(b) \/ NixnetApply(b)
  BY <1>1, SocketApplyReports, PcanApplyReports, VectorApplyReports, NixnetApplyReports
<1>2. CASE SocketWait(b) \/ WindowsWait(b) \/ NixnetPoll(b) \/ LoopFailed(b)
  BY <1>2, WaitCalm, CalmlyKept
<1>3. CASE \/ SocketReceive(b) \/ WindowsReceive(b) \/ RequestChipState(b)
           \/ NixnetRead(b) \/ NixnetPublish(b) \/ NixnetCheck(b)
  BY <1>3, ReceiveReports, RequestReports, NixnetReadReports, NixnetPublishReports, NixnetCheckReports
<1>. QED BY <1>1, <1>2, <1>3 DEF Loop

-----------------------------------------------------------------------------
(* Every step, and the theorem.                                            *)

LEMMA OpenReports ==
  ASSUME ReportInv, Typed, Typed', LogInv, NEW b \in Buses, PlaceOK(b), Open(b)
  PROVE  ReportInv'
<1>1. CASE VectorOpen(b) BY <1>1, VectorOpenReports
<1>2. CASE \/ SocketOpen(b) \/ NixnetOpen(b)
           \/ VectorOpenRefused(b) \/ VectorOpenFails(b) \/ VectorOpenUndo(b)
           \/ PcanHold(b) \/ PcanInitialize(b) \/ PcanInventory(b) \/ PcanBind(b)
           \/ PcanRefused(b) \/ PcanSettle(b) \/ PcanSettleClosed(b)
  <2>1. Calmly
    BY <1>2, SocketOpenCalm, NixnetOpenCalm, VectorOthersCalm, PcanOpenCalm, PcanEndCalm
  <2>. QED BY <2>1, CalmlyKept
<1>. QED BY <1>1, <1>2 DEF Open

LEMMA InitReports ==
  ASSUME Init
  PROVE  ReportInv
<1>1. log = <<>> /\ \A b \in Buses : bus[b] = NewBus BY DEF Init
<1>2. \A b \in Buses : /\ bus[b].items = <<>> /\ bus[b].queue = <<>> /\ bus[b].delivered = <<>>
                       /\ bus[b].loop = "off" /\ bus[b].known = "unknown"
  <2>1. NewBus.items = <<>> /\ NewBus.queue = <<>> /\ NewBus.delivered = <<>> BY DEF NewBus
  <2>2. NewBus.loop = "off" /\ NewBus.known = "unknown" BY DEF NewBus
  <2>. QED BY Zenon, <1>1, <2>1, <2>2
<1>3. Len(log) = 0 /\ (\A i \in DOMAIN log : FALSE) /\ \A b : Receptions(b, Len(log)) = {}
  BY <1>1 DEF Receptions
<1>4. ASSUME NEW b \in Buses PROVE Follows(Stream(b), Received(b), bus[b].delivered)
  <2>1. Stream(b) = <<>> BY <1>2 DEF Stream
  <2>2. Received(b) = 0 BY <1>3, FS_EmptySet DEF Received
  <2>. DEFINE place == [k \in 0..0 |-> 0]
  <2>3. place \in [0..0 -> Nat] /\ place[0] = 0 OBVIOUS
  <2>. HIDE DEF place
  <2>4. Stands(place, <<>>, 0, <<>>) BY <2>3 DEF Stands
  <2>. QED BY <1>2, <2>1, <2>2, <2>3, <2>4 DEF Follows
<1>5. FlowInv BY <1>2, <1>3, <1>4 DEF FlowInv, NoSilentLoss, ReadOK
<1>6. TerminalInv BY <1>3 DEF TerminalInv, TerminalLast
<1>7. StateInv
  <2>1. \A b \in Buses : KnownOK(b) BY Zenon, <1>2, <1>3 DEF KnownOK
  <2>. QED BY <1>3, <2>1 DEF StateInv, StatesAreChanges
<1>. QED BY <1>5, <1>6, <1>7 DEF ReportInv

LEMMA NextReports ==
  ASSUME ReportInv, SendInv, IInv, IInv', [Next]_vars
  PROVE  ReportInv'
<1>1. /\ Typed /\ LockOK /\ \A b \in Buses : PlaceOK(b) /\ ItemsOK(b)
      /\ Typed' /\ LogInv
  BY DEF IInv, BusInv, SendInv
<1>2. ASSUME NEW b \in Buses,
             \/ Loop(b) \/ Open(b) \/ Cleanup(b) \/ HealthTimer(b) \/ Deliver(b) \/ ControllerChanges(b)
             \/ PcanCancel(b) \/ Teardown(b) \/ Close(b) \/ CloseReturns(b)
      PROVE  ReportInv'
  <2>1. CASE Loop(b) \/ Open(b) \/ Cleanup(b) \/ Deliver(b) \/ ControllerChanges(b)
    BY <1>1, <2>1, LoopReports, OpenReports, CleanupReports, DeliverReports, ControllerReports
  <2>2. CASE PcanCancel(b) \/ Teardown(b) \/ Close(b) \/ CloseReturns(b) \/ HealthTimer(b)
    BY <1>1, <2>2, EndCalm, CalmlyKept
  <2>. QED BY <1>2, <2>1, <2>2
<1>3. ASSUME NEW s \in Senders, Sending(s) \/ Answer(s)
      PROVE  ReportInv'
  BY <1>1, <1>3, SendLockReports, SendCanceledReports, NativeAcceptsReports, NativeRefusesReports,
     SendRecordReports, AnswerReports DEF Sending
<1>4. ASSUME NEW s \in scenario.senders, NEW b \in Buses, SendCall(s, b)
      PROVE  ReportInv'
  <2>1. s \in Senders BY Zenon, <1>1, NativeAssumption DEF Typed, ScenarioOK
  <2>. QED BY <1>1, <1>4, <2>1, SendCallReports
<1>5. CASE Monitoring \/ Discover \/ DiscoverEnds \/ DeviceRemoved \/ DeviceAttached
  BY <1>1, <1>5, MonitorCalm, CalmlyKept
<1>6. CASE UNCHANGED vars
  <2>1. UNCHANGED <<scenario, lifecycle, bus, call, log>> BY <1>6 DEF vars
  <2>2. AllCalm BY <2>1 DEF AllCalm, Calm
  <2>. QED BY <1>1, <2>1, <2>2, CalmlyKept DEF Calmly, StopChanges
<1>. QED BY <1>2, <1>3, <1>4, <1>5, <1>6 DEF Next, Progress

\* The capture shows what the channel of each native bus delivered: receptions
\* in the order of delivery with none skipped, whatever the native queue drops
\* and the driver cannot decode; nothing of the bus after the record that ends
\* it, which SocketCAN, PCAN and Vector write under the lock they stop it with;
\* and the polled states of Vector and NI-XNET as changes.
THEOREM ReportAlwaysExact == Spec => []ReportExact
<1>1. ReportInv /\ SendInv /\ IInv /\ IInv' /\ [Next]_vars => ReportInv' BY NextReports
<1>2. SendInv /\ IInv /\ [Next]_vars => SendInv' BY NextSays
<1>3. Init => ReportInv /\ SendInv BY InitReports, InitSays
<1>4. ReportInv => ReportExact BY DEF ReportInv, FlowInv, TerminalInv, StateInv, ReportExact
<1>. QED BY <1>1, <1>2, <1>3, <1>4, NativeInvariant, PTL DEF Spec
=============================================================================
