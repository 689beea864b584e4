-------------------------- MODULE NativeDrivers --------------------------
(***************************************************************************)
(* Native buses from Open to the end of Close: what each Open acquires and *)
(* gives back when a later step fails, the process-wide Vector driver, the *)
(* device monitor of the PCAN buses, the network, and the removal of a     *)
(* device at any moment.  A scenario fixes the driver and the budgets.     *)
(***************************************************************************)
EXTENDS NativeBus

CONSTANTS Scenarios      \* the scenarios of a run

Kinds == {"socketcan", "pcan", "vector", "nixnet"}
States == {"unknown", "active", "warning", "passive", "busoff", "init"}
PacketKinds == {"frame", "bad", "overrun", "state", "error", "overflow", "error overflow", "invalid", "gone"}

\* Why a bus stops, None for Close.
Errors == {"removed", "capture", "busoff", "overrun", "gone", "io", "bad", "invalid"}

\* What the packets of a scenario carry.
Names(c) == {c.budget.packets[i].of : i \in DOMAIN c.budget.packets}

\* What the network may do and which calls may be made: the frames of the
\* network are not those of the senders.
ScenarioOK(c) ==
    /\ c.kind \in Kinds /\ c.capacity \in Nat /\ c.closes \subseteq Buses /\ c.senders \subseteq Senders
    /\ c.budget \in [faults : Nat, packets : Seq([kind : PacketKinds, of : Names(c)]),
                     answers : SUBSET Senders, changes : Seq(States),
                     ticks : Nat, removals : Nat, discovers : Nat]
    /\ Names(c) \cap Senders = {}
    /\ \A i \in DOMAIN c.budget.changes : c.budget.changes[i] = "init" => c.kind = "nixnet"
    /\ \A i \in DOMAIN c.budget.packets : c.budget.packets[i].kind = "state" => c.kind # "nixnet"

ASSUME NativeAssumption ==
    /\ IsFiniteSet(Buses) /\ MaxWatchers \in Nat
    /\ {EventBuffer, QueueSize, ReceiveBatch} \subseteq Nat \ {0}
    /\ None \notin Senders \union Errors \union {"loop", "nil"} /\ "loop" \notin Senders
    /\ \A c \in Scenarios : ScenarioOK(c)

VARIABLES present,       \* the PEAK device is attached
          xl             \* xlDriverProcess and the native driver behind it

vars == <<scenario, left, lifecycle, monitor, watchers, bus, call, log, present, xl>>

NewXlDriver == [users |-> 0, closeFailed |-> FALSE, open |-> FALSE, discovering |-> FALSE]

Init ==
    /\ scenario \in Scenarios
    /\ left = scenario.budget
    /\ lifecycle = [b \in Buses |-> NewLifecycle]
    /\ monitor = NewMonitor
    /\ watchers = [w \in WatcherIds |-> NewWatcher]
    /\ bus = [b \in Buses |-> NewBus]
    /\ call = [s \in Senders |-> NewCall]
    /\ log = <<>>
    /\ present = TRUE
    /\ xl = NewXlDriver

Active(b) == b \in scenario.buses

\* The channel is initialized: native calls on it are legal.
Channel == "channel"

Opening(b, from, to, got) ==
    /\ Active(b) /\ bus[b].opener = from
    /\ bus' = [bus EXCEPT ![b].opener = to, ![b].held = @ \union got]

\* A native step of Open fails, or the caller's context has ended.
OpenFault(b, from) ==
    /\ Active(b) /\ bus[b].opener = from /\ left.faults > 0
    /\ left' = [left EXCEPT !.faults = @ - 1]

-----------------------------------------------------------------------------
(* SocketCAN: the deferred close of the descriptor covers every failure.   *)

SocketOpen(b) ==
    /\ Kind = "socketcan"
    /\ \/ /\ Opening(b, "idle", "configure", {Channel})
          /\ UNCHANGED left
       \/ /\ Active(b) /\ bus[b].opener = "configure"
          /\ bus' = [bus EXCEPT ![b].opener = "opened", ![b].loop = "wait"]
          /\ UNCHANGED left
       \/ /\ OpenFault(b, "configure")
          /\ bus' = [bus EXCEPT ![b].opener = "failed", ![b].held = {}]
    /\ UNCHANGED <<scenario, lifecycle, call, log, monitorVars, present, xl>>

-----------------------------------------------------------------------------
(* PCAN: the hold comes before the initialization of the channel, and the  *)
(* attached inventory after it.                                            *)

\* The opener or the loop goes on with the teardown of a detached watcher.
TearsDown(b, place, next) ==
    LET w == Detached IN
      [bus EXCEPT ![b].teardown = w,
                  ![b][place] = IF w = 0 THEN next ELSE "teardown"]

PcanHold(b) ==
    /\ Kind = "pcan" /\ Active(b) /\ bus[b].opener = "idle"
    /\ Hold
    /\ bus' = [bus EXCEPT ![b].opener = "initialize", ![b].held = {"hold"},
                          ![b].generation = monitor.generation,
                          ![b].watcher = monitor'.watcher]
    /\ UNCHANGED <<scenario, left, lifecycle, call, log, present, xl>>

\* Release, deferred: the end of every failed open before Bind.
PcanRelease(b) ==
    /\ Release
    /\ bus' = [TearsDown(b, "opener", "failed") EXCEPT ![b].held = {}]

PcanInitialize(b) ==
    /\ Kind = "pcan"
    /\ \/ /\ Opening(b, "initialize", "inventory", {Channel})
          /\ UNCHANGED <<left, monitor>>
       \/ /\ OpenFault(b, "initialize")
          /\ PcanRelease(b)
    /\ UNCHANGED <<scenario, lifecycle, call, log, watchers, present, xl>>

\* Parameters, inventory and events; a channel absent from the inventory
\* is uninitialized again.
PcanInventory(b) ==
    /\ Kind = "pcan"
    /\ \/ /\ present
          /\ Opening(b, "inventory", "bind", {"events"})
          /\ UNCHANGED <<left, monitor>>
       \/ /\ ~present /\ Active(b) /\ bus[b].opener = "inventory"
          /\ PcanRelease(b)
          /\ UNCHANGED left
       \/ /\ OpenFault(b, "inventory")
          /\ PcanRelease(b)
    /\ UNCHANGED <<scenario, lifecycle, call, log, watchers, present, xl>>

\* The bus is subscribed, and its receive goroutine started, or the channel
\* is cleaned up after the refusal and its teardown.
PcanBind(b) ==
    /\ Kind = "pcan" /\ Active(b) /\ bus[b].opener = "bind"
    /\ Bind(b, bus[b].generation)
    /\ bus' = IF b \in monitor'.subscribers
              THEN [bus EXCEPT ![b].opener = "settle", ![b].loop = "wait",
                               ![b].held = (@ \ {"hold"}) \union {"subscription"}]
              ELSE [TearsDown(b, "opener", "refused") EXCEPT ![b].held = @ \ {"hold"}]
    /\ UNCHANGED <<scenario, left, lifecycle, call, log, watchers, present, xl>>

PcanRefused(b) ==
    /\ bus[b].opener = "refused"
    /\ bus' = [bus EXCEPT ![b].opener = "failed", ![b].held = {}]
    /\ UNCHANGED <<scenario, left, lifecycle, call, log, monitorVars, present, xl>>

\* The settle delay ends with the bus, with an ended context, or with a bus
\* that stopped meanwhile; the last two wait for its cleanup.
PcanSettle(b) ==
    /\ bus[b].opener = "settle"
    /\ \/ /\ bus' = Set(b, "opener", "opened")
          /\ UNCHANGED <<lifecycle, left>>
       \/ /\ OpenFault(b, "settle")
          /\ bus' = Set(b, "opener", "closing")
          /\ Stop(b, None)
       \/ /\ lifecycle[b].done
          /\ bus' = Set(b, "opener", "failed")
          /\ UNCHANGED <<lifecycle, left>>
    /\ UNCHANGED <<scenario, call, log, monitorVars, present, xl>>

PcanSettleClosed(b) ==
    /\ bus[b].opener = "closing" /\ lifecycle[b].done
    /\ bus' = Set(b, "opener", "failed")
    /\ UNCHANGED <<scenario, left, lifecycle, call, log, monitorVars, present, xl>>

\* The teardown of the watcher that the bus's last call detached.
Resumed(b) ==
    IF bus[b].opener # "teardown" THEN [bus EXCEPT ![b].loop = "cleanup"]
    ELSE [bus EXCEPT ![b].opener = IF Channel \in bus[b].held THEN "refused" ELSE "failed"]

Teardown(b) ==
    /\ "teardown" \in {bus[b].opener, bus[b].loop}
    /\ \/ CloseStop(bus[b].teardown) /\ UNCHANGED bus
       \/ CloseWatcher(bus[b].teardown) /\ bus' = Resumed(b)
    /\ UNCHANGED <<scenario, left, lifecycle, monitor, call, log, present, xl>>

-----------------------------------------------------------------------------
(* Vector: buses and Discover share one reference-counted native driver.   *)

Acquire == xl' = [xl EXCEPT !.users = @ + 1, !.open = TRUE]

\* Closing the native driver may fail; its state is then unknown and no
\* later acquire is let through.
Released(x, fails) ==
    IF x.users > 1 THEN [x EXCEPT !.users = @ - 1]
    ELSE IF fails THEN [x EXCEPT !.users = 0, !.closeFailed = TRUE]
    ELSE [x EXCEPT !.users = 0, !.open = FALSE]

\* A faulty close counts as a fault of the scenario.
VectorReleaseOf(x) ==
    \/ xl' = Released(x, FALSE) /\ UNCHANGED left
    \/ x.users = 1 /\ left.faults > 0
       /\ left' = [left EXCEPT !.faults = @ - 1] /\ xl' = Released(x, TRUE)

VectorRelease == VectorReleaseOf(xl)

VectorOpen(b) ==
    /\ Kind = "vector" /\ Active(b)
    /\ \/ /\ ~xl.closeFailed
          /\ Opening(b, "idle", "port", {"driver"})
          /\ Acquire
       \/ /\ Opening(b, "port", "configure", {"port"})
          /\ UNCHANGED xl
       \/ /\ Opening(b, "configure", "activated", {Channel, "events"})
          /\ UNCHANGED xl
       \/ /\ bus[b].opener = "activated"
          /\ bus' = [bus EXCEPT ![b].opener = "opened", ![b].loop = "wait",
                                ![b].queue = Append(@, Packet("state", bus[b].controller)),
                                ![b].signal = TRUE]
          /\ UNCHANGED xl
    /\ UNCHANGED <<scenario, left, lifecycle, call, log, monitorVars, present>>

VectorOpenRefused(b) ==
    /\ Kind = "vector" /\ Active(b) /\ bus[b].opener = "idle" /\ xl.closeFailed
    /\ bus' = Set(b, "opener", "failed")
    /\ UNCHANGED <<scenario, left, lifecycle, call, log, monitorVars, present, xl>>

\* The deferred function gives back what the flags say was acquired.
VectorOpenFails(b) ==
    /\ Kind = "vector"
    /\ \E from \in {"port", "configure", "activated"} : OpenFault(b, from)
    /\ bus' = [bus EXCEPT ![b].opener = "undo"]
    /\ UNCHANGED <<scenario, lifecycle, call, log, monitorVars, present, xl>>

VectorOpenUndo(b) ==
    /\ Kind = "vector" /\ bus[b].opener = "undo"
    /\ VectorRelease
    /\ bus' = [bus EXCEPT ![b].opener = "failed", ![b].held = {}]
    /\ UNCHANGED <<scenario, lifecycle, call, log, monitorVars, present>>

Discover ==
    /\ Kind = "vector" /\ left.discovers > 0
    /\ ~xl.discovering /\ ~xl.closeFailed
    /\ left' = [left EXCEPT !.discovers = @ - 1]
    /\ xl' = [xl EXCEPT !.users = @ + 1, !.open = TRUE, !.discovering = TRUE]
    /\ UNCHANGED <<scenario, lifecycle, bus, call, log, monitorVars, present>>

DiscoverEnds ==
    /\ xl.discovering
    /\ VectorReleaseOf([xl EXCEPT !.discovering = FALSE])
    /\ UNCHANGED <<scenario, lifecycle, bus, call, log, monitorVars, present>>

-----------------------------------------------------------------------------
(* NI-XNET: two sessions; the deferred cleanup clears the created ones.    *)

NixnetOpen(b) ==
    /\ Kind = "nixnet"
    /\ \/ Opening(b, "idle", "transmit", {"rx"}) /\ UNCHANGED left
       \/ Opening(b, "transmit", "start", {"tx"}) /\ UNCHANGED left
       \/ /\ Active(b) /\ bus[b].opener = "start"
          /\ bus' = [bus EXCEPT ![b].opener = "opened", ![b].loop = "poll",
                                ![b].held = @ \union {Channel}]
          /\ UNCHANGED left
       \/ /\ \E from \in {"transmit", "start"} : OpenFault(b, from)
          /\ bus' = [bus EXCEPT ![b].opener = "failed", ![b].held = {}]
    /\ UNCHANGED <<scenario, lifecycle, call, log, monitorVars, present, xl>>

-----------------------------------------------------------------------------
(* The end of the receive goroutine, and Close.                            *)

\* PCAN leaves the monitor before it takes ioMu.
PcanCancel(b) ==
    /\ Kind = "pcan" /\ bus[b].loop = "finish"
    /\ Cancel(b)
    /\ bus' = [TearsDown(b, "loop", "cleanup") EXCEPT ![b].held = @ \ {"subscription"}]
    /\ UNCHANGED <<scenario, left, lifecycle, watchers, call, log, present, xl>>

\* Cleanup under ioMu, then MarkDone.
Cleanup(b) ==
    /\ bus[b].loop = IF Kind = "pcan" THEN "cleanup" ELSE "finish"
    /\ bus[b].ioMu = None
    /\ bus' = [bus EXCEPT ![b].loop = "ended", ![b].held = {}, ![b].queue = <<>>]
    /\ MarkDone(b)
    /\ IF Kind = "vector" THEN VectorRelease ELSE UNCHANGED <<left, xl>>
    /\ UNCHANGED <<scenario, call, log, monitorVars, present>>

Close(b) ==
    /\ b \in scenario.closes /\ bus[b].opener = "opened" /\ bus[b].closer = "idle"
    /\ Kind = "socketcan" => bus[b].ioMu = None
    /\ Stop(b, None)
    /\ bus' = Set(b, "closer", "waiting")
    /\ UNCHANGED <<scenario, left, call, log, monitorVars, present, xl>>

CloseReturns(b) ==
    /\ bus[b].closer = "waiting" /\ lifecycle[b].done
    /\ bus' = Set(b, "closer", "returned")
    /\ UNCHANGED <<scenario, left, lifecycle, call, log, monitorVars, present, xl>>

-----------------------------------------------------------------------------
(* The network, the controller, the clock and Windows.                     *)

Queued(b, p) ==
    [bus EXCEPT ![b].queue = Append(@, IF Len(@) < QueueSize THEN p
                                       ELSE Packet("overrun", None)),
                ![b].delivered = IF p.kind \in {"frame", "bad"} THEN Append(@, p.of) ELSE @,
                ![b].signal = TRUE]

Receiving(b) == Channel \in bus[b].held /\ Len(bus[b].queue) <= QueueSize

Deliver(b) ==
    /\ Receiving(b) /\ left.packets # <<>>
    /\ bus' = Queued(b, Head(left.packets))
    /\ left' = [left EXCEPT !.packets = Tail(@)]
    /\ UNCHANGED <<scenario, lifecycle, call, log, monitorVars, present, xl>>

\* A node answers a frame the native driver accepted.
Answer(s) ==
    /\ s \in left.answers
    /\ call[s].accepted
    /\ Receiving(call[s].on)
    /\ bus' = Queued(call[s].on, Packet("frame", s))
    /\ left' = [left EXCEPT !.answers = @ \ {s}]
    /\ UNCHANGED <<scenario, lifecycle, call, log, monitorVars, present, xl>>

\* SocketCAN and PCAN are told of a new controller state by a packet.
ControllerChanges(b) ==
    /\ left.changes # <<>> /\ Receiving(b) /\ bus[b].controller # Head(left.changes)
    /\ LET state == Head(left.changes)
           told == IF Kind \in {"socketcan", "pcan"}
                   THEN Queued(b, Packet("state", state)) ELSE bus IN
         bus' = [told EXCEPT ![b].controller = state]
    /\ left' = [left EXCEPT !.changes = Tail(@)]
    /\ UNCHANGED <<scenario, lifecycle, call, log, monitorVars, present, xl>>

\* A state the capture does not show yet; "init" is none that NI-XNET records.
Unreported(b) == bus[b].controller \notin {bus[b].known, "init"}

\* The health timer of Vector and NI-XNET; ticks that would find nothing new,
\* or an answer still in the queue, are bounded.
HealthTimer(b) ==
    /\ Kind \in {"vector", "nixnet"} /\ Channel \in bus[b].held /\ ~bus[b].due
    /\ bus[b].loop # "off" /\ ~Stopping(b)
    /\ \/ /\ Unreported(b)
          /\ \A i \in DOMAIN bus[b].queue : bus[b].queue[i].kind # "state"
          /\ UNCHANGED left
       \/ left.ticks > 0 /\ left' = [left EXCEPT !.ticks = @ - 1]
    /\ bus' = Set(b, "due", TRUE)
    /\ UNCHANGED <<scenario, lifecycle, call, log, monitorVars, present, xl>>

\* Windows removes a PEAK device; every registration is notified.  It may
\* come back.
DeviceRemoved ==
    /\ Kind = "pcan" /\ left.removals > 0 /\ present
    /\ left' = [left EXCEPT !.removals = @ - 1]
    /\ present' = FALSE
    /\ watchers' = [w \in WatcherIds |-> Notify(watchers[w])]
    /\ bus' = [b \in Buses |->
                 [bus[b] EXCEPT !.stale = @ \/ bus[b].held # {}]]
    /\ UNCHANGED <<scenario, lifecycle, monitor, call, log, xl>>

DeviceAttached ==
    /\ ~present
    /\ present' = TRUE
    /\ UNCHANGED <<scenario, left, lifecycle, bus, call, log, monitorVars, xl>>

-----------------------------------------------------------------------------

Open(b) ==
    \/ SocketOpen(b) \/ NixnetOpen(b)
    \/ VectorOpen(b) \/ VectorOpenRefused(b) \/ VectorOpenFails(b) \/ VectorOpenUndo(b)
    \/ PcanHold(b) \/ PcanInitialize(b) \/ PcanInventory(b) \/ PcanBind(b)
    \/ PcanRefused(b) \/ PcanSettle(b) \/ PcanSettleClosed(b)

Sending(s) ==
    \/ SendLock(s) \/ SendCanceled(s) \/ NativeAccepts(s) \/ NativeRefuses(s) \/ SendRecord(s)

Monitoring == \E w \in WatcherIds :
    Run(w) /\ UNCHANGED <<scenario, left, bus, call, log, present, xl>>

\* What the program does on its own once it is called.
Progress ==
    \/ \E s \in Senders : Sending(s) /\ UNCHANGED <<present, xl>>
    \/ \E b \in Buses : Loop(b) /\ UNCHANGED <<present, xl>>
    \/ \E b \in Buses : PcanCancel(b) \/ Teardown(b) \/ Cleanup(b) \/ CloseReturns(b)
    \/ \E b \in Buses : bus[b].opener # "idle" /\ Open(b)
    \/ \E b \in Buses : HealthTimer(b)
    \/ Monitoring
    \/ DiscoverEnds

Next ==
    \/ Progress
    \/ \E b \in Buses : bus[b].opener = "idle" /\ Open(b)
    \/ \E s \in scenario.senders, b \in Buses : SendCall(s, b) /\ UNCHANGED <<present, xl>>
    \/ \E b \in Buses : Close(b)
    \/ \E b \in Buses : Deliver(b)
    \/ \E s \in Senders : Answer(s)
    \/ \E b \in Buses : ControllerChanges(b)
    \/ Discover
    \/ DeviceRemoved
    \/ DeviceAttached

Spec == Init /\ [][Next]_vars

\* Goroutines run, a lock is granted and native calls return.
FairSpec == Spec /\ WF_vars(Progress)

-----------------------------------------------------------------------------
(* Properties.                                                             *)

TypeOK ==
    /\ scenario \in Scenarios
    /\ lifecycle \in [Buses -> [stop : BOOLEAN, done : BOOLEAN, err : Errors \union {None}]]
    /\ monitor.watcher \in 0..MaxWatchers /\ monitor.holds \in Nat
    /\ monitor.subscribers \subseteq Buses
    /\ \A w \in WatcherIds : watchers[w].events \in 0..EventBuffer
                             /\ watchers[w].todo \subseteq Buses
    /\ \A b \in Buses :
         /\ bus[b].held \subseteq {Channel, "hold", "events", "subscription", "driver",
                                   "port", "rx", "tx"}
         /\ bus[b].ioMu \in Senders \union {None, "loop"}
    /\ \A s \in Senders : call[s].pc \in {"idle", "waiting", "writing", "accepted", "returned"}

\* A native call finds its channel initialized: cleanup cannot slip between the
\* check of the stop signal and the call.  Once the handles are gone the bus has stopped, so no later Stop
\* wakes a closed event; a Vector channel lives in an open native driver.
NativeCallsOpen ==
    /\ \A s \in Senders : call[s].pc = "writing" =>
         Channel \in bus[call[s].on].held
    /\ \A b \in Buses :
         /\ bus[b].loop \notin {"off", "cleanup", "teardown", "ended"} => Channel \in bus[b].held
         /\ bus[b].opener = "opened" /\ Channel \notin bus[b].held => Stopping(b)
         /\ Kind = "vector" /\ Channel \in bus[b].held => xl.open /\ ~xl.closeFailed

\* The contract of Bus.Send (bus.go): nil exactly when the native driver took
\* the frame and the capture has it; a frame that was taken and could not be
\* recorded has stopped the bus, and any other error left nothing behind.
AcceptanceDefinite ==
    \A s \in Senders : call[s].pc = "returned" =>
      LET recorded == \E i \in DOMAIN log : log[i].kind = "TX" /\ log[i].of = s IN
        /\ recorded <=> call[s].result = "nil"
        /\ recorded => call[s].accepted
        /\ call[s].accepted /\ ~recorded =>
             call[s].result = "capture" /\ Stopping(call[s].on) /\ lifecycle[call[s].on].err # None

\* Within a bus a transmission is recorded before its response (bus.go),
\* also when NI-XNET reads the response without ioMu.
TransmitFirst ==
    \A i \in DOMAIN log : log[i].kind = "RX" /\ log[i].of \in Senders =>
      \E j \in 1..(i - 1) : log[j].kind = "TX" /\ log[j].of = log[i].of

\* The first n records of b that are receptions.
Receptions(b, n) == {i \in 1..n : log[i].bus = b /\ log[i].kind = "RX"}

\* Frames are recorded in the order of delivery and none is skipped: nothing
\* is recorded after a frame that the queue dropped or the driver could not
\* decode ("a driver stops its bus ... instead of silently dropping frames").
NoSilentLoss ==
    \A b \in Buses : \A i \in Receptions(b, Len(log)) :
      LET place == Cardinality(Receptions(b, i)) IN
        place <= Len(bus[b].delivered) /\ log[i].of = bus[b].delivered[place]

Terminal(e) == e.kind = "overrun" \/ (e.kind = "state" /\ e.of = "busoff")

\* SocketCAN, PCAN and Vector stop under ioMu with the observation that ends
\* the bus, so that nothing of the bus follows it in the capture, but for the
\* overrun that a Linux error packet may report after its bus-off state.
\* NI-XNET stops after it has released ioMu and gives no such order.
TerminalLast ==
    Kind # "nixnet" =>
      \A i, j \in DOMAIN log :
        /\ i < j /\ Terminal(log[i])
        /\ log[j].bus = log[i].bus
        => Kind = "socketcan" /\ log[i].kind = "state" /\ log[j].kind = "overrun"

\* The controller states Vector and NI-XNET poll are recorded as changes.
StatesAreChanges ==
    Kind \in {"vector", "nixnet"} =>
      \A i, j \in DOMAIN log :
        /\ i < j /\ log[i].kind = "state" /\ log[j].kind = "state" /\ log[i].bus = log[j].bus
        /\ \A k \in i + 1..j - 1 : log[k].kind # "state" \/ log[k].bus # log[i].bus
        => log[i].of # log[j].of

Holding(handle) == {b \in Buses : handle \in bus[b].held}

\* What buses hold is what the process counts: device holds, subscriptions
\* and users of the Vector driver, which is open while it has a user.  A
\* failed Open and a closed bus hold nothing.
ReferencesExact ==
    /\ monitor.holds = Cardinality(Holding("hold"))
    /\ monitor.subscribers = Holding("subscription")
    /\ xl.users = Cardinality(Holding("driver")) + (IF xl.discovering THEN 1 ELSE 0)
    /\ xl.open <=> xl.users > 0 \/ xl.closeFailed
    /\ \A b \in Buses :
         bus[b].opener = "failed" \/ lifecycle[b].done => bus[b].held = {}

\* While an open or an opened bus relies on it, the monitor has a registered
\* watcher whose goroutine runs and was not told to stop; and a watcher stops
\* only buses that were opened under it, never those of a later one.
WatchedWhileHeld ==
    /\ monitor.holds > 0 \/ monitor.subscribers # {} =>
         /\ monitor.watcher # 0
         /\ watchers[monitor.watcher].registered /\ watchers[monitor.watcher].running
         /\ ~watchers[monitor.watcher].stop
    /\ \A w \in WatcherIds : \A b \in watchers[w].todo : bus[b].watcher = w

\* A removal after the hold is never missed: until the bus is stopped or its
\* Bind has to fail, the attached watcher still has the news.
RemovalNotMissed ==
    \A b \in Buses : bus[b].stale =>
      LET w == monitor.watcher
          news == watchers[w].events > 0 \/ watchers[w].lost IN
        /\ b \in Holding("subscription") => Stopping(b) \/ news \/ b \in watchers[w].todo
        /\ b \in Holding("hold") => news \/ bus[b].generation # monitor.generation

\* What callers of Send learn and what the capture shows of it agree.
SendExact == AcceptanceDefinite /\ TransmitFirst

\* The capture shows what the channel delivered, up to the end of the bus.
ReportExact == NoSilentLoss /\ TerminalLast /\ StatesAreChanges

\* Native handles, references and the device monitor agree with the buses.
HandlesExact ==
    TypeOK /\ NativeCallsOpen /\ ReferencesExact /\ WatchedWhileHeld /\ RemovalNotMissed

\* After a failed native close nobody opens the Vector driver again.
ClosedForGood ==
    [][xl.closeFailed => xl'.closeFailed /\ xl'.users <= xl.users]_vars

Settled ==
    /\ \A b \in Buses :
         /\ bus[b].closer # "waiting"
         /\ bus[b].opener \in {"idle", "opened", "failed"}
         /\ Stopping(b) => lifecycle[b].done
         /\ bus[b].opener = "opened" =>
              Stopping(b) \/ (/\ bus[b].queue = <<>> /\ ~bus[b].stale
                              /\ Kind \in {"vector", "nixnet"} => ~Unreported(b))
    /\ \A s \in Senders : call[s].pc \in {"idle", "returned"}
    /\ \A w \in WatcherIds : w # monitor.watcher => ~watchers[w].running

\* Close, Send and Open return, a stopped bus is cleaned up, received packets
\* and new controller states reach the capture, a removal stops the buses of
\* the device, and a detached watcher ends.
Settles == []<>Settled

\* Whatever stops, stops for good, and completely.
StopsForGood == ClosedForGood /\ Settles
=============================================================================
