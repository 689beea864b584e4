------------------------- MODULE NativeInvariants --------------------------
(***************************************************************************)
(* The inductive invariants of the native drivers, for their handles, for  *)
(* what Send reports and for what the capture shows, and the shapes of the *)
(* steps, many actions sharing one, in which NativeDriversProofs shows     *)
(* that they are kept.                                                     *)
(***************************************************************************)
EXTENDS NativeDrivers

-----------------------------------------------------------------------------
(* The types of what the drivers keep.                                     *)

Values == Senders \union {None} \union States \union UNION {Names(c) : c \in Scenarios}
Packets == [kind : PacketKinds, of : Values]

Openers ==
  {"idle", "configure", "opened", "failed", "initialize", "inventory", "bind", "refused",
   "settle", "closing", "teardown", "port", "activated", "undo", "transmit", "start"}
Running == {"wait", "receive", "drain", "apply", "request", "failed", "poll", "read", "check",
            "publish", "finish"}
Leaving == {"teardown", "cleanup"}
Places == {"off", "ended"} \union Running \union Leaving
Handles == {Channel, "hold", "events", "subscription", "driver", "port", "rx", "tx"}
Watcher == 0..MaxWatchers

BusRecords ==
  [opener : Openers, held : SUBSET Handles, generation : Nat, watcher : Watcher,
   teardown : Watcher, stale : BOOLEAN, loop : Places, items : Seq(Packets),
   failure : Errors \union {None}, ioMu : Senders \union {None, "loop"}, signal : BOOLEAN,
   queue : Seq(Packets), delivered : Seq(Values), controller : States, known : Values,
   due : BOOLEAN, closer : {"idle", "waiting", "returned"}]

Calls ==
  [pc : {"idle", "waiting", "writing", "accepted", "returned"}, on : Buses \union {None},
   result : Errors \union {None, "nil", "canceled", "closed", "full"}, accepted : BOOLEAN]

Lifecycles == [stop : BOOLEAN, done : BOOLEAN, err : Errors \union {None}]

Watchers ==
  [registered : BOOLEAN, running : BOOLEAN, stop : BOOLEAN, events : 0..EventBuffer, lost : BOOLEAN,
   todo : SUBSET Buses]

Lefts ==
  [faults : Nat, packets : Seq(Packets), answers : SUBSET Senders, changes : Seq(States),
   ticks : Nat, removals : Nat, discovers : Nat]

Typed ==
  /\ scenario \in Scenarios /\ left \in Lefts
  /\ lifecycle \in [Buses -> Lifecycles]
  /\ monitor \in [watcher : Watcher, generation : Nat, holds : Nat, subscribers : SUBSET Buses]
  /\ watchers \in [WatcherIds -> Watchers]
  /\ bus \in [Buses -> BusRecords]
  /\ call \in [Senders -> Calls]
  /\ present \in BOOLEAN
  /\ xl \in [users : Nat, closeFailed : BOOLEAN, open : BOOLEAN, discovering : BOOLEAN]

-----------------------------------------------------------------------------
(* The inductive invariant.                                                *)

\* The receive goroutine of b starts with the bus, runs while the channel is
\* open, and does not leave before the bus was told to stop.
PlaceOK(b) ==
  LET o == bus[b].opener
      l == bus[b].loop IN
  /\ l # "off" => o \in {"settle", "opened", "closing", "failed"}
  /\ o \in {"settle", "opened", "closing"} => l # "off"
  /\ o = "failed" => l \in {"off", "ended"}
  /\ l \in {"finish", "ended"} \union Leaving => Stopping(b)
  /\ lifecycle[b].done <=> l = "ended"
  /\ l \in Leaving \/ o \in {"initialize", "inventory", "bind", "refused", "settle", "closing",
                              "teardown"} => Kind = "pcan"
  /\ o \in {"port", "activated", "undo"} => Kind = "vector"
  /\ o = "configure" => Kind \in {"socketcan", "vector"}

\* What b holds at each place.
HeldOK(b) ==
  LET o == bus[b].opener
      l == bus[b].loop
      held == bus[b].held IN
  /\ o \in {"idle", "failed"} /\ l = "off" => held = {}
  /\ l = "ended" => held = {}
  /\ o = "teardown" => Channel \in held \/ held = {}
  /\ "hold" \in held <=> o \in {"initialize", "inventory", "bind"}
  /\ "subscription" \in held <=> Kind = "pcan" /\ l \in Running
  /\ "driver" \in held <=> /\ Kind = "vector"
                           /\ o \in {"port", "configure", "activated", "undo"} \/ l \in Running
  /\ l \in Running \union Leaving \/ o \in {"inventory", "bind", "activated"}
       \/ (o = "configure" /\ Kind = "socketcan") => Channel \in held
  /\ Kind = "vector" /\ Channel \in held => "driver" \in held

\* A packet is there to be read or applied.
ItemsOK(b) ==
  /\ bus[b].loop \in {"publish", "apply"} => bus[b].items # <<>>
  /\ bus[b].loop = "receive" => bus[b].queue # <<>>

\* Who holds ioMu.
LockOK ==
  /\ \A b \in Buses : bus[b].ioMu = "loop" <=> bus[b].loop = "apply"
  /\ \A b \in Buses : bus[b].loop = "ended" => bus[b].ioMu = None
  /\ \A s \in Senders :
       /\ call[s].pc # "idle" => call[s].on \in Buses /\ bus[call[s].on].opener = "opened"
       /\ call[s].accepted => call[s].pc # "idle"
       /\ call[s].pc \in {"writing", "accepted"} => bus[call[s].on].ioMu = s
  /\ \A b \in Buses : bus[b].ioMu \in Senders =>
       call[bus[b].ioMu].pc \in {"writing", "accepted"} /\ call[bus[b].ioMu].on = b

BusInv == \A b \in Buses : PlaceOK(b) /\ HeldOK(b) /\ ItemsOK(b)

\* The process counts what the buses hold.
CountInv ==
  /\ monitor.holds = Cardinality(Holding("hold"))
  /\ monitor.subscribers = Holding("subscription")
  /\ xl.users = Cardinality(Holding("driver")) + (IF xl.discovering THEN 1 ELSE 0)
  /\ xl.open <=> xl.users > 0 \/ xl.closeFailed
  /\ xl.closeFailed => xl.users = 0

\* A watcher that has been registered; one that was told to stop stays so.
Used(w) == watchers[w].registered \/ watchers[w].stop

\* The attached watcher works, and it is the one of every bus that relies on
\* it; the one that a caller tears down is no longer attached.
WatchInv ==
  /\ monitor.watcher # 0 => LET w == watchers[monitor.watcher] IN w.registered /\ w.running /\ ~w.stop
  /\ monitor.holds > 0 \/ monitor.subscribers # {} => monitor.watcher # 0
  /\ \A b \in Buses :
       /\ b \in Holding("hold") \union Holding("subscription") => bus[b].watcher = monitor.watcher
       /\ "teardown" \in {bus[b].opener, bus[b].loop} =>
            bus[b].teardown \notin {0, monitor.watcher} /\ Used(bus[b].teardown)
       /\ \A w \in WatcherIds : b \in watchers[w].todo => bus[b].watcher = w /\ bus[b].opener # "idle"

\* A removal is not missed, and the generation of a hold is not a later one.
RemovalInv ==
  /\ RemovalNotMissed
  /\ \A b \in Buses : /\ bus[b].opener = "idle" => ~bus[b].stale
                      /\ b \in Holding("hold") => bus[b].generation <= monitor.generation

IInv == Typed /\ BusInv /\ LockOK /\ CountInv /\ WatchInv /\ RemovalInv

-----------------------------------------------------------------------------
(* Updates of the variables, and their types.                              *)

\* Nothing of another bus changes.
OnlyBus(b) == \A other \in Buses : other # b => bus'[other] = bus[other]

\* Nobody is started again: the lifecycle of b may stop, those of others do not
\* change, and no bus becomes done.
StopsOnly(b) ==
  /\ lifecycle' \in [Buses -> Lifecycles]
  /\ \A other \in Buses : /\ other # b => lifecycle'[other] = lifecycle[other]
                          /\ lifecycle'[other].done = lifecycle[other].done
                          /\ lifecycle[other].stop => lifecycle'[other].stop

-----------------------------------------------------------------------------
(* The receive goroutine keeps what Open acquired.                         *)

\* The handles and references of b are what they were.
KeepsHandles(b) ==
  /\ bus'[b].opener = bus[b].opener /\ bus'[b].held = bus[b].held
  /\ bus'[b].generation = bus[b].generation /\ bus'[b].watcher = bus[b].watcher
  /\ bus'[b].teardown = bus[b].teardown /\ bus'[b].stale = bus[b].stale

LoopLock(b) == bus[b].ioMu = "loop" <=> bus[b].loop = "apply"

LoopMoves(b) ==
  /\ bus' \in [Buses -> BusRecords] /\ OnlyBus(b) /\ StopsOnly(b) /\ KeepsHandles(b)
  /\ bus[b].loop \in Running /\ bus'[b].loop \in Running
  /\ bus'[b].loop = "finish" => Stopping(b)'
  /\ ItemsOK(b)' /\ LoopLock(b)'
  /\ bus'[b].ioMu = bus[b].ioMu \/ {bus[b].ioMu, bus'[b].ioMu} \subseteq {None, "loop"}
  /\ left' \in Lefts
  /\ UNCHANGED <<scenario, call, monitor, watchers>>

\* The buses after the goroutine of b has applied a packet.
Ready(b, known) == [bus EXCEPT ![b].ioMu = None, ![b].items = <<>>, ![b].known = known]

\* What the three outcomes of an applied packet change besides.
GoesOn(b, ready, place) ==
  \/ bus' = [ready EXCEPT ![b].loop = place]
  \/ \E failure \in Errors \union {None} :
       bus' = [ready EXCEPT ![b].loop = place, ![b].failure = failure]
  \/ \E due \in BOOLEAN, queue \in Seq(Packets) :
       bus' = [ready EXCEPT ![b].loop = place, ![b].due = due, ![b].queue = queue]

\* The record r has the handles of b.
SameHandles(r, b) ==
  /\ r.opener = bus[b].opener /\ r.held = bus[b].held /\ r.generation = bus[b].generation
  /\ r.watcher = bus[b].watcher /\ r.teardown = bus[b].teardown /\ r.stale = bus[b].stale

-----------------------------------------------------------------------------
(* The callers of Send take and release ioMu.                              *)

\* Nothing of another call changes.
OnlyCall(s) == \A other \in Senders : other # s => call'[other] = call[other]

\* The bus that s calls keeps everything but ioMu.
KeepsPlace(b) ==
  /\ bus'[b].loop = bus[b].loop /\ bus'[b].queue = bus[b].queue /\ bus'[b].items = bus[b].items

InSection(s) == call[s].pc \in {"writing", "accepted"}

\* s keeps ioMu or stays without it, takes it, or gives it back.
LockMoves(s, b) ==
  \/ bus'[b].ioMu = bus[b].ioMu /\ (InSection(s)' <=> InSection(s))
  \/ bus[b].ioMu = None /\ bus'[b].ioMu = s /\ ~InSection(s) /\ InSection(s)' /\ ~Stopping(b)
  \/ bus'[b].ioMu = None /\ InSection(s) /\ ~InSection(s)'

SenderMoves(s) ==
  LET b == call[s].on IN
    /\ b \in Buses /\ call[s].pc # "idle"
    /\ call' \in [Senders -> Calls] /\ OnlyCall(s) /\ call'[s].on = b /\ call'[s].pc # "idle"
    /\ bus' \in [Buses -> BusRecords] /\ OnlyBus(b) /\ KeepsHandles(b) /\ KeepsPlace(b)
    /\ StopsOnly(b) /\ left' \in Lefts
    /\ LockMoves(s, b)
    /\ UNCHANGED <<scenario, monitor, watchers>>

Results == Errors \union {None, "nil", "canceled", "closed", "full"}

-----------------------------------------------------------------------------
(* Steps that leave every handle where it is.                              *)

\* The hold or subscription and the watcher of b stay; b may stop.
ServedBus(b) ==
  /\ \A h \in {"hold", "subscription"} : h \in bus'[b].held <=> h \in bus[b].held
  /\ bus'[b].generation = bus[b].generation /\ bus'[b].watcher = bus[b].watcher
  /\ bus'[b].teardown = bus[b].teardown /\ bus'[b].stale = bus[b].stale
  /\ bus'[b].opener = "idle" => bus[b].opener = "idle"
  /\ "teardown" \in {bus'[b].opener, bus'[b].loop} => "teardown" \in {bus[b].opener, bus[b].loop}
  /\ Stopping(b) => Stopping(b)'

\* Its user of the Vector driver stays as well.
LocalBus(b) == ServedBus(b) /\ ("driver" \in bus'[b].held <=> "driver" \in bus[b].held)

\* The opener and the handles of b stay, and its goroutine goes on.
QuietBus(b) ==
  /\ KeepsHandles(b) /\ ItemsOK(b)'
  /\ \/ bus'[b].loop = bus[b].loop
     \/ /\ bus[b].loop \in Running /\ bus'[b].loop \in Running
        /\ bus'[b].loop = "finish" => Stopping(b)'
  /\ lifecycle'[b].done = lifecycle[b].done /\ (Stopping(b) => Stopping(b)')

-----------------------------------------------------------------------------
(* The network, the controller, the clock, and the callers of Close.       *)

\* The record of a bus after a packet has reached its native queue.
QueuedRecord(b, p) ==
  [bus[b] EXCEPT !.queue = Append(@, IF Len(@) < QueueSize THEN p ELSE Packet("overrun", None)),
                 !.delivered = IF p.kind \in {"frame", "bad"} THEN Append(@, p.of) ELSE @,
                 !.signal = TRUE]

-----------------------------------------------------------------------------
(* Open, step by step.                                                     *)

\* The opener of b is at another place, and holds other things.
OpenerTo(b, to, held, place) ==
  bus' = [bus EXCEPT ![b] = [bus[b] EXCEPT !.opener = to, !.held = held, !.loop = place]]

\* The steps of a Vector Open behind the acquired driver.
VectorLocal(b) ==
  \/ Opening(b, "port", "configure", {"port"}) /\ UNCHANGED left
  \/ Opening(b, "configure", "activated", {Channel, "events"}) /\ UNCHANGED left
  \/ VectorOpenFails(b)
  \/ VectorOpenRefused(b)

-----------------------------------------------------------------------------
(* PCAN: the steps through the monitor.                                    *)

\* b goes on after a step that gives its hold or subscription back.
LeavesTo(b, opener, place, held, w) ==
  bus' = [bus EXCEPT ![b] = [bus[b] EXCEPT !.teardown = w, !.opener = opener, !.loop = place,
                                           !.held = held]]

\* Bind refuses an open that a removal has overtaken.
BindRefuses(b) ==
  /\ monitor' = IdleShutdown(EndHold(monitor))
  /\ bus' = [TearsDown(b, "opener", "refused") EXCEPT ![b].held = @ \ {"hold"}]

\* Bind subscribes the bus, whose receive goroutine starts.
BindAccepts(b) ==
  /\ monitor' = [EndHold(monitor) EXCEPT !.subscribers = @ \union {b}]
  /\ bus' = [bus EXCEPT ![b].opener = "settle", ![b].loop = "wait",
                        ![b].held = (@ \ {"hold"}) \union {"subscription"}]

-----------------------------------------------------------------------------
(* Vector: the process-wide native driver, and the end of a bus.           *)

XlRecords == [users : Nat, closeFailed : BOOLEAN, open : BOOLEAN, discovering : BOOLEAN]

\* One user of the native driver fewer than in x.
ReleasedFrom(x) ==
  /\ xl' \in XlRecords
  /\ xl'.users = x.users - 1 /\ xl'.discovering = x.discovering
  /\ xl'.open <=> xl'.users > 0 \/ xl'.closeFailed
  /\ xl'.closeFailed => xl'.users = 0

XlReleased == ReleasedFrom(xl)

-----------------------------------------------------------------------------
(* The watchers: their goroutines, their teardown and Windows.             *)

\* Watcher w moves; if it is the attached one, it keeps working and keeps its news.
WatcherMoves(w) ==
  /\ watchers' \in [WatcherIds -> Watchers]
  /\ \A v \in WatcherIds : v # w => watchers'[v] = watchers[v]
  /\ watchers[w].registered \/ watchers[w].stop => watchers'[w].registered \/ watchers'[w].stop
  /\ watchers'[w].todo \subseteq watchers[w].todo
  /\ \A b \in watchers[w].todo \ watchers'[w].todo : Stopping(b)'
  /\ w = monitor.watcher =>
       /\ watchers'[w].registered = watchers[w].registered /\ watchers'[w].running = watchers[w].running
       /\ watchers'[w].stop = watchers[w].stop
       /\ watchers'[w].events = watchers[w].events /\ watchers'[w].lost = watchers[w].lost

\* The goroutine of a watcher takes news and copies the subscribers to stop.
TakesNews(w) ==
  /\ StopAll(w)
  /\ \E r \in Watchers :
       /\ watchers' = [watchers EXCEPT ![w] = r] /\ r.todo = Copied(w)
       /\ r.registered = watchers[w].registered /\ r.running = watchers[w].running
       /\ r.stop = watchers[w].stop
  /\ watchers[w].todo = {}

-----------------------------------------------------------------------------
(* Sends: the inductive invariant.                                         *)

LogEvents == [bus : Buses, kind : {"TX", "RX", "state", "error", "overrun"}, of : Values]

\* The capture has the frame of s.
Transmitted(s) == \E i \in DOMAIN log : log[i].kind = "TX" /\ log[i].of = s

\* The frame of s is among these packets, or was received on b and not yet published.
Carries(packets, s) == \E i \in 1..Len(packets) : packets[i].kind = "frame" /\ packets[i].of = s
Heard(b, s) == Carries(bus[b].queue, s) \/ Carries(bus[b].items, s)

\* The frames of the network are not those of the senders.
Foreign == \A i \in 1..Len(left.packets) : left.packets[i].of \notin Senders

LogInv == log \in Seq(LogEvents) /\ Len(log) <= scenario.capacity

\* What s knows, and what became of its frame.
CallInv(s) ==
  LET c == call[s] IN
  /\ c.pc \in {"idle", "waiting", "writing"} => ~c.accepted
  /\ c.pc = "accepted" => c.accepted
  /\ Transmitted(s) <=> c.pc = "returned" /\ c.result = "nil"
  /\ Transmitted(s) => c.accepted
  /\ c.pc = "returned" /\ c.accepted /\ ~Transmitted(s) =>
       /\ c.result = "capture" /\ Stopping(c.on) /\ lifecycle[c.on].err # None
       /\ Len(log) = scenario.capacity

\* An answer is on the bus of the call it answers, which was accepted.
AnswerInv == \A b \in Buses, s \in Senders : Heard(b, s) => call[s].accepted /\ call[s].on = b

SendInv == LogInv /\ Foreign /\ (\A s \in Senders : CallInv(s)) /\ AnswerInv /\ TransmitFirst

-----------------------------------------------------------------------------
(* What the capture records.                                               *)

\* The log only grows; what is new is a beginning of events.
Grows(events) ==
  /\ log' \in Seq(LogEvents) /\ Len(log) <= Len(log') /\ Len(log') <= scenario.capacity
  /\ \A i \in 1..Len(log) : log'[i] = log[i]
  /\ \A i \in (Len(log) + 1)..Len(log') : i - Len(log) \in 1..Len(events) /\ log'[i] = events[i - Len(log)]
  /\ Fits(events) => Len(log') = Len(log) + Len(events)
  /\ ~Fits(events) => Len(log') = scenario.capacity

\* The receive goroutine records no transmission, and receives the packet it applies.
Receives(events, b, p) ==
  /\ events \in Seq(LogEvents)
  /\ \A i \in 1..Len(events) : /\ events[i].kind # "TX"
                               /\ events[i].kind = "RX" => p.kind = "frame" /\ events[i].of = p.of

-----------------------------------------------------------------------------
(* What a step does to what is said here.                                  *)

\* No packet of a sender reaches a bus.
Deaf == \A x \in Buses, s \in Senders : Heard(x, s)' => Heard(x, s)

\* A bus that stopped with an error stays stopped, with an error.
ErrKept == \A x \in Buses : Stopping(x) /\ lifecycle[x].err # None =>
                              Stopping(x)' /\ lifecycle'[x].err # None

-----------------------------------------------------------------------------
(* The callers of Send.                                                    *)

\* The queues of the buses are what they were, and so are the errors.
SameQueues == \A x \in Buses : bus'[x].queue = bus[x].queue /\ bus'[x].items = bus[x].items

\* A call that was not accepted returns one of these.
Refusals == Results \ {"nil"}

-----------------------------------------------------------------------------
(* The receive goroutines: which packets they have.                        *)

\* The goroutine of b has these packets now, of these in its queue.
Has(b, queue, items) ==
  OnlyBus(b) /\ bus'[b].queue = queue /\ bus'[b].items = items

\* A step of the goroutine that records nothing.
Unheard == Deaf /\ ErrKept /\ Foreign' /\ UNCHANGED <<scenario, call, log>>

\* The goroutine of b has applied p: it has fewer packets, and it may have
\* queued a controller state.
Applies(b, p) ==
  \/ \E items \in {<<>>, Tail(bus[b].items)} : Has(b, bus[b].queue, items)
  \/ \E q \in Packets : q.kind # "frame" /\ Has(b, Append(bus[b].queue, q), <<>>)

-----------------------------------------------------------------------------
(* Everything else is unheard, but the answers of the network.             *)

\* A step of Open or of the end of a bus, which touches no packet.
Untouched(b) ==
  /\ Has(b, bus[b].queue, bus[b].items)
  /\ UNCHANGED lifecycle \/ (\E e : Stop(b, e))
  /\ UNCHANGED left \/ left' = [left EXCEPT !.faults = @ - 1]
  /\ UNCHANGED <<scenario, call, log>>

-----------------------------------------------------------------------------
(* What is received and what is reported.                                  *)

\* The packets between the network and the capture, oldest first.
Stream(b) == bus[b].items \o bus[b].queue

\* A packet that a delivery to the channel stands behind.
Counted(p) == p.kind \in {"frame", "bad"}
Lost(p) == p.kind = "overrun"

\* After r receptions the packets of s carry on with the deliveries d, up to
\* the one that the full queue dropped.
Stands(place, s, r, d) ==
  /\ place[0] = r
  /\ \A k \in 1..Len(s) : place[k] = place[k - 1] + (IF Counted(s[k]) THEN 1 ELSE 0)
  /\ \A k \in 1..Len(s) : Counted(s[k]) /\ (\A j \in 1..k : ~Lost(s[j])) =>
       place[k] \in 1..Len(d) /\ d[place[k]] = s[k].of
  /\ (\A j \in 1..Len(s) : ~Lost(s[j])) => place[Len(s)] = Len(d)

Follows(s, r, d) == \E place \in [0..Len(s) -> Nat] : Stands(place, s, r, d)

\* e begins with d.
Longer(d, e) == Len(d) <= Len(e) /\ \A k \in 1..Len(d) : e[k] = d[k]

-----------------------------------------------------------------------------
(* Reports: the inductive invariant.                                       *)

\* The receive goroutine may still record; within an iteration of its loop
\* NI-XNET does not look at the stop signal.
Busy == {"publish", "apply", "read", "check"}
Live(b) == bus[b].loop \in Busy \/ (~Stopping(b) /\ bus[b].loop # "failed")

Received(b) == Cardinality(Receptions(b, Len(log)))

\* What has been read and not yet published.
ReadOK(b) ==
  /\ bus[b].loop \notin {"publish", "apply"} => bus[b].items = <<>>
  /\ Kind # "nixnet" => bus[b].loop # "publish" /\ (bus[b].loop = "apply" => Len(bus[b].items) = 1)

\* The overrun that a Linux error packet reports behind the state it reports.
Closes(d, e) == Kind = "socketcan" /\ d.kind = "state" /\ e.kind = "overrun"

\* After a terminal record nobody is left who could record on b.
Silenced(b) ==
  /\ Stopping(b) /\ bus[b].loop # "apply"
  /\ \A s \in Senders : call[s].pc \in {"writing", "accepted"} => call[s].on # b

\* The last state recorded on b is the known one.
StateRecord(i, b) == log[i].kind = "state" /\ log[i].bus = b
KnownOK(b) ==
  /\ \A i \in DOMAIN log :
       StateRecord(i, b) /\ (\A k \in i + 1..Len(log) : ~StateRecord(k, b)) => log[i].of = bus[b].known
  /\ Kind = "vector" => bus[b].known # "busoff"

FlowInv ==
  /\ NoSilentLoss
  /\ \A b \in Buses : ReadOK(b) /\ (Live(b) => Follows(Stream(b), Received(b), bus[b].delivered))

TerminalInv ==
  TerminalLast /\ (Kind # "nixnet" => \A i \in DOMAIN log : Terminal(log[i]) => Silenced(log[i].bus))

StateInv ==
  StatesAreChanges /\ (Kind \in {"vector", "nixnet"} => \A b \in Buses : Live(b) => KnownOK(b))

ReportInv == FlowInv /\ TerminalInv /\ StateInv

-----------------------------------------------------------------------------
(* What b's new records, if any, do to the log.                            *)

LogStep(b, events) ==
  events \in Seq(LogEvents) /\ Grows(events) /\ \A i \in 1..Len(events) : events[i].bus = b

\* What was delivered stays delivered.
Extends == \A x \in Buses : Longer(bus[x].delivered, bus'[x].delivered)

\* A reception that is recorded is the next delivery.
Recorded(b, events) ==
  \A i \in 1..Len(events) : events[i].kind = "RX" =>
    /\ Len(events) = 1
    /\ Received(b) + 1 <= Len(bus[b].delivered)
    /\ bus[b].delivered[Received(b) + 1] = events[1].of

-----------------------------------------------------------------------------
(* What a step does to the buses it is not about.                          *)

StopsKept == \A x \in Buses : Stopping(x) => Stopping(x)'

\* No caller begins to write on a bus that has stopped.
Callers ==
  \A s \in Senders : call'[s].pc \in {"writing", "accepted"} =>
    \/ call[s].pc \in {"writing", "accepted"} /\ call'[s].on = call[s].on
    \/ call'[s].on \in Buses => ~Stopping(call'[s].on)

\* The packets and what was delivered are what they were, and the receive
\* goroutine neither begins nor ends to publish.
HushedTo(x, place) ==
  /\ {bus[x].loop, place} \cap {"publish", "apply"} = {}
  /\ place \in Busy => Live(x)
  /\ bus[x].loop = "failed" => Stopping(x)'
Calm(x) ==
  /\ bus'[x].items = bus[x].items /\ bus'[x].queue = bus[x].queue
  /\ bus'[x].delivered = bus[x].delivered /\ bus'[x].known = bus[x].known
  /\ bus'[x].loop = bus[x].loop \/ HushedTo(x, bus'[x].loop)

-----------------------------------------------------------------------------
(* What a step does to the bus it is about.                                *)

FlowStep(b, events) ==
  /\ Longer(bus[b].delivered, bus'[b].delivered)
  /\ Recorded(b, events)
  /\ ReadOK(b)'
  /\ Live(b)' => Follows(Stream(b), Received(b), bus[b].delivered)'

TerminalStep(b, events) ==
  Kind # "nixnet" =>
    /\ Silenced(b) => Len(events) = 0 /\ Silenced(b)'
    /\ \A i \in 1..Len(events) : Terminal(events[i]) => Silenced(b)'
    /\ \A i, j \in 1..Len(events) : i < j /\ Terminal(events[i]) => Closes(events[i], events[j])

StateStep(b, events) ==
  Kind \in {"vector", "nixnet"} =>
    /\ \A i \in 1..Len(events) : events[i].kind = "state" =>
         i = Len(events) /\ Live(b) /\ events[i].of # bus[b].known
    /\ Live(b)' =>
         /\ Live(b) /\ (Kind = "vector" => bus'[b].known # "busoff")
         /\ IF \E i \in 1..Len(events) : events[i].kind = "state"
            THEN Len(log') = Len(log) + Len(events) /\ bus'[b].known = events[Len(events)].of
            ELSE bus'[b].known = bus[b].known

\* A step of b, with what it records.
ReportStep(b, events) ==
  /\ LogStep(b, events) /\ UNCHANGED scenario /\ bus' \in [Buses -> BusRecords]
  /\ StopsKept /\ Callers /\ \A x \in Buses : x # b => Calm(x)
  /\ FlowStep(b, events) /\ TerminalStep(b, events) /\ StateStep(b, events)

-----------------------------------------------------------------------------
(* The steps that record nothing and move no packet.                       *)

AllCalm == \A x \in Buses : Calm(x)

\* The receive goroutine of b goes to this place without publishing.
Hush(b, place) == place = bus[b].loop \/ HushedTo(b, place)

\* The bus has these packets, deliveries and known state now, and its receive
\* goroutine is at this place.
Shows(b, place, items, queue, delivered, known) ==
  /\ OnlyBus(b) /\ bus'[b].loop = place /\ bus'[b].items = items /\ bus'[b].queue = queue
  /\ bus'[b].delivered = delivered /\ bus'[b].known = known

\* Only the place changes.
Stays(b, place) == Shows(b, place, bus[b].items, bus[b].queue, bus[b].delivered, bus[b].known)

\* A bus that has stopped stays stopped.
StopChanges == UNCHANGED lifecycle \/ \E x \in Buses : MarkDone(x) \/ \E e : Stop(x, e)

\* A step that is calm, whoever makes it.
Calmly ==
  /\ AllCalm /\ StopChanges /\ UNCHANGED <<scenario, call, log>>

-----------------------------------------------------------------------------
(* Open and the end of a bus.                                              *)

\* The opener or the receive goroutine of b goes on with a teardown.
Torn(b, place, next, held) == bus' = [TearsDown(b, place, next) EXCEPT ![b].held = held]

-----------------------------------------------------------------------------
(* What a packet becomes.                                                  *)

\* The records of p: a reception for a frame and for nothing else; a state or
\* the overrun comes last, but for the overrun of a Linux error packet.
Shape(b, p, events) ==
  /\ events \in Seq(LogEvents) /\ \A i \in 1..Len(events) : events[i].bus = b
  /\ p.kind = "frame" => Len(events) = 1 /\ events[1].kind = "RX" /\ events[1].of = p.of
  /\ \A i \in 1..Len(events) : events[i].kind = "RX" => p.kind = "frame"
  /\ \A i, j \in 1..Len(events) :
       i < j /\ events[i].kind \in {"state", "overrun"} => Closes(events[i], events[j])

\* They report the state in p, or no state.
Mild(p, events) ==
  \A i \in 1..Len(events) :
    events[i].kind # "overrun" /\ (events[i].kind = "state" => events[i].of = p.of)
Reports(p, events) == Mild(p, events) /\ \E i \in 1..Len(events) : events[i].kind = "state"
Silent(events) == \A i \in 1..Len(events) : events[i].kind # "state"
Harmless(events) == \A i \in 1..Len(events) : events[i].kind \notin {"state", "overrun"}

\* What a driver makes of p: a packet behind which a frame was lost, or could
\* not be decoded, ends the bus.
Outcome(b, p, o) ==
  Shape(b, p, o.events) /\ (o.terminal = None /\ o.error = None => p.kind \notin {"bad", "overrun"})

\* A terminal record comes with the end of the bus.
Ending(o) == \A i \in 1..Len(o.events) : Terminal(o.events[i]) => o.terminal # None

\* A state that is recorded is new, and is the one that is known afterwards.
Changes(b, p, o) ==
  /\ \A i \in 1..Len(o.events) :
       o.events[i].kind = "state" => o.events[i].of # bus[b].known /\ o.events[i].of = Known(b, p)
  /\ Silent(o.events) => Known(b, p) = bus[b].known
=============================================================================
