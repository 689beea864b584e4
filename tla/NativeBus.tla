---------------------------- MODULE NativeBus ----------------------------
(***************************************************************************)
(* One opened bus of a native driver (SocketCAN, PCAN, Vector, NI-XNET):   *)
(* callers of Send and the driver's receive goroutine share ioMu, the      *)
(* native channel and the capture.  The four drivers differ in what a      *)
(* native status means, in who stops the bus under which lock, and in how  *)
(* the receive goroutine waits; each has its own operators here.           *)
(*                                                                         *)
(* The native side is external: it accepts or refuses a write, queues      *)
(* received packets in order, and marks the place where its full queue     *)
(* dropped one.  A packet is a record [kind, of]; kind "frame" carries the *)
(* name of a frame, the error and state packets the controller state.      *)
(***************************************************************************)
EXTENDS DeviceMonitor, Sequences

CONSTANTS Senders,       \* the goroutines that call Send, one frame each
          QueueSize,     \* packets the native receive queue holds
          ReceiveBatch   \* receiveBatchFrames of NI-XNET

VARIABLES scenario,      \* the driver and the budgets of this run
          left,          \* what is left of the budgets
          bus,           \* of each bus: handles, receive goroutine, ioMu, native side
          call,          \* of each sender
          log            \* what the capture recorded, oldest first

Nothing == [kind |-> "none", of |-> None]
Packet(kind, of) == [kind |-> kind, of |-> of]

NewBus ==
    [opener |-> "idle",      \* where Open is
     held |-> {},            \* native handles and references
     generation |-> 0,       \* of the device hold
     watcher |-> 0,          \* that was attached when the hold was taken
     teardown |-> 0,         \* watcher whose teardown this bus runs
     stale |-> FALSE,        \* its device was removed since the hold
     loop |-> "off",         \* where the receive goroutine is
     items |-> <<>>,         \* packets read and not yet published
     failure |-> None,       \* error the loop is about to stop the bus with
     ioMu |-> None,          \* holder of ioMu
     signal |-> FALSE,       \* the receive event
     queue |-> <<>>,         \* native receive queue
     delivered |-> <<>>,     \* frames the network delivered, dropped ones too
     controller |-> "active",
     known |-> "unknown",    \* last controller state recorded
     due |-> FALSE,          \* the next health check is due
     closer |-> "idle"]      \* the goroutine that calls Close

Kind == scenario.kind
Windows == Kind \in {"pcan", "vector"}

Stopping(b) == lifecycle[b].stop

Set(b, field, value) == [bus EXCEPT ![b][field] = value]

-----------------------------------------------------------------------------
(* The capture, external to the drivers: it records in order until its     *)
(* record limit, and then refuses.                                         *)

Event(b, kind, of) == [bus |-> b, kind |-> kind, of |-> of]

Fits(events) == Len(log) + Len(events) <= scenario.capacity

Record(events) ==
    log' = IF Fits(events) THEN log \o events
           ELSE SubSeq(log \o events, 1, scenario.capacity)

-----------------------------------------------------------------------------
(* Send.                                                                   *)

NewCall == [pc |-> "idle", on |-> None, result |-> None, accepted |-> FALSE]
Returned(s, result) == [call EXCEPT ![s] = [@ EXCEPT !.pc = "returned", !.result = result]]
Unlocked(b) == Set(b, "ioMu", None)

\* The first look at the context and the stop signal, without the lock;
\* NI-XNET looks at the context only.
SendCall(s, b) ==
    /\ call[s].pc = "idle" /\ bus[b].opener = "opened"
    /\ LET called == [NewCall EXCEPT !.pc = "waiting", !.on = b] IN
         call' = IF Stopping(b) /\ Kind # "nixnet"
                 THEN [call EXCEPT ![s] = [called EXCEPT !.pc = "returned",
                                                         !.result = OperationError(b)]]
                 ELSE [call EXCEPT ![s] = called]
    /\ UNCHANGED <<scenario, left, lifecycle, bus, log, monitorVars>>

\* Cancellation ends a Send that has not reached its native write.
SendCanceled(s) ==
    /\ scenario.cancels /\ call[s].pc = "waiting"
    /\ call' = Returned(s, "canceled")
    /\ UNCHANGED <<scenario, left, lifecycle, bus, log, monitorVars>>

\* The second look, under ioMu.
SendLock(s) ==
    /\ call[s].pc = "waiting"
    /\ LET b == call[s].on IN
         /\ bus[b].ioMu = None
         /\ IF Stopping(b)
            THEN call' = Returned(s, OperationError(b)) /\ UNCHANGED bus
            ELSE /\ call' = [call EXCEPT ![s].pc = "writing"]
                 /\ bus' = Set(b, "ioMu", s)
    /\ UNCHANGED <<scenario, left, lifecycle, log, monitorVars>>

NativeAccepts(s) ==
    /\ call[s].pc = "writing"
    /\ call' = [call EXCEPT ![s].pc = "accepted", ![s].accepted = TRUE]
    /\ UNCHANGED <<scenario, left, lifecycle, bus, log, monitorVars>>

\* What Send does with a native refusal: the error it returns, and the error
\* it stops the bus with.
SocketRefusal(b, status) ==
    [result |-> IF Stopping(b) THEN OperationError(b) ELSE status, stop |-> None]

PcanRefusal(status) ==
    [result |-> status, stop |-> IF status = "gone" THEN status ELSE None]

VectorRefusal(status) ==
    [result |-> status, stop |-> IF status = "gone" THEN status ELSE None]

NixnetRefusal(status) ==
    [result |-> status, stop |-> IF status = "full" THEN None ELSE status]

Refusal(b, status) ==
    CASE Kind = "socketcan" -> SocketRefusal(b, status)
      [] Kind = "pcan"      -> PcanRefusal(status)
      [] Kind = "vector"    -> VectorRefusal(status)
      [] Kind = "nixnet"    -> NixnetRefusal(status)

NativeRefuses(s) ==
    /\ call[s].pc = "writing" /\ left.faults > 0
    /\ \E status \in {"full", "gone", "io"} :
         LET b == call[s].on
             r == Refusal(b, status) IN
           /\ call' = Returned(s, r.result)
           /\ bus' = Unlocked(b)
           /\ IF r.stop = None THEN UNCHANGED lifecycle ELSE Stop(b, r.stop)
    /\ left' = [left EXCEPT !.faults = @ - 1]
    /\ UNCHANGED <<scenario, log, monitorVars>>

\* Mutant: a frame that could not be recorded leaves the bus running.
RecordsOrGoesOn(s) ==
    /\ call[s].pc = "accepted"
    /\ LET transmitted == <<Event(call[s].on, "TX", s)>> IN
         /\ Record(transmitted)
         /\ bus' = Unlocked(call[s].on)
         /\ call' = Returned(s, IF Fits(transmitted) THEN "nil" ELSE "capture")
    /\ UNCHANGED <<scenario, left, lifecycle, monitorVars>>

\* The accepted frame is recorded before ioMu is released.
SendRecord(s) ==
    /\ call[s].pc = "accepted"
    /\ LET b == call[s].on
           transmitted == <<Event(b, "TX", s)>> IN
         /\ Record(transmitted)
         /\ bus' = Unlocked(b)
         /\ IF Fits(transmitted)
            THEN call' = Returned(s, "nil") /\ UNCHANGED lifecycle
            ELSE call' = Returned(s, "capture") /\ Stop(b, "capture")
    /\ UNCHANGED <<scenario, left, monitorVars>>

-----------------------------------------------------------------------------
(* What a packet means to each driver: the events it becomes, whether it   *)
(* ends the bus, and the error of a packet that cannot be decoded.         *)

Observed(events, terminal, error) ==
    [events |-> events, terminal |-> terminal, error |-> error]

StateEvents(b, state) == <<Event(b, "state", state)>>
Ends(state) == IF state = "busoff" THEN "busoff" ELSE None
Frame(b, p) == Observed(<<Event(b, "RX", p.of)>>, None, None)
Overrun(b) == Observed(<<Event(b, "overrun", None)>>, "overrun", None)

\* A packet that is no observation, or none that the driver knows.
Undecoded(p) == Observed(<<>>, None, IF p.kind \in {"bad", "gone"} THEN p.kind ELSE "invalid")

\* The classes of a Linux error packet combine: an error, a controller state,
\* and an overflow of the controller's buffer, which ends the bus before a
\* bus-off state does.
SocketClasses == {"state", "error", "overflow", "error overflow"}

SocketErrors(b, p) ==
    LET error == IF p.kind \in {"error", "error overflow"} THEN <<Event(b, "error", None)>> ELSE <<>>
        state == IF p.of = None THEN <<>> ELSE StateEvents(b, p.of)
    IN  IF p.kind \in {"overflow", "error overflow"}
        THEN Observed(error \o state \o <<Event(b, "overrun", None)>>, "overrun", None)
        ELSE Observed(error \o state, Ends(p.of), None)

\* Mutant: a packet that cannot be decoded is skipped.
SocketSkips(b, p) ==
    CASE p.kind = "frame"          -> Frame(b, p)
      [] p.kind = "overrun"        -> Overrun(b)
      [] p.kind \in SocketClasses  -> SocketErrors(b, p)
      [] OTHER                     -> Observed(<<>>, None, None)

SocketDecode(b, p) ==
    CASE p.kind = "frame"          -> Frame(b, p)
      [] p.kind = "overrun"        -> Overrun(b)
      [] p.kind \in SocketClasses  -> SocketErrors(b, p)
      [] OTHER                     -> Undecoded(p)

PcanDecode(b, p) ==
    CASE p.kind = "frame"   -> Frame(b, p)
      [] p.kind = "overrun" -> Overrun(b)
      [] p.kind = "state"   -> Observed(StateEvents(b, p.of), Ends(p.of), None)
      [] p.kind = "error"   ->
           Observed(<<Event(b, "error", None)>> \o StateEvents(b, p.of), Ends(p.of), None)
      [] p.kind = "invalid" -> Observed(<<>>, None, None)
      [] OTHER              -> Undecoded(p)

\* A state the last one already reported is not recorded again, unless it
\* ends the bus.
VectorDecode(b, p) ==
    CASE p.kind = "frame"   -> Frame(b, p)
      [] p.kind = "overrun" -> Overrun(b)
      [] p.kind = "state"   ->
           Observed(IF p.of = bus[b].known /\ Ends(p.of) = None THEN <<>>
                    ELSE StateEvents(b, p.of), Ends(p.of), None)
      [] p.kind = "error"   -> Observed(<<Event(b, "error", None)>>, None, None)
      [] OTHER              -> Undecoded(p)

\* recordState: the dedup comes first, bus-off is an error of the caller.  It
\* does not know the state of a controller that still integrates.
NixnetState(b, state) ==
    Observed(IF state \in {bus[b].known, "init"} THEN <<>> ELSE StateEvents(b, state),
             None, IF state = "init" THEN "invalid" ELSE Ends(state))

NixnetDecode(b, p) ==
    CASE p.kind = "frame"   -> Frame(b, p)
      [] p.kind = "overrun" -> Observed(<<Event(b, "overrun", None)>>, None, "overrun")
      [] p.kind = "state"   -> IF p.of = "init" THEN Observed(<<>>, None, None)
                               ELSE NixnetState(b, p.of)
      [] p.kind = "error"   ->
           LET o == NixnetState(b, p.of) IN
             [o EXCEPT !.events = <<Event(b, "error", None)>> \o @]
      [] OTHER              -> Undecoded(p)

\* The state an applied packet leaves as the last one recorded.
Known(b, p) ==
    IF /\ p.kind = "state" \/ (p.kind = "error" /\ Kind \in {"pcan", "nixnet"})
       /\ Kind = "nixnet" => p.of # "init"
    THEN p.of ELSE bus[b].known

-----------------------------------------------------------------------------
(* The receive goroutines.                                                 *)

GoTo(b, place) == Set(b, "loop", place)

\* A native call of the loop that fails for a reason of its own.
LoopFault(b) == left.faults > 0 /\ left' = [left EXCEPT !.faults = @ - 1]

LoopStops(b, e) == Stop(b, e) /\ bus' = GoTo(b, "finish")

\* SocketCAN: RawConn.Read waits for readiness or the deadline that wake set;
\* receiveOnce locks, looks at the stop signal, and reads one packet.
SocketWait(b) ==
    /\ Kind = "socketcan" /\ bus[b].loop = "wait"
    /\ \/ /\ Stopping(b)
          /\ bus' = GoTo(b, "finish")
          /\ UNCHANGED <<lifecycle, left>>
       \/ /\ bus[b].queue # <<>>
          /\ bus' = GoTo(b, "receive")
          /\ UNCHANGED <<lifecycle, left>>
       \/ /\ ~Stopping(b)
          /\ LoopFault(b)
          /\ LoopStops(b, "io")
    /\ UNCHANGED <<scenario, call, log, monitorVars>>

SocketReceive(b) ==
    /\ Kind = "socketcan" /\ bus[b].loop = "receive" /\ bus[b].ioMu = None
    /\ IF Stopping(b)
       THEN bus' = GoTo(b, "finish")
       ELSE bus' = [bus EXCEPT ![b].ioMu = "loop", ![b].loop = "apply",
                               ![b].items = <<Head(bus[b].queue)>>,
                               ![b].queue = Tail(@)]
    /\ UNCHANGED <<scenario, left, lifecycle, call, log, monitorVars>>

\* Every error of recordReceive stops the bus before ioMu is released.
SocketApply(b) ==
    /\ Kind = "socketcan" /\ bus[b].loop = "apply"
    /\ LET o == SocketDecode(b, Head(bus[b].items))
           e == IF ~Fits(o.events) THEN "capture"
                ELSE IF o.terminal # None THEN o.terminal ELSE o.error IN
         /\ Record(o.events)
         /\ IF e = None THEN UNCHANGED lifecycle ELSE Stop(b, e)
         /\ bus' = [bus EXCEPT ![b].ioMu = None, ![b].loop = "wait",
                               ![b].items = <<>>,
                               ![b].known = Known(b, Head(bus[b].items))]
    /\ UNCHANGED <<scenario, left, call, monitorVars>>

\* PCAN and Vector wait for two events, of which the stop event comes first.
\* Vector also looks at the stop signal and the health timer on each round.
WindowsWait(b) ==
    /\ Windows /\ bus[b].loop = "wait"
    /\ \/ /\ Stopping(b)
          /\ bus' = GoTo(b, "finish")
          /\ UNCHANGED <<lifecycle, left>>
       \/ /\ ~Stopping(b) /\ bus[b].due
          /\ bus' = GoTo(b, "request")
          /\ UNCHANGED <<lifecycle, left>>
       \/ /\ ~Stopping(b) /\ ~bus[b].due /\ bus[b].signal
          /\ bus' = [bus EXCEPT ![b].signal = FALSE, ![b].loop = "drain"]
          /\ UNCHANGED <<lifecycle, left>>
       \/ /\ ~Stopping(b)
          /\ LoopFault(b)
          /\ LoopStops(b, "io")
    /\ UNCHANGED <<scenario, call, log, monitorVars>>

\* receiveOne: one native read and its publication under ioMu.
WindowsReceive(b) ==
    /\ Windows /\ bus[b].loop = "drain" /\ bus[b].ioMu = None
    /\ bus' = IF Stopping(b) \/ bus[b].queue = <<>>
              THEN GoTo(b, "wait")
              ELSE [bus EXCEPT ![b].ioMu = "loop", ![b].loop = "apply",
                               ![b].items = <<Head(bus[b].queue)>>,
                               ![b].queue = Tail(@)]
    /\ UNCHANGED <<scenario, left, lifecycle, call, log, monitorVars>>

\* applyObservation: a terminal observation stops the bus under ioMu, after
\* its events; any other failure is returned and stops it later.
PcanApply(b) ==
    /\ Kind = "pcan" /\ bus[b].loop = "apply"
    /\ LET p == Head(bus[b].items)
           o == PcanDecode(b, p)
           ready == [bus EXCEPT ![b].ioMu = None, ![b].items = <<>>,
                                ![b].known = Known(b, p)] IN
         /\ Record(o.events)
         /\ \/ /\ o.terminal # None
               /\ Stop(b, IF Fits(o.events) THEN o.terminal ELSE "capture")
               /\ bus' = [ready EXCEPT ![b].loop = "wait"]
            \/ /\ o.terminal = None /\ o.error = None /\ Fits(o.events)
               /\ bus' = [ready EXCEPT ![b].loop = "drain"]
               /\ UNCHANGED lifecycle
            \/ /\ o.terminal = None /\ (o.error # None \/ ~Fits(o.events))
               /\ bus' = [ready EXCEPT ![b].loop = "failed",
                    ![b].failure = IF Fits(o.events) THEN o.error ELSE "capture"]
               /\ UNCHANGED lifecycle
    /\ UNCHANGED <<scenario, left, call, monitorVars>>

\* The same for Vector; an error observation asks for the chip state when a
\* request is due, which may fail after its event was recorded.
VectorApply(b) ==
    /\ Kind = "vector" /\ bus[b].loop = "apply"
    /\ LET p == Head(bus[b].items)
           o == VectorDecode(b, p)
           asks == p.kind = "error" /\ bus[b].due
           ready == [bus EXCEPT ![b].ioMu = None, ![b].items = <<>>,
                                ![b].known = Known(b, p)] IN
         /\ Record(o.events)
         /\ \/ /\ o.terminal # None
               /\ Stop(b, IF Fits(o.events) THEN o.terminal ELSE "capture")
               /\ bus' = [ready EXCEPT ![b].loop = "wait"]
               /\ UNCHANGED left
            \/ /\ o.terminal = None /\ o.error = None /\ Fits(o.events)
               /\ bus' = [ready EXCEPT
                    ![b].loop = "drain",
                    ![b].due = bus[b].due /\ ~asks,
                    ![b].queue = IF asks
                                 THEN Append(bus[b].queue, Packet("state", bus[b].controller))
                                 ELSE bus[b].queue]
               /\ UNCHANGED <<lifecycle, left>>
            \/ /\ asks /\ Fits(o.events) /\ LoopFault(b)
               /\ bus' = [ready EXCEPT ![b].loop = "failed", ![b].failure = "gone"]
               /\ UNCHANGED lifecycle
            \/ /\ o.terminal = None /\ (o.error # None \/ ~Fits(o.events))
               /\ bus' = [ready EXCEPT ![b].loop = "failed",
                    ![b].failure = IF Fits(o.events) THEN o.error ELSE "capture"]
               /\ UNCHANGED <<lifecycle, left>>
    /\ UNCHANGED <<scenario, call, monitorVars>>

\* The native answer to a request is a state packet in the receive queue.
\* The loop asks without ioMu; it is the goroutine that closes the port.
RequestChipState(b) ==
    /\ Kind = "vector" /\ bus[b].loop = "request"
    /\ \/ /\ bus' = [bus EXCEPT ![b].loop = "wait", ![b].due = FALSE,
                                ![b].signal = TRUE,
                                ![b].queue = Append(@, Packet("state", bus[b].controller))]
          /\ UNCHANGED <<lifecycle, left>>
       \/ /\ LoopFault(b)
          /\ LoopStops(b, "gone")
    /\ UNCHANGED <<scenario, call, log, monitorVars>>

\* NI-XNET polls: an iteration of its loop looks at the stop signal, reads a
\* batch and, when it is time, the controller state.
NixnetPoll(b) ==
    /\ Kind = "nixnet" /\ bus[b].loop = "poll"
    /\ bus' = GoTo(b, IF Stopping(b) THEN "finish" ELSE "read")
    /\ UNCHANGED <<scenario, left, lifecycle, call, log, monitorVars>>

\* A batch is read under ioMu, or, with ConcurrentIO, before it is taken; it is
\* published without letting a send between its records.  A read status stands
\* for the whole read.
Batch(queue) ==
    LET Status(i) == queue[i].kind \in {"overrun", "gone"}
        ready == Cardinality({i \in DOMAIN queue : \A j \in 1..i : ~Status(j)})
    IN  IF ready = 0 THEN 1 ELSE IF ready < ReceiveBatch THEN ready ELSE ReceiveBatch

\* The loop has the items of a native call: it holds ioMu from the call on, or
\* has still to lock it.
Takes(b, items, queue, due) ==
    /\ scenario.concurrent \/ bus[b].ioMu = None
    /\ bus' = [bus EXCEPT ![b].items = items, ![b].queue = queue, ![b].due = due,
                          ![b].ioMu = IF scenario.concurrent THEN @ ELSE "loop",
                          ![b].loop = IF scenario.concurrent THEN "publish" ELSE "apply"]

\* The stop signal may have come since the loop looked at it.  Iterations that
\* find nothing to do are left out while the bus runs.
NixnetRead(b) ==
    /\ Kind = "nixnet" /\ bus[b].loop = "read"
    /\ LET queue == bus[b].queue
           n == Batch(queue) IN
         \/ /\ queue # <<>>
            /\ Takes(b, SubSeq(queue, 1, n), SubSeq(queue, n + 1, Len(queue)), bus[b].due)
         \/ /\ queue = <<>> /\ (bus[b].due \/ Stopping(b))
            /\ scenario.concurrent \/ bus[b].ioMu = None
            /\ bus' = GoTo(b, "check")
    /\ UNCHANGED <<scenario, left, lifecycle, call, log, monitorVars>>

NixnetPublish(b) ==
    /\ bus[b].loop = "publish" /\ bus[b].ioMu = None
    /\ bus' = [bus EXCEPT ![b].ioMu = "loop", ![b].loop = "apply"]
    /\ UNCHANGED <<scenario, left, lifecycle, call, log, monitorVars>>

\* recordReceived, one record of the batch; the first failure ends it.  What
\* checkState read is recorded in the same way.
NixnetApply(b) ==
    /\ Kind = "nixnet" /\ bus[b].loop = "apply"
    /\ LET p == Head(bus[b].items)
           o == NixnetDecode(b, p)
           more == Tail(bus[b].items)
           e == IF p.kind = "overrun" THEN "overrun"
                ELSE IF Fits(o.events) THEN o.error ELSE "capture"
           ends == e # None \/ more = <<>> IN
         /\ Record(o.events)
         /\ bus' = [bus EXCEPT ![b].known = IF Fits(o.events) THEN Known(b, p) ELSE @,
                               ![b].items = IF ends THEN <<>> ELSE more,
                               ![b].ioMu = IF ends THEN None ELSE @,
                               ![b].failure = e,
                               ![b].loop = IF e # None THEN "failed"
                                           ELSE IF ~ends THEN @
                                           ELSE IF p.kind = "state" THEN "poll" ELSE "check"]
    /\ UNCHANGED <<scenario, left, lifecycle, call, monitorVars>>

\* checkState reads the controller, or its fault, or fails itself.
NixnetCheck(b) ==
    /\ Kind = "nixnet" /\ bus[b].loop = "check"
    /\ \/ /\ ~bus[b].due
          /\ bus' = GoTo(b, "poll")
          /\ UNCHANGED left
       \/ /\ bus[b].due
          /\ Takes(b, <<Packet("state", bus[b].controller)>>, bus[b].queue, FALSE)
          /\ UNCHANGED left
       \/ /\ bus[b].due /\ LoopFault(b)
          /\ Takes(b, <<Packet("gone", None)>>, bus[b].queue, FALSE)
    /\ UNCHANGED <<scenario, lifecycle, call, log, monitorVars>>

\* The error that receiveOne or receiveBatch returned stops the bus after
\* ioMu was released.
LoopFailed(b) ==
    /\ bus[b].loop = "failed"
    /\ LoopStops(b, bus[b].failure)
    /\ UNCHANGED <<scenario, left, call, log, monitorVars>>

Loop(b) ==
    \/ SocketWait(b) \/ SocketReceive(b) \/ SocketApply(b)
    \/ WindowsWait(b) \/ WindowsReceive(b) \/ PcanApply(b) \/ VectorApply(b)
    \/ RequestChipState(b)
    \/ NixnetPoll(b) \/ NixnetRead(b) \/ NixnetPublish(b) \/ NixnetApply(b) \/ NixnetCheck(b)
    \/ LoopFailed(b)
=============================================================================
