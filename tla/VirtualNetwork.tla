--------------------------- MODULE VirtualNetwork ---------------------------
(***************************************************************************)
(* The in-process CAN network (drivers/virtual/virtual.go): buses that     *)
(* exchange frames over bounded receive queues, one goroutine per bus,     *)
(* with callers that Open, Send and Close.  An action is one critical      *)
(* section, one channel operation or one append to a capture.              *)
(*                                                                         *)
(* Three branches of the code cannot be taken and have no action: a        *)
(* recording of a valid frame does not fail, a bus in the network's map is *)
(* never done while a broadcast holds the lock (MembersLive), and a        *)
(* request that run received is always answered (AcceptanceDefinite).      *)
(***************************************************************************)
EXTENDS FiniteSets, Naturals, Sequences

CONSTANTS
  Buses,                 \* the *Bus objects, each opened at most once
  ID,                    \* the BusID each is opened with; two may share one
  ReceiveOwnMessages,    \* the buses opened with that option
  Sends,                 \* the calls of Send, each with a frame of its own
  SendBus,               \* the bus each is made on
  ReceiveQueueCapacity   \* receiveQueueCapacity

ASSUME NetworkAssumption ==
  /\ ReceiveOwnMessages \subseteq Buses
  /\ SendBus \in [Sends -> Buses]
  /\ DOMAIN ID = Buses
  /\ ReceiveQueueCapacity \in Nat \ {0}

VARIABLES
  buses,      \* Network.buses: the objects in the map
  incoming,   \* the receive queue of each bus
  failures,   \* the failures channel of each bus, of capacity 1
  closing, terminal, err,
  stop, done, \* the channels are closed
  loop,       \* where run is, with what it has in hand
  send,       \* where each call of Send is, or what it returned
  result,     \* the result channel of each call
  trace,      \* the appends to the captures, in order
  offered     \* history: the frames broadcast to each bus

busState == <<closing, terminal, err, stop, done>>
vars == <<buses, incoming, failures, busState, loop, send, result, trace, offered>>

NoError == "none"
Overrun == "ErrReceiveOverrun"
Closed == "ErrBusClosed"

\* Where a goroutine of run is: at a step, with the frame it has in hand.  A
\* broadcast also has the destinations left, and the one whose queue was full.
At(step, frame) == [step |-> step, frame |-> frame, to |-> {}, victim |-> {}]
NoFrame == "no frame"
Select == At("select", NoFrame)

Transmitted(b, frame) == [bus |-> b, kind |-> "transmit", frame |-> frame]
Received(b, frame) == [bus |-> b, kind |-> "receive", frame |-> frame]
OverrunEvent(b) == [bus |-> b, kind |-> "overrun", frame |-> NoFrame]

Init ==
  /\ buses = {} /\ trace = <<>>
  /\ incoming = [b \in Buses |-> <<>>] /\ failures = [b \in Buses |-> <<>>]
  /\ closing = [b \in Buses |-> FALSE] /\ stop = [b \in Buses |-> FALSE]
  /\ done = [b \in Buses |-> FALSE]
  /\ terminal = [b \in Buses |-> NoError] /\ err = [b \in Buses |-> NoError]
  /\ loop = [b \in Buses |-> At("unopened", NoFrame)]
  /\ send = [s \in Sends |-> "new"] /\ result = [s \in Sends |-> NoError]
  /\ offered = [b \in Buses |-> <<>>]

\* A broadcast holds network.mu for reading.
Broadcasting(b) == loop[b].step \in {"broadcast", "overrun"}
NetworkLocked == \E b \in Buses : Broadcasting(b)

Stopping(b) == terminal[b] # NoError \/ closing[b]

\* operationErrorLocked.
OperationError(b) ==
  IF terminal[b] # NoError THEN terminal[b]
  ELSE IF err[b] # NoError THEN err[b] ELSE Closed

GoTo(b, at) == loop' = [loop EXCEPT ![b] = at]

-----------------------------------------------------------------------------
(* The callers.                                                            *)

Open(b) ==
  /\ loop[b].step = "unopened" /\ ~NetworkLocked
  /\ \A other \in buses : ID[other] # ID[b]
  /\ buses' = buses \cup {b}
  /\ GoTo(b, Select)
  /\ UNCHANGED <<incoming, failures, busState, send, result, trace, offered>>

BeginSend(s) ==
  /\ send[s] = "new" /\ loop[SendBus[s]].step # "unopened"
  /\ send' = [send EXCEPT ![s] = IF Stopping(SendBus[s]) THEN OperationError(SendBus[s])
                                 ELSE "offer"]
  /\ UNCHANGED <<buses, incoming, failures, busState, loop, result, trace, offered>>

\* The context ends before run takes the request.
CancelSend(s) ==
  /\ send[s] = "offer"
  /\ send' = [send EXCEPT ![s] = "cancelled"]
  /\ UNCHANGED <<buses, incoming, failures, busState, loop, result, trace, offered>>

\* The bus is done before run takes the request.
SendDone(s) ==
  /\ send[s] = "offer" /\ done[SendBus[s]]
  /\ send' = [send EXCEPT ![s] = OperationError(SendBus[s])]
  /\ UNCHANGED <<buses, incoming, failures, busState, loop, result, trace, offered>>

\* Mutant of SendResult: a done bus ends the wait without another look at the
\* result.
SendResultOrDone(s) ==
  /\ send[s] = "await"
  /\ \/ result[s] # NoError /\ send' = [send EXCEPT ![s] = result[s]]
     \/ done[SendBus[s]] /\ send' = [send EXCEPT ![s] = OperationError(SendBus[s])]
  /\ UNCHANGED <<buses, incoming, failures, busState, loop, result, trace, offered>>

\* The second select of Send; once the bus is done it looks at the result again.
SendResult(s) ==
  /\ send[s] = "await" /\ result[s] # NoError
  /\ send' = [send EXCEPT ![s] = result[s]]
  /\ UNCHANGED <<buses, incoming, failures, busState, loop, result, trace, offered>>

\* Mutant of Close: the bus leaves the map at once.
CloseRemoves(b) ==
  /\ loop[b].step # "unopened" /\ ~stop[b]
  /\ closing' = [closing EXCEPT ![b] = TRUE] /\ stop' = [stop EXCEPT ![b] = TRUE]
  /\ buses' = buses \ {b}
  /\ UNCHANGED <<incoming, failures, terminal, err, done, loop, send, result, trace, offered>>

\* The critical section of Close; a second call changes nothing.
Close(b) ==
  /\ loop[b].step # "unopened" /\ ~stop[b]
  /\ closing' = [closing EXCEPT ![b] = TRUE] /\ stop' = [stop EXCEPT ![b] = TRUE]
  /\ UNCHANGED <<buses, incoming, failures, terminal, err, done, loop, send, result, trace, offered>>

-----------------------------------------------------------------------------
(* run: the cases of its select and what follows each.                     *)

\* run receives a request from sends.
AcceptSend(s) ==
  LET b == SendBus[s]
  IN /\ send[s] = "offer" /\ loop[b] = Select
     /\ send' = [send EXCEPT ![s] = "await"]
     /\ GoTo(b, At("request", s))
     /\ UNCHANGED <<buses, incoming, failures, busState, result, trace, offered>>

\* Mutant of CheckRequest: the frame is broadcast unrecorded.
CheckRequestUnrecorded(b) ==
  /\ loop[b].step = "request"
  /\ IF Stopping(b)
     THEN /\ result' = [result EXCEPT ![loop[b].frame] = OperationError(b)]
          /\ GoTo(b, Select)
     ELSE GoTo(b, At("lock", loop[b].frame)) /\ UNCHANGED result
  /\ UNCHANGED <<buses, incoming, failures, busState, send, trace, offered>>

CheckRequest(b) ==
  /\ loop[b].step = "request"
  /\ IF Stopping(b)
     THEN /\ result' = [result EXCEPT ![loop[b].frame] = OperationError(b)]
          /\ GoTo(b, Select)
     ELSE GoTo(b, At("record", loop[b].frame)) /\ UNCHANGED result
  /\ UNCHANGED <<buses, incoming, failures, busState, send, trace, offered>>

RecordTransmit(b) ==
  /\ loop[b].step = "record"
  /\ trace' = Append(trace, Transmitted(b, loop[b].frame))
  /\ GoTo(b, At("lock", loop[b].frame))
  /\ UNCHANGED <<buses, incoming, failures, busState, send, result, offered>>

\* broadcast takes the lock: from here on the map does not change.
StartBroadcast(b) ==
  /\ loop[b].step = "lock"
  /\ loop' = [loop EXCEPT ![b].step = "broadcast",
                          ![b].to = IF b \in ReceiveOwnMessages THEN buses ELSE buses \ {b}]
  /\ UNCHANGED <<buses, incoming, failures, busState, send, result, trace, offered>>

\* One destination of the broadcast: its queue takes the frame, or is full.
Deliver(b, d) ==
  LET frame == loop[b].frame
  IN /\ loop[b].step = "broadcast" /\ d \in loop[b].to
     /\ offered' = [offered EXCEPT ![d] = Append(@, frame)]
     /\ IF Len(incoming[d]) < ReceiveQueueCapacity
        THEN /\ incoming' = [incoming EXCEPT ![d] = Append(@, frame)]
             /\ loop' = [loop EXCEPT ![b].to = @ \ {d}]
        ELSE /\ loop' = [loop EXCEPT ![b].to = @ \ {d}, ![b].step = "overrun", ![b].victim = {d}]
             /\ UNCHANGED incoming
     /\ UNCHANGED <<buses, failures, busState, send, result, trace>>

\* Mutant of Fail: the failure is noted and not sent.
FailUnsent(b, d) ==
  /\ loop[b].step = "overrun" /\ d \in loop[b].victim
  /\ terminal' = IF Stopping(d) THEN terminal ELSE [terminal EXCEPT ![d] = Overrun]
  /\ loop' = [loop EXCEPT ![b].step = "broadcast", ![b].victim = {}]
  /\ UNCHANGED <<buses, incoming, failures, closing, err, stop, done, send, result,
                 trace, offered>>

\* fail of the destination whose queue was full.  Only the first failure is
\* sent, so the channel has room for it.
Fail(b, d) ==
  /\ loop[b].step = "overrun" /\ d \in loop[b].victim
  /\ IF Stopping(d) THEN UNCHANGED <<terminal, failures>>
     ELSE /\ terminal' = [terminal EXCEPT ![d] = Overrun]
          /\ failures' = [failures EXCEPT ![d] = Append(@, Overrun)]
  /\ loop' = [loop EXCEPT ![b].step = "broadcast", ![b].victim = {}]
  /\ UNCHANGED <<buses, incoming, closing, err, stop, done, send, result, trace, offered>>

EndBroadcast(b) ==
  /\ loop[b].step = "broadcast" /\ loop[b].to = {}
  /\ result' = [result EXCEPT ![loop[b].frame] = "ok"]
  /\ GoTo(b, Select)
  /\ UNCHANGED <<buses, incoming, failures, busState, send, trace, offered>>

\* run receives a frame from incoming.
Receive(b) ==
  /\ loop[b] = Select /\ incoming[b] # <<>>
  /\ GoTo(b, At("received", Head(incoming[b])))
  /\ incoming' = [incoming EXCEPT ![b] = Tail(@)]
  /\ UNCHANGED <<buses, failures, busState, send, result, trace, offered>>

RecordReceive(b) ==
  /\ loop[b].step = "received"
  /\ trace' = IF Stopping(b) THEN trace ELSE Append(trace, Received(b, loop[b].frame))
  /\ GoTo(b, Select)
  /\ UNCHANGED <<buses, incoming, failures, busState, send, result, offered>>

\* run receives the failure and records its event; runErr is kept in frame.
TakeFailure(b) ==
  /\ loop[b] = Select /\ failures[b] # <<>>
  /\ failures' = [failures EXCEPT ![b] = Tail(@)]
  /\ trace' = Append(trace, OverrunEvent(b))
  /\ GoTo(b, At("exit", Head(failures[b])))
  /\ UNCHANGED <<buses, incoming, busState, send, result, offered>>

TakeStop(b) ==
  /\ loop[b] = Select /\ stop[b]
  /\ GoTo(b, At("exit", terminal[b]))
  /\ UNCHANGED <<buses, incoming, failures, busState, send, result, trace, offered>>

\* The deferred function: err, then the map, then done.
SetErr(b) ==
  /\ loop[b].step = "exit"
  /\ err' = [err EXCEPT ![b] = loop[b].frame]
  /\ GoTo(b, At("remove", NoFrame))
  /\ UNCHANGED <<buses, incoming, failures, closing, terminal, stop, done,
                 send, result, trace, offered>>

Remove(b) ==
  /\ loop[b].step = "remove" /\ ~NetworkLocked
  /\ buses' = buses \ {b}
  /\ GoTo(b, At("close", NoFrame))
  /\ UNCHANGED <<incoming, failures, busState, send, result, trace, offered>>

CloseDone(b) ==
  /\ loop[b].step = "close"
  /\ done' = [done EXCEPT ![b] = TRUE]
  /\ GoTo(b, At("ended", NoFrame))
  /\ UNCHANGED <<buses, incoming, failures, closing, terminal, err, stop,
                 send, result, trace, offered>>

-----------------------------------------------------------------------------
\* The goroutine of b.
Run(b) ==
  \/ (\E s \in Sends : SendBus[s] = b /\ AcceptSend(s))
  \/ CheckRequest(b) \/ RecordTransmit(b) \/ StartBroadcast(b)
  \/ (\E d \in Buses : Deliver(b, d) \/ Fail(b, d)) \/ EndBroadcast(b)
  \/ Receive(b) \/ RecordReceive(b) \/ TakeFailure(b) \/ TakeStop(b)
  \/ SetErr(b) \/ Remove(b) \/ CloseDone(b)

Next ==
  \/ \E b \in Buses : Open(b) \/ Close(b) \/ Run(b)
  \/ \E s \in Sends : BeginSend(s) \/ CancelSend(s) \/ SendDone(s) \/ SendResult(s)

Spec == Init /\ [][Next]_vars

\* Goroutines that can run do.  Nobody is obliged to call Close or to cancel.
\* Which ready case a select takes is left open: the calls of Send are finitely
\* many, so the other cases run out.
Fairness ==
  /\ \A b \in Buses : WF_vars(Run(b))
  /\ \A s \in Sends : WF_vars(SendDone(s) \/ SendResult(s))

FairSpec == Spec /\ Fairness

-----------------------------------------------------------------------------
Errors == {NoError, Overrun, Closed}
Steps == {"unopened", "select", "request", "record", "lock", "broadcast", "overrun",
          "received", "exit", "remove", "close", "ended"}
Places == [step : Steps, frame : Sends \cup {NoFrame, NoError, Overrun},
           to : SUBSET Buses, victim : SUBSET Buses]
Entries ==
  [bus : Buses, kind : {"transmit", "receive"}, frame : Sends]
    \cup [bus : Buses, kind : {"overrun"}, frame : {NoFrame}]

\* Every variable has its type; no receive queue and no failures channel
\* exceeds its capacity.
TypeOK ==
  /\ buses \subseteq Buses
  /\ incoming \in [Buses -> Seq(Sends)] /\ offered \in [Buses -> Seq(Sends)]
  /\ failures \in [Buses -> Seq({Overrun})]
  /\ \A b \in Buses : Len(incoming[b]) <= ReceiveQueueCapacity /\ Len(failures[b]) <= 1
  /\ {terminal, err} \subseteq [Buses -> {NoError, Overrun}]
  /\ {closing, stop, done} \subseteq [Buses -> BOOLEAN]
  /\ loop \in [Buses -> Places]
  /\ send \in [Sends -> {"new", "offer", "await", "ok", "cancelled", Overrun, Closed}]
  /\ result \in [Sends -> Errors \cup {"ok"}]
  /\ trace \in Seq(Entries)

-----------------------------------------------------------------------------
Recorded(entry) == \E i \in DOMAIN trace : trace[i] = entry

\* Where b's receptions are among the first n entries of the trace.
Receptions(b, n) == { i \in 1..n : trace[i].bus = b /\ trace[i].kind = "receive" }

\* What was put in b's queue and is not yet recorded or dropped.
Held(b) == (IF loop[b].step = "received" THEN <<loop[b].frame>> ELSE <<>>) \o incoming[b]

\* Send has a definite result: it returns nil exactly when its frame was
\* recorded as transmitted, and any error, cancellation or closure means the
\* frame never was and never will be; no frame is recorded twice.
AcceptanceDefinite ==
  /\ \A s \in Sends :
       /\ send[s] = "ok" => Recorded(Transmitted(SendBus[s], s))
       /\ send[s] \in {"new", "offer", "cancelled", Overrun, Closed} =>
            ~Recorded(Transmitted(SendBus[s], s))
       /\ send[s] = "await" /\ result[s] = NoError => loop[SendBus[s]].frame = s
  /\ \A i, j \in DOMAIN trace : trace[i] = trace[j] /\ trace[i].kind # "overrun" => i = j

\* A transmission is recorded before any bus records its reception, so a
\* response, which is sent after that, follows it in a shared capture.
TransmitFirst ==
  \A i \in DOMAIN trace : trace[i].kind = "receive" =>
    \E j \in 1..(i - 1) : trace[j] = Transmitted(SendBus[trace[i].frame], trace[i].frame)

\* What b has recorded and what it holds is what was broadcast to it, in order.
NothingMissing(b) ==
  LET received == Cardinality(Receptions(b, Len(trace)))
  IN /\ Len(offered[b]) = received + Len(Held(b))
     /\ \A i \in Receptions(b, Len(trace)) :
          trace[i].frame = offered[b][Cardinality(Receptions(b, i))]
     /\ \A k \in DOMAIN Held(b) : Held(b)[k] = offered[b][received + k]

\* A bus that is running and whose queue did not overrun has recorded, or
\* holds, everything broadcast to it in the order of arrival.  A frame is
\* missing only from a bus that Close stops, that failed with an overrun, or
\* that a broadcast is about to fail.
NoSilentLoss ==
  \A b \in Buses :
    \/ NothingMissing(b)
    \/ Stopping(b)
    \/ \E source \in Buses : b \in loop[source].victim

\* What a stopped bus reports: its failure, even one that Close overtook, and
\* nil only after Close.
ErrReported ==
  \A b \in Buses : done[b] => err[b] = terminal[b] /\ (err[b] = NoError => closing[b])

\* A broadcast meets no bus that is done, and a new bus never takes an ID while
\* the goroutine of the old one can still record under it.
MembersLive ==
  /\ \A b \in buses : ~done[b]
  /\ \A b, other \in Buses :
       b # other /\ ID[b] = ID[other] /\ loop[b].step \notin {"unopened", "close", "ended"}
       => loop[other].step \in {"unopened", "close", "ended"}

\* What a receiver knows: it has every frame, or its bus ended, and says why;
\* and no other bus records in its place.
ReceptionExact == TypeOK /\ NoSilentLoss /\ ErrReported /\ MembersLive

\* Close and a failure end the bus, whoever floods it and whatever broadcasts
\* hold the network's lock.
StopEnds == \A b \in Buses : Stopping(b) ~> done[b]

\* Every Send returns, also one whose bus stops around it.
SendReturns ==
  \A s \in Sends : (send[s] = "offer") ~> (send[s] \in {"ok", "cancelled", Overrun, Closed})

\* Nobody waits for ever: not for a bus that stops, nor in Send.
AllEnd == StopEnds /\ SendReturns
=============================================================================
