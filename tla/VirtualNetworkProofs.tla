------------------------ MODULE VirtualNetworkProofs ------------------------
(***************************************************************************)
(* Proofs about the virtual network: Send's result is definite, a          *)
(* transmission is recorded before its receptions and each once, a frame   *)
(* is missing only from a bus that ends, which says why, and no two        *)
(* goroutines record under one ID.                                         *)
(***************************************************************************)
EXTENDS VirtualNetwork, SequenceTheorems, FiniteSetTheorems, TLAPS

-----------------------------------------------------------------------------
(* The inductive invariant.                                                *)

Started == {"broadcast", "overrun"}
Committed == {"lock"} \cup Started
Serving == {"request", "record"} \cup Committed

\* A bus ends only when Close or a failure has stopped it, reports what stopped
\* it, and is in the map, under an ID of its own, until it records no more.
BusOK(b) ==
  /\ failures[b] # <<>> => terminal[b] = Overrun
  /\ loop[b].step = "exit" => loop[b].frame = terminal[b]
  /\ loop[b].step \in {"remove", "close", "ended"} => err[b] = terminal[b]
  /\ loop[b].step \in {"exit", "remove", "close", "ended"} => Stopping(b)
  /\ done[b] => loop[b].step = "ended"
  /\ b \in buses <=> loop[b].step \notin {"unopened", "close", "ended"}
  /\ loop[b].victim # {} => loop[b].step = "overrun"
  /\ \A d, e \in loop[b].victim : d = e

BusInv ==
  /\ stop = closing
  /\ \A b \in Buses : BusOK(b)
  /\ \A b, other \in buses : ID[b] = ID[other] => b = other

\* A bus serves one call of Send at a time, which waits for its answer, and
\* the frame is in the trace from RecordTransmit on, and no other frame is.
Serves(b) ==
  loop[b].step \in Serving =>
    /\ loop[b].frame \in Sends /\ SendBus[loop[b].frame] = b
    /\ send[loop[b].frame] = "await" /\ result[loop[b].frame] = NoError

Answered(s) ==
  /\ send[s] = "await" /\ result[s] = NoError =>
       loop[SendBus[s]].step \in Serving /\ loop[SendBus[s]].frame = s
  /\ result[s] # NoError => send[s] \in {"await", result[s]}
  /\ send[s] = "ok" => result[s] = "ok"
  /\ Recorded(Transmitted(SendBus[s], s)) <=>
       \/ result[s] = "ok"
       \/ loop[SendBus[s]].step \in Committed /\ loop[SendBus[s]].frame = s

ServeInv == (\A b \in Buses : Serves(b)) /\ (\A s \in Sends : Answered(s))

\* d has s in its queue, in hand or in its records.
Queued(d, s) == \E i \in DOMAIN incoming[d] : incoming[d][i] = s
InHand(d, s) == loop[d].step = "received" /\ loop[d].frame = s
Known(d, s) == Queued(d, s) \/ InHand(d, s) \/ Recorded(Received(d, s))

\* The broadcast of s has been to d.
Reached(d, s) ==
  \/ result[s] = "ok"
  \/ /\ loop[SendBus[s]].step \in Started /\ loop[SendBus[s]].frame = s
     /\ d \notin loop[SendBus[s]].to

\* A bus knows a frame once its broadcast has been there, and has it once.
Knows(d) ==
  /\ loop[d].step = "received" => loop[d].frame \in Sends
  /\ \A i, j \in DOMAIN incoming[d] : incoming[d][i] = incoming[d][j] => i = j
  /\ \A s \in Sends :
       /\ ~(Queued(d, s) /\ InHand(d, s))
       /\ Recorded(Received(d, s)) => ~Queued(d, s) /\ ~InHand(d, s)
       /\ Known(d, s) => Reached(d, s)

KnownInv == \A d \in Buses : Knows(d)

\* No frame is recorded twice.
RecordedOnce ==
  \A i, j \in DOMAIN trace : trace[i] = trace[j] /\ trace[i].kind # "overrun" => i = j

IInv ==
  /\ TypeOK /\ BusInv /\ ServeInv /\ KnownInv /\ RecordedOnce /\ TransmitFirst /\ NoSilentLoss

-----------------------------------------------------------------------------
(* What the steps do to the goroutines' places.                            *)

Frames == Sends \cup {NoFrame, NoError, Overrun}

\* b's place changed; nobody else's did.
OnlyMoved(b) == \A other \in Buses : other # b => loop'[other] = loop[other]

\* A goroutine goes on to another step.
LEMMA Goes ==
  ASSUME TypeOK, NEW b \in Buses, NEW step \in Steps, NEW frame \in Frames, GoTo(b, At(step, frame))
  PROVE  /\ loop' \in [Buses -> Places] /\ OnlyMoved(b)
         /\ loop'[b] = At(step, frame)
         /\ loop'[b].step = step /\ loop'[b].frame = frame
         /\ loop'[b].to = {} /\ loop'[b].victim = {}
<1>1. At(step, frame) \in Places BY DEF At, Places, Frames
<1>2. loop \in [Buses -> Places] BY DEF TypeOK
<1>3. /\ At(step, frame).step = step /\ At(step, frame).frame = frame
      /\ At(step, frame).to = {} /\ At(step, frame).victim = {}
  BY DEF At
<1>4. loop' = [loop EXCEPT ![b] = At(step, frame)] BY DEF GoTo
<1>5. loop'[b] = At(step, frame) /\ loop' \in [Buses -> Places] BY <1>1, <1>2, <1>4
<1>6. OnlyMoved(b) BY <1>2, <1>4 DEF OnlyMoved
<1>. QED BY <1>3, <1>5, <1>6

\* A goroutine has a place.
LEMMA PlaceOf ==
  ASSUME TypeOK, NEW b \in Buses
  PROVE  /\ loop \in [Buses -> Places]
         /\ loop[b] \in Places /\ loop[b].step \in Steps /\ loop[b].frame \in Frames
         /\ loop[b].to \subseteq Buses /\ loop[b].victim \subseteq Buses
  BY DEF TypeOK, Places, Frames

\* A broadcast begins.
LEMMA StartEffect ==
  ASSUME TypeOK, NEW b \in Buses, StartBroadcast(b)
  PROVE  /\ loop' \in [Buses -> Places] /\ OnlyMoved(b)
         /\ loop'[b].step = "broadcast" /\ loop'[b].frame = loop[b].frame
         /\ loop'[b].victim = loop[b].victim
<1>. DEFINE to == IF b \in ReceiveOwnMessages THEN buses ELSE buses \ {b}
            place == [loop[b] EXCEPT !.step = "broadcast", !.to = to]
<1>1. loop[b] \in Places /\ loop \in [Buses -> Places] BY PlaceOf
<1>2. to \subseteq Buses BY DEF TypeOK
<1>3. loop' = [loop EXCEPT ![b] = place] BY <1>1 DEF StartBroadcast
<1>. HIDE DEF to
<1>4. /\ place \in Places /\ place.step = "broadcast" /\ place.frame = loop[b].frame
      /\ place.victim = loop[b].victim
  BY <1>1, <1>2 DEF Places, Steps
<1>. HIDE DEF place
<1>5. loop'[b] = place /\ loop' \in [Buses -> Places] BY <1>1, <1>3, <1>4
<1>6. OnlyMoved(b) BY <1>1, <1>3 DEF OnlyMoved
<1>. QED BY <1>4, <1>5, <1>6

\* A broadcast reaches a queue with room.
LEMMA DeliverEffect ==
  ASSUME TypeOK, NEW b \in Buses, NEW d \in Buses, Deliver(b, d),
         Len(incoming[d]) < ReceiveQueueCapacity
  PROVE  /\ loop' \in [Buses -> Places] /\ OnlyMoved(b)
         /\ loop'[b].step = "broadcast" /\ loop'[b].frame = loop[b].frame
         /\ loop'[b].to = loop[b].to \ {d} /\ loop'[b].victim = loop[b].victim
<1>. DEFINE place == [loop[b] EXCEPT !.to = @ \ {d}]
<1>1. loop[b] \in Places /\ loop \in [Buses -> Places] BY PlaceOf
<1>2. loop' = [loop EXCEPT ![b] = place] BY <1>1 DEF Deliver
<1>3. /\ place \in Places /\ place.step = "broadcast" /\ place.frame = loop[b].frame
      /\ place.to = loop[b].to \ {d} /\ place.victim = loop[b].victim
  BY <1>1 DEF Places, Deliver
<1>. HIDE DEF place
<1>4. loop'[b] = place /\ loop' \in [Buses -> Places] BY <1>1, <1>2, <1>3
<1>5. OnlyMoved(b) BY <1>1, <1>2 DEF OnlyMoved
<1>. QED BY <1>3, <1>4, <1>5

\* A broadcast reaches a queue that is full.
LEMMA OverrunEffect ==
  ASSUME TypeOK, NEW b \in Buses, NEW d \in Buses, Deliver(b, d),
         ~(Len(incoming[d]) < ReceiveQueueCapacity)
  PROVE  /\ loop' \in [Buses -> Places] /\ OnlyMoved(b)
         /\ loop'[b].step = "overrun" /\ loop'[b].frame = loop[b].frame
         /\ loop'[b].to = loop[b].to \ {d} /\ loop'[b].victim = {d}
<1>. DEFINE place == [loop[b] EXCEPT !.to = @ \ {d}, !.step = "overrun", !.victim = {d}]
<1>1. loop[b] \in Places /\ loop \in [Buses -> Places] BY PlaceOf
<1>2. loop' = [loop EXCEPT ![b] = place] BY <1>1 DEF Deliver
<1>3. /\ place \in Places /\ place.step = "overrun" /\ place.frame = loop[b].frame
      /\ place.to = loop[b].to \ {d} /\ place.victim = {d}
  BY <1>1 DEF Places, Steps
<1>. HIDE DEF place
<1>4. loop'[b] = place /\ loop' \in [Buses -> Places] BY <1>1, <1>2, <1>3
<1>5. OnlyMoved(b) BY <1>1, <1>2 DEF OnlyMoved
<1>. QED BY <1>3, <1>4, <1>5

\* A broadcast fails a bus.
LEMMA FailEffect ==
  ASSUME TypeOK, NEW b \in Buses, NEW d \in Buses, Fail(b, d)
  PROVE  /\ loop' \in [Buses -> Places] /\ OnlyMoved(b)
         /\ loop'[b].step = "broadcast" /\ loop'[b].frame = loop[b].frame
         /\ loop'[b].to = loop[b].to /\ loop'[b].victim = {}
<1>. DEFINE place == [loop[b] EXCEPT !.step = "broadcast", !.victim = {}]
<1>1. loop[b] \in Places /\ loop \in [Buses -> Places] BY PlaceOf
<1>2. loop' = [loop EXCEPT ![b] = place] BY <1>1 DEF Fail
<1>3. /\ place \in Places /\ place.step = "broadcast" /\ place.frame = loop[b].frame
      /\ place.to = loop[b].to /\ place.victim = {}
  BY <1>1 DEF Places, Steps
<1>. HIDE DEF place
<1>4. loop'[b] = place /\ loop' \in [Buses -> Places] BY <1>1, <1>2, <1>3
<1>5. OnlyMoved(b) BY <1>1, <1>2 DEF OnlyMoved
<1>. QED BY <1>3, <1>4, <1>5

-----------------------------------------------------------------------------
(* Types.                                                                  *)

\* The frame a bus serves or has received is one that some call sends.
LEMMA FrameInHand ==
  ASSUME IInv, NEW b \in Buses, loop[b].step \in Serving \cup {"received"}
  PROVE  loop[b].frame \in Sends
  BY DEF IInv, ServeInv, Serves, KnownInv, Knows

\* Every step keeps the types.
LEMMA TypeStep == IInv /\ [Next]_vars => TypeOK'
<1>. SUFFICES ASSUME IInv, [Next]_vars PROVE TypeOK'
  OBVIOUS
<1>0. TypeOK BY DEF IInv
<1>. USE <1>0 DEF busState
<1>a. /\ {"select", "request", "record", "lock", "received", "exit", "remove", "close", "ended"}
         \subseteq Steps
      /\ Sends \cup {NoFrame, NoError, Overrun} \subseteq Frames
  BY DEF Steps, Frames
<1>b. SendBus \in [Sends -> Buses] BY NetworkAssumption
<1>c. \A b \in Buses : OperationError(b) \in {Overrun, Closed} BY DEF OperationError, TypeOK
<1>1. ASSUME NEW b \in Buses, Open(b) PROVE TypeOK'
  <2>1. loop' \in [Buses -> Places] BY <1>1, <1>a, Goes DEF Open, Select
  <2>. QED BY <1>1, <2>1 DEF Open, TypeOK
<1>2. ASSUME NEW s \in Sends, BeginSend(s) PROVE TypeOK'
  <2>1. OperationError(SendBus[s]) \in {Overrun, Closed} BY <1>b, <1>c
  <2>. QED BY <1>2, <2>1 DEF BeginSend, TypeOK
<1>3. ASSUME NEW s \in Sends, CancelSend(s) \/ SendResult(s) PROVE TypeOK'
  BY <1>3 DEF CancelSend, SendResult, TypeOK, Errors
<1>4. ASSUME NEW s \in Sends, SendDone(s) PROVE TypeOK'
  <2>1. OperationError(SendBus[s]) \in {Overrun, Closed} BY <1>b, <1>c
  <2>. QED BY <1>4, <2>1 DEF SendDone, TypeOK
<1>5. ASSUME NEW b \in Buses, Close(b) PROVE TypeOK'
  BY <1>5 DEF Close, TypeOK
<1>6. ASSUME NEW s \in Sends, AcceptSend(s) PROVE TypeOK'
  <2>1. SendBus[s] \in Buses BY <1>b
  <2>2. loop' \in [Buses -> Places] BY <1>6, <2>1, <1>a, Goes DEF AcceptSend
  <2>. QED BY <1>6, <2>2 DEF AcceptSend, TypeOK
<1>7. ASSUME NEW b \in Buses, CheckRequest(b) PROVE TypeOK'
  <2>1. loop[b].frame \in Sends BY <1>7, FrameInHand DEF CheckRequest, Serving
  <2>2. loop' \in [Buses -> Places] BY <1>7, <2>1, <1>a, Goes DEF CheckRequest, Select
  <2>3. result' \in [Sends -> Errors \cup {"ok"}]
    BY <1>7, <1>c, <2>1 DEF CheckRequest, TypeOK, Errors
  <2>. QED BY <1>7, <2>2, <2>3 DEF CheckRequest, TypeOK
<1>8. ASSUME NEW b \in Buses, RecordTransmit(b) PROVE TypeOK'
  <2>1. loop[b].frame \in Sends BY <1>8, FrameInHand DEF RecordTransmit, Serving
  <2>2. loop' \in [Buses -> Places] BY <1>8, <2>1, <1>a, Goes DEF RecordTransmit
  <2>3. Transmitted(b, loop[b].frame) \in Entries BY <2>1 DEF Transmitted, Entries
  <2>4. trace' \in Seq(Entries) BY <1>8, <2>3, AppendProperties DEF RecordTransmit, TypeOK
  <2>. QED BY <1>8, <2>2, <2>4 DEF RecordTransmit, TypeOK
<1>9. ASSUME NEW b \in Buses, StartBroadcast(b) PROVE TypeOK'
  <2>1. loop' \in [Buses -> Places] BY <1>9, StartEffect
  <2>. QED BY <1>9, <2>1 DEF StartBroadcast, TypeOK
<1>10. ASSUME NEW b \in Buses, NEW d \in Buses, Deliver(b, d) PROVE TypeOK'
  <2>1. loop[b].frame \in Sends BY <1>10, FrameInHand DEF Deliver, Serving, Committed, Started
  <2>2. loop' \in [Buses -> Places] BY <1>10, DeliverEffect, OverrunEffect
  <2>3. offered' \in [Buses -> Seq(Sends)]
    <3>1. Append(offered[d], loop[b].frame) \in Seq(Sends) BY <2>1, AppendProperties DEF TypeOK
    <3>. QED BY <1>10, <3>1 DEF Deliver, TypeOK
  <2>4. /\ incoming' \in [Buses -> Seq(Sends)]
        /\ \A other \in Buses : Len(incoming'[other]) <= ReceiveQueueCapacity
    <3>1. CASE Len(incoming[d]) < ReceiveQueueCapacity
      <4>1. incoming' = [incoming EXCEPT ![d] = Append(incoming[d], loop[b].frame)]
        BY <1>10, <3>1 DEF Deliver
      <4>2. /\ Append(incoming[d], loop[b].frame) \in Seq(Sends)
            /\ Len(Append(incoming[d], loop[b].frame)) = Len(incoming[d]) + 1
        BY <2>1, AppendProperties DEF TypeOK
      <4>3. Len(incoming[d]) \in Nat BY LenProperties DEF TypeOK
      <4>. QED BY <3>1, <4>1, <4>2, <4>3, NetworkAssumption DEF TypeOK
    <3>2. CASE ~(Len(incoming[d]) < ReceiveQueueCapacity)
      BY <1>10, <3>2 DEF Deliver, TypeOK
    <3>. QED BY <3>1, <3>2
  <2>. QED BY <1>10, <2>2, <2>3, <2>4 DEF Deliver, TypeOK
<1>11. ASSUME NEW b \in Buses, NEW d \in Buses, Fail(b, d) PROVE TypeOK'
  <2>1. loop' \in [Buses -> Places] BY <1>11, FailEffect
  <2>2. CASE Stopping(d) BY <1>11, <2>1, <2>2 DEF Fail, TypeOK
  <2>3. CASE ~Stopping(d)
    <3>1. failures[d] = <<>> BY <2>3 DEF Stopping, IInv, BusInv, BusOK, NoError, Overrun
    <3>2. Append(failures[d], Overrun) = <<Overrun>> BY <3>1
    <3>3. failures' = [failures EXCEPT ![d] = <<Overrun>>] BY <1>11, <2>3, <3>2 DEF Fail
    <3>4. <<Overrun>> \in Seq({Overrun}) /\ Len(<<Overrun>>) = 1 OBVIOUS
    <3>5. /\ failures' \in [Buses -> Seq({Overrun})]
          /\ \A other \in Buses : Len(failures'[other]) <= 1
      BY <3>3, <3>4 DEF TypeOK
    <3>6. terminal' \in [Buses -> {NoError, Overrun}] BY <1>11, <2>3 DEF Fail, TypeOK
    <3>7. /\ UNCHANGED <<buses, incoming, closing, err, stop, done, send, result, trace, offered>>
      BY <1>11 DEF Fail
    <3>. QED BY <2>1, <3>5, <3>6, <3>7 DEF TypeOK
  <2>. QED BY <2>2, <2>3
<1>12. ASSUME NEW b \in Buses, EndBroadcast(b) PROVE TypeOK'
  <2>1. loop[b].frame \in Sends BY <1>12, FrameInHand DEF EndBroadcast, Serving, Committed, Started
  <2>2. loop' \in [Buses -> Places] BY <1>12, <1>a, Goes DEF EndBroadcast, Select
  <2>. QED BY <1>12, <2>1, <2>2 DEF EndBroadcast, TypeOK
<1>13. ASSUME NEW b \in Buses, Receive(b) PROVE TypeOK'
  <2>1. incoming[b] \in Seq(Sends) /\ incoming[b] # <<>> BY <1>13 DEF Receive, TypeOK
  <2>2. Head(incoming[b]) \in Sends /\ Tail(incoming[b]) \in Seq(Sends)
        /\ Len(Tail(incoming[b])) = Len(incoming[b]) - 1 /\ Len(incoming[b]) \in Nat
    BY <2>1, HeadTailProperties, LenProperties
  <2>3. loop' \in [Buses -> Places] BY <1>13, <2>2, <1>a, Goes DEF Receive
  <2>4. Len(Tail(incoming[b])) <= ReceiveQueueCapacity BY <2>2, NetworkAssumption DEF TypeOK
  <2>5. /\ incoming' \in [Buses -> Seq(Sends)]
        /\ \A other \in Buses : Len(incoming'[other]) <= ReceiveQueueCapacity
    BY <1>13, <2>2, <2>4 DEF Receive, TypeOK
  <2>. QED BY <1>13, <2>3, <2>5 DEF Receive, TypeOK
<1>14. ASSUME NEW b \in Buses, RecordReceive(b) PROVE TypeOK'
  <2>1. loop[b].frame \in Sends BY <1>14, FrameInHand DEF RecordReceive
  <2>2. loop' \in [Buses -> Places] BY <1>14, <1>a, Goes DEF RecordReceive, Select
  <2>3. Received(b, loop[b].frame) \in Entries BY <2>1 DEF Received, Entries
  <2>4. trace' \in Seq(Entries) BY <1>14, <2>3, AppendProperties DEF RecordReceive, TypeOK
  <2>. QED BY <1>14, <2>2, <2>4 DEF RecordReceive, TypeOK
<1>15. ASSUME NEW b \in Buses, TakeFailure(b) PROVE TypeOK'
  <2>1. failures[b] \in Seq({Overrun}) /\ failures[b] # <<>> BY <1>15 DEF TakeFailure, TypeOK
  <2>2. Head(failures[b]) = Overrun /\ Tail(failures[b]) \in Seq({Overrun})
        /\ Len(Tail(failures[b])) = Len(failures[b]) - 1 /\ Len(failures[b]) \in Nat
    BY <2>1, HeadTailProperties, LenProperties
  <2>3. loop' \in [Buses -> Places] BY <1>15, <2>2, <1>a, Goes DEF TakeFailure
  <2>4. Len(Tail(failures[b])) <= 1 BY <2>2 DEF TypeOK
  <2>5. /\ failures' \in [Buses -> Seq({Overrun})]
        /\ \A other \in Buses : Len(failures'[other]) <= 1
    BY <1>15, <2>2, <2>4 DEF TakeFailure, TypeOK
  <2>6. OverrunEvent(b) \in Entries BY DEF OverrunEvent, Entries
  <2>7. trace' \in Seq(Entries) BY <1>15, <2>6, AppendProperties DEF TakeFailure, TypeOK
  <2>. QED BY <1>15, <2>3, <2>5, <2>7 DEF TakeFailure, TypeOK
<1>16. ASSUME NEW b \in Buses, TakeStop(b) PROVE TypeOK'
  <2>1. terminal[b] \in Frames BY <1>a DEF TypeOK
  <2>2. loop' \in [Buses -> Places] BY <1>16, <2>1, <1>a, Goes DEF TakeStop
  <2>. QED BY <1>16, <2>2 DEF TakeStop, TypeOK
<1>17. ASSUME NEW b \in Buses, SetErr(b) PROVE TypeOK'
  <2>1. loop[b].frame \in {NoError, Overrun} BY <1>17 DEF SetErr, IInv, BusInv, BusOK, TypeOK
  <2>2. loop' \in [Buses -> Places] BY <1>17, <1>a, Goes DEF SetErr
  <2>. QED BY <1>17, <2>1, <2>2 DEF SetErr, TypeOK
<1>18. ASSUME NEW b \in Buses, Remove(b) PROVE TypeOK'
  <2>1. loop' \in [Buses -> Places] BY <1>18, <1>a, Goes DEF Remove
  <2>. QED BY <1>18, <2>1 DEF Remove, TypeOK
<1>19. ASSUME NEW b \in Buses, CloseDone(b) PROVE TypeOK'
  <2>1. loop' \in [Buses -> Places] BY <1>19, <1>a, Goes DEF CloseDone
  <2>. QED BY <1>19, <2>1 DEF CloseDone, TypeOK
<1>20. CASE UNCHANGED vars BY <1>20 DEF vars, TypeOK
<1>. QED
  BY <1>1, <1>2, <1>3, <1>4, <1>5, <1>6, <1>7, <1>8, <1>9, <1>10, <1>11, <1>12, <1>13,
     <1>14, <1>15, <1>16, <1>17, <1>18, <1>19, <1>20 DEF Next, Run

-----------------------------------------------------------------------------
(* How a bus ends.                                                         *)

\* A bus that a step leaves alone.
LEMMA BusKept ==
  ASSUME NEW b \in Buses, BusOK(b), loop'[b] = loop[b], failures'[b] = failures[b],
         terminal'[b] = terminal[b], err'[b] = err[b], closing'[b] = closing[b],
         done'[b] = done[b], b \in buses' <=> b \in buses
  PROVE  BusOK(b)'
  BY DEF BusOK, Stopping

\* A step of b's goroutine that touches only its place keeps the buses' state
\* if it leaves the place consistent.
LEMMA BusMoves ==
  ASSUME BusInv, NEW b \in Buses, OnlyMoved(b),
         UNCHANGED <<buses, failures, closing, terminal, err, stop, done>>,
         loop[b].step \notin {"unopened", "close", "ended"},
         \/ loop'[b].step \in Steps \ {"unopened", "exit", "remove", "close", "ended"}
         \/ loop'[b].step = "exit" /\ loop'[b].frame = terminal[b] /\ Stopping(b),
         loop'[b].victim # {} => loop'[b].step = "overrun",
         \A d, e \in loop'[b].victim : d = e
  PROVE  BusInv'
<1>1. \A other \in Buses : other # b => BusOK(other)' BY BusKept DEF BusInv, OnlyMoved
<1>2. BusOK(b)' BY DEF BusInv, BusOK, Stopping
<1>. QED BY <1>1, <1>2 DEF BusInv

\* Every step keeps the state of the buses consistent.
LEMMA BusStep == IInv /\ [Next]_vars => BusInv'
<1>. SUFFICES ASSUME IInv, [Next]_vars PROVE BusInv'
  OBVIOUS
<1>0. TypeOK /\ BusInv BY DEF IInv
<1>. USE <1>0 DEF busState
<1>a. /\ {"select", "request", "record", "lock", "received", "exit", "remove", "close", "ended"}
         \subseteq Steps
      /\ Sends \cup {NoFrame, NoError, Overrun} \subseteq Frames
  BY DEF Steps, Frames
<1>b. SendBus \in [Sends -> Buses] BY NetworkAssumption
<1>c. \A b \in Buses : BusOK(b) BY DEF BusInv
<1>d. ASSUME UNCHANGED <<buses, failures, closing, terminal, err, stop, done, loop>> PROVE BusInv'
  BY <1>d DEF BusInv, BusOK, Stopping
<1>1. ASSUME NEW b \in Buses, Open(b) PROVE BusInv'
  <2>1. OnlyMoved(b) /\ loop'[b].step = "select" /\ loop'[b].victim = {}
    BY <1>1, <1>a, Goes DEF Open, Select
  <2>2. buses' = buses \cup {b} /\ UNCHANGED <<failures, closing, terminal, err, stop, done>>
    BY <1>1 DEF Open
  <2>3. \A other \in Buses : other # b => BusOK(other)' BY <1>c, <2>1, <2>2, BusKept DEF OnlyMoved
  <2>4. BusOK(b)' BY <1>1, <1>c, <2>1, <2>2 DEF BusOK, Open
  <2>. QED BY <1>1, <2>2, <2>3, <2>4 DEF BusInv, Open
<1>2. ASSUME NEW s \in Sends, BeginSend(s) \/ CancelSend(s) \/ SendDone(s) \/ SendResult(s) PROVE BusInv'
  BY <1>2, <1>d DEF BeginSend, CancelSend, SendDone, SendResult
<1>3. ASSUME NEW b \in Buses, Close(b) PROVE BusInv'
  <2>1. /\ closing' = [closing EXCEPT ![b] = TRUE] /\ stop' = [stop EXCEPT ![b] = TRUE]
        /\ UNCHANGED <<buses, failures, terminal, err, done, loop>>
    BY <1>3 DEF Close
  <2>2. closing \in [Buses -> BOOLEAN] BY DEF TypeOK
  <2>3. closing'[b] /\ \A other \in Buses : other # b => closing'[other] = closing[other]
    BY <2>1, <2>2
  <2>4. \A other \in Buses : other # b => BusOK(other)' BY <1>c, <2>1, <2>3, BusKept
  <2>5. BusOK(b)' BY <1>c, <2>1, <2>3 DEF BusOK, Stopping
  <2>. QED BY <2>1, <2>4, <2>5 DEF BusInv
<1>4. ASSUME NEW s \in Sends, AcceptSend(s) PROVE BusInv'
  <2>1. SendBus[s] \in Buses /\ loop[SendBus[s]].step = "select"
    BY <1>4, <1>b DEF AcceptSend, Select, At
  <2>. QED BY <1>4, <1>a, <2>1, Goes, BusMoves DEF AcceptSend
<1>5. ASSUME NEW b \in Buses, CheckRequest(b) PROVE BusInv'
  <2>1. loop[b].frame \in Frames /\ NoFrame \in Frames BY PlaceOf DEF Frames
  <2>2. /\ OnlyMoved(b) /\ loop'[b].step \in {"select", "record"} /\ loop'[b].victim = {}
        /\ loop[b].step = "request"
    BY <1>5, <1>a, <2>1, Goes DEF CheckRequest, Select
  <2>. QED BY <1>5, <1>a, <2>2, BusMoves DEF CheckRequest
<1>6. ASSUME NEW b \in Buses, RecordTransmit(b) PROVE BusInv'
  <2>1. loop[b].frame \in Frames BY PlaceOf
  <2>2. /\ OnlyMoved(b) /\ loop'[b].step = "lock" /\ loop'[b].victim = {}
        /\ loop[b].step = "record"
    BY <1>6, <1>a, <2>1, Goes DEF RecordTransmit
  <2>. QED BY <1>6, <1>a, <2>2, BusMoves DEF RecordTransmit
<1>7. ASSUME NEW b \in Buses, StartBroadcast(b) PROVE BusInv'
  <2>1. /\ OnlyMoved(b) /\ loop'[b].step = "broadcast" /\ loop'[b].victim = loop[b].victim
        /\ loop[b].step = "lock" /\ "broadcast" \in Steps
    BY <1>7, StartEffect DEF StartBroadcast, Steps
  <2>2. loop[b].victim = {} BY <1>c, <2>1 DEF BusOK
  <2>. QED BY <1>7, <2>1, <2>2, BusMoves DEF StartBroadcast
<1>8. ASSUME NEW b \in Buses, NEW d \in Buses, Deliver(b, d) PROVE BusInv'
  <2>1. loop[b].step = "broadcast" /\ {"broadcast", "overrun"} \subseteq Steps
    BY <1>8 DEF Deliver, Steps
  <2>2. loop[b].victim = {} BY <1>c, <2>1 DEF BusOK
  <2>3. CASE Len(incoming[d]) < ReceiveQueueCapacity
    BY <1>8, <2>1, <2>2, <2>3, DeliverEffect, BusMoves DEF Deliver
  <2>4. CASE ~(Len(incoming[d]) < ReceiveQueueCapacity)
    BY <1>8, <2>1, <2>2, <2>4, OverrunEffect, BusMoves DEF Deliver
  <2>. QED BY <2>3, <2>4
<1>9. ASSUME NEW b \in Buses, NEW d \in Buses, Fail(b, d) PROVE BusInv'
  <2>1. /\ OnlyMoved(b) /\ loop'[b].step = "broadcast" /\ loop'[b].victim = {}
        /\ loop[b].step = "overrun" /\ "broadcast" \in Steps
    BY <1>9, FailEffect DEF Fail, Steps
  <2>2. UNCHANGED <<buses, closing, err, stop, done>> BY <1>9 DEF Fail
  <2>3. CASE Stopping(d) BY <1>9, <2>1, <2>2, <2>3, BusMoves DEF Fail
  <2>4. CASE ~Stopping(d)
    <3>1. /\ terminal' = [terminal EXCEPT ![d] = Overrun]
          /\ failures' = [failures EXCEPT ![d] = Append(@, Overrun)]
      BY <1>9, <2>4 DEF Fail
    <3>2. /\ terminal'[d] = Overrun
          /\ \A other \in Buses : other # d => /\ terminal'[other] = terminal[other]
                                              /\ failures'[other] = failures[other]
      BY <3>1 DEF TypeOK
    <3>3. ASSUME NEW other \in Buses PROVE BusOK(other)'
      <4>1. \/ loop'[other] = loop[other]
            \/ /\ loop[other].step = "overrun" /\ loop'[other].step = "broadcast"
               /\ loop'[other].victim = {}
        BY <2>1 DEF OnlyMoved
      <4>2. CASE other = d
        <5>1. Stopping(other)' BY <3>2, <4>2 DEF Stopping, Overrun, NoError
        <5>2. loop[other].step \notin {"exit", "remove", "close", "ended"}
          BY <1>c, <2>4, <4>2 DEF BusOK
        <5>. QED BY <1>c, <2>2, <3>2, <4>1, <4>2, <5>1, <5>2 DEF BusOK
      <4>3. CASE other # d
        BY <1>c, <2>2, <3>2, <4>1, <4>3 DEF BusOK, Stopping
      <4>. QED BY <4>2, <4>3
    <3>. QED BY <2>2, <3>3 DEF BusInv
  <2>. QED BY <2>3, <2>4
<1>10. ASSUME NEW b \in Buses, EndBroadcast(b) PROVE BusInv'
  <2>1. /\ OnlyMoved(b) /\ loop'[b].step = "select" /\ loop'[b].victim = {}
        /\ loop[b].step = "broadcast"
    BY <1>10, <1>a, Goes DEF EndBroadcast, Select
  <2>. QED BY <1>10, <1>a, <2>1, BusMoves DEF EndBroadcast
<1>11. ASSUME NEW b \in Buses, Receive(b) PROVE BusInv'
  <2>1. Head(incoming[b]) \in Frames
    <3>1. incoming[b] \in Seq(Sends) /\ incoming[b] # <<>> BY <1>11 DEF Receive, TypeOK
    <3>. QED BY <1>a, <3>1, HeadTailProperties
  <2>2. /\ OnlyMoved(b) /\ loop'[b].step = "received" /\ loop'[b].victim = {}
        /\ loop[b].step = "select"
    BY <1>11, <1>a, <2>1, Goes DEF Receive, Select, At
  <2>. QED BY <1>11, <1>a, <2>2, BusMoves DEF Receive
<1>12. ASSUME NEW b \in Buses, RecordReceive(b) PROVE BusInv'
  <2>1. /\ OnlyMoved(b) /\ loop'[b].step = "select" /\ loop'[b].victim = {}
        /\ loop[b].step = "received"
    BY <1>12, <1>a, Goes DEF RecordReceive, Select
  <2>. QED BY <1>12, <1>a, <2>1, BusMoves DEF RecordReceive
<1>13. ASSUME NEW b \in Buses, TakeFailure(b) PROVE BusInv'
  <2>1. failures[b] \in Seq({Overrun}) /\ failures[b] # <<>> BY <1>13 DEF TakeFailure, TypeOK
  <2>2. Head(failures[b]) = Overrun BY <2>1, HeadTailProperties
  <2>3. terminal[b] = Overrun BY <1>c, <2>1 DEF BusOK
  <2>4. /\ OnlyMoved(b) /\ loop'[b].step = "exit" /\ loop'[b].frame = Overrun
        /\ loop'[b].victim = {} /\ loop[b].step = "select"
    BY <1>13, <1>a, <2>2, Goes DEF TakeFailure, Select, At
  <2>5. /\ UNCHANGED <<buses, closing, terminal, err, stop, done>>
        /\ failures' = [failures EXCEPT ![b] = Tail(@)]
    BY <1>13 DEF TakeFailure
  <2>6. \A other \in Buses : other # b => failures'[other] = failures[other]
    BY <2>5 DEF TypeOK
  <2>7. \A other \in Buses : other # b => BusOK(other)'
    BY <1>c, <2>4, <2>5, <2>6, BusKept DEF OnlyMoved
  <2>8. BusOK(b)' BY <1>c, <2>3, <2>4, <2>5 DEF BusOK, Stopping, Overrun, NoError
  <2>. QED BY <2>5, <2>7, <2>8 DEF BusInv
<1>14. ASSUME NEW b \in Buses, TakeStop(b) PROVE BusInv'
  <2>1. terminal[b] \in Frames BY <1>a DEF TypeOK
  <2>2. /\ OnlyMoved(b) /\ loop'[b].step = "exit" /\ loop'[b].frame = terminal[b]
        /\ loop'[b].victim = {} /\ loop[b].step = "select"
    BY <1>14, <1>a, <2>1, Goes DEF TakeStop, Select, At
  <2>3. Stopping(b) BY <1>14 DEF TakeStop, BusInv, Stopping
  <2>. QED BY <1>14, <2>2, <2>3, BusMoves DEF TakeStop
<1>15. ASSUME NEW b \in Buses, SetErr(b) PROVE BusInv'
  <2>1. /\ OnlyMoved(b) /\ loop'[b].step = "remove" /\ loop'[b].victim = {}
        /\ loop[b].step = "exit"
    BY <1>15, <1>a, Goes DEF SetErr
  <2>2. UNCHANGED <<buses, failures, closing, terminal, stop, done>> BY <1>15 DEF SetErr
  <2>3. err' = [err EXCEPT ![b] = loop[b].frame] BY <1>15 DEF SetErr
  <2>4. err'[b] = terminal[b] /\ \A other \in Buses : other # b => err'[other] = err[other]
    BY <1>c, <2>1, <2>3 DEF TypeOK, BusOK
  <2>5. \A other \in Buses : other # b => BusOK(other)'
    BY <1>c, <2>1, <2>2, <2>4, BusKept DEF OnlyMoved
  <2>6. BusOK(b)' BY <1>c, <2>1, <2>2, <2>4 DEF BusOK, Stopping
  <2>. QED BY <2>2, <2>5, <2>6 DEF BusInv
<1>16. ASSUME NEW b \in Buses, Remove(b) PROVE BusInv'
  <2>1. /\ OnlyMoved(b) /\ loop'[b].step = "close" /\ loop'[b].victim = {}
        /\ loop[b].step = "remove"
    BY <1>16, <1>a, Goes DEF Remove
  <2>2. UNCHANGED <<failures, closing, terminal, err, stop, done>> /\ buses' = buses \ {b}
    BY <1>16 DEF Remove
  <2>3. \A other \in Buses : other # b => BusOK(other)'
    BY <1>c, <2>1, <2>2, BusKept DEF OnlyMoved
  <2>4. BusOK(b)' BY <1>c, <2>1, <2>2 DEF BusOK, Stopping
  <2>. QED BY <2>2, <2>3, <2>4 DEF BusInv
<1>17. ASSUME NEW b \in Buses, CloseDone(b) PROVE BusInv'
  <2>1. /\ OnlyMoved(b) /\ loop'[b].step = "ended" /\ loop'[b].victim = {}
        /\ loop[b].step = "close"
    BY <1>17, <1>a, Goes DEF CloseDone
  <2>2. UNCHANGED <<buses, failures, closing, terminal, err, stop>> BY <1>17 DEF CloseDone
  <2>3. \A other \in Buses : other # b => done'[other] = done[other]
    BY <1>17 DEF TypeOK, CloseDone
  <2>4. \A other \in Buses : other # b => BusOK(other)'
    BY <1>c, <2>1, <2>2, <2>3, BusKept DEF OnlyMoved
  <2>5. BusOK(b)' BY <1>c, <2>1, <2>2 DEF BusOK, Stopping
  <2>. QED BY <2>2, <2>4, <2>5 DEF BusInv
<1>18. CASE UNCHANGED vars BY <1>18, <1>d DEF vars
<1>. QED
  BY <1>1, <1>2, <1>3, <1>4, <1>5, <1>6, <1>7, <1>8, <1>9, <1>10, <1>11, <1>12, <1>13,
     <1>14, <1>15, <1>16, <1>17, <1>18 DEF Next, Run

-----------------------------------------------------------------------------
(* The calls of Send.                                                      *)

\* What an append records.
LEMMA AppendRecords ==
  ASSUME trace \in Seq(Entries), NEW e, trace' = Append(trace, e), NEW x
  PROVE  Recorded(x)' <=> Recorded(x) \/ x = e
<1>1. /\ DOMAIN trace = 1..Len(trace) /\ DOMAIN trace' = 1..(Len(trace) + 1) /\ Len(trace) \in Nat
      /\ trace'[Len(trace) + 1] = e /\ \A i \in 1..Len(trace) : trace'[i] = trace[i]
  OBVIOUS
<1>2. ASSUME Recorded(x) \/ x = e PROVE Recorded(x)'
  <2>1. CASE Recorded(x)
    <3>1. PICK i \in DOMAIN trace : trace[i] = x BY <2>1 DEF Recorded
    <3>2. i \in DOMAIN trace' /\ trace'[i] = x BY <1>1, <3>1
    <3>. QED BY <3>2 DEF Recorded
  <2>2. CASE x = e
    <3>1. Len(trace) + 1 \in DOMAIN trace' /\ trace'[Len(trace) + 1] = x BY <1>1, <2>2
    <3>. QED BY <3>1 DEF Recorded
  <2>. QED BY <1>2, <2>1, <2>2
<1>3. ASSUME Recorded(x)' PROVE Recorded(x) \/ x = e
  <2>1. PICK i \in DOMAIN trace' : trace'[i] = x BY <1>3 DEF Recorded
  <2>2. CASE i = Len(trace) + 1 BY <1>1, <2>1, <2>2
  <2>3. CASE i \in DOMAIN trace BY <1>1, <2>1, <2>3 DEF Recorded
  <2>. QED BY <1>1, <2>1, <2>2, <2>3
<1>. QED BY <1>2, <1>3

\* Transmissions, receptions and overruns are different entries.
LEMMA EntriesDiffer ==
  ASSUME NEW b, NEW d, NEW s, NEW f
  PROVE  /\ Transmitted(b, s) = Transmitted(d, f) <=> b = d /\ s = f
         /\ Received(b, s) = Received(d, f) <=> b = d /\ s = f
         /\ Transmitted(b, s) # Received(d, f) /\ Transmitted(b, s) # OverrunEvent(d)
         /\ Received(b, s) # OverrunEvent(d)
         /\ Transmitted(b, s).kind = "transmit" /\ Transmitted(b, s).bus = b
         /\ Received(b, s).kind = "receive" /\ Received(b, s).bus = b /\ Received(b, s).frame = s
         /\ OverrunEvent(b).kind = "overrun"
  BY DEF Transmitted, Received, OverrunEvent

\* A step of b's goroutine between calls, or in the middle of one.
LEMMA ServeKept ==
  ASSUME ServeInv, NEW b \in Buses, OnlyMoved(b), UNCHANGED <<send, result>>,
         \A s \in Sends : Recorded(Transmitted(SendBus[s], s))' <=> Recorded(Transmitted(SendBus[s], s)),
         loop'[b].step \in Serving <=> loop[b].step \in Serving,
         loop'[b].step \in Committed <=> loop[b].step \in Committed,
         loop'[b].step \in Serving => loop'[b].frame = loop[b].frame
  PROVE  ServeInv'
<1>0. \A s \in Sends : SendBus[s] \in Buses BY NetworkAssumption
<1>1. Committed \subseteq Serving BY DEF Serving
<1>2. ASSUME NEW other \in Buses PROVE Serves(other)'
  BY DEF ServeInv, Serves, OnlyMoved
<1>3. ASSUME NEW s \in Sends PROVE Answered(s)'
  <2>1. CASE SendBus[s] = b BY <1>1, <2>1 DEF ServeInv, Answered
  <2>2. CASE SendBus[s] # b BY <1>0, <2>2 DEF ServeInv, Answered, OnlyMoved
  <2>. QED BY <2>1, <2>2
<1>. QED BY <1>2, <1>3 DEF ServeInv

\* A step of a caller changes what its own call has returned.
LEMMA CallerMoves ==
  ASSUME TypeOK, ServeInv, NEW s \in Sends, UNCHANGED <<loop, result, trace>>,
         NEW value, send' = [send EXCEPT ![s] = value],
         \/ send[s] \in {"new", "offer"} /\ value \in {"offer", "cancelled", Overrun, Closed}
         \/ send[s] = "await" /\ result[s] # NoError /\ value = result[s]
  PROVE  ServeInv'
<1>1. /\ send'[s] = value /\ \A other \in Sends : other # s => send'[other] = send[other]
      /\ result[s] \in {NoError, Overrun, Closed, "ok"}
  BY DEF TypeOK, Errors
<1>2. ASSUME NEW b \in Buses PROVE Serves(b)'
  <2>1. loop[b].step \in Serving => loop[b].frame # s BY DEF ServeInv, Serves
  <2>. QED BY <1>1, <2>1 DEF ServeInv, Serves
<1>3. ASSUME NEW other \in Sends PROVE Answered(other)'
  <2>1. Recorded(Transmitted(SendBus[other], other))' <=> Recorded(Transmitted(SendBus[other], other))
    BY DEF Recorded
  <2>2. CASE other # s BY <1>1, <2>1, <2>2 DEF ServeInv, Answered
  <2>3. CASE other = s
    <3>1. CASE send[s] \in {"new", "offer"}
      <4>1. result[s] = NoError
        BY <1>1, <3>1 DEF ServeInv, Answered, NoError, Overrun, Closed
      <4>2. value \in {"offer", "cancelled", Overrun, Closed} BY <3>1
      <4>. QED BY <1>1, <2>1, <2>3, <4>1, <4>2 DEF ServeInv, Answered, Overrun, Closed, NoError
    <3>2. CASE ~(send[s] \in {"new", "offer"})
      BY <1>1, <2>1, <2>3, <3>2 DEF ServeInv, Answered, NoError, Overrun, Closed
    <3>. QED BY <3>1, <3>2
  <2>. QED BY <2>2, <2>3
<1>. QED BY <1>2, <1>3 DEF ServeInv

\* What operationErrorLocked returns is an error.
LEMMA OperationErrorIs ==
  ASSUME TypeOK, NEW b \in Buses
  PROVE  OperationError(b) \in {Overrun, Closed} /\ OperationError(b) \notin {NoError, "ok"}
  BY DEF OperationError, TypeOK, Overrun, Closed, NoError

\* Every step keeps what the calls of Send are promised.
LEMMA ServeStep == IInv /\ [Next]_vars => ServeInv'
<1>. SUFFICES ASSUME IInv, [Next]_vars PROVE ServeInv'
  OBVIOUS
<1>0. TypeOK /\ ServeInv /\ trace \in Seq(Entries) BY DEF IInv, TypeOK
<1>. USE <1>0 DEF busState
<1>a. /\ {"select", "request", "record", "lock", "received", "exit", "remove", "close", "ended"}
         \subseteq Steps
      /\ Sends \cup {NoFrame, NoError, Overrun} \subseteq Frames
  BY DEF Steps, Frames
<1>b. \A s \in Sends : SendBus[s] \in Buses BY NetworkAssumption
<1>c. /\ Serving = {"request", "record", "lock", "broadcast", "overrun"}
      /\ Committed = {"lock", "broadcast", "overrun"}
  BY DEF Serving, Committed, Started
<1>d. ASSUME UNCHANGED trace
      PROVE \A s \in Sends : Recorded(Transmitted(SendBus[s], s))' <=> Recorded(Transmitted(SendBus[s], s))
  BY <1>d DEF Recorded
<1>1. ASSUME NEW b \in Buses, Open(b) PROVE ServeInv'
  <2>1. OnlyMoved(b) /\ loop'[b].step = "select" /\ loop[b].step = "unopened"
    BY <1>1, <1>a, Goes DEF Open, Select
  <2>. QED BY <1>1, <1>c, <1>d, <2>1, ServeKept DEF Open
<1>2. ASSUME NEW s \in Sends, BeginSend(s) PROVE ServeInv'
  <2>1. OperationError(SendBus[s]) \in {Overrun, Closed} BY <1>b, OperationErrorIs
  <2>. DEFINE value == IF Stopping(SendBus[s]) THEN OperationError(SendBus[s]) ELSE "offer"
  <2>2. value \in {"offer", "cancelled", Overrun, Closed} BY <2>1
  <2>3. send' = [send EXCEPT ![s] = value] /\ send[s] = "new" /\ UNCHANGED <<loop, result, trace>>
    BY <1>2 DEF BeginSend
  <2>. HIDE DEF value
  <2>. QED BY <2>2, <2>3, CallerMoves
<1>3. ASSUME NEW s \in Sends, CancelSend(s) PROVE ServeInv'
  BY <1>3, CallerMoves DEF CancelSend
<1>4. ASSUME NEW s \in Sends, SendDone(s) PROVE ServeInv'
  <2>1. OperationError(SendBus[s]) \in {Overrun, Closed} BY <1>b, OperationErrorIs
  <2>. QED BY <1>4, <2>1, CallerMoves DEF SendDone
<1>5. ASSUME NEW s \in Sends, SendResult(s) PROVE ServeInv'
  BY <1>5, CallerMoves DEF SendResult
<1>6. ASSUME UNCHANGED <<loop, send, result, trace>> PROVE ServeInv'
  BY <1>6 DEF ServeInv, Serves, Answered, Recorded
<1>7. ASSUME NEW s \in Sends, AcceptSend(s) PROVE ServeInv'
  <2>. DEFINE b == SendBus[s]
  <2>1. b \in Buses /\ loop[b].step = "select" /\ send[s] = "offer"
    BY <1>7, <1>b DEF AcceptSend, Select, At
  <2>2. OnlyMoved(b) /\ loop'[b].step = "request" /\ loop'[b].frame = s
    BY <1>7, <1>a, <2>1, Goes DEF AcceptSend
  <2>3. /\ send'[s] = "await" /\ UNCHANGED <<result, trace>>
        /\ \A other \in Sends : other # s => send'[other] = send[other]
    BY <1>7 DEF AcceptSend, TypeOK
  <2>4. result[s] = NoError
    <3>1. result[s] \in {NoError, Overrun, Closed, "ok"} BY DEF TypeOK, Errors
    <3>. QED BY <2>1, <3>1 DEF ServeInv, Answered, NoError, Overrun, Closed
  <2>5. ~Recorded(Transmitted(b, s))
    BY <1>c, <2>1, <2>4 DEF ServeInv, Answered, NoError
  <2>6. ASSUME NEW other \in Buses PROVE Serves(other)'
    <3>1. CASE other = b BY <2>2, <2>3, <2>4, <3>1 DEF Serves
    <3>2. CASE other # b
      <4>1. loop'[other] = loop[other] BY <2>2, <3>2 DEF OnlyMoved
      <4>2. loop[other].step \in Serving => loop[other].frame # s
        BY <2>1 DEF ServeInv, Serves
      <4>. QED BY <2>3, <4>1, <4>2 DEF ServeInv, Serves
    <3>. QED BY <3>1, <3>2
  <2>7. ASSUME NEW other \in Sends PROVE Answered(other)'
    <3>1. CASE other = s
      BY <1>c, <1>d, <2>2, <2>3, <2>4, <2>5, <3>1 DEF Answered, NoError
    <3>2. CASE other # s
      <4>1. CASE SendBus[other] = b
        <5>1. loop[b].step \notin Serving /\ loop[b].step \notin Committed BY <1>c, <2>1
        <5>2. ~(send[other] = "await" /\ result[other] = NoError)
          BY <4>1, <5>1 DEF ServeInv, Answered
        <5>. QED BY <1>c, <1>d, <2>2, <2>3, <3>2, <4>1, <5>1, <5>2 DEF ServeInv, Answered
      <4>2. CASE SendBus[other] # b
        BY <1>b, <1>d, <2>2, <2>3, <3>2, <4>2 DEF ServeInv, Answered, OnlyMoved
      <4>. QED BY <4>1, <4>2
    <3>. QED BY <3>1, <3>2
  <2>. QED BY <2>6, <2>7 DEF ServeInv
<1>8. ASSUME NEW b \in Buses, loop[b].step \in Serving, NEW answer \in {Overrun, Closed, "ok"},
             OnlyMoved(b), loop'[b].step = "select", UNCHANGED <<send, trace>>,
             result' = [result EXCEPT ![loop[b].frame] = answer],
             answer = "ok" <=> loop[b].step \in Committed
      PROVE  ServeInv'
  <2>. DEFINE f == loop[b].frame
  <2>1. f \in Sends /\ SendBus[f] = b /\ send[f] = "await" /\ result[f] = NoError
    BY <1>8 DEF ServeInv, Serves
  <2>2. /\ result'[f] = answer /\ \A s \in Sends : s # f => result'[s] = result[s]
        /\ answer # NoError
    BY <1>8, <2>1 DEF TypeOK, NoError, Overrun, Closed
  <2>3. Recorded(Transmitted(b, f)) <=> answer = "ok"
    BY <1>8, <2>1 DEF ServeInv, Answered, NoError
  <2>4. ASSUME NEW other \in Buses PROVE Serves(other)'
    <3>1. CASE other = b BY <1>8, <1>c, <3>1 DEF Serves
    <3>2. CASE other # b
      <4>1. loop'[other] = loop[other] BY <1>8, <3>2 DEF OnlyMoved
      <4>2. loop[other].step \in Serving => loop[other].frame # f
        BY <2>1, <3>2 DEF ServeInv, Serves
      <4>. QED BY <1>8, <2>2, <4>1, <4>2 DEF ServeInv, Serves
    <3>. QED BY <3>1, <3>2
  <2>5. ASSUME NEW s \in Sends PROVE Answered(s)'
    <3>1. CASE s = f
      BY <1>8, <1>c, <1>d, <2>1, <2>2, <2>3, <3>1 DEF Answered
    <3>2. CASE s # f
      <4>1. CASE SendBus[s] = b
        <5>1. ~(send[s] = "await" /\ result[s] = NoError)
          BY <3>2, <4>1 DEF ServeInv, Answered
        <5>. QED BY <1>8, <1>c, <1>d, <2>2, <3>2, <4>1, <5>1 DEF ServeInv, Answered
      <4>2. CASE SendBus[s] # b
        BY <1>8, <1>b, <1>d, <2>2, <3>2, <4>2 DEF ServeInv, Answered, OnlyMoved
      <4>. QED BY <4>1, <4>2
    <3>. QED BY <3>1, <3>2
  <2>. QED BY <2>4, <2>5 DEF ServeInv
<1>9. ASSUME NEW b \in Buses, CheckRequest(b) PROVE ServeInv'
  <2>1. loop[b].frame \in Frames BY PlaceOf
  <2>2. loop[b].step = "request" /\ UNCHANGED <<send, trace>> BY <1>9 DEF CheckRequest
  <2>3. CASE Stopping(b)
    <3>1. OnlyMoved(b) /\ loop'[b].step = "select"
      BY <1>9, <1>a, <2>3, Goes DEF CheckRequest, Select
    <3>2. OperationError(b) \in {Overrun, Closed} /\ OperationError(b) # "ok" BY OperationErrorIs
    <3>3. result' = [result EXCEPT ![loop[b].frame] = OperationError(b)]
      BY <1>9, <2>3 DEF CheckRequest
    <3>4. loop[b].step \in Serving /\ loop[b].step \notin Committed BY <1>c, <2>2
    <3>5. PICK answer \in {Overrun, Closed, "ok"} : answer = OperationError(b) BY <3>2
    <3>. QED BY <1>8, <2>2, <3>1, <3>2, <3>3, <3>4, <3>5
  <2>4. CASE ~Stopping(b)
    <3>1. OnlyMoved(b) /\ loop'[b].step = "record" /\ loop'[b].frame = loop[b].frame
      BY <1>9, <1>a, <2>1, <2>4, Goes DEF CheckRequest
    <3>2. UNCHANGED result BY <1>9, <2>4 DEF CheckRequest
    <3>. QED BY <1>c, <1>d, <2>2, <3>1, <3>2, ServeKept
  <2>. QED BY <2>3, <2>4
<1>10. ASSUME NEW b \in Buses, RecordTransmit(b) PROVE ServeInv'
  <2>. DEFINE f == loop[b].frame
  <2>1. f \in Frames /\ loop[b].step = "record" BY <1>10, PlaceOf DEF RecordTransmit
  <2>2. OnlyMoved(b) /\ loop'[b].step = "lock" /\ loop'[b].frame = f
    BY <1>10, <1>a, <2>1, Goes DEF RecordTransmit
  <2>3. f \in Sends /\ SendBus[f] = b /\ send[f] = "await" /\ result[f] = NoError
    BY <1>c, <2>1 DEF ServeInv, Serves
  <2>4. UNCHANGED <<send, result>> /\ trace' = Append(trace, Transmitted(b, f))
    BY <1>10 DEF RecordTransmit
  <2>5. ASSUME NEW s \in Sends
        PROVE  Recorded(Transmitted(SendBus[s], s))' <=> Recorded(Transmitted(SendBus[s], s)) \/ s = f
    BY <2>3, <2>4, AppendRecords, EntriesDiffer
  <2>6. ASSUME NEW other \in Buses PROVE Serves(other)'
    <3>1. CASE other = b BY <2>2, <2>3, <2>4, <3>1 DEF Serves
    <3>2. CASE other # b BY <2>2, <2>4, <3>2 DEF ServeInv, Serves, OnlyMoved
    <3>. QED BY <3>1, <3>2
  <2>7. ASSUME NEW s \in Sends PROVE Answered(s)'
    <3>1. CASE s = f
      BY <1>c, <2>2, <2>3, <2>4, <2>5, <3>1 DEF Answered, NoError
    <3>2. CASE s # f
      <4>1. CASE SendBus[s] = b
        BY <1>c, <2>1, <2>2, <2>4, <2>5, <3>2, <4>1 DEF ServeInv, Answered
      <4>2. CASE SendBus[s] # b
        BY <1>b, <2>2, <2>4, <2>5, <3>2, <4>2 DEF ServeInv, Answered, OnlyMoved
      <4>. QED BY <4>1, <4>2
    <3>. QED BY <3>1, <3>2
  <2>. QED BY <2>6, <2>7 DEF ServeInv
<1>11. ASSUME NEW b \in Buses, StartBroadcast(b) PROVE ServeInv'
  <2>1. /\ OnlyMoved(b) /\ loop'[b].step = "broadcast" /\ loop'[b].frame = loop[b].frame
        /\ loop[b].step = "lock" /\ UNCHANGED <<send, result, trace>>
    BY <1>11, StartEffect DEF StartBroadcast
  <2>. QED BY <1>c, <1>d, <2>1, ServeKept
<1>12. ASSUME NEW b \in Buses, NEW d \in Buses, Deliver(b, d) PROVE ServeInv'
  <2>1. OnlyMoved(b) /\ loop'[b].step \in {"broadcast", "overrun"} /\ loop'[b].frame = loop[b].frame
    BY <1>12, DeliverEffect, OverrunEffect
  <2>. QED BY <1>12, <1>c, <1>d, <2>1, ServeKept DEF Deliver
<1>13. ASSUME NEW b \in Buses, NEW d \in Buses, Fail(b, d) PROVE ServeInv'
  <2>1. /\ OnlyMoved(b) /\ loop'[b].step = "broadcast" /\ loop'[b].frame = loop[b].frame
        /\ loop[b].step = "overrun" /\ UNCHANGED <<send, result, trace>>
    BY <1>13, FailEffect DEF Fail
  <2>. QED BY <1>c, <1>d, <2>1, ServeKept
<1>14. ASSUME NEW b \in Buses, EndBroadcast(b) PROVE ServeInv'
  <2>1. OnlyMoved(b) /\ loop'[b].step = "select" BY <1>14, <1>a, Goes DEF EndBroadcast, Select
  <2>. QED BY <1>14, <1>8, <1>c, <2>1 DEF EndBroadcast
<1>15. ASSUME NEW b \in Buses, Receive(b) PROVE ServeInv'
  <2>1. Head(incoming[b]) \in Frames
    <3>1. incoming[b] \in Seq(Sends) /\ incoming[b] # <<>> BY <1>15 DEF Receive, TypeOK
    <3>. QED BY <1>a, <3>1, HeadTailProperties
  <2>2. OnlyMoved(b) /\ loop'[b].step = "received" /\ loop[b].step = "select"
    BY <1>15, <1>a, <2>1, Goes DEF Receive, Select, At
  <2>. QED BY <1>15, <1>c, <1>d, <2>2, ServeKept DEF Receive
<1>16. ASSUME NEW b \in Buses, RecordReceive(b) PROVE ServeInv'
  <2>1. OnlyMoved(b) /\ loop'[b].step = "select" /\ loop[b].step = "received"
    BY <1>16, <1>a, Goes DEF RecordReceive, Select
  <2>2. \A s \in Sends : Recorded(Transmitted(SendBus[s], s))' <=> Recorded(Transmitted(SendBus[s], s))
    <3>1. UNCHANGED trace \/ trace' = Append(trace, Received(b, loop[b].frame))
      BY <1>16 DEF RecordReceive
    <3>2. \A s \in Sends : Transmitted(SendBus[s], s) # Received(b, loop[b].frame) BY EntriesDiffer
    <3>3. CASE UNCHANGED trace BY <3>3, <1>d
    <3>4. CASE trace' = Append(trace, Received(b, loop[b].frame)) BY <3>2, <3>4, AppendRecords
    <3>. QED BY <3>1, <3>3, <3>4
  <2>. QED BY <1>16, <1>c, <2>1, <2>2, ServeKept DEF RecordReceive
<1>17. ASSUME NEW b \in Buses, TakeFailure(b) PROVE ServeInv'
  <2>1. Head(failures[b]) \in Frames
    <3>1. failures[b] \in Seq({Overrun}) /\ failures[b] # <<>> BY <1>17 DEF TakeFailure, TypeOK
    <3>. QED BY <1>a, <3>1, HeadTailProperties
  <2>2. OnlyMoved(b) /\ loop'[b].step = "exit" /\ loop[b].step = "select"
    BY <1>17, <1>a, <2>1, Goes DEF TakeFailure, Select, At
  <2>3. \A s \in Sends : Recorded(Transmitted(SendBus[s], s))' <=> Recorded(Transmitted(SendBus[s], s))
    <3>1. trace' = Append(trace, OverrunEvent(b)) BY <1>17 DEF TakeFailure
    <3>2. \A s \in Sends : Transmitted(SendBus[s], s) # OverrunEvent(b) BY EntriesDiffer
    <3>. QED BY <3>1, <3>2, AppendRecords
  <2>. QED BY <1>17, <1>c, <2>2, <2>3, ServeKept DEF TakeFailure
<1>18. ASSUME NEW b \in Buses, TakeStop(b) PROVE ServeInv'
  <2>1. terminal[b] \in Frames BY <1>a DEF TypeOK
  <2>2. OnlyMoved(b) /\ loop'[b].step = "exit" /\ loop[b].step = "select"
    BY <1>18, <1>a, <2>1, Goes DEF TakeStop, Select, At
  <2>. QED BY <1>18, <1>c, <1>d, <2>2, ServeKept DEF TakeStop
<1>19. ASSUME NEW b \in Buses, SetErr(b) \/ Remove(b) \/ CloseDone(b) PROVE ServeInv'
  <2>1. OnlyMoved(b) /\ loop'[b].step \in {"remove", "close", "ended"}
        /\ loop[b].step \in {"exit", "remove", "close"}
    BY <1>19, <1>a, Goes DEF SetErr, Remove, CloseDone
  <2>. QED BY <1>19, <1>c, <1>d, <2>1, ServeKept DEF SetErr, Remove, CloseDone
<1>20. ASSUME NEW b \in Buses, Close(b) PROVE ServeInv' BY <1>20, <1>6 DEF Close
<1>21. CASE UNCHANGED vars BY <1>21, <1>6 DEF vars
<1>. QED
  BY <1>1, <1>2, <1>3, <1>4, <1>5, <1>7, <1>9, <1>10, <1>11, <1>12, <1>13, <1>14, <1>15,
     <1>16, <1>17, <1>18, <1>19, <1>20, <1>21 DEF Next, Run

-----------------------------------------------------------------------------
(* Who has which frame.                                                    *)

\* A step of b's goroutine that neither queues nor takes a frame.
LEMMA KnownKept ==
  ASSUME KnownInv, NEW b \in Buses, OnlyMoved(b), UNCHANGED incoming,
         loop[b].step # "received", loop'[b].step # "received",
         \A d \in Buses, s \in Sends : Recorded(Received(d, s))' <=> Recorded(Received(d, s)),
         \A s \in Sends : result[s] = "ok" => result'[s] = "ok",
         loop[b].step \in Started =>
           \/ result'[loop[b].frame] = "ok"
           \/ /\ loop'[b].step \in Started /\ loop'[b].frame = loop[b].frame
              /\ loop'[b].to \subseteq loop[b].to
  PROVE  KnownInv'
<1>0. \A s \in Sends : SendBus[s] \in Buses BY NetworkAssumption
<1>1. ASSUME NEW d \in Buses PROVE Knows(d)'
  <2>0. Knows(d) BY DEF KnownInv
  <2>1. \A s \in Sends : /\ Queued(d, s)' <=> Queued(d, s)
                         /\ InHand(d, s)' <=> InHand(d, s)
                         /\ Recorded(Received(d, s))' <=> Recorded(Received(d, s))
    BY DEF Queued, InHand, OnlyMoved
  <2>2. loop'[d].step = "received" => loop'[d].frame \in Sends
    BY <2>0 DEF Knows, OnlyMoved
  <2>3. \A i, j \in DOMAIN incoming'[d] : incoming'[d][i] = incoming'[d][j] => i = j
    BY <2>0 DEF Knows
  <2>4. ASSUME NEW s \in Sends, Reached(d, s) PROVE Reached(d, s)'
    <3>1. CASE SendBus[s] = b BY <2>4, <3>1 DEF Reached
    <3>2. CASE SendBus[s] # b BY <1>0, <2>4, <3>2 DEF Reached, OnlyMoved
    <3>. QED BY <3>1, <3>2
  <2>5. \A s \in Sends : Known(d, s)' => Reached(d, s)'
    BY <2>0, <2>1, <2>4 DEF Known, Knows
  <2>. QED BY <2>0, <2>1, <2>2, <2>3, <2>5 DEF Knows
<1>. QED BY <1>1 DEF KnownInv

\* A broadcast puts its frame in a queue of a bus that did not know it.
LEMMA KnownDelivered ==
  ASSUME IInv, NEW b \in Buses, NEW d \in Buses, Deliver(b, d),
         Len(incoming[d]) < ReceiveQueueCapacity
  PROVE  KnownInv'
<1>f. PICK f \in Sends : f = loop[b].frame
  BY FrameInHand DEF Deliver, Serving, Committed, Started
<1>0. TypeOK /\ KnownInv /\ ServeInv BY DEF IInv
<1>1. /\ OnlyMoved(b) /\ loop'[b].step = "broadcast" /\ loop'[b].frame = f
      /\ loop'[b].to = loop[b].to \ {d}
  BY <1>0, <1>f, DeliverEffect
<1>2. /\ loop[b].step = "broadcast" /\ d \in loop[b].to /\ UNCHANGED <<result, trace>>
      /\ incoming' = [incoming EXCEPT ![d] = Append(@, f)]
  BY <1>f DEF Deliver
<1>3. f \in Sends /\ SendBus[f] = b /\ result[f] = NoError
  BY <1>0, <1>2, <1>f DEF ServeInv, Serves, Serving, Committed, Started
<1>4. ~Known(d, f)
  BY <1>0, <1>2, <1>3, <1>f DEF KnownInv, Knows, Reached, NoError
<1>5. incoming[d] \in Seq(Sends) /\ incoming \in [Buses -> Seq(Sends)] BY <1>0 DEF TypeOK
<1>6. /\ incoming'[d] = Append(incoming[d], f)
      /\ \A other \in Buses : other # d => incoming'[other] = incoming[other]
  BY <1>2, <1>5
<1>7. /\ DOMAIN incoming[d] = 1..Len(incoming[d]) /\ Len(incoming[d]) \in Nat
      /\ DOMAIN incoming'[d] = 1..(Len(incoming[d]) + 1)
      /\ incoming'[d][Len(incoming[d]) + 1] = f
      /\ \A i \in 1..Len(incoming[d]) : incoming'[d][i] = incoming[d][i]
  BY <1>3, <1>5, <1>6, AppendProperties
<1>8. \A s \in Sends : Queued(d, s)' => Queued(d, s) \/ s = f BY <1>7 DEF Queued
<1>9. \A s \in Sends : \A other \in Buses : other # d => (Queued(other, s)' <=> Queued(other, s))
  BY <1>6 DEF Queued
<1>10. \A s \in Sends : \A other \in Buses :
         /\ InHand(other, s)' <=> InHand(other, s)
         /\ Recorded(Received(other, s))' <=> Recorded(Received(other, s))
  BY <1>1, <1>2 DEF InHand, Recorded, OnlyMoved
<1>11. ASSUME NEW other \in Buses, NEW s \in Sends, Reached(other, s) PROVE Reached(other, s)'
  <2>0. SendBus[s] \in Buses BY NetworkAssumption
  <2>1. CASE SendBus[s] = b
    <3>1. other \notin loop[b].to => other \notin loop'[b].to BY <1>1
    <3>. QED BY <1>f, <1>1, <1>2, <1>11, <2>1, <3>1 DEF Reached, Started
  <2>2. CASE SendBus[s] # b BY <1>1, <1>2, <1>11, <2>0, <2>2 DEF Reached, OnlyMoved
  <2>. QED BY <2>1, <2>2
<1>12. Reached(d, f)' BY <1>1, <1>3 DEF Reached, Started
<1>13. Knows(d)'
  <2>0. Knows(d) BY <1>0 DEF KnownInv
  <2>1. loop'[d].step = "received" => loop'[d].frame \in Sends
    BY <1>1, <2>0 DEF Knows, OnlyMoved
  <2>2. \A i, j \in DOMAIN incoming'[d] : incoming'[d][i] = incoming'[d][j] => i = j
    <3>1. \A i \in DOMAIN incoming[d] : incoming[d][i] # f BY <1>4 DEF Known, Queued
    <3>2. \A i \in DOMAIN incoming'[d] : i = Len(incoming[d]) + 1 \/ i \in DOMAIN incoming[d]
      BY <1>7
    <3>. QED BY <1>7, <2>0, <3>1, <3>2 DEF Knows
  <2>3. ~InHand(d, f) /\ ~Recorded(Received(d, f)) BY <1>4 DEF Known
  <2>4. \A s \in Sends : /\ ~(Queued(d, s)' /\ InHand(d, s)')
                         /\ Recorded(Received(d, s))' => ~Queued(d, s)' /\ ~InHand(d, s)'
    BY <1>8, <1>10, <2>0, <2>3 DEF Knows
  <2>5. \A s \in Sends : Known(d, s)' => Known(d, s) \/ s = f BY <1>8, <1>10 DEF Known
  <2>6. \A s \in Sends : Known(d, s)' => Reached(d, s)' BY <1>11, <1>12, <2>0, <2>5 DEF Knows
  <2>. QED BY <2>1, <2>2, <2>4, <2>6 DEF Knows
<1>14. ASSUME NEW other \in Buses, other # d PROVE Knows(other)'
  <2>0. Knows(other) BY <1>0 DEF KnownInv
  <2>1. loop'[other].step = "received" => loop'[other].frame \in Sends
    BY <1>1, <2>0 DEF Knows, OnlyMoved
  <2>2. \A s \in Sends : Known(other, s)' => Known(other, s) BY <1>9, <1>10, <1>14 DEF Known
  <2>3. \A s \in Sends : Known(other, s)' => Reached(other, s)' BY <1>11, <2>0, <2>2 DEF Knows
  <2>. QED BY <1>6, <1>9, <1>10, <1>14, <2>0, <2>1, <2>3 DEF Knows
<1>. QED BY <1>13, <1>14 DEF KnownInv

\* A bus takes a frame from its queue in hand.
LEMMA KnownReceived ==
  ASSUME IInv, NEW b \in Buses, Receive(b)
  PROVE  KnownInv'
<1>. DEFINE f == Head(incoming[b])
<1>0. TypeOK /\ KnownInv BY DEF IInv
<1>1. incoming[b] \in Seq(Sends) /\ incoming[b] # <<>> /\ incoming \in [Buses -> Seq(Sends)]
  BY <1>0 DEF Receive, TypeOK
<1>2. /\ f \in Sends /\ f = incoming[b][1] /\ Tail(incoming[b]) \in Seq(Sends)
      /\ Len(incoming[b]) \in Nat /\ Len(incoming[b]) > 0
      /\ DOMAIN incoming[b] = 1..Len(incoming[b])
      /\ DOMAIN Tail(incoming[b]) = 1..(Len(incoming[b]) - 1)
      /\ \A i \in 1..(Len(incoming[b]) - 1) : Tail(incoming[b])[i] = incoming[b][i + 1]
  BY <1>1, HeadTailProperties, EmptySeq, LenProperties
<1>3. /\ loop[b].step = "select" /\ UNCHANGED <<result, trace>> /\ GoTo(b, At("received", f))
      /\ incoming' = [incoming EXCEPT ![b] = Tail(@)]
  BY DEF Receive, Select, At
<1>4. f \in Frames /\ "received" \in Steps BY <1>2 DEF Frames, Steps
<1>. HIDE DEF f
<1>5. OnlyMoved(b) /\ loop'[b].step = "received" /\ loop'[b].frame = f
  BY <1>0, <1>3, <1>4, Goes
<1>6. /\ incoming'[b] = Tail(incoming[b])
      /\ \A other \in Buses : other # b => incoming'[other] = incoming[other]
  BY <1>1, <1>3
<1>7. \A i \in DOMAIN incoming'[b] : /\ i + 1 \in DOMAIN incoming[b] /\ i \in Nat /\ i + 1 # 1
                                     /\ incoming'[b][i] = incoming[b][i + 1]
  BY <1>2, <1>6
<1>8. Knows(b) BY <1>0 DEF KnownInv
<1>9. Queued(b, f) BY <1>2 DEF Queued
<1>10. \A s \in Sends : Queued(b, s)' => Queued(b, s) /\ s # f
  <2>1. 1 \in DOMAIN incoming[b] BY <1>2
  <2>2. \A i \in DOMAIN incoming'[b] : incoming'[b][i] # f BY <1>2, <1>7, <1>8, <2>1 DEF Knows
  <2>3. \A s \in Sends : Queued(b, s)' => Queued(b, s) BY <1>7 DEF Queued
  <2>. QED BY <2>2, <2>3 DEF Queued
<1>11. \A s \in Sends : InHand(b, s)' <=> s = f BY <1>5 DEF InHand
<1>12. \A d \in Buses, s \in Sends : /\ Recorded(Received(d, s))' <=> Recorded(Received(d, s))
                                     /\ d # b => (Queued(d, s)' <=> Queued(d, s))
                                     /\ d # b => (InHand(d, s)' <=> InHand(d, s))
  BY <1>3, <1>5, <1>6 DEF Recorded, Queued, InHand, OnlyMoved
<1>13. ASSUME NEW d \in Buses, NEW s \in Sends, Reached(d, s) PROVE Reached(d, s)'
  <2>0. SendBus[s] \in Buses BY NetworkAssumption
  <2>1. CASE SendBus[s] = b BY <1>3, <1>13, <2>1 DEF Reached, Started
  <2>2. CASE SendBus[s] # b BY <1>3, <1>5, <1>13, <2>0, <2>2 DEF Reached, OnlyMoved
  <2>. QED BY <2>1, <2>2
<1>14. Knows(b)'
  <2>1. \A i, j \in DOMAIN incoming'[b] : incoming'[b][i] = incoming'[b][j] => i = j
    BY <1>7, <1>8 DEF Knows
  <2>2. \A s \in Sends : /\ ~(Queued(b, s)' /\ InHand(b, s)')
                         /\ Recorded(Received(b, s))' => ~Queued(b, s)' /\ ~InHand(b, s)'
    BY <1>8, <1>9, <1>10, <1>11, <1>12 DEF Knows
  <2>3. \A s \in Sends : Known(b, s)' => Known(b, s)
    BY <1>9, <1>10, <1>11, <1>12 DEF Known
  <2>. QED BY <1>2, <1>5, <1>8, <1>13, <2>1, <2>2, <2>3 DEF Knows
<1>15. ASSUME NEW d \in Buses, d # b PROVE Knows(d)'
  <2>0. Knows(d) BY <1>0 DEF KnownInv
  <2>1. loop'[d] = loop[d] BY <1>5, <1>15 DEF OnlyMoved
  <2>2. \A s \in Sends : Known(d, s)' => Known(d, s) BY <1>12, <1>15 DEF Known
  <2>3. \A s \in Sends : Known(d, s)' => Reached(d, s)' BY <1>13, <2>0, <2>2 DEF Knows
  <2>. QED BY <1>6, <1>12, <1>15, <2>0, <2>1, <2>3 DEF Knows
<1>. QED BY <1>14, <1>15 DEF KnownInv

\* A bus records the frame in its hand, or drops it because it stops.
LEMMA KnownRecorded ==
  ASSUME IInv, NEW b \in Buses, RecordReceive(b)
  PROVE  KnownInv'
<1>. DEFINE f == loop[b].frame
<1>0. TypeOK /\ KnownInv /\ trace \in Seq(Entries) BY DEF IInv, TypeOK
<1>1. /\ loop[b].step = "received" /\ UNCHANGED <<result, incoming>>
      /\ UNCHANGED trace \/ trace' = Append(trace, Received(b, f))
  BY DEF RecordReceive
<1>2. f \in Sends /\ InHand(b, f) BY <1>0, <1>1 DEF KnownInv, Knows, InHand
<1>3. OnlyMoved(b) /\ loop'[b].step = "select"
  <2>1. "select" \in Steps /\ NoFrame \in Frames BY DEF Steps, Frames
  <2>. QED BY <1>0, <2>1, Goes DEF RecordReceive, Select
<1>4. ASSUME NEW d \in Buses, NEW s \in Sends
      PROVE  Recorded(Received(d, s))' => Recorded(Received(d, s)) \/ (d = b /\ s = f)
  <2>1. CASE UNCHANGED trace BY <2>1 DEF Recorded
  <2>2. CASE trace' = Append(trace, Received(b, f)) BY <1>0, <2>2, AppendRecords, EntriesDiffer
  <2>. QED BY <1>1, <2>1, <2>2
<1>. HIDE DEF f
<1>5. \A d \in Buses, s \in Sends : /\ Queued(d, s)' <=> Queued(d, s)
                                    /\ InHand(d, s)' <=> InHand(d, s) /\ d # b
  BY <1>1, <1>3 DEF Queued, InHand, OnlyMoved
<1>6. ASSUME NEW d \in Buses, NEW s \in Sends, Reached(d, s) PROVE Reached(d, s)'
  <2>0. SendBus[s] \in Buses BY NetworkAssumption
  <2>1. CASE SendBus[s] = b BY <1>1, <1>6, <2>1 DEF Reached, Started
  <2>2. CASE SendBus[s] # b BY <1>1, <1>3, <1>6, <2>0, <2>2 DEF Reached, OnlyMoved
  <2>. QED BY <2>1, <2>2
<1>7. ASSUME NEW d \in Buses PROVE Knows(d)'
  <2>0. Knows(d) BY <1>0 DEF KnownInv
  <2>1. loop'[d].step = "received" => loop'[d].frame \in Sends BY <1>3, <2>0 DEF Knows, OnlyMoved
  <2>2. d = b => ~Queued(d, f) BY <1>2, <2>0 DEF Knows
  <2>3. \A s \in Sends : /\ ~(Queued(d, s)' /\ InHand(d, s)')
                         /\ Recorded(Received(d, s))' => ~Queued(d, s)' /\ ~InHand(d, s)'
    BY <1>4, <1>5, <2>0, <2>2 DEF Knows
  <2>4. \A s \in Sends : Known(d, s)' => Known(d, s) BY <1>2, <1>4, <1>5 DEF Known
  <2>. QED BY <1>1, <1>6, <2>0, <2>1, <2>3, <2>4 DEF Knows
<1>. QED BY <1>7 DEF KnownInv

-----------------------------------------------------------------------------
(* The steps that neither queue nor take a frame.                          *)

QuietRun(b) ==
  \/ Open(b) \/ CheckRequest(b) \/ RecordTransmit(b) \/ StartBroadcast(b) \/ EndBroadcast(b)
  \/ TakeFailure(b) \/ TakeStop(b) \/ SetErr(b) \/ Remove(b) \/ CloseDone(b)
  \/ \E s \in Sends : SendBus[s] = b /\ AcceptSend(s)
  \/ \E d \in Buses : Fail(b, d)

QuietCall ==
  \/ \E b \in Buses : Close(b)
  \/ \E s \in Sends : BeginSend(s) \/ CancelSend(s) \/ SendDone(s) \/ SendResult(s)

\* What Next is made of.
LEMMA NextIs ==
  ASSUME Next
  PROVE  \/ QuietCall
         \/ \E b \in Buses : QuietRun(b) \/ Receive(b) \/ RecordReceive(b)
                               \/ \E d \in Buses : Deliver(b, d)
  BY DEF Next, Run, QuietRun, QuietCall

\* A bus that stops goes on stopping.
LEMMA StoppingStays ==
  ASSUME TypeOK, [Next]_vars, NEW b \in Buses, Stopping(b)
  PROVE  Stopping(b)'
<1>1. CASE UNCHANGED <<terminal, closing>> BY <1>1 DEF Stopping
<1>2. ASSUME NEW d \in Buses, Close(d) PROVE Stopping(b)'
  BY <1>2 DEF Close, Stopping, TypeOK
<1>3. ASSUME NEW other \in Buses, NEW d \in Buses, Fail(other, d) PROVE Stopping(b)'
  <2>1. CASE Stopping(d) BY <1>1, <1>3, <2>1 DEF Fail
  <2>2. CASE ~Stopping(d)
    BY <1>3, <2>2 DEF Fail, Stopping, TypeOK, Overrun, NoError
  <2>. QED BY <2>1, <2>2
<1>. USE DEF busState
<1>4. ASSUME NEW d \in Buses, Open(d) \/ CheckRequest(d) \/ RecordTransmit(d) \/ StartBroadcast(d)
                              \/ EndBroadcast(d) \/ Receive(d) \/ RecordReceive(d)
      PROVE  Stopping(b)'
  BY <1>1, <1>4 DEF Open, CheckRequest, RecordTransmit, StartBroadcast, EndBroadcast, Receive,
                    RecordReceive
<1>5. ASSUME NEW d \in Buses, TakeFailure(d) \/ TakeStop(d) \/ SetErr(d) \/ Remove(d) \/ CloseDone(d)
      PROVE  Stopping(b)'
  BY <1>1, <1>5 DEF TakeFailure, TakeStop, SetErr, Remove, CloseDone
<1>6. ASSUME NEW s \in Sends, BeginSend(s) \/ CancelSend(s) \/ SendDone(s) \/ SendResult(s) \/ AcceptSend(s)
      PROVE  Stopping(b)'
  BY <1>1, <1>6 DEF BeginSend, CancelSend, SendDone, SendResult, AcceptSend
<1>7. ASSUME NEW other \in Buses, NEW d \in Buses, Deliver(other, d) PROVE Stopping(b)'
  BY <1>1, <1>7 DEF Deliver
<1>8. CASE UNCHANGED vars BY <1>1, <1>8 DEF vars
<1>. QED BY <1>2, <1>3, <1>4, <1>5, <1>6, <1>7, <1>8 DEF Next, Run

\* What the quiet steps leave alone.
LEMMA QuietRunIs ==
  ASSUME IInv, NEW b \in Buses, QuietRun(b)
  PROVE  /\ OnlyMoved(b) /\ UNCHANGED <<incoming, offered>>
         /\ loop[b].step # "received" /\ loop'[b].step # "received"
         /\ \A s \in Sends : result[s] = "ok" => result'[s] = "ok"
         /\ loop[b].step \in Started =>
              \/ result'[loop[b].frame] = "ok"
              \/ /\ loop'[b].step \in Started /\ loop'[b].frame = loop[b].frame
                 /\ loop'[b].to \subseteq loop[b].to
         /\ \A d \in loop[b].victim : d \in loop'[b].victim \/ Stopping(d)'
         /\ \/ UNCHANGED trace
            \/ \E s \in Sends : /\ loop[b].frame = s /\ loop[b].step = "record"
                                /\ trace' = Append(trace, Transmitted(b, s))
            \/ trace' = Append(trace, OverrunEvent(b))
<1>. DEFINE P ==
         /\ OnlyMoved(b) /\ UNCHANGED <<incoming, offered>>
         /\ loop[b].step # "received" /\ loop'[b].step # "received"
         /\ \A s \in Sends : result[s] = "ok" => result'[s] = "ok"
         /\ loop[b].step \in Started =>
              \/ result'[loop[b].frame] = "ok"
              \/ /\ loop'[b].step \in Started /\ loop'[b].frame = loop[b].frame
                 /\ loop'[b].to \subseteq loop[b].to
         /\ \A d \in loop[b].victim : d \in loop'[b].victim \/ Stopping(d)'
         /\ \/ UNCHANGED trace
            \/ \E s \in Sends : /\ loop[b].frame = s /\ loop[b].step = "record"
                                /\ trace' = Append(trace, Transmitted(b, s))
            \/ trace' = Append(trace, OverrunEvent(b))
<1>. SUFFICES P OBVIOUS
<1>0. TypeOK /\ ServeInv /\ BusOK(b) BY DEF IInv, BusInv
<1>a. /\ {"select", "request", "record", "lock", "received", "exit", "remove", "close", "ended"}
         \subseteq Steps
      /\ Sends \cup {NoFrame, NoError, Overrun} \subseteq Frames
  BY DEF Steps, Frames
<1>b. loop[b].victim # {} => loop[b].step = "overrun" BY <1>0 DEF BusOK
<1>c. Started = {"broadcast", "overrun"} BY DEF Started
<1>1. CASE Open(b)
  <2>1. OnlyMoved(b) /\ loop'[b].step = "select" /\ loop[b].step = "unopened"
    BY <1>0, <1>1, <1>a, Goes DEF Open, Select
  <2>. QED BY <1>1, <1>b, <1>c, <2>1 DEF Open
<1>2. CASE CheckRequest(b)
  <2>1. loop[b].frame \in Sends BY <1>2, FrameInHand DEF CheckRequest, Serving
  <2>2. /\ OnlyMoved(b) /\ loop'[b].step \in {"select", "record"} /\ loop[b].step = "request"
        /\ UNCHANGED <<incoming, offered, trace>>
    BY <1>0, <1>2, <1>a, <2>1, Goes DEF CheckRequest, Select
  <2>3. result[loop[b].frame] = NoError
    BY <1>0, <2>2 DEF ServeInv, Serves, Serving
  <2>4. \A s \in Sends : result[s] = "ok" => result'[s] = "ok"
    BY <1>0, <1>2, <2>1, <2>3 DEF CheckRequest, TypeOK, NoError
  <2>. QED BY <1>b, <1>c, <2>2, <2>4
<1>3. CASE RecordTransmit(b)
  <2>1. loop[b].frame \in Sends BY <1>3, FrameInHand DEF RecordTransmit, Serving
  <2>2. OnlyMoved(b) /\ loop'[b].step = "lock" /\ loop[b].step = "record"
    BY <1>0, <1>3, <1>a, <2>1, Goes DEF RecordTransmit
  <2>. QED BY <1>3, <1>b, <1>c, <2>1, <2>2 DEF RecordTransmit
<1>4. CASE StartBroadcast(b)
  <2>1. /\ OnlyMoved(b) /\ loop'[b].step = "broadcast" /\ loop'[b].victim = loop[b].victim
        /\ loop[b].step = "lock" /\ UNCHANGED <<incoming, offered, trace, result>>
    BY <1>0, <1>4, StartEffect DEF StartBroadcast
  <2>. QED BY <1>c, <2>1
<1>5. CASE EndBroadcast(b)
  <2>1. loop[b].frame \in Sends BY <1>5, FrameInHand DEF EndBroadcast, Serving, Committed, Started
  <2>2. OnlyMoved(b) /\ loop'[b].step = "select" /\ loop[b].step = "broadcast"
    BY <1>0, <1>5, <1>a, Goes DEF EndBroadcast, Select
  <2>3. result'[loop[b].frame] = "ok" /\ \A s \in Sends : result[s] = "ok" => result'[s] = "ok"
    BY <1>0, <1>5, <2>1 DEF EndBroadcast, TypeOK
  <2>. QED BY <1>5, <1>b, <2>2, <2>3 DEF EndBroadcast
<1>6. CASE TakeFailure(b)
  <2>1. Head(failures[b]) \in Frames
    <3>1. failures[b] \in Seq({Overrun}) /\ failures[b] # <<>> BY <1>0, <1>6 DEF TakeFailure, TypeOK
    <3>. QED BY <1>a, <3>1, HeadTailProperties
  <2>2. OnlyMoved(b) /\ loop'[b].step = "exit" /\ loop[b].step = "select"
    BY <1>0, <1>6, <1>a, <2>1, Goes DEF TakeFailure, Select, At
  <2>. QED BY <1>6, <1>b, <1>c, <2>2 DEF TakeFailure
<1>7. CASE TakeStop(b)
  <2>1. terminal[b] \in Frames BY <1>0, <1>a DEF TypeOK
  <2>2. OnlyMoved(b) /\ loop'[b].step = "exit" /\ loop[b].step = "select"
    BY <1>0, <1>7, <1>a, <2>1, Goes DEF TakeStop, Select, At
  <2>. QED BY <1>7, <1>b, <1>c, <2>2 DEF TakeStop
<1>8. CASE SetErr(b) \/ Remove(b) \/ CloseDone(b)
  <2>1. OnlyMoved(b) /\ loop'[b].step \in {"remove", "close", "ended"}
        /\ loop[b].step \in {"exit", "remove", "close"}
    BY <1>0, <1>8, <1>a, Goes DEF SetErr, Remove, CloseDone
  <2>2. UNCHANGED <<incoming, offered, trace, result>> BY <1>8 DEF SetErr, Remove, CloseDone, busState
  <2>. QED BY <1>b, <1>c, <2>1, <2>2
<1>9. ASSUME NEW s \in Sends, SendBus[s] = b, AcceptSend(s) PROVE P
  <2>1. OnlyMoved(b) /\ loop'[b].step = "request" /\ loop[b].step = "select"
    BY <1>0, <1>9, <1>a, Goes DEF AcceptSend, Select, At
  <2>. QED BY <1>9, <1>b, <1>c, <2>1 DEF AcceptSend
<1>10. ASSUME NEW d \in Buses, Fail(b, d) PROVE P
  <2>1. /\ OnlyMoved(b) /\ loop'[b].step = "broadcast" /\ loop'[b].frame = loop[b].frame
        /\ loop'[b].to = loop[b].to /\ loop[b].step = "overrun" /\ d \in loop[b].victim
        /\ UNCHANGED <<incoming, offered, trace, result>>
    BY <1>0, <1>10, FailEffect DEF Fail
  <2>2. Stopping(d)' BY <1>0, <1>10 DEF Fail, Stopping, TypeOK, Overrun, NoError
  <2>3. \A other \in loop[b].victim : other = d BY <1>0, <2>1 DEF BusOK
  <2>. QED BY <1>c, <2>1, <2>2, <2>3
<1>. QED
  BY <1>1, <1>2, <1>3, <1>4, <1>5, <1>6, <1>7, <1>8, <1>9, <1>10 DEF QuietRun

\* What the callers leave alone.
LEMMA QuietCallIs ==
  ASSUME QuietCall
  PROVE  UNCHANGED <<loop, incoming, offered, result, trace>>
  BY DEF QuietCall, Close, BeginSend, CancelSend, SendDone, SendResult

\* Every step keeps who knows which frame.
LEMMA KnownStep == IInv /\ [Next]_vars => KnownInv'
<1>. SUFFICES ASSUME IInv, [Next]_vars PROVE KnownInv'
  OBVIOUS
<1>0. KnownInv /\ trace \in Seq(Entries) BY DEF IInv, TypeOK
<1>1. ASSUME UNCHANGED <<loop, incoming, result, trace>> PROVE KnownInv'
  BY <1>0, <1>1 DEF KnownInv, Knows, Queued, InHand, Known, Reached, Recorded
<1>2. ASSUME NEW b \in Buses, QuietRun(b) PROVE KnownInv'
  <2>1. \A d \in Buses, s \in Sends : Recorded(Received(d, s))' <=> Recorded(Received(d, s))
    <3>1. CASE UNCHANGED trace BY <3>1 DEF Recorded
    <3>2. ASSUME NEW e, trace' = Append(trace, e), \A d, s : Received(d, s) # e
          PROVE  \A d \in Buses, s \in Sends : Recorded(Received(d, s))' <=> Recorded(Received(d, s))
      BY <1>0, <3>2, AppendRecords
    <3>3. \A d, s, f : Received(d, s) # Transmitted(b, f) /\ Received(d, s) # OverrunEvent(b)
      BY EntriesDiffer
    <3>4. \/ UNCHANGED trace \/ trace' = Append(trace, OverrunEvent(b))
          \/ \E f \in Sends : trace' = Append(trace, Transmitted(b, f))
      BY <1>2, QuietRunIs
    <3>. QED BY <3>1, <3>2, <3>3, <3>4
  <2>2. /\ OnlyMoved(b) /\ UNCHANGED incoming
        /\ loop[b].step # "received" /\ loop'[b].step # "received"
        /\ \A s \in Sends : result[s] = "ok" => result'[s] = "ok"
        /\ loop[b].step \in Started =>
             \/ result'[loop[b].frame] = "ok"
             \/ /\ loop'[b].step \in Started /\ loop'[b].frame = loop[b].frame
                /\ loop'[b].to \subseteq loop[b].to
    BY <1>2, QuietRunIs
  <2>. QED BY <1>0, <2>1, <2>2, KnownKept
<1>3. ASSUME NEW b \in Buses, NEW d \in Buses, Deliver(b, d) PROVE KnownInv'
  <2>1. CASE Len(incoming[d]) < ReceiveQueueCapacity BY <1>3, <2>1, KnownDelivered
  <2>2. CASE ~(Len(incoming[d]) < ReceiveQueueCapacity)
    <3>1. /\ OnlyMoved(b) /\ loop'[b].step = "overrun" /\ loop'[b].frame = loop[b].frame
          /\ loop'[b].to = loop[b].to \ {d} /\ loop[b].step = "broadcast"
          /\ UNCHANGED <<incoming, result, trace>>
      BY <1>3, <2>2, OverrunEffect DEF Deliver, IInv
    <3>2. \A e \in Buses, s \in Sends : Recorded(Received(e, s))' <=> Recorded(Received(e, s))
      BY <3>1 DEF Recorded
    <3>. QED BY <1>0, <3>1, <3>2, KnownKept DEF Started
  <2>. QED BY <2>1, <2>2
<1>4. CASE QuietCall BY <1>1, <1>4, QuietCallIs
<1>5. CASE UNCHANGED vars BY <1>1, <1>5 DEF vars
<1>. QED BY <1>2, <1>3, <1>4, <1>5, NextIs, KnownReceived, KnownRecorded

-----------------------------------------------------------------------------
(* The order of the trace.                                                 *)

\* A new entry is a first one, and a reception's transmission is before it.
LEMMA TraceGrows ==
  ASSUME trace \in Seq(Entries), RecordedOnce, TransmitFirst, NEW e, trace' = Append(trace, e),
         e.kind = "overrun" \/ ~Recorded(e),
         e.kind = "receive" => Recorded(Transmitted(SendBus[e.frame], e.frame))
  PROVE  RecordedOnce' /\ TransmitFirst'
<1>1. /\ DOMAIN trace = 1..Len(trace) /\ DOMAIN trace' = 1..(Len(trace) + 1) /\ Len(trace) \in Nat
      /\ trace'[Len(trace) + 1] = e /\ \A i \in 1..Len(trace) : trace'[i] = trace[i]
  OBVIOUS
<1>2. \A i \in DOMAIN trace' : i = Len(trace) + 1 \/ i \in DOMAIN trace BY <1>1
<1>3. RecordedOnce'
  <2>1. SUFFICES ASSUME NEW i \in DOMAIN trace', NEW j \in DOMAIN trace',
                        trace'[i] = trace'[j], trace'[i].kind # "overrun"
                 PROVE  i = j
    BY DEF RecordedOnce
  <2>2. CASE i \in DOMAIN trace /\ j \in DOMAIN trace BY <1>1, <2>1, <2>2 DEF RecordedOnce
  <2>3. CASE i \in DOMAIN trace /\ j = Len(trace) + 1 BY <1>1, <2>1, <2>3 DEF Recorded
  <2>4. CASE i = Len(trace) + 1 /\ j \in DOMAIN trace BY <1>1, <2>1, <2>4 DEF Recorded
  <2>. QED BY <1>2, <2>2, <2>3, <2>4
<1>4. TransmitFirst'
  <2>1. SUFFICES ASSUME NEW i \in DOMAIN trace', trace'[i].kind = "receive"
                 PROVE  \E j \in 1..(i - 1) :
                          trace'[j] = Transmitted(SendBus[trace'[i].frame], trace'[i].frame)
    BY DEF TransmitFirst
  <2>2. CASE i \in DOMAIN trace
    <3>1. trace'[i] = trace[i] BY <1>1, <2>2
    <3>2. PICK j \in 1..(i - 1) : trace[j] = Transmitted(SendBus[trace[i].frame], trace[i].frame)
      BY <2>1, <2>2, <3>1 DEF TransmitFirst
    <3>3. j \in 1..Len(trace) BY <1>1, <2>2
    <3>4. trace'[j] = trace[j] BY <1>1, <3>3
    <3>. QED BY <3>1, <3>2, <3>4
  <2>3. CASE i = Len(trace) + 1
    <3>1. trace'[i] = e BY <1>1, <2>3
    <3>2. PICK j \in DOMAIN trace : trace[j] = Transmitted(SendBus[e.frame], e.frame)
      BY <2>1, <3>1 DEF Recorded
    <3>3. trace'[j] = trace[j] /\ j \in 1..(i - 1) BY <1>1, <2>3, <3>2
    <3>. QED BY <3>1, <3>2, <3>3
  <2>. QED BY <1>2, <2>2, <2>3
<1>. QED BY <1>3, <1>4

\* Every step records each frame once, and its transmission first.
LEMMA TraceStep == IInv /\ [Next]_vars => RecordedOnce' /\ TransmitFirst'
<1>. SUFFICES ASSUME IInv, [Next]_vars PROVE RecordedOnce' /\ TransmitFirst'
  OBVIOUS
<1>0. /\ TypeOK /\ ServeInv /\ KnownInv /\ RecordedOnce /\ TransmitFirst /\ trace \in Seq(Entries)
  BY DEF IInv, TypeOK
<1>1. CASE UNCHANGED trace BY <1>0, <1>1 DEF RecordedOnce, TransmitFirst
<1>2. ASSUME NEW b \in Buses, QuietRun(b) PROVE RecordedOnce' /\ TransmitFirst'
  <2>1. CASE trace' = Append(trace, OverrunEvent(b))
    <3>1. OverrunEvent(b).kind = "overrun" BY EntriesDiffer
    <3>. QED BY <1>0, <2>1, <3>1, TraceGrows
  <2>2. ASSUME NEW s \in Sends, loop[b].frame = s, loop[b].step = "record",
               trace' = Append(trace, Transmitted(b, s))
        PROVE  RecordedOnce' /\ TransmitFirst'
    <3>1. SendBus[s] = b /\ result[s] = NoError
      BY <1>0, <2>2 DEF ServeInv, Serves, Serving
    <3>2. ~Recorded(Transmitted(b, s))
      BY <1>0, <2>2, <3>1 DEF ServeInv, Answered, Committed, Started, NoError
    <3>3. Transmitted(b, s).kind = "transmit" BY EntriesDiffer
    <3>. QED BY <1>0, <2>2, <3>2, <3>3, TraceGrows
  <2>. QED BY <1>1, <1>2, <2>1, <2>2, QuietRunIs
<1>3. ASSUME NEW b \in Buses, RecordReceive(b) PROVE RecordedOnce' /\ TransmitFirst'
  <2>1. PICK s \in Sends : s = loop[b].frame BY <1>3, FrameInHand DEF RecordReceive
  <2>2. UNCHANGED trace \/ trace' = Append(trace, Received(b, s)) BY <1>3, <2>1 DEF RecordReceive
  <2>3. InHand(b, s) /\ Known(b, s) BY <1>3, <2>1 DEF RecordReceive, InHand, Known
  <2>4. ~Recorded(Received(b, s)) /\ Reached(b, s) BY <1>0, <2>3 DEF KnownInv, Knows
  <2>5. Recorded(Transmitted(SendBus[s], s))
    BY <1>0, <2>4 DEF ServeInv, Answered, Reached, Committed
  <2>6. Received(b, s).kind = "receive" /\ Received(b, s).frame = s BY EntriesDiffer
  <2>7. CASE trace' = Append(trace, Received(b, s)) BY <1>0, <2>4, <2>5, <2>6, <2>7, TraceGrows
  <2>. QED BY <1>1, <2>2, <2>7
<1>4. CASE QuietCall BY <1>1, <1>4, QuietCallIs
<1>5. ASSUME NEW b \in Buses, Receive(b) \/ \E d \in Buses : Deliver(b, d) PROVE UNCHANGED trace
  BY <1>5 DEF Receive, Deliver
<1>6. CASE UNCHANGED vars BY <1>1, <1>6 DEF vars
<1>. QED BY <1>1, <1>2, <1>3, <1>4, <1>5, <1>6, NextIs

-----------------------------------------------------------------------------
(* What a bus has received.                                                *)

ReceptionsIn(t, b, n) == { i \in 1..n : t[i].bus = b /\ t[i].kind = "receive" }

\* Receptions are finitely many, and counted from one.
LEMMA ReceptionsFinite ==
  ASSUME NEW t, NEW b, NEW n \in Nat
  PROVE  /\ IsFiniteSet(ReceptionsIn(t, b, n)) /\ Cardinality(ReceptionsIn(t, b, n)) \in Nat
         /\ \A i \in ReceptionsIn(t, b, n) :
              /\ Cardinality(ReceptionsIn(t, b, i)) \in Nat \ {0}
              /\ Cardinality(ReceptionsIn(t, b, i)) <= Cardinality(ReceptionsIn(t, b, n))
<1>1. \A m \in Nat : IsFiniteSet(ReceptionsIn(t, b, m)) /\ Cardinality(ReceptionsIn(t, b, m)) \in Nat
  <2>. TAKE m \in Nat
  <2>1. IsFiniteSet(1..m) BY FS_Interval
  <2>2. ReceptionsIn(t, b, m) \subseteq 1..m BY DEF ReceptionsIn
  <2>. QED BY <2>1, <2>2, FS_Subset, FS_CardinalityType
<1>2. ASSUME NEW i \in ReceptionsIn(t, b, n)
      PROVE  /\ Cardinality(ReceptionsIn(t, b, i)) \in Nat \ {0}
             /\ Cardinality(ReceptionsIn(t, b, i)) <= Cardinality(ReceptionsIn(t, b, n))
  <2>1. i \in Nat /\ i <= n /\ i \in ReceptionsIn(t, b, i) BY DEF ReceptionsIn
  <2>2. ReceptionsIn(t, b, i) \subseteq ReceptionsIn(t, b, n) BY <2>1 DEF ReceptionsIn
  <2>3. Cardinality(ReceptionsIn(t, b, i)) # 0 BY <1>1, <2>1, FS_EmptySet
  <2>. QED BY <1>1, <2>1, <2>2, <2>3, FS_Subset
<1>. QED BY <1>1, <1>2

\* An append adds a reception of b, or none.
LEMMA ReceptionsGrow ==
  ASSUME NEW t \in Seq(Entries), NEW e, NEW b
  PROVE  /\ \A i \in 0..Len(t) : ReceptionsIn(Append(t, e), b, i) = ReceptionsIn(t, b, i)
         /\ ReceptionsIn(Append(t, e), b, Len(t) + 1) =
              IF e.bus = b /\ e.kind = "receive"
              THEN ReceptionsIn(t, b, Len(t)) \cup {Len(t) + 1} ELSE ReceptionsIn(t, b, Len(t))
<1>. DEFINE n == Len(t)
            u == Append(t, e)
<1>1. n \in Nat /\ u[n + 1] = e /\ \A i \in 1..n : u[i] = t[i] OBVIOUS
<1>. HIDE DEF n, u
<1>2. \A i \in 0..n : ReceptionsIn(u, b, i) = ReceptionsIn(t, b, i)
  <2>. TAKE i \in 0..n
  <2>1. \A j \in 1..i : j \in 1..n BY <1>1
  <2>. QED BY <1>1, <2>1 DEF ReceptionsIn
<1>3. 1..(n + 1) = 1..n \cup {n + 1} BY <1>1
<1>4. ReceptionsIn(u, b, n + 1) =
        IF e.bus = b /\ e.kind = "receive"
        THEN ReceptionsIn(t, b, n) \cup {n + 1} ELSE ReceptionsIn(t, b, n)
  BY <1>1, <1>3 DEF ReceptionsIn
<1>. QED BY <1>2, <1>4 DEF n, u

\* The receptions of b in t, followed by the frames h, are the frames o.
Complete(t, b, h, o) ==
  LET received == Cardinality(ReceptionsIn(t, b, Len(t)))
  IN /\ Len(o) = received + Len(h)
     /\ \A i \in ReceptionsIn(t, b, Len(t)) :
          t[i].frame = o[Cardinality(ReceptionsIn(t, b, i))]
     /\ \A k \in DOMAIN h : h[k] = o[received + k]

\* NothingMissing in these terms, before and after a step.
LEMMA NothingMissingIs ==
  ASSUME NEW b
  PROVE  /\ NothingMissing(b) <=> Complete(trace, b, Held(b), offered[b])
         /\ NothingMissing(b)' <=> Complete(trace', b, Held(b)', offered'[b])
  BY DEF NothingMissing, Receptions, ReceptionsIn, Complete

\* An entry that is no reception of b.
LEMMA CompleteElsewhere ==
  ASSUME NEW t \in Seq(Entries), NEW b, NEW h, NEW o, NEW e, Complete(t, b, h, o),
         ~(e.bus = b /\ e.kind = "receive")
  PROVE  Complete(Append(t, e), b, h, o)
<1>. DEFINE u == Append(t, e)
            n == Len(t)
<1>1. n \in Nat /\ Len(u) = n + 1 /\ \A i \in 1..n : u[i] = t[i] OBVIOUS
<1>2. /\ \A i \in 0..n : ReceptionsIn(u, b, i) = ReceptionsIn(t, b, i)
      /\ ReceptionsIn(u, b, n + 1) = ReceptionsIn(t, b, n)
  BY ReceptionsGrow
<1>. HIDE DEF u
<1>3. \A i \in ReceptionsIn(t, b, n) : i \in 0..n /\ i \in 1..n BY <1>1 DEF ReceptionsIn
<1>. QED BY <1>1, <1>2, <1>3 DEF Complete, u

\* A frame is queued.
LEMMA CompleteQueued ==
  ASSUME NEW t \in Seq(Entries), NEW b, NEW h \in Seq(Sends), NEW o \in Seq(Sends),
         NEW f \in Sends, Complete(t, b, h, o)
  PROVE  Complete(t, b, Append(h, f), Append(o, f))
<1>. DEFINE received == Cardinality(ReceptionsIn(t, b, Len(t)))
            q == Append(h, f)
            p == Append(o, f)
<1>1. Len(t) \in Nat OBVIOUS
<1>2. /\ received \in Nat
      /\ \A i \in ReceptionsIn(t, b, Len(t)) :
           /\ Cardinality(ReceptionsIn(t, b, i)) \in Nat \ {0}
           /\ Cardinality(ReceptionsIn(t, b, i)) <= received
  BY <1>1, ReceptionsFinite
<1>3. /\ Len(q) = Len(h) + 1 /\ DOMAIN q = 1..(Len(h) + 1) /\ q[Len(h) + 1] = f
      /\ \A i \in 1..Len(h) : q[i] = h[i]
      /\ Len(h) \in Nat /\ DOMAIN h = 1..Len(h)
  BY AppendProperties
<1>4. /\ Len(p) = Len(o) + 1 /\ p[Len(o) + 1] = f /\ Len(o) \in Nat
      /\ \A i \in 1..Len(o) : p[i] = o[i]
  BY AppendProperties
<1>5. /\ Len(o) = received + Len(h)
      /\ \A i \in ReceptionsIn(t, b, Len(t)) : t[i].frame = o[Cardinality(ReceptionsIn(t, b, i))]
      /\ \A k \in DOMAIN h : h[k] = o[received + k]
  BY DEF Complete
<1>. HIDE DEF received, q, p
<1>6. ASSUME NEW i \in ReceptionsIn(t, b, Len(t))
      PROVE  t[i].frame = p[Cardinality(ReceptionsIn(t, b, i))]
  <2>1. Cardinality(ReceptionsIn(t, b, i)) \in 1..Len(o) BY <1>2, <1>3, <1>5
  <2>. QED BY <1>4, <1>5, <2>1
<1>7. ASSUME NEW k \in DOMAIN q PROVE q[k] = p[received + k]
  <2>1. CASE k = Len(h) + 1
    <3>1. received + k = Len(o) + 1 BY <1>2, <1>3, <1>5, <2>1
    <3>. QED BY <1>3, <1>4, <2>1, <3>1
  <2>2. CASE k \in 1..Len(h)
    <3>1. received + k \in 1..Len(o) BY <1>2, <1>3, <1>5, <2>2
    <3>. QED BY <1>3, <1>4, <1>5, <2>2, <3>1
  <2>. QED BY <1>3, <2>1, <2>2
<1>8. Len(p) = received + Len(q) BY <1>2, <1>3, <1>4, <1>5
<1>. QED BY <1>6, <1>7, <1>8 DEF Complete, received, q, p

\* The first frame held is recorded.
LEMMA CompleteRecorded ==
  ASSUME NEW t \in Seq(Entries), NEW b, NEW rest \in Seq(Sends), NEW o \in Seq(Sends),
         NEW f \in Sends, Complete(t, b, <<f>> \o rest, o)
  PROVE  Complete(Append(t, Received(b, f)), b, rest, o)
<1>. DEFINE received == Cardinality(ReceptionsIn(t, b, Len(t)))
            h == <<f>> \o rest
            e == Received(b, f)
            u == Append(t, e)
            n == Len(t)
<1>1. e.bus = b /\ e.kind = "receive" /\ e.frame = f BY DEF Received
<1>2. /\ n \in Nat /\ Len(u) = n + 1 /\ u[n + 1] = e /\ \A i \in 1..n : u[i] = t[i]
  OBVIOUS
<1>3. /\ Len(h) = Len(rest) + 1 /\ DOMAIN h = 1..(Len(rest) + 1) /\ h[1] = f
      /\ Len(rest) \in Nat /\ DOMAIN rest = 1..Len(rest)
      /\ \A k \in 1..Len(rest) : rest[k] = h[k + 1]
  <2>1. <<f>> \in Seq(Sends) /\ Len(<<f>>) = 1 /\ <<f>>[1] = f OBVIOUS
  <2>2. h \in Seq(Sends) /\ Len(h) = 1 + Len(rest) /\ Len(rest) \in Nat
    BY <2>1, ConcatProperties
  <2>3. h[1] = f BY <2>1, <2>2, ConcatProperties
  <2>4. \A k \in 1..Len(rest) : rest[k] = h[k + 1]
    <3>. TAKE k \in 1..Len(rest)
    <3>1. k + 1 \in 1..(1 + Len(rest)) /\ ~(k + 1 <= 1) /\ (k + 1) - 1 = k BY <2>2
    <3>. QED BY <2>1, <3>1
  <2>. HIDE DEF h
  <2>. QED BY <2>2, <2>3, <2>4
<1>4. /\ \A i \in 0..n : ReceptionsIn(u, b, i) = ReceptionsIn(t, b, i)
      /\ ReceptionsIn(u, b, n + 1) = ReceptionsIn(t, b, n) \cup {n + 1}
  <2>. HIDE DEF e
  <2>. QED BY <1>1, ReceptionsGrow
<1>5. /\ Len(o) = received + Len(h)
      /\ \A i \in ReceptionsIn(t, b, n) : t[i].frame = o[Cardinality(ReceptionsIn(t, b, i))]
      /\ \A k \in DOMAIN h : h[k] = o[received + k]
  BY DEF Complete
<1>6. IsFiniteSet(ReceptionsIn(t, b, n)) /\ received \in Nat BY <1>2, ReceptionsFinite
<1>. HIDE DEF received, h, e, u, n
<1>7. Cardinality(ReceptionsIn(u, b, n + 1)) = received + 1
  <2>1. n + 1 \notin ReceptionsIn(t, b, n) BY <1>2 DEF ReceptionsIn
  <2>. QED BY <1>4, <1>6, <2>1, FS_AddElement DEF received, n
<1>8. ASSUME NEW i \in ReceptionsIn(u, b, n + 1)
      PROVE  u[i].frame = o[Cardinality(ReceptionsIn(u, b, i))]
  <2>1. CASE i = n + 1
    <3>1. h[1] = o[received + 1] BY <1>3, <1>5
    <3>. QED BY <1>1, <1>2, <1>3, <1>7, <2>1, <3>1
  <2>2. CASE i \in ReceptionsIn(t, b, n)
    <3>1. i \in 1..n /\ i \in 0..n BY <1>2, <2>2 DEF ReceptionsIn
    <3>. QED BY <1>2, <1>4, <1>5, <2>2, <3>1
  <2>. QED BY <1>4, <2>1, <2>2
<1>9. ASSUME NEW k \in DOMAIN rest PROVE rest[k] = o[(received + 1) + k]
  <2>1. k + 1 \in DOMAIN h /\ rest[k] = h[k + 1] BY <1>3
  <2>2. received + (k + 1) = (received + 1) + k BY <1>3, <1>6
  <2>. QED BY <1>5, <2>1, <2>2
<1>10. Len(o) = (received + 1) + Len(rest) BY <1>3, <1>5, <1>6
<1>. QED BY <1>2, <1>7, <1>8, <1>9, <1>10 DEF Complete, e, u

\* What b holds is a sequence of frames.
LEMMA HeldIs ==
  ASSUME IInv, NEW b \in Buses
  PROVE  Held(b) \in Seq(Sends)
<1>1. incoming[b] \in Seq(Sends) BY DEF IInv, TypeOK
<1>2. loop[b].step = "received" => loop[b].frame \in Sends BY FrameInHand
<1>3. (IF loop[b].step = "received" THEN <<loop[b].frame>> ELSE <<>>) \in Seq(Sends)
  BY <1>2
<1>. QED BY <1>1, <1>3, ConcatProperties DEF Held

\* A bus has everything, is about to be failed, or stops.
Excused(b) ==
  \/ NothingMissing(b)
  \/ Stopping(b)
  \/ \E source \in Buses : b \in loop[source].victim

\* A step that changes nothing that a bus holds.
LEMMA ExcuseKept ==
  ASSUME IInv, [Next]_vars, NEW d \in Buses, NEW b \in Buses, OnlyMoved(b),
         offered'[d] = offered[d], Held(d)' = Held(d),
         UNCHANGED trace \/ \E e : trace' = Append(trace, e) /\ ~(e.bus = d /\ e.kind = "receive"),
         d \in loop[b].victim => d \in loop'[b].victim \/ Stopping(d)'
  PROVE  Excused(d)'
<1>0. TypeOK /\ trace \in Seq(Entries) /\ Excused(d) BY DEF IInv, TypeOK, NoSilentLoss, Excused
<1>1. CASE NothingMissing(d)
  <2>1. Complete(trace, d, Held(d), offered[d]) BY <1>1, NothingMissingIs
  <2>2. Complete(trace', d, Held(d), offered[d]) BY <1>0, <2>1, CompleteElsewhere
  <2>3. NothingMissing(d)' BY <2>2, NothingMissingIs
  <2>. QED BY <2>3 DEF Excused
<1>2. CASE Stopping(d)
  <2>1. Stopping(d)' BY <1>0, <1>2, StoppingStays
  <2>. QED BY <2>1 DEF Excused
<1>3. ASSUME NEW source \in Buses, d \in loop[source].victim PROVE Excused(d)'
  BY <1>3 DEF Excused, OnlyMoved
<1>. QED BY <1>0, <1>1, <1>2, <1>3 DEF Excused

\* Every step keeps what the buses have, or gives the excuse.
LEMMA LossStep == IInv /\ [Next]_vars => NoSilentLoss'
<1>. SUFFICES ASSUME IInv, [Next]_vars, NEW d \in Buses PROVE Excused(d)'
  BY DEF NoSilentLoss, Excused
<1>0. TypeOK /\ trace \in Seq(Entries) /\ BusInv BY DEF IInv, TypeOK
<1>1. ASSUME UNCHANGED <<loop, incoming, offered, trace>> PROVE Excused(d)'
  <2>1. OnlyMoved(d) /\ Held(d)' = Held(d) BY <1>1 DEF OnlyMoved, Held
  <2>. QED BY <1>1, <2>1, ExcuseKept
<1>2. ASSUME NEW b \in Buses, QuietRun(b) PROVE Excused(d)'
  <2>1. /\ OnlyMoved(b) /\ UNCHANGED <<incoming, offered>>
        /\ loop[b].step # "received" /\ loop'[b].step # "received"
        /\ \A e \in loop[b].victim : e \in loop'[b].victim \/ Stopping(e)'
        /\ \/ UNCHANGED trace \/ trace' = Append(trace, OverrunEvent(b))
           \/ \E s \in Sends : trace' = Append(trace, Transmitted(b, s))
    BY <1>2, QuietRunIs
  <2>2. Held(d)' = Held(d) BY <2>1 DEF Held, OnlyMoved
  <2>3. OverrunEvent(b).kind # "receive" /\ \A s : Transmitted(b, s).kind # "receive"
    BY EntriesDiffer
  <2>4. UNCHANGED trace \/ \E e : trace' = Append(trace, e) /\ ~(e.bus = d /\ e.kind = "receive")
    BY <2>1, <2>3
  <2>. QED BY <2>1, <2>2, <2>4, ExcuseKept
<1>3. ASSUME NEW b \in Buses, NEW e \in Buses, Deliver(b, e) PROVE Excused(d)'
  <2>1. PICK f \in Sends : f = loop[b].frame
    BY <1>3, FrameInHand DEF Deliver, Serving, Committed, Started
  <2>2. /\ UNCHANGED trace /\ loop[b].step = "broadcast"
        /\ offered' = [offered EXCEPT ![e] = Append(@, f)]
    BY <1>3, <2>1 DEF Deliver
  <2>3. loop[b].victim = {} BY <1>0, <2>2 DEF BusInv, BusOK
  <2>4. OnlyMoved(b) /\ loop'[b].step \in Started
    BY <1>0, <1>3, DeliverEffect, OverrunEffect DEF Started
  <2>5. incoming \in [Buses -> Seq(Sends)] /\ offered \in [Buses -> Seq(Sends)] BY <1>0 DEF TypeOK
  <2>6. CASE d # e
    <3>1. offered'[d] = offered[d] /\ incoming'[d] = incoming[d]
      BY <1>3, <2>2, <2>5, <2>6 DEF Deliver
    <3>2. Held(d)' = Held(d)
      BY <2>2, <2>4, <3>1 DEF Held, OnlyMoved, Started
    <3>. QED BY <2>2, <2>3, <2>4, <3>1, <3>2, ExcuseKept
  <2>7. CASE d = e /\ ~(Len(incoming[e]) < ReceiveQueueCapacity)
    <3>1. loop'[b].victim = {d} BY <1>0, <1>3, <2>7, OverrunEffect
    <3>. QED BY <3>1 DEF Excused
  <2>8. CASE d = e /\ Len(incoming[e]) < ReceiveQueueCapacity
    <3>1. incoming' = [incoming EXCEPT ![d] = Append(@, f)] BY <1>3, <2>1, <2>8 DEF Deliver
    <3>2. /\ incoming'[d] = Append(incoming[d], f) /\ offered'[d] = Append(offered[d], f)
          /\ incoming[d] \in Seq(Sends) /\ offered[d] \in Seq(Sends)
      BY <2>2, <2>5, <2>8, <3>1
    <3>3. loop'[d].step = "received" <=> loop[d].step = "received"
      BY <2>2, <2>4 DEF OnlyMoved, Started
    <3>4. loop[d].step = "received" => loop'[d] = loop[d] BY <2>2, <2>4 DEF OnlyMoved
    <3>5. Held(d)' = Append(Held(d), f)
      <4>1. CASE loop[d].step = "received"
        <5>1. PICK g \in Sends : g = loop[d].frame BY <4>1, FrameInHand
        <5>2. Held(d) = <<g>> \o incoming[d] /\ Held(d)' = <<g>> \o Append(incoming[d], f)
          BY <3>2, <3>3, <3>4, <4>1, <5>1 DEF Held
        <5>3. <<g>> \o Append(incoming[d], f) = Append(<<g>> \o incoming[d], f)
          BY <3>2
        <5>. QED BY <5>2, <5>3
      <4>2. CASE loop[d].step # "received"
        <5>1. Held(d) = incoming[d] /\ Held(d)' = Append(incoming[d], f)
          <6>1. /\ Held(d) = <<>> \o incoming[d] /\ Held(d)' = <<>> \o Append(incoming[d], f)
            BY <3>2, <3>3, <4>2 DEF Held
          <6>2. Append(incoming[d], f) \in Seq(Sends) BY <3>2, AppendProperties
          <6>. QED BY <3>2, <6>1, <6>2, ConcatEmptySeq
        <5>. QED BY <5>1
      <4>. QED BY <4>1, <4>2
    <3>6. CASE NothingMissing(d)
      <4>1. Complete(trace, d, Held(d), offered[d]) BY <3>6, NothingMissingIs
      <4>2. Complete(trace, d, Append(Held(d), f), Append(offered[d], f))
        BY <1>0, <3>2, <4>1, HeldIs, CompleteQueued
      <4>3. NothingMissing(d)' BY <2>2, <3>2, <3>5, <4>2, NothingMissingIs
      <4>. QED BY <4>3 DEF Excused
    <3>7. CASE Stopping(d) BY <1>0, <3>7, StoppingStays DEF Excused
    <3>8. ASSUME NEW source \in Buses, d \in loop[source].victim PROVE Excused(d)'
      <4>1. source # b BY <2>3, <3>8
      <4>. QED BY <2>4, <3>8, <4>1 DEF Excused, OnlyMoved
    <3>. QED BY <3>6, <3>7, <3>8 DEF IInv, NoSilentLoss
  <2>. QED BY <2>6, <2>7, <2>8
<1>4. ASSUME NEW b \in Buses, Receive(b) PROVE Excused(d)'
  <2>1. /\ loop[b].step = "select" /\ UNCHANGED <<offered, trace>> /\ incoming[b] # <<>>
        /\ incoming' = [incoming EXCEPT ![b] = Tail(@)]
    BY <1>4 DEF Receive, Select, At
  <2>2. incoming \in [Buses -> Seq(Sends)] /\ incoming[b] \in Seq(Sends) BY <1>0 DEF TypeOK
  <2>3. Head(incoming[b]) \in Sends /\ "received" \in Steps /\ Sends \subseteq Frames
    BY <2>1, <2>2, HeadTailProperties DEF Steps, Frames
  <2>4. /\ OnlyMoved(b) /\ loop'[b].step = "received" /\ loop'[b].frame = Head(incoming[b])
    BY <1>0, <1>4, <2>3, Goes DEF Receive
  <2>5. loop[b].victim = {} BY <1>0, <2>1 DEF BusInv, BusOK
  <2>6. Held(d)' = Held(d)
    <3>1. CASE d # b
      <4>1. incoming'[d] = incoming[d] BY <2>1, <2>2, <3>1
      <4>. QED BY <2>4, <3>1, <4>1 DEF Held, OnlyMoved
    <3>2. CASE d = b
      <4>1. Held(d)' = <<Head(incoming[b])>> \o Tail(incoming[b])
        BY <2>1, <2>2, <2>4, <3>2 DEF Held
      <4>2. Held(d) = <<>> \o incoming[b] BY <2>1, <3>2 DEF Held
      <4>3. <<>> \o incoming[b] = incoming[b] BY <2>2, ConcatEmptySeq
      <4>4. <<Head(incoming[b])>> \o Tail(incoming[b]) = incoming[b] BY <2>1, <2>2
      <4>. QED BY <4>1, <4>2, <4>3, <4>4
    <3>. QED BY <3>1, <3>2
  <2>. QED BY <2>1, <2>4, <2>5, <2>6, ExcuseKept
<1>5. ASSUME NEW b \in Buses, RecordReceive(b) PROVE Excused(d)'
  <2>1. PICK f \in Sends : f = loop[b].frame BY <1>5, FrameInHand DEF RecordReceive
  <2>2. /\ loop[b].step = "received" /\ UNCHANGED <<offered, incoming>>
        /\ trace' = IF Stopping(b) THEN trace ELSE Append(trace, Received(b, f))
    BY <1>5, <2>1 DEF RecordReceive
  <2>3. OnlyMoved(b) /\ loop'[b].step = "select"
    <3>1. "select" \in Steps /\ NoFrame \in Frames BY DEF Steps, Frames
    <3>. QED BY <1>0, <1>5, <3>1, Goes DEF RecordReceive, Select
  <2>4. loop[b].victim = {} BY <1>0, <2>2 DEF BusInv, BusOK
  <2>5. CASE d # b
    <3>1. Held(d)' = Held(d) BY <2>2, <2>3, <2>5 DEF Held, OnlyMoved
    <3>2. Received(b, f).bus = b BY EntriesDiffer
    <3>3. UNCHANGED trace \/ \E e : trace' = Append(trace, e) /\ ~(e.bus = d /\ e.kind = "receive")
      BY <2>2, <2>5, <3>2
    <3>. QED BY <2>2, <2>3, <2>4, <3>1, <3>3, ExcuseKept
  <2>6. CASE d = b /\ Stopping(b) BY <1>0, <2>6, StoppingStays DEF Excused
  <2>7. CASE d = b /\ ~Stopping(b)
    <3>1. trace' = Append(trace, Received(b, f)) BY <2>2, <2>7
    <3>2. incoming[b] \in Seq(Sends) /\ offered[b] \in Seq(Sends) BY <1>0 DEF TypeOK
    <3>3. Held(b) = <<f>> \o incoming[b] BY <2>1, <2>2 DEF Held
    <3>4. Held(b)' = incoming[b]
      <4>1. Held(b)' = <<>> \o incoming[b] BY <2>2, <2>3 DEF Held
      <4>. QED BY <3>2, <4>1, ConcatEmptySeq
    <3>5. CASE NothingMissing(b)
      <4>1. Complete(trace, b, <<f>> \o incoming[b], offered[b]) BY <3>3, <3>5, NothingMissingIs
      <4>2. Complete(trace', b, incoming[b], offered[b])
        BY <1>0, <3>1, <3>2, <4>1, CompleteRecorded
      <4>3. NothingMissing(b)' BY <2>2, <3>4, <4>2, NothingMissingIs
      <4>. QED BY <2>7, <4>3 DEF Excused
    <3>6. ASSUME NEW source \in Buses, b \in loop[source].victim PROVE Excused(d)'
      <4>1. source # b BY <2>4, <3>6
      <4>. QED BY <2>3, <2>7, <3>6, <4>1 DEF Excused, OnlyMoved
    <3>. QED BY <2>7, <3>5, <3>6 DEF IInv, NoSilentLoss
  <2>. QED BY <2>5, <2>6, <2>7
<1>6. CASE QuietCall BY <1>1, <1>6, QuietCallIs
<1>7. CASE UNCHANGED vars BY <1>1, <1>7 DEF vars
<1>. QED BY <1>2, <1>3, <1>4, <1>5, <1>6, <1>7, NextIs

-----------------------------------------------------------------------------
(* The theorems.                                                           *)

\* The invariant holds before any bus is opened.
LEMMA Initially == Init => IInv
<1>. SUFFICES ASSUME Init PROVE IInv
  OBVIOUS
<1>. USE DEF Init
<1>0. \A step, frame : /\ At(step, frame).step = step /\ At(step, frame).frame = frame
                       /\ At(step, frame).to = {} /\ At(step, frame).victim = {}
  BY DEF At
<1>1. TypeOK
  <2>1. At("unopened", NoFrame) \in Places BY DEF At, Places, Steps
  <2>2. ReceiveQueueCapacity \in Nat BY NetworkAssumption
  <2>. QED BY <2>1, <2>2 DEF TypeOK, Errors
<1>2. BusInv BY <1>0 DEF BusInv, BusOK
<1>3. \A x : ~Recorded(x) BY DEF Recorded
<1>4. \A b \in Buses : loop[b].step = "unopened" BY <1>0
<1>5. ServeInv
  BY <1>3, <1>4, NetworkAssumption
  DEF ServeInv, Serves, Answered, Serving, Committed, Started, NoError
<1>6. KnownInv BY <1>3, <1>4 DEF KnownInv, Knows, Known, Queued, InHand
<1>7. RecordedOnce /\ TransmitFirst BY DEF RecordedOnce, TransmitFirst
<1>8. NoSilentLoss
  <2>1. ASSUME NEW b \in Buses PROVE NothingMissing(b)
    <3>1. Held(b) = <<>> BY <1>4 DEF Held
    <3>2. Len(trace) = 0 OBVIOUS
    <3>3. ReceptionsIn(trace, b, Len(trace)) = {} BY <3>2 DEF ReceptionsIn
    <3>4. Cardinality(ReceptionsIn(trace, b, Len(trace))) = 0 BY <3>3, FS_EmptySet
    <3>5. offered[b] = <<>> /\ Len(<<>>) = 0 /\ DOMAIN <<>> = {} OBVIOUS
    <3>6. Complete(trace, b, Held(b), offered[b]) BY <3>1, <3>3, <3>4, <3>5 DEF Complete
    <3>. QED BY <3>6, NothingMissingIs
  <2>. QED BY <2>1 DEF NoSilentLoss
<1>. QED BY <1>1, <1>2, <1>5, <1>6, <1>7, <1>8 DEF IInv

\* The inductive invariant of the network, for any buses, calls of Send and
\* queue capacity.
THEOREM NetworkInvariant == Spec => []IInv
<1>1. IInv /\ [Next]_vars => IInv'
  BY TypeStep, BusStep, ServeStep, KnownStep, TraceStep, LossStep DEF IInv
<1>. QED BY <1>1, Initially, PTL DEF Spec

\* Send returns nil exactly for a frame that was recorded as transmitted,
\* whatever Close, a failure or the end of its context does around it, and no
\* frame is recorded twice.
THEOREM SendsAnswered == Spec => []AcceptanceDefinite
<1>1. IInv => AcceptanceDefinite
  <2>. SUFFICES ASSUME IInv PROVE AcceptanceDefinite
    OBVIOUS
  <2>0. TypeOK /\ ServeInv /\ RecordedOnce BY DEF IInv
  <2>1. ASSUME NEW s \in Sends
        PROVE  /\ send[s] = "ok" => Recorded(Transmitted(SendBus[s], s))
               /\ send[s] \in {"new", "offer", "cancelled", Overrun, Closed} =>
                    ~Recorded(Transmitted(SendBus[s], s))
               /\ send[s] = "await" /\ result[s] = NoError => loop[SendBus[s]].frame = s
    <3>1. Answered(s) /\ Serves(SendBus[s]) BY <2>0, NetworkAssumption DEF ServeInv
    <3>2. Committed \subseteq Serving BY DEF Serving
    <3>3. ASSUME send[s] \in {"new", "offer", "cancelled", Overrun, Closed}
          PROVE  ~Recorded(Transmitted(SendBus[s], s))
      <4>1. send[s] # "await" /\ send[s] # "ok" BY <3>3 DEF Overrun, Closed
      <4>2. result[s] # "ok" BY <3>1, <4>1 DEF Answered, NoError
      <4>3. ~(loop[SendBus[s]].step \in Committed /\ loop[SendBus[s]].frame = s)
        BY <3>1, <3>2, <4>1 DEF Serves
      <4>. QED BY <3>1, <4>2, <4>3 DEF Answered
    <3>. QED BY <3>1, <3>3 DEF Answered
  <2>. QED BY <2>0, <2>1 DEF AcceptanceDefinite, RecordedOnce
<1>. QED BY <1>1, NetworkInvariant, PTL

\* A transmission is in the trace before every reception of its frame.
THEOREM TransmissionsFirst == Spec => []TransmitFirst
<1>1. IInv => TransmitFirst BY DEF IInv
<1>. QED BY <1>1, NetworkInvariant, PTL

\* A bus has every frame broadcast to it, in order, or it ends and says why,
\* and no other bus records under its ID meanwhile.
THEOREM ReceptionsExact == Spec => []ReceptionExact
<1>1. IInv => ReceptionExact
  <2>. SUFFICES ASSUME IInv PROVE ReceptionExact
    OBVIOUS
  <2>0. TypeOK /\ BusInv /\ NoSilentLoss BY DEF IInv
  <2>1. ErrReported
    <3>1. ASSUME NEW b \in Buses, done[b]
          PROVE  err[b] = terminal[b] /\ (err[b] = NoError => closing[b])
      BY <2>0, <3>1 DEF BusInv, BusOK, Stopping
    <3>. QED BY <3>1 DEF ErrReported
  <2>2. MembersLive
    <3>1. \A b \in buses : ~done[b] BY <2>0 DEF BusInv, BusOK, TypeOK
    <3>. QED BY <2>0, <3>1 DEF MembersLive, BusInv, BusOK
  <2>. QED BY <2>0, <2>1, <2>2 DEF ReceptionExact
<1>. QED BY <1>1, NetworkInvariant, PTL

=============================================================================
