------------------------------- MODULE IsoTp -------------------------------
(***************************************************************************)
(* Two ISO-TP links (isotp.Link), the client's and the server's, joined by *)
(* a CAN bus that delays and loses frames.  A process is one goroutine     *)
(* inside a call of the package: Send, Receive, Reset, Begin, or Next on   *)
(* the exchange that its Begin returned.  Every step is what a goroutine   *)
(* does between two points at which another one can be observed: taking a  *)
(* token, one frame accepted by the bus, one frame read from the capture.  *)
(*                                                                         *)
(* A payload is a record with a length in units; a Single or First Frame   *)
(* and each Consecutive Frame carry one unit <<payload, position>>, so a   *)
(* reassembled buffer shows which transmission each unit came from.  The   *)
(* frame bytes are left out.                                               *)
(***************************************************************************)
EXTENDS Integers, Sequences, FiniteSets, FiniteSetsExt

CONSTANTS
    Procs,                 \* goroutines that call the package
    LinkOf,                \* [Procs -> Links]: the link each one uses
    BlockSize,             \* [Links -> Nat]: AdvertisedBlockSize, 0 is "no limit"
    MaximumPayloadLength,  \* [Links -> Nat]
    SequenceModulus,       \* 16 in the code
    WaitFrameLimit,
    Scenarios              \* the bounds of a behaviour, one record for each case

Links == {"client", "server"}
Peer(l) == IF l = "client" THEN "server" ELSE "client"

ASSUME IsoTpAssumption ==
    /\ LinkOf \in [Procs -> Links]
    /\ BlockSize \in [Links -> Nat]
    /\ MaximumPayloadLength \in [Links -> Nat]
    /\ SequenceModulus \in Nat \ {0, 1}
    /\ WaitFrameLimit \in Nat \ {0}

VARIABLES
    log,        \* log[l]: the capture of l, TX, RX and "clear" records in order
    oldest,     \* oldest[l]: records up to this one are no longer retained
    wire,       \* wire[l]: frames accepted by the peer's bus, not yet at l
    tokens,     \* tokens[l]: the tokens lying in their channels
    cursor,     \* cursor[l]: the receive position
    retaining,  \* retaining[l]: a reception is active
    snapshot,   \* snapshot[l]: a RetentionCursor read by a pruner, -1 is none
    busDone,    \* busDone[l]: the bus of l has ended
    pc, call,   \* per process: the point in the call and its locals
    exchange,   \* exchange[p]: "none", "open" or "cancelled"
    seen,       \* history: the RX records nextFrame returned, per link
    faults,     \* counters of the faults taken, and whether a sender gave up
    scenario    \* the element of Scenarios that bounds this behaviour

isoVars == <<log, oldest, wire, tokens, cursor, retaining, snapshot, busDone,
             pc, call, exchange, seen, faults, scenario>>

NoMsg == [id |-> 0, len |-> 0]
NoFrame == [kind |-> "none"]
IdleCall == [op |-> "none", msg |-> NoMsg, off |-> 0, seq |-> 0, blk |-> 0, bs |-> 0,
             waits |-> 0, buf |-> <<>>, first |-> NoFrame, blocked |-> FALSE,
             ctx |-> FALSE, tx |-> 0, timed |-> FALSE, res |-> "none"]

MultiFrame(m) == m.len > 1
Single(m) == [kind |-> "single", data |-> <<m, 1>>, len |-> 1]
First(m) == [kind |-> "first", data |-> <<m, 1>>, len |-> m.len]
\* mutant: the offset is not advanced past the unit already sent
ConsecutiveRepeats(m, off, seq) ==
    [kind |-> "consecutive", data |-> <<m, off>>, seq |-> seq, full |-> off + 1 < m.len]
\* Every frame but the last is as long as the First Frame.
Consecutive(m, off, seq) ==
    [kind |-> "consecutive", data |-> <<m, off + 1>>, seq |-> seq, full |-> off + 1 < m.len]
FlowControl(l, status) == [kind |-> "flow", status |-> status, bs |-> BlockSize[l]]

\* Link.prepareTransmission: what a payload's transmission starts with.
FirstFrameOf(m) == IF MultiFrame(m) THEN First(m) ELSE Single(m)

End(l) == Len(log[l])
ValidCursor(l) == cursor[l] = 0 \/ cursor[l] >= oldest[l]
Retained(l, direction) ==
    {i \in 1 .. Len(log[l]) : i > cursor[l] /\ i > oldest[l] /\ log[l][i].dir = direction}

InitLinks ==
    /\ log = [l \in Links |-> <<>>]
    /\ oldest = [l \in Links |-> 0]
    /\ wire = [l \in Links |-> <<>>]
    /\ tokens = [l \in Links |-> {"sending", "receiving"}]
    /\ cursor = [l \in Links |-> 0]
    /\ retaining = [l \in Links |-> FALSE]
    /\ snapshot = [l \in Links |-> -1]
    /\ busDone = [l \in Links |-> FALSE]
    /\ pc = [p \in Procs |-> "idle"]
    /\ call = [p \in Procs |-> IdleCall]
    /\ exchange = [p \in Procs |-> "none"]
    /\ seen = [l \in Links |-> {}]
    /\ faults = [lost |-> 0, waits |-> 0, clears |-> 0, cancels |-> 0, prunes |-> 0, gaveUp |-> FALSE]
    /\ scenario \in Scenarios

-----------------------------------------------------------------------------
(* Calls: how a goroutine enters and leaves an operation.                  *)

Goto(p, at, c) == pc' = [pc EXCEPT ![p] = at] /\ call' = [call EXCEPT ![p] = c]

\* mutant: the operation context of Next is not derived from the exchange
CausesWithoutClose(p) ==
    (IF call[p].ctx THEN {"context"} ELSE {}) \cup (IF busDone[LinkOf[p]] THEN {"bus"} ELSE {})

\* Reasons for which the operation context of p has ended.
Causes(p) ==
    (IF call[p].ctx THEN {"context"} ELSE {})
    \cup (IF busDone[LinkOf[p]] THEN {"bus"} ELSE {})
    \cup (IF exchange[p] = "cancelled" THEN {"closed"} ELSE {})

\* Send, Begin, Receive and Reset up to their first wait.  A payload that is
\* longer than the link's maximum is refused before any token is taken.
Call(p, op, m) ==
    /\ pc[p] = "idle"
    /\ exchange[p] = "none"
    /\ LET c == [IdleCall EXCEPT !.op = op, !.msg = m] IN
       IF op \in {"send", "begin"} /\ m.len > MaximumPayloadLength[LinkOf[p]]
       THEN Goto(p, "returned", [c EXCEPT !.res = "toolarge"])
       ELSE Goto(p, IF op \in {"send", "begin"} THEN "sending" ELSE "receiving", c)
    /\ UNCHANGED <<log, oldest, wire, tokens, cursor, retaining, snapshot, busDone,
                   exchange, seen, faults>>

\* Exchange.Next: on a cancelled exchange that Close has not reached yet it
\* still starts, and its operation context ends at once.
CallNext(p, timed) ==
    /\ pc[p] = "returned"
    /\ exchange[p] # "none"
    /\ Goto(p, "first", [IdleCall EXCEPT !.op = "next", !.msg = call[p].msg, !.tx = call[p].tx,
                                         !.timed = timed, !.ctx = call[p].ctx])
    /\ UNCHANGED <<log, oldest, wire, tokens, cursor, retaining, snapshot, busDone,
                   exchange, seen, faults>>

\* The caller's context is cancelled, or its deadline passes.
CancelContext(p) ==
    /\ pc[p] \notin {"idle", "returned"}
    /\ ~call[p].ctx
    /\ faults.cancels < scenario.cancels
    /\ call' = [call EXCEPT ![p].ctx = TRUE]
    /\ faults' = [faults EXCEPT !.cancels = @ + 1]
    /\ UNCHANGED <<log, oldest, wire, tokens, cursor, retaining, snapshot, busDone,
                   pc, exchange, seen>>

\* mutant: a segmented Send forgets finishReception
ReleasedSendingOnly(c, res) ==
    CASE c.op = "begin" -> IF res = "ok" THEN {} ELSE {"sending", "receiving"}
      [] c.op = "send" -> {"sending"}
      [] c.op \in {"receive", "reset"} -> {"receiving"}
      [] OTHER -> {}

\* The tokens an operation gives back when it ends with result res: Begin keeps
\* both for its exchange unless it failed, when Exchange.Close releases them.
Released(c, res) ==
    CASE c.op = "begin" -> IF res = "ok" THEN {} ELSE {"sending", "receiving"}
      [] c.op = "send" -> {"sending"} \cup (IF MultiFrame(c.msg) THEN {"receiving"} ELSE {})
      [] c.op \in {"receive", "reset"} -> {"receiving"}
      [] OTHER -> {}

\* The deferred calls of an operation that held its tokens.
Finish(p, res, c) ==
    LET l == LinkOf[p] IN
    /\ Goto(p, "returned", [c EXCEPT !.res = res])
    /\ tokens' = [tokens EXCEPT ![l] = @ \cup Released(c, res)]
    /\ retaining' = [retaining EXCEPT ![l] = @ /\ "receiving" \notin Released(c, res)]
    /\ exchange' = [exchange EXCEPT ![p] = IF c.op = "begin" /\ res = "ok" THEN "open" ELSE @]
    /\ faults' = [faults EXCEPT !.gaveUp = @ \/ ( /\ c.op \in {"begin", "send"}
                                                  /\ res # "ok" /\ c.off > 0),
                                !.cancels = IF res = "queue" THEN @ + 1 ELSE @]
    /\ UNCHANGED <<oldest, snapshot, busDone>>

\* acquire(sending).
AcquireSending(p) ==
    LET l == LinkOf[p]  c == call[p] IN
    /\ pc[p] = "sending"
    /\ "sending" \in tokens[l]
    /\ tokens' = [tokens EXCEPT ![l] = @ \ {"sending"}]
    /\ Goto(p, IF c.op = "begin" \/ MultiFrame(c.msg) THEN "receiving" ELSE "transmit", c)
    /\ UNCHANGED <<log, oldest, wire, cursor, retaining, snapshot, busDone, exchange, seen, faults>>

\* acquire(receiving) followed by startReception, whose reset and activation
\* are one critical section; Reset instead rechecks its context and the bus.
AcquireReceiving(p) ==
    LET l == LinkOf[p]  c == call[p]
        refused == c.op = "reset" /\ (c.ctx \/ busDone[l])
        reset == c.op \in {"begin", "send", "reset"} /\ ~refused
    IN
    /\ pc[p] = "receiving"
    /\ "receiving" \in tokens[l]
    /\ cursor' = [cursor EXCEPT ![l] = IF reset THEN End(l) ELSE @]
    /\ IF c.op = "reset"
       THEN /\ Goto(p, "returned", [c EXCEPT !.res = IF refused THEN "ended" ELSE "ok"])
            /\ UNCHANGED <<tokens, retaining>>
       ELSE /\ Goto(p, IF c.op = "receive" THEN "first" ELSE "transmit", c)
            /\ tokens' = [tokens EXCEPT ![l] = @ \ {"receiving"}]
            /\ retaining' = [retaining EXCEPT ![l] = TRUE]
    /\ UNCHANGED <<log, oldest, wire, snapshot, busDone, exchange, seen, faults>>

\* acquire ends with the bus or the caller's context; Begin and Send then give
\* back the sending token they may already have.
AcquireFails(p) ==
    LET l == LinkOf[p]  c == call[p] IN
    /\ pc[p] \in {"sending", "receiving"}
    /\ \E cause \in Causes(p) : Goto(p, "returned", [c EXCEPT !.res = cause])
    /\ tokens' = [tokens EXCEPT ![l] = @ \cup (IF pc[p] = "receiving" /\ c.op \in {"begin", "send"}
                                               THEN {"sending"} ELSE {})]
    /\ UNCHANGED <<log, oldest, wire, cursor, retaining, snapshot, busDone, exchange, seen, faults>>

-----------------------------------------------------------------------------
(* transmit.go                                                             *)

\* gocan.Send accepts the frame: it is recorded and on its way to the peer.
Accept(l, f) ==
    /\ ~busDone[l]
    /\ log' = [log EXCEPT ![l] = Append(@, [dir |-> "tx", frame |-> f])]
    /\ wire' = [wire EXCEPT ![Peer(l)] = Append(@, f)]

\* gocan.Send gives up: the queue stayed full, the bus or a context ended.
SendFails(p) ==
    /\ pc[p] \in {"transmit", "block", "grant"}
    /\ \E res \in Causes(p) \cup (IF faults.cancels < scenario.cancels THEN {"queue"} ELSE {}) :
           Finish(p, res, [call[p] EXCEPT !.buf = <<>>])
    /\ UNCHANGED <<log, wire, cursor, seen>>

\* transmit, the first frame.  Begin and a segmented Send then look for the
\* accepted transmission in the capture; a single-frame Send is finished.
TransmitFirst(p) ==
    LET l == LinkOf[p]  c == call[p] IN
    /\ pc[p] = "transmit"
    /\ Accept(l, FirstFrameOf(c.msg))
    /\ IF c.op = "begin" \/ MultiFrame(c.msg)
       THEN /\ Goto(p, "locate", [c EXCEPT !.off = 1, !.tx = Len(log[l]) + 1])
            /\ UNCHANGED <<oldest, tokens, retaining, snapshot, busDone, exchange, faults>>
       ELSE Finish(p, "ok", c)
    /\ UNCHANGED <<cursor, seen>>

\* mutant: the cursor is set to the end of the capture after Send
SentCursorAtEnd(l) == End(l)

\* transport.SentCursor: the first TX record after the cursor, never a wait; a
\* transmission that is no longer retained is a capture loss.
SentCursor(l) ==
    IF ValidCursor(l) /\ Retained(l, "tx") # {} THEN Min(Retained(l, "tx")) ELSE 0

LocateSent(p) ==
    LET l == LinkOf[p]  c == call[p]  at == SentCursor(l) IN
    /\ pc[p] = "locate"
    /\ cursor' = [cursor EXCEPT ![l] = at]
    /\ IF at = 0
       THEN Finish(p, "range", c)
       ELSE IF MultiFrame(c.msg)
       THEN /\ Goto(p, "flow", [c EXCEPT !.seq = 1])
            /\ UNCHANGED <<oldest, tokens, retaining, snapshot, busDone, exchange, faults>>
       ELSE Finish(p, "ok", c)
    /\ UNCHANGED <<log, wire, seen>>

\* The next block waits for its own Flow Control and counts its own Wait frames.
EndOfBlock(c) == [c EXCEPT !.blocked = FALSE, !.waits = 0]

\* transmit, one Consecutive Frame of the block that a Flow Control granted.
TransmitConsecutive(p) ==
    LET l == LinkOf[p]  c == call[p]
        next == [c EXCEPT !.off = @ + 1, !.seq = (@ + 1) % SequenceModulus, !.blk = @ + 1]
    IN
    /\ pc[p] = "block"
    /\ Accept(l, Consecutive(c.msg, c.off, c.seq))
    /\ IF next.off = c.msg.len
       THEN Finish(p, "ok", next)
       ELSE /\ IF c.bs = 0 \/ next.blk < c.bs THEN Goto(p, "block", next)
               ELSE Goto(p, "flow", EndOfBlock(next))
            /\ UNCHANGED <<oldest, tokens, retaining, snapshot, busDone, exchange, faults>>
    /\ UNCHANGED <<cursor, seen>>

\* waitFlowControl, for the frame that nextFrame returned.
OnFlowControl(p, f) ==
    LET c == call[p] IN
    IF f.kind # "flow" THEN Finish(p, "protocol", c)
    ELSE CASE f.status = "continue" ->
                /\ Goto(p, "block", [c EXCEPT !.blk = 0, !.bs = f.bs, !.blocked = FALSE])
                /\ UNCHANGED <<oldest, tokens, retaining, snapshot, busDone, exchange, faults>>
           [] f.status = "wait" /\ c.waits + 1 <= WaitFrameLimit ->
                /\ Goto(p, "flow", [c EXCEPT !.waits = @ + 1, !.blocked = FALSE])
                /\ UNCHANGED <<oldest, tokens, retaining, snapshot, busDone, exchange, faults>>
           [] f.status = "wait" /\ c.waits + 1 > WaitFrameLimit -> Finish(p, "waitlimit", c)
           [] f.status = "overflow" -> Finish(p, "overflow", c)

-----------------------------------------------------------------------------
(* receive.go                                                              *)

\* receive and the head of receiveMultiFrame, for the frame that opens a payload.
OnFirst(p, f) ==
    LET c == call[p]  l == LinkOf[p] IN
    CASE f.kind = "single" ->
            IF f.len > MaximumPayloadLength[l] THEN Finish(p, "toolarge", c)
            ELSE Finish(p, "ok", [c EXCEPT !.buf = <<f.data>>])
      [] f.kind = "first" ->
            /\ Goto(p, "grant", [c EXCEPT !.first = f, !.buf = <<f.data>>])
            /\ UNCHANGED <<oldest, tokens, retaining, snapshot, busDone, exchange, faults>>
      [] OTHER -> Finish(p, "protocol", c)

\* sendFlowControl: Overflow refuses the payload and ends the operation,
\* Continue starts the next block.
Grant(p) ==
    LET l == LinkOf[p]  c == call[p]  refuse == c.first.len > MaximumPayloadLength[l] IN
    /\ pc[p] = "grant"
    /\ Accept(l, FlowControl(l, IF refuse THEN "overflow" ELSE "continue"))
    /\ IF refuse
       THEN Finish(p, "toolarge", [c EXCEPT !.buf = <<>>])
       ELSE /\ Goto(p, "follow", [c EXCEPT !.blk = 0, !.blocked = FALSE,
                                           !.seq = IF Len(c.buf) = 1 THEN 1 ELSE @])
            /\ UNCHANGED <<oldest, tokens, retaining, snapshot, busDone, exchange, faults>>
    /\ UNCHANGED <<cursor, seen>>

\* The loop of receiveMultiFrame, for the frame that nextFrame returned.
OnConsecutive(p, f) ==
    LET c == call[p]  l == LinkOf[p]
        remaining == c.first.len - Len(c.buf)
        next == [c EXCEPT !.buf = Append(@, f.data), !.seq = (@ + 1) % SequenceModulus,
                          !.blk = @ + 1, !.blocked = FALSE]
    IN
    IF \/ f.kind # "consecutive"
       \/ f.seq # c.seq
       \/ remaining > 1 /\ ~f.full
    THEN Finish(p, "protocol", [c EXCEPT !.buf = <<>>])
    ELSE IF remaining = 1 THEN Finish(p, "ok", next)
    ELSE /\ Goto(p, IF next.blk = BlockSize[l] THEN "grant" ELSE "follow", next)
         /\ UNCHANGED <<oldest, tokens, retaining, snapshot, busDone, exchange, faults>>

-----------------------------------------------------------------------------
(* nextFrame: Capture.Next at the link's cursor.  Retained records are     *)
(* searched before the context is looked at; only then does the call wait. *)

Reading(p) == pc[p] \in {"flow", "first", "follow"}

NextFrame(p) ==
    LET l == LinkOf[p]  i == Min(Retained(l, "rx"))  f == log[l][i].frame IN
    /\ Reading(p)
    /\ ValidCursor(l)
    /\ Retained(l, "rx") # {}
    /\ cursor' = [cursor EXCEPT ![l] = i]
    /\ seen' = [seen EXCEPT ![l] = @ \cup {i}]
    /\ CASE pc[p] = "flow" -> OnFlowControl(p, f)
         [] pc[p] = "first" -> OnFirst(p, f)
         [] pc[p] = "follow" -> OnConsecutive(p, f)
    /\ UNCHANGED <<log, wire>>

NextFrameOutOfRange(p) ==
    /\ Reading(p)
    /\ ~ValidCursor(LinkOf[p])
    /\ cursor' = [cursor EXCEPT ![LinkOf[p]] = 0]
    /\ Finish(p, "range", [call[p] EXCEPT !.buf = <<>>])
    /\ UNCHANGED <<log, wire, seen>>

NextFrameBlocks(p) ==
    /\ Reading(p)
    /\ ~call[p].blocked
    /\ ValidCursor(LinkOf[p])
    /\ Retained(LinkOf[p], "rx") = {}
    /\ call' = [call EXCEPT ![p].blocked = TRUE]
    /\ UNCHANGED <<log, oldest, wire, tokens, cursor, retaining, snapshot, busDone,
                   pc, exchange, seen, faults>>

\* The operation context ends while the call waits: withCause reports why.
NextFrameCancelled(p) ==
    /\ Reading(p)
    /\ call[p].blocked
    /\ \E res \in Causes(p) : Finish(p, res, [call[p] EXCEPT !.buf = <<>>])
    /\ UNCHANGED <<log, wire, cursor, seen>>

\* The error of the timeout that ends a wait at this point.
TimeoutOf(at) ==
    CASE at = "flow" -> "flowtimeout" [] at = "first" -> "firsttimeout" [] at = "follow" -> "followtimeout"

\* The timeout of this wait: flow control, consecutive frame, or the first
\* frame of a Next that was given a limit.
NextFrameExpires(p) ==
    /\ Reading(p)
    /\ call[p].blocked
    /\ pc[p] = "first" => call[p].timed
    /\ Finish(p, TimeoutOf(pc[p]), [call[p] EXCEPT !.buf = <<>>])
    /\ UNCHANGED <<log, wire, cursor, seen>>

-----------------------------------------------------------------------------
(* Exchange.Close, the bus, and readers of the capture.                    *)

\* Close cancels the exchange at once and then waits for its mutex, which a
\* Next in progress holds.
CloseCancels(p) ==
    /\ exchange[p] = "open"
    /\ exchange' = [exchange EXCEPT ![p] = "cancelled"]
    /\ UNCHANGED <<log, oldest, wire, tokens, cursor, retaining, snapshot, busDone,
                   pc, call, seen, faults>>

InNext(p) == call[p].op = "next" /\ pc[p] \notin {"idle", "returned"}

CloseReleases(p) ==
    /\ exchange[p] = "cancelled"
    /\ ~InNext(p)
    /\ exchange' = [exchange EXCEPT ![p] = "none"]
    /\ tokens' = [tokens EXCEPT ![LinkOf[p]] = @ \cup {"sending", "receiving"}]
    /\ retaining' = [retaining EXCEPT ![LinkOf[p]] = FALSE]
    /\ UNCHANGED <<log, oldest, wire, cursor, snapshot, busDone, pc, call, seen, faults>>

\* The bus delivers a frame in order, or loses it.
Deliver(l) ==
    /\ wire[l] # <<>>
    /\ wire' = [wire EXCEPT ![l] = Tail(@)]
    /\ log' = [log EXCEPT ![l] = Append(@, [dir |-> "rx", frame |-> Head(wire[l])])]
    /\ UNCHANGED <<oldest, tokens, cursor, retaining, snapshot, busDone, pc, call,
                   exchange, seen, faults>>

Lose(l) ==
    /\ wire[l] # <<>>
    /\ faults.lost < scenario.lost
    /\ wire' = [wire EXCEPT ![l] = Tail(@)]
    /\ faults' = [faults EXCEPT !.lost = @ + 1]
    /\ UNCHANGED <<log, oldest, tokens, cursor, retaining, snapshot, busDone, pc, call,
                   exchange, seen>>

\* A peer other than this package answers a First Frame or a block with Wait.
PeerWaits(l) ==
    /\ \E p \in Procs : LinkOf[p] = l /\ pc[p] = "flow"
    /\ faults.waits < scenario.waits
    /\ wire' = [wire EXCEPT ![l] = Append(@, [kind |-> "flow", status |-> "wait", bs |-> 0])]
    /\ faults' = [faults EXCEPT !.waits = @ + 1]
    /\ UNCHANGED <<log, oldest, tokens, cursor, retaining, snapshot, busDone, pc, call,
                   exchange, seen>>

BusEnds(l) ==
    /\ ~busDone[l]
    /\ faults.cancels < scenario.cancels
    /\ busDone' = [busDone EXCEPT ![l] = TRUE]
    /\ faults' = [faults EXCEPT !.cancels = @ + 1]
    /\ UNCHANGED <<log, oldest, wire, tokens, cursor, retaining, snapshot, pc, call,
                   exchange, seen>>

\* Capture.Clear: every cursor taken before it, except the zero cursor, is
\* out of range.
Clear(l) ==
    /\ faults.clears < scenario.clears
    /\ log' = [log EXCEPT ![l] = Append(@, [dir |-> "clear", frame |-> NoFrame])]
    /\ oldest' = [oldest EXCEPT ![l] = Len(log[l]) + 1]
    /\ faults' = [faults EXCEPT !.clears = @ + 1]
    /\ UNCHANGED <<wire, tokens, cursor, retaining, snapshot, busDone, pc, call, exchange, seen>>

\* RetentionCursor, read by the goroutine that prunes the capture ...
RetentionCursor(l) == IF retaining[l] THEN cursor[l] ELSE End(l)

ReadRetention(l) ==
    /\ snapshot[l] = -1
    /\ faults.prunes < scenario.prunes
    /\ faults' = [faults EXCEPT !.prunes = @ + 1]
    /\ snapshot' = [snapshot EXCEPT ![l] = RetentionCursor(l)]
    /\ UNCHANGED <<log, oldest, wire, tokens, cursor, retaining, busDone, pc, call,
                   exchange, seen>>

\* ... which hands it to Capture.Prune some time later.
Prune(l) ==
    /\ snapshot[l] # -1
    /\ oldest' = [oldest EXCEPT ![l] = Max({@, snapshot[l]})]
    /\ snapshot' = [snapshot EXCEPT ![l] = -1]
    /\ UNCHANGED <<log, wire, tokens, cursor, retaining, busDone, pc, call, exchange,
                   seen, faults>>

LinkStep(p) ==
    \/ AcquireSending(p) \/ AcquireReceiving(p) \/ AcquireFails(p)
    \/ SendFails(p) \/ TransmitFirst(p) \/ LocateSent(p) \/ TransmitConsecutive(p)
    \/ Grant(p)
    \/ NextFrame(p) \/ NextFrameOutOfRange(p) \/ NextFrameBlocks(p)
    \/ NextFrameCancelled(p) \/ NextFrameExpires(p)

-----------------------------------------------------------------------------
\* The payload m as it must be handed to the receiver.
Whole(m) == [i \in 1 .. m.len |-> <<m, i>>]

\* Tokens that process p, or the exchange it began, has taken.
Holds(p, token) ==
    \/ exchange[p] # "none"
    \/ /\ token = "sending"
       /\ call[p].op \in {"send", "begin"}
       /\ pc[p] \notin {"idle", "sending", "returned"}
    \/ /\ token = "receiving"
       /\ \/ call[p].op = "receive" /\ pc[p] \notin {"idle", "receiving", "returned"}
          \/ /\ call[p].op = "begin" \/ (call[p].op = "send" /\ MultiFrame(call[p].msg))
             /\ pc[p] \notin {"idle", "sending", "receiving", "returned"}

\* Each token lies in its channel or is held by exactly one process, whatever
\* order calls, failures, Close and a second Close come in: a token that is
\* given back twice would block its goroutine for ever, a lost one the link.
TokenAccounting ==
    \A l \in Links, token \in {"sending", "receiving"} :
        Cardinality({p \in Procs : LinkOf[p] = l /\ Holds(p, token)})
            = IF token \in tokens[l] THEN 0 ELSE 1

\* A payload that a call returned is one payload of the peer, whole and in
\* order.  ISO-TP has no transaction identifier, so two cases are left open: a
\* frame was lost after a sender had given a segmented payload up, or as many
\* frames were lost as the sequence number can tell apart.
PayloadExact ==
    \A p \in Procs :
        pc[p] = "returned" /\ call[p].res = "ok" /\ call[p].op \in {"receive", "next"} =>
            \/ call[p].buf = Whole(call[p].buf[1][1])
            \/ faults.gaveUp /\ faults.lost > 0
            \/ faults.lost >= SequenceModulus

\* The receive position of an exchange is at or after its accepted request, and
\* no frame between the two was passed over unread: SentCursor keeps a reply
\* that was captured before Send returned and drops what came before it.
NoReplySkipped ==
    \A p \in Procs :
        exchange[p] # "none" /\ ValidCursor(LinkOf[p]) =>
            LET l == LinkOf[p] IN
            /\ cursor[l] >= call[p].tx \/ cursor[l] = 0
            /\ \A i \in call[p].tx .. cursor[l] : log[l][i].dir = "rx" => i \in seen[l]

\* Pruning to RetentionCursor never takes the records an exchange or a segmented
\* Send still needs: without Clear such an operation is never out of range.
PruneSafe ==
    \A p \in Procs : call[p].res = "range" /\ call[p].op # "receive" => faults.clears > 0

\* A receiver never sees more Consecutive Frames than the block size it
\* advertised between two of its Flow Control frames, unless a late Flow Control
\* of an abandoned payload reached the sender.
BlocksGranted ==
    \A l \in Links :
        BlockSize[l] > 0 /\ ~faults.gaveUp =>
            \A i \in 1 .. Len(log[l]) :
                LET granted == {j \in 1 .. i : log[l][j].dir = "tx" /\ log[l][j].frame.kind = "flow"} IN
                granted # {} =>
                    Cardinality({j \in Max(granted) .. i :
                                    log[l][j].dir = "rx" /\ log[l][j].frame.kind = "consecutive"})
                        <= BlockSize[l]

\* A transmission fails with ErrWaitFrameLimit only for consecutive Wait frames:
\* the last WaitFrameLimit + 1 frames it read were all Wait.
WaitsConsecutive ==
    \A p \in Procs :
        pc[p] = "returned" /\ call[p].res = "waitlimit" =>
            LET l == LinkOf[p]
                read == {i \in seen[l] : i > call[p].tx}
                wait == {i \in read : log[l][i].frame.kind = "flow" /\ log[l][i].frame.status = "wait"}
            IN
            Cardinality({i \in wait : \A j \in read \ wait : j < i}) > WaitFrameLimit

\* A transfer between two endpoints that follow the protocol is exact, and keeps
\* the limits both agreed on.
TransferExact == PayloadExact /\ BlocksGranted /\ WaitsConsecutive

\* The records an exchange still needs are neither passed over nor pruned.
HistoryKept == NoReplySkipped /\ PruneSafe
=============================================================================
