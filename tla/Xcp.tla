-------------------------------- MODULE Xcp --------------------------------
(***************************************************************************)
(* An XCP client (xcp.Client), the goroutines that call it, the CAN bus    *)
(* and one ECU.  Commands are numbered as the bus accepts them; a reply    *)
(* carries, as history, the number of the command the ECU answered, which  *)
(* the client cannot see: XCP replies name no command.                     *)
(*                                                                         *)
(* The ECU is external: it handles its commands in order, answers them or  *)
(* not, and may report that a command is pending or that it ended the      *)
(* session.  Packet layout is left out except for what the client branches *)
(* on: RES, ERR with or without code zero, EV, DAQ, and a RES that is too  *)
(* short for its command.                                                  *)
(***************************************************************************)
EXTENDS Integers, Sequences, FiniteSets, FiniteSetsExt

CONSTANTS
    Procs,       \* goroutines that call the client
    Scenarios,   \* the bounds of a behaviour, one record for each case
    ReadLength   \* responses that one Read needs

Operations == {"connect", "disconnect", "synch", "status", "other", "read"}

ASSUME XcpAssumption ==
    /\ ReadLength \in Nat \ {0}
    /\ \A s \in Scenarios : s.ops \subseteq Operations

VARIABLES
    connected, pending, capabilities,   \* session fields, protected by the gate
    gate,        \* the token of the gate lies in its channel
    closed,      \* Close was called
    busDone,
    cursor, retaining, log, oldest, snapshot,   \* receive position and capture
    toEcu, toClient,                    \* frames on the bus
    ecu,         \* [connected, mta]: the ECU's session and transfer address
    pc, call,    \* per process
    sent,        \* number of commands accepted so far
    trusted,     \* history: the last reply the client trusted, and for what
    faults, scenario

vars == <<connected, pending, capabilities, gate, closed, busDone, cursor, retaining, log,
          oldest, snapshot, toEcu, toClient, ecu, pc, call, sent, trusted, faults, scenario>>

session == <<connected, pending, capabilities>>
capture == <<log, oldest, snapshot>>
bus == <<toEcu, toClient, ecu, busDone>>

\* The commands each operation issues; Do's raw command is "other".
Program(op) ==
    IF op = "read" THEN <<"setmta">> \o [i \in 1 .. ReadLength |-> "upload"] ELSE <<op>>

NoCall == [op |-> "none", todo |-> <<>>, cmd |-> "none", n |-> 0, recovering |-> FALSE,
           ctx |-> FALSE, data |-> <<>>, res |-> "none"]

Init ==
    /\ connected = FALSE /\ pending = "none" /\ capabilities = 0
    /\ gate = TRUE /\ closed = FALSE /\ busDone = FALSE
    /\ cursor = 0 /\ retaining = FALSE
    /\ log = <<>> /\ oldest = 0 /\ snapshot = -1
    /\ toEcu = <<>> /\ toClient = <<>>
    /\ ecu = [connected |-> FALSE, mta |-> 0]
    /\ pc = [p \in Procs |-> "idle"]
    /\ call = [p \in Procs |-> NoCall]
    /\ sent = 0
    /\ trusted = [cmd |-> "none", n |-> 0, reply |-> 0]
    /\ faults = [lost |-> 0, clears |-> 0, prunes |-> 0, ends |-> 0, events |-> 0, errs |-> 0,
                 calls |-> 0, fenced |-> TRUE]
    /\ scenario \in Scenarios

End == Len(log)
ValidCursor(c) == c = 0 \/ c >= oldest
Retained(direction) == {i \in 1 .. End : i > cursor /\ i > oldest /\ log[i].dir = direction}

Goto(p, at, c) == pc' = [pc EXCEPT ![p] = at] /\ call' = [call EXCEPT ![p] = c]

Causes(p) ==
    (IF call[p].ctx THEN {"context"} ELSE {}) \cup (IF busDone THEN {"bus"} ELSE {})
    \cup (IF closed THEN {"closed"} ELSE {})

-----------------------------------------------------------------------------
(* begin and finish                                                        *)

Call(p, op) ==
    /\ pc[p] = "idle"
    /\ faults.calls < scenario.calls
    /\ faults' = [faults EXCEPT !.calls = @ + 1]
    /\ Goto(p, "gate", [NoCall EXCEPT !.op = op, !.todo = Program(op)])
    /\ UNCHANGED <<session, gate, closed, cursor, retaining, capture, bus, sent, trusted, scenario>>

\* finish: the cursor stays protected only for a SYNCH without an answer.
KeepsRetaining(pend) == pend = "synch"

\* mutant: the gate is not given back
FinishKeepsGate(p, res, pend, c) ==
    /\ Goto(p, "idle", [c EXCEPT !.res = res])
    /\ gate' = FALSE
    /\ retaining' = KeepsRetaining(pend)

\* A call that owns the gate ends with result res; pend is pendingCommand.
Finish(p, res, pend, c) ==
    /\ Goto(p, "idle", [c EXCEPT !.res = res])
    /\ gate' = TRUE
    /\ retaining' = KeepsRetaining(pend)

BeginFails(p) ==
    /\ pc[p] = "gate"
    /\ \E cause \in Causes(p) : Goto(p, "idle", [call[p] EXCEPT !.res = cause])
    /\ UNCHANGED <<session, gate, closed, cursor, retaining, capture, bus, sent, trusted,
                   faults, scenario>>

\* What an operation refuses before its first command: Do(SYNCH) for a session
\* that is known to be disconnected, Read without a trusted session.
Refusal(op) ==
    CASE op = "synch" /\ ~connected /\ pending \in {"none", "connect", "disconnect"} -> "notconnected"
      [] op = "read" /\ pending # "none" -> "synchrequired"
      [] op = "read" /\ pending = "none" /\ ~connected -> "notconnected"
      [] OTHER -> "none"

\* The gate is taken; the client, the bus and the context are looked at again.
Begin(p) ==
    LET refusal == Refusal(call[p].op) IN
    /\ pc[p] = "gate"
    /\ gate
    /\ IF Causes(p) # {}
       THEN \E cause \in Causes(p) : Finish(p, cause, pending, call[p])
       ELSE IF refusal # "none" THEN Finish(p, refusal, pending, call[p])
       ELSE gate' = FALSE /\ Goto(p, "command", call[p]) /\ UNCHANGED retaining
    /\ UNCHANGED <<session, closed, cursor, capture, bus, sent, trusted, faults, scenario>>

-----------------------------------------------------------------------------
(* command                                                                 *)

\* validateRequest, the session rules.
ValidateRequest(cmd) ==
    CASE /\ pending # "none" /\ cmd # "synch"
         /\ ~(cmd = "connect" /\ pending \in {"connect", "disconnect"}) -> "synchrequired"
      [] ~connected /\ cmd \notin {"connect", "synch"} /\ pending = "none" -> "notconnected"
      [] OTHER -> "none"

\* An unanswered SYNCH is resumed at its own cursor and not sent again.
Resumes(cmd) == cmd = "synch" /\ pending = "synch"

Command(p) ==
    LET c == call[p]  cmd == Head(c.todo)
        refusal == ValidateRequest(cmd)
        recovering == cmd = "connect" /\ pending \in {"connect", "disconnect"}
        next == [c EXCEPT !.cmd = cmd, !.todo = Tail(@), !.recovering = recovering]
    IN
    /\ pc[p] = "command"
    /\ IF refusal # "none" THEN Finish(p, refusal, pending, c) /\ UNCHANGED cursor
       ELSE IF Causes(p) # {}
       THEN (\E cause \in Causes(p) : Finish(p, cause, pending, c)) /\ UNCHANGED cursor
       ELSE IF Resumes(cmd)
       THEN Goto(p, "receive", [next EXCEPT !.n = sent]) /\ UNCHANGED <<gate, cursor, retaining>>
       ELSE Goto(p, "send", next) /\ cursor' = End /\ retaining' = TRUE /\ UNCHANGED gate
    /\ UNCHANGED <<session, closed, capture, bus, sent, trusted, faults, scenario>>

\* gocan.Send accepts the command; from here on its outcome is uncertain.
Send(p) ==
    LET c == call[p] IN
    /\ pc[p] = "send"
    /\ ~busDone
    /\ log' = Append(log, [dir |-> "tx", pkt |-> [cmd |-> c.cmd, n |-> sent + 1]])
    /\ toEcu' = Append(toEcu, [cmd |-> c.cmd, n |-> sent + 1])
    /\ sent' = sent + 1
    /\ connected' = (connected /\ c.cmd \notin {"connect", "disconnect", "other"})
    /\ pending' = c.cmd
    /\ Goto(p, "locate", [c EXCEPT !.n = sent + 1])
    /\ UNCHANGED <<capabilities, gate, closed, cursor, retaining, oldest, snapshot, toClient, ecu,
                   busDone, trusted, faults, scenario>>

SendFails(p) ==
    /\ pc[p] = "send"
    /\ \E res \in Causes(p) \cup (IF faults.ends < scenario.ends THEN {"queue"} ELSE {}) :
          /\ Finish(p, res, pending, call[p])
          /\ faults' = [faults EXCEPT !.ends = IF res = "queue" THEN @ + 1 ELSE @]
    /\ UNCHANGED <<session, closed, cursor, capture, bus, sent, trusted, scenario>>

\* transport.SentCursor.
SentCursor == IF ValidCursor(cursor) /\ Retained("tx") # {} THEN Min(Retained("tx")) ELSE 0

Locate(p) ==
    /\ pc[p] = "locate"
    /\ IF SentCursor = 0
       THEN Finish(p, "range", pending, call[p]) /\ UNCHANGED cursor
       ELSE Goto(p, "receive", call[p]) /\ cursor' = SentCursor /\ UNCHANGED <<gate, retaining>>
    /\ UNCHANGED <<session, closed, capture, bus, sent, trusted, faults, scenario>>

\* mutant: a failed recovery forgets that a CONNECT is unanswered
RecoveredForgets(c, pend) == pend

\* A failed receive of a CONNECT that recovers an earlier one: whatever was
\* pending, the next attempt has to recover a CONNECT again.
Recovered(c, pend) == IF c.recovering THEN "connect" ELSE pend

\* mutant: the candidate reply is trusted without a barrier
IsCandidateNever(c) == FALSE

\* The reply to a CONNECT that recovers an earlier command may be an older one's.
IsCandidate(c) == c.recovering

\* receive: a reply that settles the command.  A CONNECT that recovers an
\* earlier CONNECT or DISCONNECT is only a candidate: a SYNCH fences the earlier
\* replies and a fresh CONNECT reads the capabilities.
Settle(p, pkt) ==
    LET c == call[p]
        next == [c EXCEPT !.data = IF c.cmd = "upload" THEN Append(@, pkt.data) ELSE @]
    IN
    IF IsCandidate(c)
    THEN /\ Goto(p, "command", [c EXCEPT !.todo = <<"synch", "connect">> \o @])
         /\ UNCHANGED <<session, gate, retaining, trusted>>
    ELSE /\ pending' = "none"
         /\ connected' = (connected \/ c.cmd = "connect")
         /\ capabilities' = IF c.cmd = "connect" THEN pkt.n ELSE capabilities
         /\ trusted' = [cmd |-> c.cmd, n |-> c.n, reply |-> pkt.n]
         /\ IF c.todo = <<>> THEN Finish(p, "ok", "none", next)
            ELSE Goto(p, "command", next) /\ UNCHANGED <<gate, retaining>>

\* A reply, or an event, that ends the call with an error.
Reject(p, res, pend) ==
    /\ pending' = Recovered(call[p], pend)
    /\ Finish(p, res, Recovered(call[p], pend), call[p])
    /\ UNCHANGED capabilities

\* The switch of receive on the packet that Capture.Next returned.
OnPacket(p, pkt) ==
    LET c == call[p]
        continue == Goto(p, "receive", c) /\ UNCHANGED <<session, gate, retaining, trusted>>
    IN
    CASE pkt.kind \in {"daq", "pending"} -> continue
      [] pkt.kind = "terminated" ->
           /\ connected' = FALSE /\ pending' = "none" /\ UNCHANGED <<capabilities, trusted>>
           /\ Finish(p, "terminated", "none", c)
      [] pkt.kind \in {"res", "err", "short"} /\ c.cmd = "synch" -> continue
      [] pkt.kind = "marker" /\ c.cmd = "synch" -> Settle(p, pkt)
      [] pkt.kind = "err" /\ c.cmd # "synch" ->
           /\ Reject(p, "negative", "none") /\ UNCHANGED connected
           /\ trusted' = IF c.recovering THEN trusted ELSE [cmd |-> c.cmd, n |-> c.n, reply |-> pkt.n]
      [] pkt.kind \in {"marker", "short"} /\ c.cmd # "synch" ->
           Reject(p, "invalid", pending) /\ UNCHANGED <<connected, trusted>>
      [] pkt.kind = "res" /\ c.cmd # "synch" -> Settle(p, pkt)

\* History: a reply that has not been read may still come after record i.
Outstanding(i) ==
    \/ toEcu # <<>>
    \/ \E k \in 1 .. Len(toClient) : toClient[k].n > 0
    \/ \E k \in Retained("rx") : k > i /\ log[k].pkt.n > 0

Receive(p) ==
    LET i == Min(Retained("rx")) IN
    /\ pc[p] = "receive"
    /\ ValidCursor(cursor)
    /\ Retained("rx") # {}
    /\ Causes(p) = {}
    /\ cursor' = i
    /\ OnPacket(p, log[i].pkt)
    /\ faults' = [faults EXCEPT !.fenced = @ /\ ~(log[i].pkt.kind = "terminated" /\ Outstanding(i))]
    /\ UNCHANGED <<closed, capture, bus, sent, scenario>>

\* The position was lost, the context ended or the deadline passed; a reply that
\* was already captured may be there, and is left where it is.
ReceiveFails(p) ==
    LET c == call[p] IN
    /\ pc[p] = "receive"
    /\ \E res \in Causes(p) \cup (IF ValidCursor(cursor) THEN {"timeout"} ELSE {"range"}) :
           Reject(p, res, pending)
    /\ UNCHANGED <<connected, closed, cursor, capture, bus, sent, trusted, faults, scenario>>

-----------------------------------------------------------------------------
(* The ECU and the bus (external), Close, contexts and the pruner.         *)

Reply(kind, n) == [kind |-> kind, n |-> n, data |-> ecu.mta]

\* The ECU takes its next command.
EcuHandles ==
    LET cmd == Head(toEcu).cmd  n == Head(toEcu).n
        err == faults.errs < scenario.errs
        answered == ecu.connected \/ cmd = "connect"
    IN
    /\ toEcu # <<>>
    /\ toEcu' = Tail(toEcu)
    /\ IF ~answered THEN UNCHANGED <<ecu, toClient, faults>>
       ELSE \/ /\ ecu' = [connected |-> (ecu.connected \/ cmd = "connect") /\ cmd # "disconnect",
                          mta |-> CASE cmd = "setmta" -> 1 [] cmd = "upload" -> ecu.mta + 1
                                    [] OTHER -> ecu.mta]
               /\ toClient' = Append(toClient, Reply(IF cmd = "synch" THEN "marker" ELSE "res", n))
               /\ UNCHANGED faults
            \/ /\ err /\ cmd # "synch"
               /\ \E kind \in {"err", "short"} : toClient' = Append(toClient, Reply(kind, n))
               /\ faults' = [faults EXCEPT !.errs = @ + 1]
               /\ UNCHANGED ecu
    /\ UNCHANGED <<session, gate, closed, cursor, retaining, capture, busDone, pc, call, sent,
                   trusted, scenario>>

EcuEvent(kind) ==
    /\ faults.events < scenario.events
    /\ kind \in {"pending", "terminated"} => ecu.connected
    /\ toClient' = Append(toClient, Reply(kind, 0))
    /\ ecu' = IF kind = "terminated" THEN [ecu EXCEPT !.connected = FALSE] ELSE ecu
    /\ faults' = [faults EXCEPT !.events = @ + 1]
    /\ UNCHANGED <<session, gate, closed, cursor, retaining, capture, toEcu, busDone, pc, call,
                   sent, trusted, scenario>>

Deliver ==
    /\ toClient # <<>>
    /\ toClient' = Tail(toClient)
    /\ log' = Append(log, [dir |-> "rx", pkt |-> Head(toClient)])
    /\ UNCHANGED <<session, gate, closed, cursor, retaining, oldest, snapshot, toEcu, ecu,
                   busDone, pc, call, sent, trusted, faults, scenario>>

Lose ==
    /\ faults.lost < scenario.lost
    /\ faults' = [faults EXCEPT !.lost = @ + 1]
    /\ \/ toClient # <<>> /\ toClient' = Tail(toClient) /\ UNCHANGED toEcu
       \/ toEcu # <<>> /\ toEcu' = Tail(toEcu) /\ UNCHANGED toClient
    /\ UNCHANGED <<session, gate, closed, cursor, retaining, capture, ecu, busDone, pc, call,
                   sent, trusted, scenario>>

\* Close, the end of the bus, or the end of a caller's context.
Ends ==
    /\ faults.ends < scenario.ends
    /\ faults' = [faults EXCEPT !.ends = @ + 1]
    /\ \/ ~closed /\ closed' = TRUE /\ UNCHANGED <<busDone, call>>
       \/ ~busDone /\ busDone' = TRUE /\ UNCHANGED <<closed, call>>
       \/ \E p \in Procs : /\ pc[p] # "idle" /\ ~call[p].ctx
                           /\ call' = [call EXCEPT ![p].ctx = TRUE]
                           /\ UNCHANGED <<closed, busDone>>
    /\ UNCHANGED <<session, gate, cursor, retaining, capture, toEcu, toClient, ecu, pc, sent,
                   trusted, scenario>>

Clear ==
    /\ faults.clears < scenario.clears
    /\ faults' = [faults EXCEPT !.clears = @ + 1]
    /\ log' = Append(log, [dir |-> "clear", pkt |-> Reply("none", 0)])
    /\ oldest' = End + 1
    /\ UNCHANGED <<session, gate, closed, cursor, retaining, snapshot, bus, pc, call, sent,
                   trusted, scenario>>

RetentionCursor == IF retaining /\ ~closed THEN cursor ELSE End

ReadRetention ==
    /\ snapshot = -1
    /\ faults.prunes < scenario.prunes
    /\ faults' = [faults EXCEPT !.prunes = @ + 1]
    /\ snapshot' = RetentionCursor
    /\ UNCHANGED <<session, gate, closed, cursor, retaining, log, oldest, bus, pc, call, sent,
                   trusted, scenario>>

Prune ==
    /\ snapshot # -1
    /\ oldest' = Max({oldest, snapshot})
    /\ snapshot' = -1
    /\ UNCHANGED <<session, gate, closed, cursor, retaining, log, bus, pc, call, sent, trusted,
                   faults, scenario>>

ClientStep(p) ==
    \/ BeginFails(p) \/ Begin(p) \/ Command(p) \/ Send(p) \/ SendFails(p) \/ Locate(p)
    \/ Receive(p) \/ ReceiveFails(p)

Next ==
    \/ \E p \in Procs, op \in scenario.ops : Call(p, op)
    \/ \E p \in Procs : ClientStep(p)
    \/ EcuHandles
    \/ \E kind \in {"daq", "pending", "terminated"} : EcuEvent(kind)
    \/ Deliver \/ Lose \/ Ends \/ Clear \/ ReadRetention \/ Prune

Spec == Init /\ [][Next]_vars

\* A goroutine inside a call keeps running and its deadline passes.
FairSpec == Spec /\ \A p \in Procs : WF_vars(ClientStep(p))

-----------------------------------------------------------------------------
TypeOK ==
    /\ connected \in BOOLEAN /\ gate \in BOOLEAN /\ retaining \in BOOLEAN
    /\ pending \in {"none", "connect", "disconnect", "synch", "status", "other", "setmta", "upload"}
    /\ cursor \in 0 .. Len(log) /\ oldest \in 0 .. Len(log) /\ snapshot \in -1 .. Len(log)
    /\ capabilities \in 0 .. sent
    /\ \A p \in Procs : call[p].n \in 0 .. sent

\* The reply a command returned is the ECU's reply to that very command, however
\* many commands timed out, were cancelled or were recovered before it.  The one
\* case left open is a session that the ECU reports as ended while it still has
\* an earlier command, a CONNECT say, to answer.
ReplyPaired == faults.fenced => trusted.reply \in {0, trusted.n}

\* While nothing is pending and the client is connected, no reply to an earlier
\* command is still to come: pendingCommand is what keeps the next command from
\* taking it.
NothingOutstanding ==
    gate /\ connected /\ pending = "none" /\ faults.fenced => ~Outstanding(cursor)

\* The capabilities of a connected client come from the last CONNECT that the bus
\* accepted, never from the reply to an earlier one.
CapabilitiesFresh ==
    connected /\ faults.fenced =>
        /\ capabilities \in 1 .. sent
        /\ \A i \in 1 .. Len(log) : log[i].dir = "tx" /\ log[i].pkt.cmd = "connect" => log[i].pkt.n <= capabilities

\* Read returns consecutive memory from the address it set, also as the prefix
\* it hands out with an error.
ReadExact ==
    \A p \in Procs : faults.fenced => call[p].data = [i \in 1 .. Len(call[p].data) |-> i]

\* Pruning to RetentionCursor never takes the history of an active command or of
\* an unanswered SYNCH that a later call resumes.
PruneSafe == \A p \in Procs : call[p].res = "range" => faults.clears > 0 \/ closed

\* A SYNCH is sent once until its marker is read: never are two of them without
\* an answer, or an old marker would fence a newer command.
OneBarrier ==
  faults.fenced =>
    Cardinality({i \in 1 .. Len(toEcu) : toEcu[i].cmd = "synch"})
    + Cardinality({i \in 1 .. Len(toClient) : toClient[i].kind = "marker"})
    + Cardinality({i \in Retained("rx") : log[i].pkt.kind = "marker"}) <= 1

\* No reply is ever taken for that of another command: not now, and not by the
\* next command.
RepliesExact == TypeOK /\ ReplyPaired /\ NothingOutstanding /\ OneBarrier /\ PruneSafe

\* What a session remembers and reads is the ECU's, of this session.
SessionExact == CapabilitiesFresh /\ ReadExact

\* Every call returns, with a reply or an error.
CallsEnd == \A p \in Procs : pc[p] # "idle" ~> pc[p] = "idle"
=============================================================================
