------------------------------- MODULE J1939 -------------------------------
(***************************************************************************)
(* J1939 clients (j1939.Client) on one CAN bus: address claiming and the   *)
(* transport protocol of each client, the goroutines that call Open, Send  *)
(* and Close, and what each capture lets a Decoder assemble.               *)
(*                                                                         *)
(* A client is one goroutine, run: it waits for something to do, takes a   *)
(* snapshot of its capture (poll), handles the frames of the snapshot one  *)
(* by one, completes its claim, ends what timed out, starts the request it *)
(* took and ticks the transport.  The client's own state is a record,      *)
(* node[n], and each of these parts is an operator on it.                  *)
(*                                                                         *)
(* External: the controllers that are not clients of this library.  ECU    *)
(* exchanges transport messages with the clients and chooses its windows;  *)
(* a rival claims an address that a client has.                            *)
(***************************************************************************)
EXTENDS J1939Decoder, SequencesExt, FiniteSetsExt

CONSTANTS
    Nodes,      \* the clients
    Scenarios   \* what happens in a behaviour, one record for each case

\* NAMEs are unique, those of other controllers included; a client sends
\* messages and requests, and its claims are its own (Send refuses their PGN).
ASSUME ScenariosAssumption ==
    \A s \in Scenarios :
        /\ \A n, x \in Nodes : s.name[n] = s.name[x] => n = x
        /\ s.rival \in Seq([src : 0 .. NullAddress, name : Nat])
        /\ \A i \in DOMAIN s.rival, n \in Nodes : s.rival[i].name # s.name[n]
        /\ \A m \in DOMAIN s.messages : s.messages[m].kind # "claim"

VARIABLES
    node,       \* per client: the fields of Client that run owns
    unread,     \* per client: the records of its capture past its cursor
    queue,      \* per client: frames accepted by its bus, not yet on the wire
    opener,     \* per client: what Open did
    call,       \* per message: the goroutine in Send
    cancelled,  \* the messages whose context was cancelled
    decoder,    \* per client: a Decoder that has read its whole capture
    acked,      \* history: per client, the transfers it acknowledged (EOMA)
    ecu,        \* the ECU: what it receives (rx) and what it sends (tx)
    faults, scenario

vars == <<node, unread, queue, opener, call, cancelled, decoder, acked, ecu, faults, scenario>>

Ecu == 3
None == [src |-> 0]

Address(n) == scenario.address[n]
Name(n) == scenario.name[n]
Messages == DOMAIN scenario.messages
Msg(m) == scenario.messages[m]
Mine(n) == {m \in Messages : Msg(m).src = n}

\* A client before Open: address NullAddress, no identity of its own.
NewNode ==
    [pc |-> "new", state |-> "none", cannot |-> FALSE, peers |-> [x \in 0 .. 3 |-> 0],
     tx |-> None, rx |-> None, sent |-> 0, observed |-> 0, limit |-> 0, fires |-> {},
     request |-> 0, out |-> <<>>, ready |-> "empty", ctx |-> FALSE, full |-> FALSE, res |-> <<>>]

Init ==
    /\ scenario \in Scenarios
    /\ node = [n \in Nodes |-> [NewNode EXCEPT !.res = [m \in Mine(n) |-> "none"]]]
    /\ unread = [n \in Nodes |-> <<>>]
    /\ queue = [n \in Nodes |-> <<>>]
    /\ opener = [n \in Nodes |-> "idle"]
    /\ call = [m \in Messages |-> "idle"]
    /\ cancelled = {}
    /\ decoder = [n \in Nodes |-> NewDecoder]
    /\ acked = [n \in Nodes |-> {}]
    /\ ecu = [rx |-> None, tx |-> None, left |-> scenario.ecu.sends]
    /\ faults = [lost |-> 0, full |-> 0, early |-> 0, cancels |-> 0, closes |-> 0, requests |-> 0,
                 rival |-> 0, holds |-> 0, again |-> 0, late |-> 0, blocked |-> 0]

-----------------------------------------------------------------------------
(* Sending, as steps of a client's record s                                *)

Alive(s) == s.pc # "done"
Failed(s) == [s EXCEPT !.pc = "done"]

\* frame: the bus accepts the frame, or its transmit queue is full.
Put(s, f) == [s EXCEPT !.out = Append(@, f), !.sent = @ + 1]

\* A frame the protocol requires: if the bus does not take it, because its queue
\* is full or the client is being closed, the client ends.
control(s, f) == IF s.full \/ s.ctx THEN Failed(s) ELSE Put(s, f)

claim(n, s, address) ==
    control(s, Frame("claim", address, GlobalAddress, 0, Name(n), 0, 0))

abort(n, s, peer, pgn) == control(s, Frame("abort", Address(n), peer, pgn, 0, 0, 0))

\* finishSend: the result goes to the caller's channel.
finishSend(s, res) ==
    IF s.tx = None THEN s
    ELSE [s EXCEPT !.res = [@ EXCEPT ![s.tx.id] = res], !.tx = None]

\* failSend: the peer of a directed transfer gets an abort.
failSend(n, s, res) ==
    LET after == IF s.tx.dst = GlobalAddress THEN s ELSE abort(n, s, s.tx.dst, s.tx.pgn)
    IN finishSend(after, res)

failReceive(n, s) == abort(n, [s EXCEPT !.rx = None], s.rx.src, s.rx.pgn)

\* invalidatePeer, for each of the peers.
invalidatePeers(s, peers) ==
    LET t == IF s.tx # None /\ s.tx.dst \in peers THEN finishSend(s, "protocol") ELSE s
    IN IF t.rx # None /\ t.rx.src \in peers THEN [t EXCEPT !.rx = None] ELSE t

-----------------------------------------------------------------------------
(* Address claiming                                                        *)

loseAddress(s) ==
    [finishSend([s EXCEPT !.state = "lost"], "lost") EXCEPT !.rx = None, !.cannot = TRUE]

\* completeClaim: 250 ms without a stronger claim.
completeClaim(s, passed) ==
    IF passed /\ s.state = "claiming" THEN [s EXCEPT !.state = "claimed", !.ready = "open"] ELSE s

\* A claim of the client's own address by another NAME.
Challenges(n, s, f) ==
    f.src = Address(n) /\ f.a # Name(n) /\ s.state \in {"claiming", "claimed"}

\* The peers by address: a NAME that moves, or an address that changes hands,
\* ends the transfers with that address.
ObservePeer(s, f) ==
    LET old == {x \in DOMAIN s.peers : s.peers[x] = f.a /\ x # f.src}
        s1 == invalidatePeers([s EXCEPT !.peers =
                  [x \in DOMAIN @ |-> IF x \in old THEN 0 ELSE @[x]]], old)
    IN IF f.src >= NullAddress \/ s1.peers[f.src] = f.a THEN s1
       ELSE [IF s1.peers[f.src] # 0 THEN invalidatePeers(s1, {f.src}) ELSE s1
               EXCEPT !.peers[f.src] = f.a]

\* mutant: a claim by a weaker NAME is not answered
HandleClaimSilent(n, s, f) ==
    IF Challenges(n, s, f) /\ f.a > Name(n) THEN s
    ELSE ObservePeer(IF Challenges(n, s, f) THEN loseAddress(s) ELSE s, f)

\* mutant: the sender of an incoming transfer still gets an abort
HandleClaimAborting(n, s, f) ==
    LET told == IF s.rx # None THEN failReceive(n, s) ELSE s IN
    IF Challenges(n, s, f) /\ f.a > Name(n) THEN claim(n, s, Address(n))
    ELSE ObservePeer(IF Challenges(n, s, f) THEN loseAddress(told) ELSE s, f)

\* The part of handle about claims: the smaller NAME keeps the address.
handleClaim(n, s, f) ==
    IF Challenges(n, s, f) /\ f.a > Name(n) THEN claim(n, s, Address(n))
    ELSE ObservePeer(IF Challenges(n, s, f) THEN loseAddress(s) ELSE s, f)

\* The part of handle about requests for an address claim: a client that has
\* or awaits the address repeats its claim, one that lost it cannot claim.
handleRequest(n, s) ==
    IF s.state \in {"claiming", "claimed"} THEN claim(n, s, Address(n))
    ELSE [s EXCEPT !.cannot = TRUE]

-----------------------------------------------------------------------------
(* Transport                                                               *)

\* mutant: only incoming transfers time out
ExpireTransportReceiveOnly(n, s, fires) ==
    IF s.rx # None /\ "rx" \in fires THEN failReceive(n, s) ELSE s

\* expireTransport: a cancelled request, then the two deadlines; a paced BAM
\* has no deadline of this kind.
expireTransport(n, s, fires) ==
    LET s1 == IF s.tx # None /\ s.tx.id \in cancelled THEN failSend(n, s, "context") ELSE s
        s2 == IF Alive(s1) /\ s1.rx # None /\ "rx" \in fires THEN failReceive(n, s1) ELSE s1
    IN IF Alive(s2) /\ s2.tx # None /\ "tx" \in fires
          /\ (~s2.tx.due \/ s2.tx.dst # GlobalAddress)
       THEN failSend(n, s2, "timeout") ELSE s2

\* mutant: the grant forgets which transmission it has to see first
GrantWithoutBarrier(n, s) ==
    LET r == s.rx
        count == Min({r.window, r.packets - r.next + 1})
    IN control([s EXCEPT !.rx.end = r.next + count - 1, !.rx.barrier = 0, !.fires = @ \ {"rx"}],
               Frame("cts", Address(n), r.src, r.pgn, count, r.next, r.id))

\* grant: the next window, at most what the sender permits.
grant(n, s) ==
    LET r == s.rx
        count == Min({r.window, r.packets - r.next + 1})
    IN control([s EXCEPT !.rx.end = r.next + count - 1, !.rx.barrier = s.sent + 1,
                         !.fires = @ \ {"rx"}],
               Frame("cts", Address(n), r.src, r.pgn, count, r.next, r.id))

\* The TP.DT branch of handleTransport.
handleData(n, s, f) ==
    LET r == s.rx IN
    IF r = None \/ r.src # f.src THEN s
    ELSE IF s.observed < r.barrier \/ f.a # r.next \/ r.next > r.end THEN failReceive(n, s)
    ELSE LET s1 == [s EXCEPT !.rx.next = @ + 1] IN
         IF r.next = r.packets
         THEN control([s1 EXCEPT !.rx = None],
                      Frame("eoma", Address(n), r.src, r.pgn, r.packets, 0, r.id))
         ELSE IF r.next = r.end THEN grant(n, s1)
         ELSE s1

\* The RTS branch: one transfer for each direction, not both with one peer.
handleRts(n, s, f) ==
    CASE f.b = 0 /\ s.rx = None -> abort(n, s, f.src, f.pgn)
      [] s.rx # None /\ s.rx.src = f.src -> abort(n, [s EXCEPT !.rx = None], f.src, f.pgn)
      [] s.rx # None /\ s.rx.src # f.src -> abort(n, s, f.src, f.pgn)
      [] s.rx = None /\ s.tx # None /\ s.tx.dst = f.src -> abort(n, s, f.src, f.pgn)
      [] OTHER -> grant(n, [s EXCEPT !.rx =
             [src |-> f.src, pgn |-> f.pgn, packets |-> f.a, next |-> 1, end |-> 0,
              window |-> f.b, barrier |-> 0, id |-> f.id]])

\* The abort branch.
handleAbort(s, f) ==
    LET s1 == IF s.rx # None /\ s.rx.src = f.src /\ s.rx.pgn = f.pgn
              THEN [s EXCEPT !.rx = None] ELSE s
    IN IF s1.tx # None /\ s1.tx.dst = f.src /\ s1.tx.pgn = f.pgn
       THEN finishSend(s1, "protocol") ELSE s1

\* The EOMA branch: nil only after every packet was accepted and recorded.
handleEoma(n, s, f) ==
    LET t == s.tx IN
    IF t = None \/ t.dst # f.src \/ t.pgn # f.pgn THEN s
    ELSE IF s.observed < t.barrier \/ t.sent # t.packets \/ t.end # 0 \/ f.a # t.packets
    THEN failSend(n, s, "protocol")
    ELSE finishSend(s, "nil")

\* The CTS branch: a window of packets that follow, or repeat, those sent.
handleCts(n, s, f) ==
    LET t == s.tx IN
    IF t = None \/ t.dst # f.src \/ t.pgn # f.pgn THEN s
    ELSE IF \/ s.observed < t.barrier
            \/ t.end # 0
            \/ f.a > t.packets
            \/ (f.a # 0 /\ (f.b < 1 \/ f.b > t.sent + 1 \/ f.b + f.a - 1 > t.packets))
    THEN failSend(n, s, "protocol")
    ELSE IF f.a = 0 THEN s
    ELSE [s EXCEPT !.tx.next = f.b, !.tx.end = f.b + f.a - 1, !.tx.due = TRUE]

\* handleTransport: what timed out before the frame, then the frame.
handleTransport(n, s, f, fires) ==
    LET s1 == expireTransport(n, s, fires) IN
    IF ~Alive(s1) THEN s1
    ELSE CASE f.kind = "dt" -> handleData(n, s1, f)
           [] f.kind = "bam" -> IF s1.rx # None /\ s1.rx.src = f.src THEN failReceive(n, s1) ELSE s1
           [] f.kind = "rts" -> handleRts(n, s1, f)
           [] f.kind = "abort" -> handleAbort(s1, f)
           [] f.kind = "cts" -> handleCts(n, s1, f)
           [] f.kind = "eoma" -> handleEoma(n, s1, f)
           [] OTHER -> s1


\* handle: one frame of the snapshot.
handle(n, s, f, fires) ==
    CASE f.kind = "claim" -> handleClaim(n, s, f)
      [] f.kind = "request" /\ f.dst \in {GlobalAddress, Address(n)} -> handleRequest(n, s)
      [] OTHER ->
            LET s1 == completeClaim(s, "claim" \in fires) IN
            IF s1.state # "claimed" \/ f.dst # Address(n) \/ f.src = Address(n) THEN s1
            ELSE handleTransport(n, s1, f, fires)

\* startSend: the request that the loop took.
startSend(n, s, m) ==
    LET r == Msg(m)
        result(res) == [s EXCEPT !.res = [@ EXCEPT ![m] = res]]
        rts == Frame(IF r.dst = GlobalAddress THEN "bam" ELSE "rts", Address(n), r.dst, r.pgn,
                     r.packets, r.packets, m)
        refused == IF s.ctx THEN "closed" ELSE "full"
    IN
    CASE m = 0 -> s
      [] m \in cancelled -> result("context")
      [] m # 0 /\ m \notin cancelled /\ s.state # "claimed" -> result("lost")
      [] m # 0 /\ m \notin cancelled /\ s.state = "claimed" ->
           IF s.tx # None /\ s.tx.dst = GlobalAddress THEN result("busy")
           ELSE IF r.packets = 0
           THEN IF s.full \/ s.ctx THEN result(refused)
                ELSE Put(result("nil"), Frame(r.kind, Address(n), r.dst, r.pgn, 0, 0, m))
           ELSE IF s.tx # None \/ (s.rx # None /\ s.rx.src = r.dst) THEN result("busy")
           ELSE IF s.full \/ s.ctx THEN result(refused)
           ELSE Put([s EXCEPT !.tx =
                      [id |-> m, dst |-> r.dst, pgn |-> r.pgn, packets |-> r.packets, next |-> 1,
                       sent |-> 0, end |-> 0, due |-> r.dst = GlobalAddress,
                       barrier |-> s.sent + 1]], rts)

\* tickTransport: the next packet of a window, or of a BAM 50 ms after the last.
\* A packet of a BAM that is due too long ago ends it, and so does one that the
\* bus took too long to accept ("bamslow").
tickTransport(n, s, fires) ==
    LET t == s.tx IN
    CASE t = None -> s
      [] t # None /\ t.id \in cancelled -> failSend(n, s, "context")
      [] t # None /\ t.id \notin cancelled ->
           IF ~t.due \/ (t.dst = GlobalAddress /\ "bam" \notin fires) THEN s
           ELSE IF t.dst = GlobalAddress /\ "bamlate" \in fires THEN failSend(n, s, "timeout")
           ELSE IF s.full /\ t.dst # GlobalAddress THEN s
           ELSE IF s.full \/ s.ctx THEN failSend(n, s, IF s.ctx THEN "closed" ELSE "full")
           ELSE IF t.dst = GlobalAddress /\ "bamslow" \in fires
           THEN failSend(n, Put(s, Frame("dt", Address(n), t.dst, 0, t.next, 0, t.id)), "timeout")
           ELSE LET last == t.next = (IF t.dst = GlobalAddress THEN t.packets ELSE t.end)
                    s1 == Put([s EXCEPT !.tx.next = @ + 1, !.tx.sent = Max({@, t.next}),
                                 !.tx.barrier = s.sent + 1, !.tx.due = ~last,
                                 !.tx.end = IF last THEN 0 ELSE @],
                              Frame("dt", Address(n), t.dst, 0, t.next, 0, t.id))
                IN IF last /\ t.dst = GlobalAddress THEN finishSend(s1, "nil") ELSE s1

\* tick: the Cannot Claim message that is due, then the transport.
tick(n, s, fires) ==
    LET s1 == IF s.cannot /\ "cannot" \in fires
              THEN claim(n, [s EXCEPT !.cannot = FALSE,
                               !.ready = IF @ = "empty" THEN "lost" ELSE @], NullAddress)
              ELSE s
    IN IF Alive(s1) THEN tickTransport(n, s1, fires) ELSE s1

\* The end of poll and the rest of one iteration of run.
EndOfIteration(n, s, fires, m) ==
    LET s1 == expireTransport(n, completeClaim(s, "claim" \in fires), fires)
        s2 == IF Alive(s1) THEN startSend(n, s1, m) ELSE s1
    IN IF Alive(s2) THEN tick(n, s2, fires) ELSE s2

-----------------------------------------------------------------------------
(* The goroutine run                                                       *)

\* What a step of run made of its record: the new frames also enter the bus.
Becomes(n, s) ==
    /\ node' = [node EXCEPT ![n] = [s EXCEPT !.full = FALSE]]
    /\ queue' = [queue EXCEPT ![n] = @ \o SubSeq(s.out, Len(node[n].out) + 1, Len(s.out))]

Done(n) == node[n].pc = "done" /\ node[n].out = <<>>
Ready(n, at) == node[n].pc = at /\ node[n].out = <<>>

\* Whether the bus's transmit queue is full in a step: now and then, or, while
\* the bus is blocked, in all of them.
Blocked == faults.blocked = 1
Fulls == IF Blocked THEN {TRUE} ELSE IF faults.full < scenario.full THEN BOOLEAN ELSE {FALSE}
Refusals(full) == IF full /\ ~Blocked THEN [faults EXCEPT !.full = @ + 1] ELSE faults

Blocks ==
    /\ faults.blocked = 0 /\ scenario.blocks
    /\ faults' = [faults EXCEPT !.blocked = 1]
    /\ UNCHANGED <<node, unread, queue, opener, call, cancelled, decoder, acked, ecu, scenario>>

Drains ==
    /\ Blocked
    /\ faults' = [faults EXCEPT !.blocked = 2]
    /\ UNCHANGED <<node, unread, queue, opener, call, cancelled, decoder, acked, ecu, scenario>>

\* A packet of a directed transfer is due.  While the bus is blocked the client
\* tries it every 5 ms in vain, which changes nothing and is left out.
PacketDue(n) ==
    node[n].tx # None /\ node[n].tx.due /\ node[n].tx.dst # GlobalAddress /\ ~Blocked

\* Nothing is on its way to client n or waits to be done by another one.
Quiet(n) ==
    /\ unread[n] = <<>>
    /\ \A x \in Nodes :
         /\ queue[x] = <<>> /\ node[x].out = <<>>
         /\ \/ node[x].pc \in {"new", "done"}
            \/ /\ ~PacketDue(x)
               /\ x # n => node[x].pc = "select" /\ unread[x] = <<>>

\* The timers of a client that are running.  A directed transfer has its
\* deadline also while a packet is due.
Timers(s) ==
    (IF s.state = "claiming" THEN {"claim"} ELSE {})
    \cup (IF s.cannot THEN {"cannot"} ELSE {})
    \cup (IF s.tx = None THEN {} ELSE IF s.tx.dst = GlobalAddress THEN {"bam"} ELSE {"tx"})
    \cup (IF s.rx # None THEN {"rx"} ELSE {})

\* The timeouts of a transfer are long: they pass only when nothing else can
\* happen, except for scenario.early of them.
OnTime(n, fires) ==
    LET long == fires \cap {"tx", "rx", "bamlate", "bamslow"} IN
    long = {} \/ (Quiet(n) /\ long \subseteq {"tx", "rx"})

TakesWork(n, m, fires) ==
    \/ unread[n] # <<>> \/ m # 0
    \/ node[n].tx # None /\ node[n].tx.id \in cancelled
    \/ PacketDue(n)

\* One pass of select: a request or the ticker; the snapshot of the capture.
Wake(n, m, fires) ==
    /\ Ready(n, "select")
    /\ m = 0 \/ (m \in Mine(n) /\ call[m] = "request")
    /\ TakesWork(n, m, fires) \/ fires # {}
    /\ node' = [node EXCEPT ![n].pc = "poll", ![n].limit = Len(unread[n]), ![n].fires = fires,
                            ![n].request = m]
    /\ call' = IF m = 0 THEN call ELSE [call EXCEPT ![m] = "wait"]
    /\ faults' = IF OnTime(n, fires) THEN faults ELSE [faults EXCEPT !.early = @ + 1]
    /\ faults'.early <= scenario.early
    /\ UNCHANGED <<unread, queue, opener, cancelled, decoder, acked, ecu, scenario>>

WakeAny(n) ==
    \E m \in {0} \cup Mine(n) :
      \E fires \in SUBSET (Timers(node[n])
                           \cup (IF "bam" \in Timers(node[n]) THEN {"bamlate", "bamslow"} ELSE {})) :
         /\ fires \cap {"bamlate", "bamslow"} # {} => "bam" \in fires
         /\ ~({"bamlate", "bamslow"} \subseteq fires)
         /\ Wake(n, m, fires)

\* poll finds that the capture no longer has what the client has not read.
PollFails(n) ==
    /\ Ready(n, "select")
    /\ faults.closes < scenario.ends
    /\ faults' = [faults EXCEPT !.closes = @ + 1]
    /\ \E m \in {0} \cup Mine(n) :
         /\ m # 0 => call[m] = "request"
         /\ call' = IF m = 0 THEN call ELSE [call EXCEPT ![m] = "wait"]
    /\ node' = [node EXCEPT ![n].pc = "done"]
    /\ UNCHANGED <<unread, queue, opener, cancelled, decoder, acked, ecu, scenario>>

\* poll: the next record of the snapshot.
Poll(n) ==
    LET rec == Head(unread[n])
        s0 == [node[n] EXCEPT !.limit = @ - 1,
                              !.observed = IF rec.dir = "tx" THEN @ + 1 ELSE @]
    IN
    /\ Ready(n, "poll") /\ node[n].limit > 0
    /\ \E full \in Fulls, fires \in SUBSET node[n].fires :
         LET s == [s0 EXCEPT !.full = full]
             s1 == IF rec.dir = "tx" /\ ~(rec.f.kind = "request" /\ rec.f.dst = GlobalAddress)
                   THEN s ELSE handle(n, s, rec.f, fires)
         IN /\ full => Blocked \/ ~Alive(s1)
            /\ Becomes(n, s1)
            /\ faults' = Refusals(full)
    /\ unread' = [unread EXCEPT ![n] = Tail(@)]
    /\ UNCHANGED <<opener, call, cancelled, decoder, acked, ecu, scenario>>

\* The snapshot is handled.
EndPoll(n) ==
    /\ Ready(n, "poll") /\ node[n].limit = 0
    /\ \E full \in Fulls :
         LET s == [node[n] EXCEPT !.full = full, !.pc = "select", !.fires = {}, !.request = 0]
             s1 == EndOfIteration(n, s, node[n].fires, node[n].request)
             s2 == EndOfIteration(n, [s EXCEPT !.full = FALSE], node[n].fires, node[n].request)
         IN /\ full => Blocked \/ [s1 EXCEPT !.full = FALSE] # s2
            /\ Becomes(n, s1)
            /\ faults' = Refusals(full)
    /\ UNCHANGED <<unread, opener, call, cancelled, decoder, acked, ecu, scenario>>

\* shutdown: a client with an address tells its peers, if the bus lets it.
Farewells(n, s) ==
    LET s1 == IF s.tx # None /\ s.tx.dst # GlobalAddress THEN abort(n, s, s.tx.dst, s.tx.pgn) ELSE s
    IN IF s1.rx # None THEN abort(n, s1, s1.rx.src, s1.rx.pgn) ELSE s1

Shutdown(n) ==
    /\ Ready(n, "select") /\ node[n].ctx
    /\ LET s == [node[n] EXCEPT !.ctx = FALSE, !.full = Blocked] IN
         Becomes(n, [IF s.state = "claimed" THEN Farewells(n, s) ELSE s
                       EXCEPT !.pc = "done", !.ctx = TRUE])
    /\ UNCHANGED <<unread, opener, call, cancelled, decoder, acked, ecu, faults, scenario>>

\* bus.Done: nothing can be sent any more.
BusEnds(n) ==
    /\ Ready(n, "select")
    /\ faults.closes < scenario.ends
    /\ faults' = [faults EXCEPT !.closes = @ + 1]
    /\ node' = [node EXCEPT ![n].pc = "done"]
    /\ UNCHANGED <<unread, queue, opener, call, cancelled, decoder, acked, ecu, scenario>>

-----------------------------------------------------------------------------
(* The buses and the captures                                              *)

\* The records of n that its client has still to read.
Recorded(n, dir, f) ==
    IF node[n].pc \in {"new", "done"} THEN unread[n]
    ELSE Append(unread[n], [dir |-> dir, f |-> f])

\* The bus appends an accepted frame to the capture and Send returns.
Record(n) ==
    LET f == Head(node[n].out) IN
    /\ node[n].out # <<>>
    /\ node' = [node EXCEPT ![n].out = Tail(@)]
    /\ unread' = [unread EXCEPT ![n] = Recorded(n, "tx", f)]
    /\ decoder' = [decoder EXCEPT ![n] = Push(@, "tx", f, {})]
    /\ acked' = IF f.kind = "eoma" THEN [acked EXCEPT ![n] = @ \cup {f.id}] ELSE acked
    /\ UNCHANGED <<queue, opener, call, cancelled, ecu, faults, scenario>>

\* What the ECU makes of a frame: it takes transfers and follows windows.
EcuHears(f) ==
    IF f.dst # Ecu THEN ecu
    ELSE CASE f.kind = "rts" ->
                [ecu EXCEPT !.rx = [src |-> f.src, id |-> f.id, pgn |-> f.pgn, packets |-> f.a,
                                    got |-> 0, top |-> 0, end |-> 0]]
           [] f.kind = "dt" /\ ecu.rx # None ->
                IF f.src = ecu.rx.src /\ f.a = ecu.rx.got + 1 /\ f.a <= ecu.rx.end
                THEN [ecu EXCEPT !.rx.got = @ + 1, !.rx.top = Max({@, f.a})] ELSE ecu
           [] f.kind = "abort" ->
                [rx |-> IF ecu.rx # None /\ ecu.rx.src = f.src /\ ecu.rx.pgn = f.pgn
                        THEN None ELSE ecu.rx,
                 tx |-> IF ecu.tx # None /\ ecu.tx.dst = f.src /\ ecu.tx.pgn = f.pgn
                        THEN None ELSE ecu.tx,
                 left |-> ecu.left]
           [] f.kind = "cts" /\ ecu.tx # None ->
                IF f.src = ecu.tx.dst /\ f.pgn = ecu.tx.pgn
                THEN [ecu EXCEPT !.tx.next = f.b, !.tx.end = f.b + f.a - 1] ELSE ecu
           [] f.kind = "eoma" /\ ecu.tx # None ->
                IF f.src = ecu.tx.dst /\ f.pgn = ecu.tx.pgn THEN [ecu EXCEPT !.tx = None] ELSE ecu
           [] OTHER -> ecu

\* A frame goes over the wire: every capture but its sender's records it; one
\* of them may lose it, or have sessions whose deadline has passed.
Broadcast(n) ==
    LET f == Head(queue[n])
        Others == Nodes \ {n}
    IN
    /\ queue[n] # <<>> /\ Len(queue[n]) >= Len(node[n].out)
    /\ queue' = [queue EXCEPT ![n] = Tail(@)]
    /\ \E lost \in {x \in SUBSET (Others \cup {Ecu}) : Cardinality(x) <= 1} :
         \E late \in SUBSET UNION {decoder[x].sessions : x \in Others} :
           LET hears == Others \ lost IN
           /\ lost # {} => f.kind # "claim" /\ faults.lost < scenario.lost
           /\ lost = {Ecu} => f.dst = Ecu
           /\ late # {} => faults.late < scenario.late
           /\ unread' = [x \in Nodes |-> IF x \in hears THEN Recorded(x, "rx", f) ELSE unread[x]]
           /\ decoder' = [x \in Nodes |-> IF x \in hears
                            THEN Push(decoder[x], "rx", f, decoder[x].sessions \cap late)
                            ELSE decoder[x]]
           /\ ecu' = IF Ecu \in lost THEN ecu ELSE EcuHears(f)
           /\ faults' = [faults EXCEPT !.lost = @ + Cardinality(lost),
                                       !.late = @ + IF late = {} THEN 0 ELSE 1]
    /\ UNCHANGED <<node, opener, call, cancelled, acked, scenario>>

\* A frame of a controller that is not a client of the library.
Arrives(f) ==
    /\ unread' = [x \in Nodes |-> Recorded(x, "rx", f)]
    /\ decoder' = [x \in Nodes |-> Push(decoder[x], "rx", f, {})]
    /\ UNCHANGED <<node, queue, opener, call, cancelled, acked, scenario>>

\* The ECU grants a window: the packets that follow, or again from an earlier
\* one; a window of zero holds the transfer.
EcuGrants ==
    LET r == ecu.rx IN
    /\ r # None
    /\ r.got = r.end \/ faults.again < scenario.ecu.again
    /\ \E next \in 1 .. r.got + 1 : \E count \in 0 .. Min({scenario.ecu.window, r.packets - next + 1}) :
         /\ count = 0 => next = r.got + 1 /\ faults.holds < scenario.ecu.holds
         /\ count > 0 => \/ (next = r.got + 1 /\ r.got = r.end)
                         \/ faults.again < scenario.ecu.again
         /\ scenario.ecu.selective \/ count = 0 \/ next + count - 1 > r.top
         /\ Arrives(Frame("cts", Ecu, r.src, r.pgn, count, next, r.id))
         /\ ecu' = [ecu EXCEPT !.rx.got = IF count = 0 THEN @ ELSE next - 1,
                               !.rx.end = IF count = 0 THEN @ ELSE next + count - 1]
         /\ faults' = [faults EXCEPT
                !.holds = @ + IF count = 0 THEN 1 ELSE 0,
                !.again = @ + IF count > 0 /\ (next # r.got + 1 \/ r.got # r.end) THEN 1 ELSE 0]

\* The ECU has every packet.
EcuAcknowledges ==
    /\ ecu.rx # None
    /\ ecu.rx.top = ecu.rx.packets /\ ecu.rx.got = ecu.rx.end
    /\ Arrives(Frame("eoma", Ecu, ecu.rx.src, ecu.rx.pgn, ecu.rx.packets, 0, ecu.rx.id))
    /\ ecu' = [ecu EXCEPT !.rx = None]
    /\ UNCHANGED faults

\* The ECU starts a transfer of its own, in place of the one it may have.
EcuStarts ==
    /\ ecu.left # <<>>
    /\ LET m == Head(ecu.left) IN
       /\ Arrives(Frame("rts", Ecu, m.dst, m.pgn, m.packets, m.window, m.id))
       /\ ecu' = [ecu EXCEPT !.left = Tail(@),
                    !.tx = [id |-> m.id, dst |-> m.dst, pgn |-> m.pgn, next |-> 1, end |-> 0]]
    /\ UNCHANGED faults

EcuSends ==
    /\ ecu.tx # None
    /\ ecu.tx.next <= ecu.tx.end
    /\ Arrives(Frame("dt", Ecu, ecu.tx.dst, 0, ecu.tx.next, 0, ecu.tx.id))
    /\ ecu' = [ecu EXCEPT !.tx.next = @ + 1]
    /\ UNCHANGED faults

EcuAborts ==
    /\ faults.holds < scenario.ecu.holds
    /\ \/ /\ ecu.rx # None
          /\ Arrives(Frame("abort", Ecu, ecu.rx.src, ecu.rx.pgn, 0, 0, 0))
          /\ ecu' = [ecu EXCEPT !.rx = None]
       \/ /\ ecu.tx # None
          /\ Arrives(Frame("abort", Ecu, ecu.tx.dst, ecu.tx.pgn, 0, 0, 0))
          /\ ecu' = [ecu EXCEPT !.tx = None]
    /\ faults' = [faults EXCEPT !.holds = @ + 1]

\* A controller that is no client asks for claims, or claims an address of
\* one; if its NAME is the weaker one it then gives the address up.
Requests ==
    /\ faults.requests < scenario.requests
    /\ faults' = [faults EXCEPT !.requests = @ + 1]
    /\ Arrives(Frame("request", Ecu, GlobalAddress, 0, 0, 0, 0))
    /\ UNCHANGED ecu

Rival ==
    LET r == scenario.rival IN
    /\ faults.rival < Len(r)
    /\ faults' = [faults EXCEPT !.rival = @ + 1]
    /\ Arrives(Frame("claim", r[faults.rival + 1].src, GlobalAddress, 0,
                     r[faults.rival + 1].name, 0, 0))
    /\ UNCHANGED ecu

-----------------------------------------------------------------------------
(* The goroutines that call the client                                     *)

\* Open: the claim is sent and the wait for competing claims begins, or the bus
\* does not take the claim and the client ends.
Open(n) ==
    /\ opener[n] = "idle" /\ n \in ToSet(scenario.opens)
    /\ \A i, j \in DOMAIN scenario.opens :
         scenario.opens[j] = n /\ i < j /\ scenario.inturn
             => opener[scenario.opens[i]] \notin {"idle", "waiting"}
    /\ opener' = [opener EXCEPT ![n] = "waiting"]
    /\ \E full \in Fulls :
         /\ Becomes(n, claim(n, [node[n] EXCEPT !.pc = "select", !.state = "claiming", !.full = full],
                             Address(n)))
         /\ faults' = Refusals(full)
    /\ UNCHANGED <<unread, call, cancelled, decoder, acked, ecu, scenario>>

\* The context Open was given, which is the client's, ends.
ContextEnds(n) ==
    /\ opener[n] \in {"waiting", "open"}
    /\ faults.closes < scenario.closes
    /\ faults' = [faults EXCEPT !.closes = @ + 1]
    /\ node' = [node EXCEPT ![n].ctx = TRUE]
    /\ UNCHANGED <<unread, queue, opener, call, cancelled, decoder, acked, ecu, scenario>>

OpenReturns(n) ==
    /\ opener[n] = "waiting"
    /\ \/ /\ node[n].ready = "open"
          /\ opener' = [opener EXCEPT ![n] = "open"]
          /\ node' = [node EXCEPT ![n].ready = "empty"]
       \/ /\ node[n].ready = "lost"
          /\ opener' = [opener EXCEPT ![n] = "closing"]
          /\ node' = [node EXCEPT ![n].ready = "empty", ![n].ctx = TRUE]
       \/ /\ node[n].ctx
          /\ opener' = [opener EXCEPT ![n] = "closing"]
          /\ UNCHANGED node
       \/ /\ Done(n)
          /\ opener' = [opener EXCEPT ![n] = "closed"]
          /\ UNCHANGED node
    /\ UNCHANGED <<unread, queue, call, cancelled, decoder, acked, ecu, faults, scenario>>

Close(n) ==
    /\ opener[n] = "open"
    /\ faults.closes < scenario.closes
    /\ faults' = [faults EXCEPT !.closes = @ + 1]
    /\ opener' = [opener EXCEPT ![n] = "closing"]
    /\ node' = [node EXCEPT ![n].ctx = TRUE]
    /\ UNCHANGED <<unread, queue, call, cancelled, decoder, acked, ecu, scenario>>

CloseReturns(n) ==
    /\ opener[n] = "closing" /\ Done(n)
    /\ opener' = [opener EXCEPT ![n] = "closed"]
    /\ UNCHANGED <<node, unread, queue, call, cancelled, decoder, acked, ecu, faults, scenario>>

\* Send, or Request, up to the channel that run reads.
Send(m) ==
    /\ call[m] = "idle" /\ opener[Msg(m).src] = "open"
    /\ \A x \in Messages : x < m /\ scenario.inturn => call[x] \notin {"idle", "request", "wait"}
    /\ call' = [call EXCEPT ![m] = "request"]
    /\ UNCHANGED <<node, unread, queue, opener, cancelled, decoder, acked, ecu, faults, scenario>>

Cancel(m) ==
    /\ call[m] \in {"request", "wait"} /\ m \notin cancelled
    /\ faults.cancels < scenario.cancels
    /\ faults' = [faults EXCEPT !.cancels = @ + 1]
    /\ cancelled' = cancelled \cup {m}
    /\ UNCHANGED <<node, unread, queue, opener, call, decoder, acked, ecu, scenario>>

\* The end of Send: while it offers the request, the context or the end of the
\* client; after that its result or the end of the client.
Return(m) ==
    LET s == node[Msg(m).src] IN
    /\ \/ /\ call[m] = "request" /\ m \in cancelled
          /\ call' = [call EXCEPT ![m] = "context"]
       \/ /\ call[m] \in {"request", "wait"} /\ Done(Msg(m).src)
          /\ call' = [call EXCEPT ![m] = "closed"]
       \/ /\ call[m] = "wait" /\ s.res[m] # "none" /\ s.out = <<>>
          /\ call' = [call EXCEPT ![m] = s.res[m]]
    /\ UNCHANGED <<node, unread, queue, opener, cancelled, decoder, acked, ecu, faults, scenario>>

-----------------------------------------------------------------------------
Step(n) == Record(n) \/ Shutdown(n) \/ Poll(n) \/ EndPoll(n) \/ Broadcast(n)

Ended ==
    /\ \A n \in Nodes : /\ queue[n] = <<>> /\ node[n].out = <<>>
                        /\ node[n].pc \in {"new", "done"} \/ unread[n] = <<>>
    /\ \A m \in Messages : call[m] \notin {"request", "wait"}
    /\ UNCHANGED vars

Next ==
    \/ \E n \in Nodes : \/ Step(n) \/ WakeAny(n) \/ PollFails(n) \/ BusEnds(n)
                        \/ Open(n) \/ ContextEnds(n) \/ OpenReturns(n)
                        \/ Close(n) \/ CloseReturns(n)
    \/ \E m \in Messages : Send(m) \/ Cancel(m) \/ Return(m)
    \/ EcuGrants \/ EcuAcknowledges \/ EcuStarts \/ EcuSends \/ EcuAborts
    \/ Requests \/ Rival \/ Blocks \/ Drains
    \/ Ended

Spec == Init /\ [][Next]_vars

\* What the library and its buses do by themselves.
Progress ==
    \/ \E m \in Messages : Return(m)
    \/ \E n \in Nodes : OpenReturns(n) \/ CloseReturns(n) \/ WakeAny(n)
    \/ \E n \in Nodes : Step(n)

\* run is a goroutine with a ticker, the bus transmits what it accepted, and
\* a caller that has its result returns: the system does not stop while one of
\* them can go on.  Nothing is assumed of other controllers, of contexts, or
\* of calls that are never made.
FairSpec == Spec /\ WF_vars(scenario.live /\ Progress)

-----------------------------------------------------------------------------
(* Properties                                                              *)

TypeOK ==
    /\ \A n \in Nodes :
         /\ node[n].pc \in {"new", "select", "poll", "done"}
         /\ node[n].state \in {"none", "claiming", "claimed", "lost"}
         /\ node[n].limit \in 0 .. Len(unread[n]) \/ node[n].pc = "done"
         /\ node[n].observed <= node[n].sent
         /\ opener[n] \in {"idle", "waiting", "open", "closing", "closed"}
    /\ cancelled \subseteq Messages

Has(n, x) == node[n].state = "claimed" /\ node[n].pc # "done" /\ Address(n) = x

\* A claim of the other client that n has not read yet.
ClaimUnderWay(n, x) ==
    \/ \E i \in 1 .. Len(unread[n]) :
         unread[n][i].f.kind = "claim" /\ unread[n][i].f.a = Name(x)
    \/ \E i \in 1 .. Len(queue[x]) : queue[x][i].kind = "claim"

\* OneOwner: two clients hold one address only while a claim that will take it
\* from one of them is still under way.
OneOwner ==
    \A n, x \in Nodes :
        n # x /\ Has(n, Address(n)) /\ Has(x, Address(n))
            => ClaimUnderWay(n, x) \/ ClaimUnderWay(x, n)

Assembled(n, m, dir) ==
    \E x \in decoder[n].messages :
        x.dir = dir /\ x.pgn = Msg(m).pgn /\ x.dst = Msg(m).dst
        /\ x.data = [i \in 1 .. Msg(m).packets |-> <<m, i>>]

\* An address has, or has had, two claimants.
Contested ==
    faults.rival > 0 \/ \E n, x \in ToSet(scenario.opens) : n # x /\ Address(n) = Address(x)

\* SendNilObserved: when a directed Send returns nil a decoder of the sender's
\* capture has assembled the message, and so has one of the receiver's, if the
\* receiver is a client.  Decoders that ran out of time are excepted, and
\* captures in which an address has had two claimants: a Decoder drops the
\* transfer that the client goes on with.
SendNilObserved ==
    \A m \in Messages :
        call[m] = "nil" /\ Msg(m).packets > 0 /\ faults.late = 0 /\ ~Contested =>
            /\ Assembled(Msg(m).src, m, "tx")
            /\ \A n \in Nodes : Address(n) = Msg(m).dst => Assembled(n, m, "rx")

Decodable(n, id) ==
    \E x \in decoder[n].messages : x.dir = "rx" /\ \A i \in DOMAIN x.data : x.data[i][1] = id

\* AckedObserved: a transfer that a client acknowledged is one that a Decoder of
\* its capture has assembled; in a capture in which no address is contested and
\* no controller starts two transfers of one PGN.
AckedObserved ==
    faults.late = 0 /\ ~Contested =>
        \A n \in Nodes : \A id \in acked[n] : Decodable(n, id)

\* DecodedExact: what a Decoder assembles is the packets of one transfer, each
\* once and in order, although packets name no transfer.
DecodedExact ==
    \A n \in Nodes : \A x \in decoder[n].messages :
        \A i \in DOMAIN x.data : x.data[i] = <<x.data[1][1], IF x.packets = 0 THEN 0 ELSE i>>

\* OneTransferEachWay: the transfers of a client are with different peers and
\* belong to a client that has its address.
OneTransferEachWay ==
    \A n \in Nodes : LET s == node[n] IN
        /\ s.tx # None /\ s.rx # None => s.tx.dst # s.rx.src
        /\ (s.tx # None \/ s.rx # None) /\ s.pc # "done" => s.state = "claimed"

\* TransfersExact: the two ends of a transfer and the Decoders of their captures
\* agree about its message.
TransfersExact ==
    TypeOK /\ SendNilObserved /\ AckedObserved /\ DecodedExact /\ OneTransferEachWay

\* NoUseAfterLoss: a client that has not, or no longer, its address sends only
\* claims; in the step that loses the address too, before and after the loss.
NoUseAfterLoss ==
    [][\A n \in Nodes : \A i \in Len(node[n].out) + 1 .. Len(node'[n].out) :
          node'[n].out[i].kind # "claim" => node'[n].state = "claimed"]_vars

\* CallsEnd: every Open, Close and Send returns: again and again there is no
\* caller that waits for a client.
CallsEnd ==
    []<>(scenario.live =>
         /\ \A m \in Messages : call[m] \notin {"request", "wait"}
         /\ \A n \in Nodes : opener[n] \notin {"waiting", "closing"})
=============================================================================
