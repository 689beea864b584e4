----------------------------- MODULE XcpProofs -----------------------------
(***************************************************************************)
(* Proofs about the XCP client: no reply is taken for that of another      *)
(* command, and what a session remembers and reads is the ECU's, however   *)
(* many commands timed out, were cancelled or were recovered before.       *)
(***************************************************************************)
EXTENDS Xcp, FiniteSetTheorems, SequenceTheorems, WellFoundedInduction, TLAPS

-----------------------------------------------------------------------------
(* The inductive invariant.                                                *)

Commands == {"connect", "disconnect", "synch", "status", "other", "setmta", "upload"}
Answers == {"res", "err", "short", "marker"}
Kinds == Answers \union {"daq", "pending", "terminated", "none"}
Owning == {"command", "send", "locate", "receive"}
Results ==
  {"none", "ok", "context", "bus", "closed", "notconnected", "synchrequired", "queue", "range",
   "negative", "invalid", "terminated", "timeout"}

CommandFrames == [cmd : Commands, n : Nat]
Packets == [kind : Kinds, n : Nat, data : Nat]
Records == [dir : {"tx"}, pkt : CommandFrames] \union [dir : {"rx", "clear"}, pkt : Packets]
Calls ==
  [op : Operations \union {"none"}, todo : Seq(Commands), cmd : Commands \union {"none"}, n : Nat,
   recovering : BOOLEAN, ctx : BOOLEAN, data : Seq(Nat), res : Results]
Faults ==
  [lost : Nat, clears : Nat, prunes : Nat, ends : Nat, events : Nat, errs : Nat, calls : Nat, fenced : BOOLEAN]

Typed ==
  /\ connected \in BOOLEAN /\ gate \in BOOLEAN /\ closed \in BOOLEAN /\ busDone \in BOOLEAN
  /\ retaining \in BOOLEAN /\ pending \in Commands \union {"none"} /\ sent \in Nat /\ capabilities \in Nat
  /\ log \in Seq(Records) /\ toEcu \in Seq(CommandFrames) /\ toClient \in Seq(Packets)
  /\ ecu \in [connected : BOOLEAN, mta : Nat]
  /\ pc \in [Procs -> {"idle", "gate"} \union Owning] /\ call \in [Procs -> Calls]
  /\ trusted \in [cmd : Commands \union {"none"}, n : Nat, reply : Nat]
  /\ faults \in Faults /\ scenario \in Scenarios
  /\ cursor \in 0..Len(log) /\ oldest \in 0..Len(log) /\ snapshot \in -1..Len(log)

\* Commands and their replies are on their way in the order of the commands.
Received(i) == i \in 1..Len(log) /\ log[i].dir = "rx" /\ log[i].pkt.n > 0
Returning(i) == i \in 1..Len(toClient) /\ toClient[i].n > 0

OrderInv ==
  /\ \A i \in 1..Len(log) : /\ log[i].pkt.n <= sent
                            /\ log[i].dir = "rx" => (log[i].pkt.kind \in Answers <=> log[i].pkt.n > 0)
                            /\ log[i].dir = "rx" => log[i].pkt.kind # "none"
  /\ \A i \in 1..Len(toClient) : /\ toClient[i].n <= sent
                                 /\ toClient[i].kind \in Answers <=> toClient[i].n > 0
                                 /\ toClient[i].kind # "none"
  /\ \A i \in 1..Len(toEcu) : toEcu[i].n \in 1..sent
  /\ \A i, j \in 1..Len(toEcu) : i < j => toEcu[i].n < toEcu[j].n
  /\ \A i, j \in 1..Len(toClient) : i < j /\ Returning(i) /\ Returning(j) => toClient[i].n < toClient[j].n
  /\ \A i, j \in 1..Len(log) : i < j /\ Received(i) /\ Received(j) => log[i].pkt.n < log[j].pkt.n
  /\ \A i \in 1..Len(toClient), j \in 1..Len(toEcu) : Returning(i) => toClient[i].n < toEcu[j].n
  /\ \A i \in 1..Len(log), j \in 1..Len(toEcu) : Received(i) => log[i].pkt.n < toEcu[j].n
  /\ \A i \in 1..Len(log), j \in 1..Len(toClient) : Received(i) /\ Returning(j) => log[i].pkt.n < toClient[j].n

\* Nothing is numbered that was not sent.
NumberInv == capabilities <= sent /\ \A p \in Procs : call[p].n <= sent

\* One call owns the gate, and knows what is pending.
GateInv ==
  /\ \A p \in Procs : pc[p] \in Owning => ~gate
  /\ \A p, q \in Procs : pc[p] \in Owning /\ pc[q] \in Owning => p = q

CallInv(p) ==
  LET c == call[p] IN
  /\ pc[p] \in {"gate", "command"} => c.todo # <<>>
  /\ pc[p] \in {"send", "locate", "receive"} =>
       /\ retaining /\ c.cmd \in Commands /\ (c.recovering => c.cmd = "connect")
  /\ pc[p] = "send" =>
       /\ pending # "synch"
       /\ pending = "none" \/ c.cmd = "synch" \/ c.recovering
  /\ pc[p] \in {"locate", "receive"} => pending = c.cmd /\ c.n = sent
  /\ pc[p] = "locate" => \E k \in 1..Len(log) : k > cursor /\ log[k].dir = "tx"

\* Everything that may still be read answers the last command.
Alone ==
  /\ \A i \in 1..Len(toEcu) : toEcu[i].n = sent
  /\ \A i \in 1..Len(toClient) : Returning(i) => toClient[i].n = sent
  /\ \A i \in Retained("rx") : Received(i) => log[i].pkt.n = sent

\* A barrier that may still be read is the last command, and pending.
OneSynch ==
  /\ \A i \in 1..Len(toEcu) : toEcu[i].n = sent => toEcu[i].cmd = pending
  /\ \A i \in 1..Len(toEcu) : toEcu[i].cmd = "synch" => toEcu[i].n = sent
  /\ \A i \in 1..Len(toClient) : toClient[i].kind = "marker" => toClient[i].n = sent /\ pending = "synch"
  /\ \A i \in Retained("rx") : log[i].pkt.kind = "marker" => log[i].pkt.n = sent /\ pending = "synch"

\* A command whose reply p will trust as soon as it comes.
Trusting(p) == pc[p] \in {"locate", "receive"} /\ call[p].cmd # "synch" /\ ~call[p].recovering

ReplyInv ==
  /\ pending = "none" => ~Outstanding(cursor)
  /\ OneSynch
  /\ (\E p \in Procs : Trusting(p)) => Alone
  /\ trusted.reply \in {0, trusted.n}

\* Pruning leaves what the cursor needs.
RetentionInv ==
  /\ pending = "synch" => retaining
  /\ faults.clears = 0 /\ ~closed /\ retaining => oldest <= cursor /\ snapshot <= cursor
  /\ PruneSafe

RepliesInv ==
  /\ Typed /\ OrderInv /\ NumberInv /\ GateInv /\ RetentionInv
  /\ \A p \in Procs : CallInv(p)
  /\ faults.fenced => ReplyInv

-----------------------------------------------------------------------------
(* Types.                                                                  *)

LEMMA ProgramTyped ==
  ASSUME NEW op \in Operations
  PROVE  /\ Program(op) \in Seq(Commands) /\ Program(op) # <<>>
         /\ op # "read" => Program(op) = <<op>>
         /\ op = "read" => /\ Program(op)[1] = "setmta" /\ Len(Program(op)) = ReadLength + 1
                           /\ \A i \in 2..Len(Program(op)) : Program(op)[i] = "upload"
<1>1. CASE op # "read"
  <2>1. Program(op) = <<op>> /\ op \in Commands BY <1>1 DEF Program, Operations, Commands
  <2>. QED BY <1>1, <2>1
<1>2. CASE op = "read"
  <2>. DEFINE u == [i \in 1..ReadLength |-> "upload"]
              s == <<"setmta">>
  <2>1. ReadLength \in Nat BY XcpAssumption
  <2>2. u \in Seq(Commands) /\ Len(u) = ReadLength BY <2>1 DEF Commands
  <2>3. s \in Seq(Commands) /\ Len(s) = 1 /\ s[1] = "setmta" BY DEF Commands
  <2>4. \A i \in 1..ReadLength : u[i] = "upload" OBVIOUS
  <2>5. Program(op) = s \o u BY <1>2 DEF Program
  <2>. HIDE DEF u, s
  <2>6. /\ s \o u \in Seq(Commands) /\ Len(s \o u) = 1 + ReadLength
        /\ \A i \in 1..1 + ReadLength : (s \o u)[i] = IF i <= 1 THEN s[i] ELSE u[i - 1]
    <3>1. /\ s \o u \in Seq(Commands) /\ Len(s \o u) = Len(s) + Len(u)
          /\ \A i \in 1..Len(s) + Len(u) : (s \o u)[i] = IF i <= Len(s) THEN s[i] ELSE u[i - Len(s)]
      BY <2>2, <2>3, ConcatProperties
    <3>. QED BY <2>2, <2>3, <3>1
  <2>7. \A i \in 2..1 + ReadLength : (s \o u)[i] = "upload"
    <3>. TAKE i \in 2..1 + ReadLength
    <3>1. i - 1 \in 1..ReadLength /\ i \in 1..1 + ReadLength /\ ~(i <= 1) BY <2>1
    <3>2. (s \o u)[i] = u[i - 1] BY <2>6, <3>1
    <3>. QED BY <2>4, <3>1, <3>2
  <2>8. (s \o u)[1] = "setmta" BY <2>1, <2>3, <2>6
  <2>9. s \o u # <<>> BY <2>1, <2>6
  <2>10. Len(s \o u) = ReadLength + 1 BY <2>1, <2>6
  <2>. QED BY <1>2, <2>5, <2>6, <2>7, <2>8, <2>9, <2>10
<1>. QED BY <1>1, <1>2

LEMMA InitTyped == Init => Typed
<1>. SUFFICES ASSUME Init PROVE Typed OBVIOUS
<1>1. NoCall \in Calls BY DEF NoCall, Calls, Results
<1>2. /\ log = <<>> /\ toEcu = <<>> /\ toClient = <<>> /\ oldest = 0 /\ snapshot = -1 /\ cursor = 0
  BY DEF Init
<1>3. log \in Seq(Records) /\ toEcu \in Seq(CommandFrames) /\ toClient \in Seq(Packets) /\ Len(log) = 0
  BY <1>2
<1>4. cursor \in 0..Len(log) /\ oldest \in 0..Len(log) /\ snapshot \in -1..Len(log) BY <1>2, <1>3
<1>5. faults \in Faults BY DEF Init, Faults
<1>6. call \in [Procs -> Calls] /\ pc \in [Procs -> {"idle", "gate"} \union Owning] BY <1>1 DEF Init
<1>. QED BY <1>3, <1>4, <1>5, <1>6 DEF Init, Typed

\* What a call knows may be replaced by values of the same types.
LEMMA CallUpdates ==
  ASSUME NEW c \in Calls
  PROVE  /\ \A r \in Results : [c EXCEPT !.res = r] \in Calls
         /\ [c EXCEPT !.ctx = TRUE] \in Calls
         /\ \A n \in Nat : [c EXCEPT !.n = n] \in Calls
         /\ \A t \in Seq(Commands) : [c EXCEPT !.todo = t] \in Calls
         /\ \A d \in Seq(Nat) : [c EXCEPT !.data = d] \in Calls
         /\ \A cmd \in Commands, t \in Seq(Commands), r \in BOOLEAN :
              [c EXCEPT !.cmd = cmd, !.todo = t, !.recovering = r] \in Calls
BY DEF Calls

\* p is at another place of another call.
LEMMA GotoTyped ==
  ASSUME Typed, NEW p \in Procs, NEW at \in {"idle", "gate"} \union Owning, NEW c \in Calls, Goto(p, at, c)
  PROVE  /\ pc' \in [Procs -> {"idle", "gate"} \union Owning] /\ call' \in [Procs -> Calls]
         /\ pc'[p] = at /\ call'[p] = c
         /\ \A q \in Procs : q # p => pc'[q] = pc[q] /\ call'[q] = call[q]
BY DEF Goto, Typed

LEMMA FinishTyped ==
  ASSUME Typed, NEW p \in Procs, NEW res \in Results, NEW pend, NEW c \in Calls, Finish(p, res, pend, c)
  PROVE  /\ pc' \in [Procs -> {"idle", "gate"} \union Owning] /\ call' \in [Procs -> Calls]
         /\ pc'[p] = "idle" /\ call'[p] = [c EXCEPT !.res = res]
         /\ \A q \in Procs : q # p => pc'[q] = pc[q] /\ call'[q] = call[q]
         /\ gate' = TRUE /\ retaining' \in BOOLEAN /\ (retaining' <=> pend = "synch")
<1>1. [c EXCEPT !.res = res] \in Calls BY CallUpdates
<1>2. Goto(p, "idle", [c EXCEPT !.res = res]) BY DEF Finish
<1>. QED BY <1>1, <1>2, GotoTyped DEF Finish, KeepsRetaining

LEMMA CausesTyped ==
  ASSUME NEW p, NEW cause \in Causes(p)
  PROVE  cause \in Results
BY DEF Causes, Results

\* What the sequences hold.
LEMMA ElementsTyped ==
  ASSUME Typed
  PROVE  /\ Len(log) \in Nat /\ Len(toClient) \in Nat /\ Len(toEcu) \in Nat /\ sent \in Nat
         /\ \A i \in 1..Len(log) : log[i] \in Records /\ log[i].pkt.n \in Nat
         /\ \A i \in 1..Len(toClient) : toClient[i] \in Packets /\ toClient[i].n \in Nat
         /\ \A i \in 1..Len(toEcu) : toEcu[i] \in CommandFrames /\ toEcu[i].n \in Nat
<1>1. Len(log) \in Nat /\ Len(toClient) \in Nat /\ Len(toEcu) \in Nat /\ sent \in Nat
  BY LenProperties DEF Typed
<1>2. \A i \in 1..Len(log) : log[i] \in Records BY ElementOfSeq DEF Typed
<1>3. \A i \in 1..Len(toClient) : toClient[i] \in Packets BY ElementOfSeq DEF Typed
<1>4. \A i \in 1..Len(toEcu) : toEcu[i] \in CommandFrames BY ElementOfSeq DEF Typed
<1>5. \A r \in Records : r.pkt.n \in Nat BY DEF Records, Packets, CommandFrames
<1>6. \A r \in Packets : r.n \in Nat BY DEF Packets
<1>7. \A r \in CommandFrames : r.n \in Nat BY DEF CommandFrames
<1>. QED BY <1>1, <1>2, <1>3, <1>4, <1>5, <1>6, <1>7

\* The least element of a set of positions.
LEMMA LeastPosition ==
  ASSUME NEW S \in SUBSET Nat, S # {}
  PROVE  Min(S) \in S /\ \A k \in S : Min(S) <= k
<1>1. PICK m \in S : \A k \in S : ~(<<k, m>> \in OpToRel(<, Nat))
  BY NatLessThanWellFounded, WFMin, Zenon
<1>2. ASSUME NEW k \in S PROVE m <= k
  <2>1. ~(k < m) BY <1>1 DEF OpToRel
  <2>. QED BY <2>1
<1>. QED BY <1>1, <1>2 DEF Min

LEMMA NextRetained ==
  ASSUME Typed, NEW d, Retained(d) # {}
  PROVE  LET i == Min(Retained(d)) IN
         /\ i \in 1..Len(log) /\ i > cursor /\ i > oldest /\ log[i].dir = d /\ i \in Retained(d)
         /\ \A k \in Retained(d) : i <= k
<1>1. Len(log) \in Nat BY LenProperties DEF Typed
<1>2. Retained(d) \in SUBSET Nat BY <1>1 DEF Retained, End
<1>3. Min(Retained(d)) \in Retained(d) /\ \A k \in Retained(d) : Min(Retained(d)) <= k
  BY <1>2, LeastPosition
<1>. QED BY <1>3 DEF Retained, End

-----------------------------------------------------------------------------
(* Frames stay in order.                                                   *)

LEMMA AppendIs ==
  ASSUME NEW S, NEW s \in Seq(S), NEW e \in S
  PROVE  /\ Append(s, e) \in Seq(S) /\ Len(s) \in Nat /\ Len(Append(s, e)) = Len(s) + 1
         /\ \A i \in 1..Len(s) : Append(s, e)[i] = s[i]
         /\ Append(s, e)[Len(s) + 1] = e
         /\ \A i \in 1..Len(s) + 1 : i \in 1..Len(s) \/ i = Len(s) + 1
<1>1. Len(s) \in Nat BY LenProperties
<1>. QED BY <1>1, AppendProperties

LEMMA TailIs ==
  ASSUME NEW S, NEW s \in Seq(S), s # <<>>
  PROVE  /\ Tail(s) \in Seq(S) /\ Len(s) \in Nat /\ Len(s) >= 1 /\ Len(Tail(s)) = Len(s) - 1
         /\ Head(s) = s[1] /\ s[1] \in S /\ 1 \in 1..Len(s)
         /\ \A i \in 1..Len(Tail(s)) : Tail(s)[i] = s[i + 1] /\ i + 1 \in 1..Len(s)
<1>1. Len(s) \in Nat /\ Len(s) >= 1 BY LenProperties, EmptySeq
<1>2. Head(s) = s[1] /\ s[1] \in S BY <1>1, ElementOfSeq
<1>. QED BY <1>1, <1>2, HeadTailProperties

LEMMA OrderKept ==
  ASSUME OrderInv, UNCHANGED <<log, toEcu, toClient, sent>>
  PROVE  OrderInv'
BY DEF OrderInv, Received, Returning

\* A record that is not a reply is appended to the capture.
LEMMA OrderNoted ==
  ASSUME Typed, OrderInv, NEW r \in Records, r.dir # "rx", r.pkt.n <= sent',
         log' = Append(log, r), UNCHANGED toClient, sent' \in Nat, sent' >= sent,
         \/ toEcu' = toEcu
         \/ \E f \in CommandFrames : toEcu' = Append(toEcu, f) /\ f.n = sent' /\ sent' > sent
  PROVE  OrderInv'
<1>1. /\ Len(log) \in Nat /\ Len(log') = Len(log) + 1 /\ log'[Len(log) + 1] = r
      /\ \A i \in 1..Len(log) : log'[i] = log[i]
      /\ \A i \in 1..Len(log') : i \in 1..Len(log) \/ i = Len(log) + 1
  BY AppendIs DEF Typed
<1>2. \A i \in 1..Len(log') : Received(i)' => i \in 1..Len(log) /\ Received(i) /\ log'[i] = log[i]
  BY <1>1 DEF Received
<1>3. \A i : Returning(i)' <=> Returning(i) BY DEF Returning
<1>4. sent \in Nat /\ \A i \in 1..Len(toClient) : toClient[i].n \in Nat BY ElementsTyped
<1>5. \A i \in 1..Len(log) : log[i].pkt.n \in Nat BY ElementsTyped
<1>6. \A i \in 1..Len(log') : /\ log'[i].pkt.n <= sent'
                              /\ log'[i].dir = "rx" => (log'[i].pkt.kind \in Answers <=> log'[i].pkt.n > 0)
                              /\ log'[i].dir = "rx" => log'[i].pkt.kind # "none"
  <2>1. ASSUME NEW i \in 1..Len(log) PROVE log'[i].pkt.n <= sent' BY <1>1, <1>4, <1>5, <2>1 DEF OrderInv
  <2>. QED BY <1>1, <2>1 DEF OrderInv
<1>7. \A i, j \in 1..Len(log') : i < j /\ Received(i)' /\ Received(j)' => log'[i].pkt.n < log'[j].pkt.n
  BY <1>2 DEF OrderInv
<1>8. \A i \in 1..Len(log'), j \in 1..Len(toClient') :
        Received(i)' /\ Returning(j)' => log'[i].pkt.n < toClient'[j].n
  BY <1>2, <1>3 DEF OrderInv
<1>9. \A i \in 1..Len(toClient') : toClient'[i].n <= sent' BY <1>4 DEF OrderInv
<1>10. CASE toEcu' = toEcu
  <2>1. \A i \in 1..Len(toEcu) : toEcu[i].n \in 1..sent' BY <1>4 DEF OrderInv
  <2>2. \A i \in 1..Len(log'), j \in 1..Len(toEcu') : Received(i)' => log'[i].pkt.n < toEcu'[j].n
    BY <1>2, <1>10 DEF OrderInv
  <2>. QED BY <1>3, <1>6, <1>7, <1>8, <1>9, <1>10, <2>1, <2>2 DEF OrderInv
<1>11. ASSUME NEW f \in CommandFrames, toEcu' = Append(toEcu, f), f.n = sent', sent' > sent PROVE OrderInv'
  <2>1. /\ Len(toEcu) \in Nat /\ Len(toEcu') = Len(toEcu) + 1 /\ toEcu'[Len(toEcu) + 1] = f
        /\ \A i \in 1..Len(toEcu) : toEcu'[i] = toEcu[i]
        /\ \A i \in 1..Len(toEcu') : i \in 1..Len(toEcu) \/ i = Len(toEcu) + 1
    BY <1>11, AppendIs DEF Typed
  <2>2. \A i \in 1..Len(toEcu) : toEcu[i].n \in 1..sent BY DEF OrderInv
  <2>3. \A i \in 1..Len(toEcu') : toEcu'[i].n \in 1..sent' BY <1>4, <1>11, <2>1, <2>2
  <2>4. \A i, j \in 1..Len(toEcu') : i < j => toEcu'[i].n < toEcu'[j].n
    BY <1>4, <1>11, <2>1, <2>2 DEF OrderInv
  <2>5. ASSUME NEW i \in 1..Len(toClient), NEW j \in 1..Len(toEcu'), Returning(i)
        PROVE toClient[i].n < toEcu'[j].n
    <3>1. CASE j \in 1..Len(toEcu) BY <2>1, <2>5, <3>1 DEF OrderInv
    <3>2. CASE j = Len(toEcu) + 1
      <4>1. toClient[i].n <= sent BY DEF OrderInv
      <4>. QED BY <1>4, <1>11, <2>1, <3>2, <4>1
    <3>. QED BY <2>1, <3>1, <3>2
  <2>6. ASSUME NEW i \in 1..Len(log'), NEW j \in 1..Len(toEcu'), Received(i)'
        PROVE log'[i].pkt.n < toEcu'[j].n
    <3>1. i \in 1..Len(log) /\ Received(i) /\ log'[i] = log[i] BY <1>2, <2>6
    <3>2. CASE j \in 1..Len(toEcu) BY <2>1, <3>1, <3>2 DEF OrderInv
    <3>3. CASE j = Len(toEcu) + 1
      <4>1. log[i].pkt.n <= sent BY <3>1 DEF OrderInv
      <4>. QED BY <1>4, <1>5, <1>11, <2>1, <3>1, <3>3, <4>1
    <3>. QED BY <2>1, <3>2, <3>3
  <2>. QED BY <1>3, <1>6, <1>7, <1>8, <1>9, <2>3, <2>4, <2>5, <2>6 DEF OrderInv
<1>. QED BY <1>10, <1>11

\* The ECU takes a command, or the bus loses it.
LEMMA OrderTaken ==
  ASSUME Typed, OrderInv, toEcu # <<>>, toEcu' = Tail(toEcu), UNCHANGED <<log, sent>>,
         \/ toClient' = toClient
         \/ \E r \in Packets : /\ toClient' = Append(toClient, r) /\ r.n = Head(toEcu).n
                               /\ r.kind \in Answers
  PROVE  OrderInv'
<1>1. /\ Len(toEcu) \in Nat /\ Len(toEcu) >= 1 /\ Len(toEcu') = Len(toEcu) - 1
      /\ Head(toEcu) = toEcu[1] /\ 1 \in 1..Len(toEcu)
      /\ \A i \in 1..Len(toEcu') : toEcu'[i] = toEcu[i + 1] /\ i + 1 \in 1..Len(toEcu)
  BY TailIs DEF Typed
<1>2. \A i : Received(i)' <=> Received(i) BY DEF Received
<1>3. sent \in Nat /\ \A i \in 1..Len(toEcu) : toEcu[i].n \in Nat BY ElementsTyped
<1>4. /\ \A i \in 1..Len(toEcu') : toEcu'[i].n \in 1..sent'
      /\ \A i, j \in 1..Len(toEcu') : i < j => toEcu'[i].n < toEcu'[j].n
      /\ \A i \in 1..Len(toEcu') : Head(toEcu).n < toEcu'[i].n
      /\ \A i \in 1..Len(log), j \in 1..Len(toEcu') : Received(i) => log[i].pkt.n < toEcu'[j].n
      /\ \A i \in 1..Len(toClient), j \in 1..Len(toEcu') : Returning(i) => toClient[i].n < toEcu'[j].n
  <2>1. \A i \in 1..Len(toEcu') : toEcu'[i].n \in 1..sent' BY <1>1 DEF OrderInv
  <2>2. \A i, j \in 1..Len(toEcu') : i < j => toEcu'[i].n < toEcu'[j].n
    <3>1. \A i, j \in 1..Len(toEcu') : i < j => i + 1 < j + 1 OBVIOUS
    <3>. QED BY <1>1, <3>1 DEF OrderInv
  <2>3. \A i \in 1..Len(toEcu') : Head(toEcu).n < toEcu'[i].n
    <3>1. \A i \in 1..Len(toEcu') : 1 < i + 1 OBVIOUS
    <3>. QED BY <1>1, <3>1 DEF OrderInv
  <2>. QED BY <1>1, <2>1, <2>2, <2>3 DEF OrderInv
<1>5. CASE toClient' = toClient
  <2>1. \A i : Returning(i)' <=> Returning(i) BY <1>5 DEF Returning
  <2>. QED BY <1>2, <1>4, <1>5, <2>1 DEF OrderInv
<1>6. ASSUME NEW r \in Packets, toClient' = Append(toClient, r), r.n = Head(toEcu).n, r.kind \in Answers
      PROVE OrderInv'
  <2>1. /\ Len(toClient) \in Nat /\ Len(toClient') = Len(toClient) + 1 /\ toClient'[Len(toClient) + 1] = r
        /\ \A i \in 1..Len(toClient) : toClient'[i] = toClient[i]
        /\ \A i \in 1..Len(toClient') : i \in 1..Len(toClient) \/ i = Len(toClient) + 1
    BY <1>6, AppendIs DEF Typed
  <2>2. \A i \in 1..Len(toClient) : Returning(i)' <=> Returning(i) BY <2>1 DEF Returning
  <2>3. r.n = toEcu[1].n /\ r.n \in 1..sent /\ r.kind # "none" BY <1>1, <1>6 DEF OrderInv, Answers
  <2>4. \A i \in 1..Len(toClient') : /\ toClient'[i].n <= sent'
                                     /\ toClient'[i].kind \in Answers <=> toClient'[i].n > 0
                                     /\ toClient'[i].kind # "none"
    BY <1>3, <1>6, <2>1, <2>3 DEF OrderInv
  <2>5. \A i, j \in 1..Len(toClient') :
          i < j /\ Returning(i)' /\ Returning(j)' => toClient'[i].n < toClient'[j].n
    BY <1>1, <2>1, <2>2, <2>3, SMTT(30) DEF OrderInv
  <2>6. \A i \in 1..Len(toClient'), j \in 1..Len(toEcu') : Returning(i)' => toClient'[i].n < toEcu'[j].n
    BY <1>4, <1>6, <2>1, <2>2
  <2>7. \A i \in 1..Len(log), j \in 1..Len(toClient') :
          Received(i) /\ Returning(j)' => log[i].pkt.n < toClient'[j].n
    BY <1>1, <2>1, <2>2, <2>3 DEF OrderInv
  <2>. QED BY <1>2, <1>4, <2>4, <2>5, <2>6, <2>7 DEF OrderInv
<1>. QED BY <1>5, <1>6

\* The ECU reports an event.
LEMMA OrderEvent ==
  ASSUME Typed, OrderInv, NEW r \in Packets, r.n = 0, r.kind \in {"daq", "pending", "terminated"},
         toClient' = Append(toClient, r), UNCHANGED <<log, toEcu, sent>>
  PROVE  OrderInv'
<1>1. /\ Len(toClient) \in Nat /\ Len(toClient') = Len(toClient) + 1 /\ toClient'[Len(toClient) + 1] = r
      /\ \A i \in 1..Len(toClient) : toClient'[i] = toClient[i]
      /\ \A i \in 1..Len(toClient') : i \in 1..Len(toClient) \/ i = Len(toClient) + 1
  BY AppendIs DEF Typed
<1>2. \A i : Returning(i)' <=> Returning(i) /\ i \in 1..Len(toClient) BY <1>1 DEF Returning
<1>3. \A i : Received(i)' <=> Received(i) BY DEF Received
<1>4. \A i \in 1..Len(toClient') : /\ toClient'[i].n <= sent'
                                   /\ toClient'[i].kind \in Answers <=> toClient'[i].n > 0
                                   /\ toClient'[i].kind # "none"
  <2>1. sent \in Nat /\ r.kind \notin Answers /\ r.kind # "none" BY DEF Typed, Answers
  <2>. QED BY <1>1, <2>1 DEF OrderInv
<1>5. \A i, j \in 1..Len(toClient') :
        i < j /\ Returning(i)' /\ Returning(j)' => toClient'[i].n < toClient'[j].n
  BY <1>1, <1>2 DEF OrderInv
<1>6. \A i \in 1..Len(toClient'), j \in 1..Len(toEcu) : Returning(i)' => toClient'[i].n < toEcu[j].n
  BY <1>1, <1>2 DEF OrderInv
<1>7. \A i \in 1..Len(log), j \in 1..Len(toClient') :
        Received(i) /\ Returning(j)' => log[i].pkt.n < toClient'[j].n
  BY <1>1, <1>2 DEF OrderInv
<1>. QED BY <1>3, <1>4, <1>5, <1>6, <1>7 DEF OrderInv

\* The oldest packet arrives, or is lost.
LEMMA OrderArrives ==
  ASSUME Typed, OrderInv, toClient # <<>>, toClient' = Tail(toClient), UNCHANGED <<toEcu, sent>>,
         log' = log \/ log' = Append(log, [dir |-> "rx", pkt |-> Head(toClient)])
  PROVE  OrderInv'
<1>1. /\ Len(toClient) \in Nat /\ Len(toClient) >= 1 /\ Len(toClient') = Len(toClient) - 1
      /\ Head(toClient) = toClient[1] /\ toClient[1] \in Packets /\ 1 \in 1..Len(toClient)
      /\ \A i \in 1..Len(toClient') : toClient'[i] = toClient[i + 1] /\ i + 1 \in 1..Len(toClient)
  BY TailIs DEF Typed
<1>2. \A i \in 1..Len(toClient') : Returning(i)' => Returning(i + 1) BY <1>1 DEF Returning
<1>3. \A i \in 1..Len(toClient') : /\ toClient'[i].n <= sent'
                                   /\ toClient'[i].kind \in Answers <=> toClient'[i].n > 0
                                   /\ toClient'[i].kind # "none"
  BY <1>1 DEF OrderInv
<1>4. \A i, j \in 1..Len(toClient') :
        i < j /\ Returning(i)' /\ Returning(j)' => toClient'[i].n < toClient'[j].n
  <2>1. \A i, j \in 1..Len(toClient') : i < j => i + 1 < j + 1 OBVIOUS
  <2>. QED BY <1>1, <1>2, <2>1 DEF OrderInv
<1>5. \A i \in 1..Len(toClient'), j \in 1..Len(toEcu) : Returning(i)' => toClient'[i].n < toEcu[j].n
  BY <1>1, <1>2 DEF OrderInv
<1>6. \A i \in 1..Len(log), j \in 1..Len(toClient') :
        Received(i) /\ Returning(j)' => log[i].pkt.n < toClient'[j].n
  BY <1>1, <1>2 DEF OrderInv
<1>7. CASE log' = log
  <2>1. \A i : Received(i)' <=> Received(i) BY <1>7 DEF Received
  <2>. QED BY <1>3, <1>4, <1>5, <1>6, <1>7, <2>1 DEF OrderInv
<1>8. CASE log' = Append(log, [dir |-> "rx", pkt |-> Head(toClient)])
  <2>. DEFINE r == [dir |-> "rx", pkt |-> toClient[1]]
  <2>1. r \in Records /\ r.dir = "rx" /\ r.pkt = toClient[1] BY <1>1 DEF Records
  <2>2. log' = Append(log, r) BY <1>1, <1>8
  <2>. HIDE DEF r
  <2>3. /\ Len(log) \in Nat /\ Len(log') = Len(log) + 1 /\ log'[Len(log) + 1] = r
        /\ \A i \in 1..Len(log) : log'[i] = log[i]
        /\ \A i \in 1..Len(log') : i \in 1..Len(log) \/ i = Len(log) + 1
    BY <2>1, <2>2, AppendIs DEF Typed
  <2>4. \A i \in 1..Len(log) : Received(i)' <=> Received(i) BY <2>3 DEF Received
  <2>5. log'[Len(log) + 1].dir = "rx" /\ log'[Len(log) + 1].pkt = toClient[1] BY <2>1, <2>3
  <2>6. ASSUME NEW k, k = Len(log) + 1, Received(k)' PROVE Returning(1)
    <3>1. toClient[1].n > 0 BY <2>3, <2>5, <2>6 DEF Received
    <3>. QED BY <1>1, <3>1 DEF Returning
  <2>7. \A i \in 1..Len(log') : /\ log'[i].pkt.n <= sent'
                                /\ log'[i].dir = "rx" => (log'[i].pkt.kind \in Answers <=> log'[i].pkt.n > 0)
                                /\ log'[i].dir = "rx" => log'[i].pkt.kind # "none"
    <3>1. /\ toClient[1].n <= sent /\ (toClient[1].kind \in Answers <=> toClient[1].n > 0)
          /\ toClient[1].kind # "none"
      BY <1>1 DEF OrderInv
    <3>. QED BY <2>3, <2>5, <3>1 DEF OrderInv
  <2>8. ASSUME NEW i \in 1..Len(log'), NEW j \in 1..Len(log'), i < j, Received(i)', Received(j)'
        PROVE log'[i].pkt.n < log'[j].pkt.n
    <3>1. i \in 1..Len(log) BY <2>3, <2>8
    <3>2. Received(i) /\ log'[i] = log[i] BY <2>3, <2>4, <2>8, <3>1
    <3>3. CASE j \in 1..Len(log)
      <4>1. Received(j) /\ log'[j] = log[j] BY <2>3, <2>4, <2>8, <3>3
      <4>. QED BY <2>8, <3>1, <3>2, <3>3, <4>1 DEF OrderInv
    <3>4. CASE j = Len(log) + 1
      <4>1. Returning(1) BY <2>6, <2>8, <3>4
      <4>2. log[i].pkt.n < toClient[1].n BY <1>1, <3>1, <3>2, <4>1 DEF OrderInv
      <4>. QED BY <2>5, <3>2, <3>4, <4>2
    <3>. QED BY <2>3, <3>3, <3>4
  <2>9. ASSUME NEW i \in 1..Len(log'), NEW j \in 1..Len(toEcu), Received(i)'
        PROVE log'[i].pkt.n < toEcu[j].n
    <3>1. CASE i \in 1..Len(log)
      <4>1. Received(i) /\ log'[i] = log[i] BY <2>3, <2>4, <2>9, <3>1
      <4>. QED BY <3>1, <4>1 DEF OrderInv
    <3>2. CASE i = Len(log) + 1
      <4>1. Returning(1) BY <2>6, <2>9, <3>2
      <4>2. toClient[1].n < toEcu[j].n BY <1>1, <4>1 DEF OrderInv
      <4>. QED BY <2>5, <3>2, <4>2
    <3>. QED BY <2>3, <3>1, <3>2
  <2>10. ASSUME NEW i \in 1..Len(log'), NEW j \in 1..Len(toClient'), Received(i)', Returning(j)'
        PROVE log'[i].pkt.n < toClient'[j].n
    <3>1. CASE i \in 1..Len(log)
      <4>1. Received(i) /\ log'[i] = log[i] BY <2>3, <2>4, <2>10, <3>1
      <4>. QED BY <1>6, <2>10, <3>1, <4>1
    <3>2. CASE i = Len(log) + 1
      <4>1. 1 < j + 1 /\ Returning(1) /\ Returning(j + 1) BY <1>2, <2>6, <2>10, <3>2
      <4>2. toClient[1].n < toClient[j + 1].n BY <1>1, <4>1 DEF OrderInv
      <4>. QED BY <1>1, <2>5, <3>2, <4>2
    <3>. QED BY <2>3, <3>1, <3>2
  <2>. QED BY <1>3, <1>4, <1>5, <2>7, <2>8, <2>9, <2>10 DEF OrderInv
<1>. QED BY <1>7, <1>8

-----------------------------------------------------------------------------
(* What the parts of the invariant need of a step.                         *)

\* The step is one of p's.
Only(p) == \A q \in Procs : q # p => pc'[q] = pc[q] /\ call'[q] = call[q]

\* p steps while it owns the gate, or while nobody does.
MayStep(p) == pc[p] \in Owning \/ gate

LEMMA OthersKept ==
  ASSUME Typed, GateInv, NEW p \in Procs, Only(p), MayStep(p), \A q \in Procs : CallInv(q),
         NEW q \in Procs, q # p
  PROVE  CallInv(q)' /\ pc[q] \notin Owning /\ ~Trusting(q)' /\ ~Trusting(q)
<1>1. pc[q] \notin Owning BY DEF GateInv, MayStep
<1>2. pc'[q] = pc[q] /\ call'[q] = call[q] BY DEF Only
<1>3. pc[q] \notin {"command", "send", "locate", "receive"} BY <1>1 DEF Owning
<1>4. CallInv(q) OBVIOUS
<1>. QED BY <1>1, <1>2, <1>3, <1>4 DEF CallInv, Trusting

LEMMA GateKept ==
  ASSUME GateInv, NEW p \in Procs, Only(p), MayStep(p), pc'[p] \in Owning => ~gate'
  PROVE  GateInv'
<1>1. \A q \in Procs : q # p => pc'[q] \notin Owning BY DEF GateInv, MayStep, Only
<1>. QED BY <1>1 DEF GateInv

LEMMA NumbersKept ==
  ASSUME Typed, NumberInv, NEW p \in Procs, Only(p), sent' \in Nat, sent' >= sent,
         capabilities' <= sent', call'[p].n <= sent'
  PROVE  NumberInv'
<1>1. \A q \in Procs : call[q].n \in Nat /\ sent \in Nat BY DEF Typed, Calls
<1>2. ASSUME NEW q \in Procs, q # p PROVE call'[q].n <= sent'
  <2>1. call'[q] = call[q] /\ call[q].n <= sent BY <1>2 DEF Only, NumberInv
  <2>. QED BY <1>1, <2>1
<1>. QED BY <1>2 DEF NumberInv

\* Only p's call may have ended for want of its position.
LEMMA PruneKept ==
  ASSUME Typed, PruneSafe, NEW p \in Procs, Only(p), closed => closed', faults'.clears \in Nat,
         faults'.clears >= faults.clears,
         call'[p].res = "range" => call[p].res = "range" \/ faults.clears > 0 \/ closed
  PROVE  PruneSafe'
<1>1. faults.clears \in Nat BY DEF Typed, Faults
<1>2. \A q \in Procs : call'[q].res = "range" => call[q].res = "range" \/ faults.clears > 0 \/ closed
  BY DEF Only
<1>. QED BY <1>1, <1>2 DEF PruneSafe

\* Nothing more has to be read than before, for the same pending command.
LEMMA RepliesKept ==
  ASSUME Typed, ReplyInv, UNCHANGED <<log, toEcu, toClient, sent, pending>>,
         cursor' \in Nat, oldest' \in Nat, cursor' >= cursor, oldest' >= oldest,
         trusted'.reply \in {0, trusted'.n},
         (\E p \in Procs : Trusting(p)') => Alone
  PROVE  ReplyInv'
<1>1. cursor \in Nat /\ oldest \in Nat BY ElementsTyped DEF Typed
<1>2. \A d, i : i \in Retained(d)' => i \in Retained(d)
  <2>1. Len(log) \in Nat BY ElementsTyped
  <2>. QED BY <1>1, <2>1 DEF Retained, End
<1>3. \A i : (Received(i)' <=> Received(i)) /\ (Returning(i)' <=> Returning(i)) BY DEF Received, Returning
<1>4. pending' = "none" => ~Outstanding(cursor)'
  <2>1. \A k \in Retained("rx")' : k \in 1..Len(log) /\ k > cursor' /\ k > cursor
    BY <1>1, ElementsTyped DEF Retained, End
  <2>2. ~Outstanding(cursor) => ~Outstanding(cursor)' BY <1>2, <2>1 DEF Outstanding
  <2>. QED BY <2>2 DEF ReplyInv
<1>5. Alone => Alone' BY <1>2, <1>3 DEF Alone
<1>6. OneSynch' BY <1>2 DEF OneSynch, ReplyInv
<1>. QED BY <1>4, <1>5, <1>6 DEF ReplyInv

\* Nothing is outstanding.
LEMMA RepliesClear ==
  ASSUME Typed', OrderInv', ~Outstanding(cursor)', trusted'.reply \in {0, trusted'.n}
  PROVE  ReplyInv'
<1>1. toEcu' = <<>> /\ (\A k \in 1..Len(toClient') : ~(toClient'[k].n > 0))
  BY DEF Outstanding
<1>2. \A k \in Retained("rx")' : k \in 1..Len(log') /\ log'[k].dir = "rx" /\ ~(log'[k].pkt.n > 0)
  <2>1. \A k \in Retained("rx")' : k > cursor' /\ k \in 1..Len(log') /\ log'[k].dir = "rx"
    BY DEF Retained, End
  <2>. QED BY <2>1 DEF Outstanding
<1>3. 1..Len(toEcu') = {} BY <1>1
<1>4. Alone' BY <1>1, <1>2, <1>3 DEF Alone, Returning, Received
<1>5. OneSynch'
  <2>1. "marker" \in Answers BY DEF Answers
  <2>2. \A i \in 1..Len(toClient') : toClient'[i].kind # "marker" BY <1>1, <2>1 DEF OrderInv
  <2>3. \A i \in Retained("rx")' : log'[i].pkt.kind # "marker" BY <1>2, <2>1 DEF OrderInv
  <2>. QED BY <1>3, <2>2, <2>3 DEF OneSynch
<1>. QED BY <1>4, <1>5 DEF ReplyInv

-----------------------------------------------------------------------------
(* The client's steps.                                                     *)

\* The counter of one kind of fault.
LEMMA FaultsUpdates ==
  ASSUME Typed
  PROVE  /\ \A f \in {[faults EXCEPT !.lost = @ + 1], [faults EXCEPT !.prunes = @ + 1],
                      [faults EXCEPT !.ends = @ + 1], [faults EXCEPT !.events = @ + 1],
                      [faults EXCEPT !.errs = @ + 1], [faults EXCEPT !.calls = @ + 1]} :
              f \in Faults /\ f.fenced = faults.fenced /\ f.clears = faults.clears
         /\ LET f == [faults EXCEPT !.clears = @ + 1] IN
            f \in Faults /\ f.fenced = faults.fenced /\ f.clears = faults.clears + 1 /\ f.clears > 0
         /\ \A b : LET f == [faults EXCEPT !.fenced = @ /\ b] IN
                   f \in Faults /\ f.clears = faults.clears /\ (f.fenced <=> faults.fenced /\ b)
         /\ faults.clears \in Nat
<1>1. faults \in Faults BY DEF Typed
<1>2. ASSUME NEW f \in {[faults EXCEPT !.lost = @ + 1], [faults EXCEPT !.prunes = @ + 1],
                      [faults EXCEPT !.ends = @ + 1], [faults EXCEPT !.events = @ + 1],
                      [faults EXCEPT !.errs = @ + 1], [faults EXCEPT !.calls = @ + 1]}
      PROVE f \in Faults /\ f.fenced = faults.fenced /\ f.clears = faults.clears
  <2>1. CASE f = [faults EXCEPT !.lost = @ + 1] BY <1>1, <2>1 DEF Faults
  <2>2. CASE f = [faults EXCEPT !.prunes = @ + 1] BY <1>1, <2>2 DEF Faults
  <2>3. CASE f = [faults EXCEPT !.ends = @ + 1] BY <1>1, <2>3 DEF Faults
  <2>4. CASE f = [faults EXCEPT !.events = @ + 1] BY <1>1, <2>4 DEF Faults
  <2>5. CASE f = [faults EXCEPT !.errs = @ + 1] BY <1>1, <2>5 DEF Faults
  <2>6. CASE f = [faults EXCEPT !.calls = @ + 1] BY <1>1, <2>6 DEF Faults
  <2>. QED BY <1>2, <2>1, <2>2, <2>3, <2>4, <2>5, <2>6
<1>3. LET f == [faults EXCEPT !.clears = @ + 1] IN
      f \in Faults /\ f.fenced = faults.fenced /\ f.clears = faults.clears + 1 /\ f.clears > 0
  BY <1>1 DEF Faults
<1>4. ASSUME NEW b
      PROVE LET f == [faults EXCEPT !.fenced = @ /\ b] IN
            f \in Faults /\ f.clears = faults.clears /\ (f.fenced <=> faults.fenced /\ b)
  BY <1>1 DEF Faults
<1>. QED BY <1>1, <1>2, <1>3, <1>4 DEF Faults

\* A call ends, or waits, and leaves the session, the capture and the bus alone.
LEMMA Ended ==
  ASSUME RepliesInv, NEW p \in Procs, NEW res \in Results,
         MayStep(p), Finish(p, res, pending, call[p]),
         res = "range" => faults.clears > 0 \/ closed,
         faults' \in Faults, faults'.clears = faults.clears, faults'.fenced = faults.fenced,
         UNCHANGED <<session, closed, cursor, capture, bus, sent, trusted, scenario>>
  PROVE  RepliesInv'
<1>1. Typed /\ call[p] \in Calls BY DEF RepliesInv, Typed
<1>0. PICK c : c = [call[p] EXCEPT !.res = res] OBVIOUS
<1>2. /\ pc' \in [Procs -> {"idle", "gate"} \union Owning] /\ call' \in [Procs -> Calls]
      /\ pc'[p] = "idle" /\ call'[p] = c /\ Only(p)
      /\ gate' = TRUE /\ retaining' \in BOOLEAN /\ (retaining' <=> pending = "synch")
  <2>1. /\ pc' \in [Procs -> {"idle", "gate"} \union Owning] /\ call' \in [Procs -> Calls]
        /\ pc'[p] = "idle" /\ call'[p] = [call[p] EXCEPT !.res = res]
        /\ \A q \in Procs : q # p => pc'[q] = pc[q] /\ call'[q] = call[q]
        /\ gate' = TRUE /\ retaining' \in BOOLEAN /\ (retaining' <=> pending = "synch")
    BY <1>1, FinishTyped
  <2>2. Only(p) BY <2>1 DEF Only
  <2>. QED BY <1>0, <2>1, <2>2
<1>3. c.n = call[p].n /\ c.res = res BY <1>0, <1>1 DEF Calls
<1>4. Typed' BY <1>1, <1>2 DEF Typed, session, capture, bus
<1>5. OrderInv' BY OrderKept DEF RepliesInv, capture, bus
<1>6. NumberInv'
  <2>1. sent \in Nat BY <1>1 DEF Typed
  <2>. QED BY <1>1, <1>2, <1>3, <2>1, NumbersKept DEF RepliesInv, NumberInv, session
<1>7. "idle" \notin Owning BY DEF Owning
<1>8. GateInv' BY <1>2, <1>7, GateKept DEF RepliesInv
<1>9. \A q \in Procs : CallInv(q)' /\ ~Trusting(q)'
  <2>1. ASSUME NEW q \in Procs, q # p PROVE CallInv(q)' /\ ~Trusting(q)'
    BY <1>1, <1>2, <2>1, OthersKept DEF RepliesInv
  <2>2. CallInv(p)' /\ ~Trusting(p)' BY <1>2 DEF CallInv, Trusting
  <2>. QED BY <2>1, <2>2
<1>10. RetentionInv'
  <2>1. faults.clears \in Nat BY <1>1, FaultsUpdates
  <2>2. PruneSafe' BY <1>1, <1>2, <1>3, <2>1, PruneKept DEF RepliesInv, RetentionInv
  <2>3. retaining' => retaining BY <1>2 DEF RepliesInv, RetentionInv
  <2>. QED BY <1>2, <2>2, <2>3 DEF RepliesInv, RetentionInv, session, capture
<1>11. ASSUME faults'.fenced PROVE ReplyInv'
  <2>1. ReplyInv BY <1>11 DEF RepliesInv
  <2>2. cursor \in Nat /\ oldest \in Nat BY <1>1, ElementsTyped DEF Typed
  <2>3. trusted'.reply \in {0, trusted'.n} BY <2>1 DEF ReplyInv
  <2>. QED BY <1>1, <1>9, <2>1, <2>2, <2>3, RepliesKept DEF session, capture, bus
<1>. QED BY <1>4, <1>5, <1>6, <1>8, <1>9, <1>10, <1>11 DEF RepliesInv

\* Another process than the owner of the gate steps, and disturbs no one.
Aside(p) == pc[p] \notin Owning /\ pc'[p] \notin Owning /\ UNCHANGED <<gate, cursor, retaining>>

\* Only the place of p's call, and what it knows, change; the owner of the gate
\* may move the cursor, and protect it.
LEMMA Moved ==
  ASSUME RepliesInv, NEW p \in Procs, NEW at \in {"idle", "gate"} \union Owning, NEW c \in Calls, Goto(p, at, c),
         MayStep(p) \/ Aside(p), gate' \in BOOLEAN, at \in Owning => ~gate', c.n <= sent, CallInv(p)',
         c.res = "range" => call[p].res = "range" \/ faults.clears > 0 \/ closed,
         Trusting(p)' => Trusting(p),
         cursor' \in cursor..Len(log), retaining' \in BOOLEAN, retaining => retaining',
         retaining' => retaining \/ cursor' = Len(log),
         faults' \in Faults, faults'.clears = faults.clears, faults'.fenced = faults.fenced,
         UNCHANGED <<session, closed, capture, bus, sent, trusted, scenario>>
  PROVE  RepliesInv'
<1>1. Typed /\ cursor \in Nat /\ oldest \in Nat BY ElementsTyped DEF RepliesInv, Typed
<1>2. /\ pc' \in [Procs -> {"idle", "gate"} \union Owning] /\ call' \in [Procs -> Calls]
      /\ pc'[p] = at /\ call'[p] = c /\ Only(p)
  BY <1>1, GotoTyped DEF Only
<1>3. Len(log) \in Nat /\ cursor' \in 0..Len(log') /\ cursor' >= cursor BY <1>1, ElementsTyped DEF capture
<1>4. Typed' BY <1>1, <1>2, <1>3 DEF Typed, session, capture, bus
<1>5. OrderInv' BY OrderKept DEF RepliesInv, capture, bus
<1>6. NumberInv'
  <2>1. sent \in Nat BY <1>1 DEF Typed
  <2>. QED BY <1>1, <1>2, <2>1, NumbersKept DEF RepliesInv, NumberInv, session
<1>7. GateInv'
  <2>1. CASE MayStep(p) BY <1>2, <2>1, GateKept DEF RepliesInv
  <2>2. CASE Aside(p)
    <3>1. \A q \in Procs : pc'[q] \in Owning => pc[q] \in Owning BY <1>2, <2>2 DEF Only, Aside
    <3>. QED BY <2>2, <3>1 DEF RepliesInv, GateInv, Aside
  <2>. QED BY <2>1, <2>2
<1>8. ASSUME NEW q \in Procs, q # p PROVE CallInv(q)' /\ (Trusting(q)' => Trusting(q))
  <2>1. CASE MayStep(p) BY <1>1, <1>2, <1>8, <2>1, OthersKept DEF RepliesInv
  <2>2. CASE Aside(p)
    <3>1. CallInv(q) /\ pc'[q] = pc[q] /\ call'[q] = call[q] BY <1>2, <1>8 DEF RepliesInv, Only
    <3>2. Trusting(q)' => Trusting(q) BY <3>1 DEF Trusting
    <3>. QED BY <2>2, <3>1, <3>2 DEF CallInv, session, capture, Aside
  <2>. QED BY <2>1, <2>2
<1>9. RetentionInv'
  <2>1. faults.clears \in Nat BY <1>1, FaultsUpdates
  <2>2. PruneSafe' BY <1>1, <1>2, <2>1, PruneKept DEF RepliesInv, RetentionInv
  <2>3. pending' = "synch" => retaining' BY DEF RepliesInv, RetentionInv, session
  <2>4. ASSUME faults'.clears = 0, ~closed', retaining' PROVE oldest' <= cursor' /\ snapshot' <= cursor'
    <3>1. oldest \in 0..Len(log) /\ snapshot \in -1..Len(log) BY <1>1 DEF Typed
    <3>2. CASE retaining
      <4>1. oldest <= cursor /\ snapshot <= cursor BY <2>4, <3>2 DEF RepliesInv, RetentionInv
      <4>. QED BY <1>1, <1>3, <3>1, <4>1 DEF capture
    <3>3. CASE cursor' = Len(log) BY <1>3, <3>1, <3>3 DEF capture
    <3>. QED BY <2>4, <3>2, <3>3
  <2>. QED BY <2>2, <2>3, <2>4 DEF RetentionInv
<1>10. ASSUME faults'.fenced PROVE ReplyInv'
  <2>1. ReplyInv BY <1>10 DEF RepliesInv
  <2>2. (\E q \in Procs : Trusting(q)') => Alone
    <3>1. \A q \in Procs : Trusting(q)' => Trusting(q) BY <1>8
    <3>. QED BY <2>1, <3>1 DEF ReplyInv
  <2>3. trusted'.reply \in {0, trusted'.n} BY <2>1 DEF ReplyInv
  <2>4. cursor' \in Nat /\ oldest' \in Nat /\ oldest' >= oldest BY <1>1, <1>3 DEF capture
  <2>. QED BY <1>1, <1>3, <2>1, <2>2, <2>3, <2>4, RepliesKept DEF session, capture, bus
<1>. QED BY <1>4, <1>5, <1>6, <1>7, <1>8, <1>9, <1>10 DEF RepliesInv

LEMMA CallKept ==
  ASSUME RepliesInv, NEW p \in Procs, NEW op \in scenario.ops, Call(p, op)
  PROVE  RepliesInv'
<1>. DEFINE c == [NoCall EXCEPT !.op = op, !.todo = Program(op)]
<1>1. Typed /\ op \in Operations BY XcpAssumption DEF RepliesInv, Typed
<1>2. Program(op) \in Seq(Commands) /\ Program(op) # <<>> BY <1>1, ProgramTyped
<1>3. c \in Calls /\ c.n = 0 /\ c.res = "none" /\ c.todo = Program(op)
  <2>1. NoCall \in Calls BY DEF NoCall, Calls, Results
  <2>2. NoCall.n = 0 /\ NoCall.res = "none" BY DEF NoCall
  <2>. QED BY <1>1, <1>2, <2>1, <2>2 DEF Calls
<1>4. Goto(p, "gate", c) /\ pc[p] = "idle" BY DEF Call
<1>. HIDE DEF c
<1>5. pc'[p] = "gate" /\ call'[p] = c BY <1>1, <1>3, <1>4, GotoTyped
<1>6. Aside(p) BY <1>4, <1>5 DEF Aside, Call, Owning
<1>7. CallInv(p)' /\ ~Trusting(p)' BY <1>2, <1>3, <1>5 DEF CallInv, Trusting
<1>8. faults' \in Faults /\ faults'.clears = faults.clears /\ faults'.fenced = faults.fenced
  BY <1>1, FaultsUpdates DEF Call
<1>9. /\ UNCHANGED <<session, closed, capture, bus, sent, trusted, scenario>>
      /\ cursor' = cursor /\ gate' = gate /\ retaining' = retaining
  BY DEF Call
<1>10. cursor' \in cursor..Len(log) /\ gate' \in BOOLEAN /\ retaining' \in BOOLEAN /\ c.n <= sent
  BY <1>1, <1>3, <1>9, ElementsTyped DEF Typed
<1>. QED BY <1>3, <1>4, <1>6, <1>7, <1>8, <1>9, <1>10, Moved DEF Owning

\* What a call that has begun still is when only its result is set.
LEMMA BeginFailsKept ==
  ASSUME RepliesInv, NEW p \in Procs, BeginFails(p)
  PROVE  RepliesInv'
<1>1. Typed /\ call[p] \in Calls /\ call[p].n <= sent BY DEF RepliesInv, Typed, NumberInv
<1>2. PICK cause \in Causes(p) : Goto(p, "idle", [call[p] EXCEPT !.res = cause]) BY DEF BeginFails
<1>3. PICK c : c = [call[p] EXCEPT !.res = cause] OBVIOUS
<1>4. c \in Calls /\ c.n = call[p].n /\ c.res = cause BY <1>1, <1>2, <1>3, CausesTyped DEF Calls
<1>5. cause # "range" BY <1>2 DEF Causes
<1>6. pc'[p] = "idle" /\ call'[p] = c BY <1>1, <1>2, <1>3, <1>4, GotoTyped
<1>7. Aside(p) BY <1>6 DEF Aside, BeginFails, Owning
<1>8. CallInv(p)' /\ ~Trusting(p)' BY <1>6 DEF CallInv, Trusting
<1>9. /\ UNCHANGED <<session, closed, capture, bus, sent, trusted, scenario>> /\ faults' = faults
      /\ cursor' = cursor /\ gate' = gate /\ retaining' = retaining
  BY DEF BeginFails
<1>10. /\ cursor' \in cursor..Len(log) /\ gate' \in BOOLEAN /\ retaining' \in BOOLEAN /\ c.n <= sent
       /\ faults' \in Faults
  BY <1>1, <1>4, <1>9, ElementsTyped DEF Typed
<1>11. "idle" \notin Owning BY DEF Owning
<1>. QED BY <1>2, <1>3, <1>4, <1>5, <1>7, <1>8, <1>9, <1>10, <1>11, Moved

LEMMA BeginKept ==
  ASSUME RepliesInv, NEW p \in Procs, Begin(p)
  PROVE  RepliesInv'
<1>1. Typed /\ call[p] \in Calls /\ call[p].n <= sent BY DEF RepliesInv, Typed, NumberInv
<1>2. MayStep(p) /\ faults' = faults /\ faults' \in Faults BY <1>1 DEF Begin, MayStep, Typed
<1>3. UNCHANGED <<session, closed, cursor, capture, bus, sent, trusted, scenario>> BY DEF Begin
<1>4. ASSUME NEW res \in Results, res # "range", Finish(p, res, pending, call[p]) PROVE RepliesInv'
  BY <1>2, <1>3, <1>4, Ended
<1>5. CASE \E cause \in Causes(p) : Finish(p, cause, pending, call[p])
  <2>1. \A cause \in Causes(p) : cause \in Results /\ cause # "range" BY DEF Causes, Results
  <2>. QED BY <1>4, <1>5, <2>1
<1>6. CASE Finish(p, Refusal(call[p].op), pending, call[p])
  <2>1. Refusal(call[p].op) \in Results /\ Refusal(call[p].op) # "range" BY DEF Refusal, Results
  <2>. QED BY <1>4, <1>6, <2>1
<1>7. CASE gate' = FALSE /\ Goto(p, "command", call[p]) /\ UNCHANGED retaining
  <2>1. pc'[p] = "command" /\ call'[p] = call[p] BY <1>1, <1>7, GotoTyped DEF Owning
  <2>2. pc[p] = "gate" /\ call[p].todo # <<>> BY DEF Begin, RepliesInv, CallInv
  <2>3. CallInv(p)' /\ ~Trusting(p)' BY <2>1, <2>2 DEF CallInv, Trusting
  <2>4. cursor' \in cursor..Len(log) /\ retaining' \in BOOLEAN
    BY <1>1, <1>3, <1>7, ElementsTyped DEF Typed
  <2>. QED BY <1>1, <1>2, <1>3, <1>7, <2>3, <2>4, Moved DEF Owning
<1>. QED BY <1>5, <1>6, <1>7 DEF Begin

LEMMA CommandKept ==
  ASSUME RepliesInv, NEW p \in Procs, Command(p)
  PROVE  RepliesInv'
<1>. DEFINE cmd == Head(call[p].todo)
            recovering == cmd = "connect" /\ pending \in {"connect", "disconnect"}
            next == [call[p] EXCEPT !.cmd = cmd, !.todo = Tail(@), !.recovering = recovering]
<1>1. Typed /\ call[p] \in Calls /\ call[p].n <= sent BY DEF RepliesInv, Typed, NumberInv
<1>2. MayStep(p) /\ faults' = faults /\ faults' \in Faults BY <1>1 DEF Command, MayStep, Typed, Owning
<1>3. UNCHANGED <<session, closed, capture, bus, sent, trusted, scenario>> BY DEF Command
<1>4. ASSUME NEW res \in Results, res # "range", Finish(p, res, pending, call[p]), UNCHANGED cursor
      PROVE RepliesInv'
  BY <1>2, <1>3, <1>4, Ended
<1>5. CASE (\E cause \in Causes(p) : Finish(p, cause, pending, call[p])) /\ UNCHANGED cursor
  <2>1. \A cause \in Causes(p) : cause \in Results /\ cause # "range" BY DEF Causes, Results
  <2>. QED BY <1>4, <1>5, <2>1
<1>6. CASE Finish(p, ValidateRequest(cmd), pending, call[p]) /\ UNCHANGED cursor
  <2>1. ValidateRequest(cmd) \in Results /\ ValidateRequest(cmd) # "range" BY DEF ValidateRequest, Results
  <2>. QED BY <1>4, <1>6, <2>1
<1>7. cmd \in Commands /\ Tail(call[p].todo) \in Seq(Commands)
  <2>1. call[p].todo # <<>> /\ call[p].todo \in Seq(Commands) BY <1>1 DEF Command, RepliesInv, CallInv, Calls
  <2>. QED BY <2>1, TailIs
<1>8. /\ next \in Calls /\ next.cmd = cmd /\ next.recovering = recovering /\ next.n = call[p].n
      /\ next.res = call[p].res
  <2>1. recovering \in BOOLEAN OBVIOUS
  <2>. HIDE DEF recovering, cmd
  <2>2. next \in Calls BY <1>1, <1>7, <2>1, CallUpdates
  <2>. QED BY <1>1, <2>2 DEF Calls
<1>9. CASE /\ Resumes(cmd) /\ Goto(p, "receive", [next EXCEPT !.n = sent])
           /\ UNCHANGED <<gate, cursor, retaining>>
  <2>. HIDE DEF next
  <2>1. PICK c : c = [next EXCEPT !.n = sent] OBVIOUS
  <2>2. sent \in Nat BY <1>1, ElementsTyped
  <2>3. c \in Calls /\ c.n = sent /\ c.cmd = cmd /\ c.recovering = next.recovering /\ c.res = call[p].res
    BY <1>8, <2>1, <2>2, CallUpdates DEF Calls
  <2>4. pc'[p] = "receive" /\ call'[p] = c BY <1>1, <1>9, <2>1, <2>3, GotoTyped DEF Owning
  <2>5. cmd = "synch" /\ pending = "synch" /\ retaining BY <1>9 DEF Resumes, RepliesInv, RetentionInv
  <2>6. ~c.recovering BY <1>8, <2>3, <2>5
  <2>7. CallInv(p)' /\ ~Trusting(p)'
    BY <1>3, <1>7, <1>9, <2>3, <2>4, <2>5, <2>6 DEF CallInv, Trusting, session
  <2>8. cursor' \in cursor..Len(log) /\ retaining' \in BOOLEAN /\ gate' \in BOOLEAN
    BY <1>1, <1>9, ElementsTyped DEF Typed
  <2>9. pc[p] \in Owning /\ ~gate BY DEF Command, Owning, RepliesInv, GateInv
  <2>10. Goto(p, "receive", c) /\ c.n <= sent /\ ~gate' /\ "receive" \in Owning /\ UNCHANGED <<cursor, retaining>>
    BY <1>9, <2>1, <2>2, <2>3, <2>9 DEF Owning
  <2>. QED BY <1>2, <1>3, <2>3, <2>7, <2>8, <2>10, Moved
<1>10. CASE /\ ValidateRequest(cmd) = "none" /\ ~Resumes(cmd)
            /\ Goto(p, "send", next) /\ cursor' = End /\ retaining' = TRUE /\ UNCHANGED gate
  <2>1. pc'[p] = "send" /\ call'[p] = next BY <1>1, <1>8, <1>10, GotoTyped DEF Owning
  <2>2. pending # "synch" BY <1>10 DEF ValidateRequest, Resumes
  <2>3. pending = "none" \/ cmd = "synch" \/ recovering BY <1>10 DEF ValidateRequest
  <2>4. CallInv(p)' /\ ~Trusting(p)'
    <3>. HIDE DEF next, recovering, cmd
    <3>1. recovering => cmd = "connect" BY DEF recovering
    <3>. QED BY <1>3, <1>7, <1>8, <1>10, <2>1, <2>2, <2>3, <3>1 DEF CallInv, Trusting, session
  <2>5. cursor' \in cursor..Len(log) /\ retaining' \in BOOLEAN /\ gate' \in BOOLEAN /\ cursor' = Len(log)
    BY <1>1, <1>10, ElementsTyped DEF Typed, End
  <2>6. pc[p] \in Owning /\ ~gate BY DEF Command, Owning, RepliesInv, GateInv
  <2>7. next.n <= sent /\ "send" \in Owning BY <1>1, <1>8 DEF Owning
  <2>. HIDE DEF next
  <2>. QED BY <1>2, <1>3, <1>8, <1>10, <2>4, <2>5, <2>6, <2>7, Moved
<1>. QED BY <1>5, <1>6, <1>9, <1>10 DEF Command

LEMMA SendFailsKept ==
  ASSUME RepliesInv, NEW p \in Procs, SendFails(p)
  PROVE  RepliesInv'
<1>1. Typed BY DEF RepliesInv
<1>2. MayStep(p) BY DEF SendFails, MayStep, Owning
<1>3. UNCHANGED <<session, closed, cursor, capture, bus, sent, trusted, scenario>> BY DEF SendFails
<1>4. PICK res \in Causes(p) \union {"queue"} :
        /\ Finish(p, res, pending, call[p])
        /\ faults' = [faults EXCEPT !.ends = IF res = "queue" THEN @ + 1 ELSE @]
  BY DEF SendFails
<1>5. res \in Results /\ res # "range" BY <1>4 DEF Causes, Results
<1>6. faults' \in Faults /\ faults'.clears = faults.clears /\ faults'.fenced = faults.fenced
  <2>1. CASE res = "queue" BY <1>1, <1>4, <2>1, FaultsUpdates
  <2>2. CASE res # "queue" BY <1>1, <1>4, <2>2 DEF Typed, Faults
  <2>. QED BY <2>1, <2>2
<1>. QED BY <1>2, <1>3, <1>4, <1>5, <1>6, Ended

\* A call that owns the gate finds the record of its command.
LEMMA LocateKept ==
  ASSUME RepliesInv, NEW p \in Procs, Locate(p)
  PROVE  RepliesInv'
<1>1. Typed /\ call[p] \in Calls /\ call[p].n <= sent BY DEF RepliesInv, Typed, NumberInv
<1>2. MayStep(p) /\ faults' = faults /\ faults' \in Faults /\ pc[p] = "locate" /\ pc[p] \in Owning
  BY <1>1 DEF Locate, MayStep, Typed, Owning
<1>3. UNCHANGED <<session, closed, capture, bus, sent, trusted, scenario>> BY DEF Locate
<1>4. CallInv(p) BY DEF RepliesInv
<1>5. CASE SentCursor = 0 /\ Finish(p, "range", pending, call[p]) /\ UNCHANGED cursor
  <2>1. faults.clears > 0 \/ closed
    <3>1. SUFFICES ASSUME faults.clears = 0, ~closed PROVE FALSE BY <1>1, FaultsUpdates
    <3>2. oldest <= cursor BY <1>2, <1>4, <3>1 DEF RepliesInv, RetentionInv, CallInv
    <3>3. PICK k \in 1..Len(log) : k > cursor /\ log[k].dir = "tx" BY <1>2, <1>4 DEF CallInv
    <3>4. cursor \in Nat /\ oldest \in Nat /\ Len(log) \in Nat BY <1>1, ElementsTyped DEF Typed
    <3>5. k \in Retained("tx") BY <3>2, <3>3, <3>4 DEF Retained, End
    <3>6. ValidCursor(cursor) BY <3>2 DEF ValidCursor
    <3>7. Min(Retained("tx")) \in 1..Len(log) BY <1>1, <3>5, NextRetained
    <3>. QED BY <1>5, <3>4, <3>5, <3>6, <3>7 DEF SentCursor
  <2>2. "range" \in Results BY DEF Results
  <2>. QED BY <1>2, <1>3, <1>5, <2>1, <2>2, Ended
<1>6. CASE /\ SentCursor # 0 /\ Goto(p, "receive", call[p]) /\ cursor' = SentCursor
           /\ UNCHANGED <<gate, retaining>>
  <2>1. pc'[p] = "receive" /\ call'[p] = call[p] BY <1>1, <1>6, GotoTyped DEF Owning
  <2>2. CallInv(p)' BY <1>2, <1>3, <1>4, <1>6, <2>1 DEF CallInv, session
  <2>3. Trusting(p)' => Trusting(p) BY <1>2, <2>1 DEF Trusting
  <2>4. SentCursor \in 1..Len(log) /\ SentCursor > cursor
    <3>1. Retained("tx") # {} /\ SentCursor = Min(Retained("tx")) BY <1>6 DEF SentCursor
    <3>. QED BY <1>1, <3>1, NextRetained
  <2>5. cursor' \in cursor..Len(log) /\ retaining' \in BOOLEAN /\ gate' \in BOOLEAN
    BY <1>1, <1>6, <2>4, ElementsTyped DEF Typed
  <2>6. ~gate /\ "receive" \in Owning BY <1>2 DEF RepliesInv, GateInv, Owning
  <2>. QED BY <1>1, <1>2, <1>3, <1>6, <2>2, <2>3, <2>5, <2>6, Moved
<1>. QED BY <1>5, <1>6 DEF Locate

LEMMA ReceiveFailsKept ==
  ASSUME RepliesInv, NEW p \in Procs, ReceiveFails(p)
  PROVE  RepliesInv'
<1>1. Typed /\ pc[p] = "receive" BY DEF RepliesInv, ReceiveFails
<1>2. MayStep(p) /\ faults' = faults /\ faults' \in Faults BY <1>1 DEF ReceiveFails, MayStep, Typed, Owning
<1>3. CallInv(p) BY DEF RepliesInv
<1>4. Recovered(call[p], pending) = pending
  <2>1. call[p].recovering => pending = "connect" BY <1>1, <1>3 DEF CallInv
  <2>. QED BY <2>1 DEF Recovered
<1>5. PICK res \in Causes(p) \union (IF ValidCursor(cursor) THEN {"timeout"} ELSE {"range"}) :
        Reject(p, res, pending)
  BY DEF ReceiveFails
<1>6. Finish(p, res, pending, call[p]) /\ pending' = pending /\ capabilities' = capabilities
  BY <1>4, <1>5 DEF Reject
<1>7. UNCHANGED <<session, closed, cursor, capture, bus, sent, trusted, scenario>>
  BY <1>6 DEF ReceiveFails, session
<1>8. res \in Results BY <1>5 DEF Causes, Results
<1>9. res = "range" => faults.clears > 0 \/ closed
  <2>1. SUFFICES ASSUME res = "range", faults.clears = 0, ~closed PROVE FALSE BY <1>1, FaultsUpdates
  <2>2. oldest <= cursor BY <1>1, <1>3, <2>1 DEF RepliesInv, RetentionInv, CallInv
  <2>3. cursor \in Nat /\ oldest \in Nat BY <1>1, ElementsTyped DEF Typed
  <2>4. ValidCursor(cursor) BY <2>2, <2>3 DEF ValidCursor
  <2>. QED BY <1>5, <2>1, <2>4 DEF Causes
<1>. QED BY <1>2, <1>6, <1>7, <1>8, <1>9, Ended

\* The bus accepts a command: only now is it pending, and only if nothing that
\* is still to come could be taken for its reply.
LEMMA SendKept ==
  ASSUME RepliesInv, NEW p \in Procs, Send(p)
  PROVE  RepliesInv'
<1>. DEFINE f == [cmd |-> call[p].cmd, n |-> sent + 1]
            r == [dir |-> "tx", pkt |-> f]
<1>1. Typed /\ call[p] \in Calls /\ pc[p] = "send" /\ MayStep(p) BY DEF RepliesInv, Typed, Send, MayStep, Owning
<1>2. CallInv(p) BY DEF RepliesInv
<1>3. sent \in Nat /\ sent + 1 \in Nat /\ call[p].cmd \in Commands BY <1>1, <1>2, ElementsTyped DEF CallInv
<1>4. f \in CommandFrames /\ f.n = sent + 1 /\ f.cmd = call[p].cmd BY <1>3 DEF CommandFrames
<1>5. r \in Records /\ r.dir = "tx" /\ r.pkt = f BY <1>4 DEF Records
<1>6. /\ log' = Append(log, r) /\ toEcu' = Append(toEcu, f) /\ sent' = sent + 1 /\ pending' = call[p].cmd
      /\ connected' = (connected /\ call[p].cmd \notin {"connect", "disconnect", "other"})
      /\ UNCHANGED <<capabilities, gate, closed, cursor, retaining, oldest, snapshot, toClient, ecu,
                     busDone, trusted, faults, scenario>>
      /\ Goto(p, "locate", [call[p] EXCEPT !.n = sent + 1])
  BY DEF Send
<1>. HIDE DEF f, r
<1>7. PICK c : c = [call[p] EXCEPT !.n = sent + 1] OBVIOUS
<1>8. /\ c \in Calls /\ c.n = sent + 1 /\ c.cmd = call[p].cmd /\ c.recovering = call[p].recovering
      /\ c.res = call[p].res
  BY <1>1, <1>3, <1>7, CallUpdates DEF Calls
<1>9. /\ pc' \in [Procs -> {"idle", "gate"} \union Owning] /\ call' \in [Procs -> Calls]
      /\ pc'[p] = "locate" /\ call'[p] = c /\ Only(p)
  <2>1. "locate" \in {"idle", "gate"} \union Owning BY DEF Owning
  <2>. QED BY <1>1, <1>6, <1>7, <1>8, <2>1, GotoTyped DEF Only
<1>10. /\ log' \in Seq(Records) /\ Len(log) \in Nat /\ Len(log') = Len(log) + 1 /\ log'[Len(log) + 1] = r
       /\ \A i \in 1..Len(log) : log'[i] = log[i]
       /\ \A i \in 1..Len(log') : i \in 1..Len(log) \/ i = Len(log) + 1
  BY <1>1, <1>5, <1>6, AppendIs, SMTT(30) DEF Typed
<1>11. /\ toEcu' \in Seq(CommandFrames) /\ Len(toEcu) \in Nat /\ Len(toEcu') = Len(toEcu) + 1
       /\ toEcu'[Len(toEcu) + 1] = f
       /\ \A i \in 1..Len(toEcu) : toEcu'[i] = toEcu[i]
       /\ \A i \in 1..Len(toEcu') : i \in 1..Len(toEcu) \/ i = Len(toEcu) + 1
  BY <1>1, <1>4, <1>6, AppendIs DEF Typed
<1>12. Typed'
  <2>1. cursor' \in 0..Len(log') /\ oldest' \in 0..Len(log') /\ snapshot' \in -1..Len(log')
    BY <1>1, <1>6, <1>10 DEF Typed
  <2>. QED BY <1>1, <1>3, <1>6, <1>9, <1>10, <1>11, <2>1 DEF Typed
<1>13. OrderInv'
  <2>1. r.dir # "rx" /\ r.pkt.n <= sent' /\ sent' \in Nat /\ sent' >= sent /\ sent' > sent /\ f.n = sent'
    BY <1>3, <1>4, <1>5, <1>6
  <2>. QED BY <1>1, <1>4, <1>5, <1>6, <2>1, OrderNoted DEF RepliesInv
<1>14. NumberInv'
  <2>1. capabilities \in Nat /\ capabilities <= sent BY <1>1 DEF Typed, RepliesInv, NumberInv
  <2>2. capabilities' <= sent' /\ sent' \in Nat /\ sent' >= sent BY <1>3, <1>6, <2>1
  <2>3. call'[p].n <= sent' BY <1>3, <1>6, <1>8, <1>9
  <2>. QED BY <1>1, <1>9, <2>2, <2>3, NumbersKept DEF RepliesInv
<1>15. GateInv'
  <2>1. ~gate BY <1>1 DEF RepliesInv, GateInv, Owning
  <2>. QED BY <1>1, <1>6, <1>9, <2>1, GateKept DEF RepliesInv
<1>16. \A q \in Procs : CallInv(q)'
  <2>1. CallInv(p)'
    <3>1. \E k \in 1..Len(log') : k > cursor' /\ log'[k].dir = "tx"
      <4>1. cursor \in 0..Len(log) BY <1>1 DEF Typed
      <4>2. Len(log) + 1 \in 1..Len(log') /\ Len(log) + 1 > cursor' BY <1>6, <1>10, <4>1
      <4>. QED BY <1>5, <1>10, <4>2
    <3>. QED BY <1>1, <1>2, <1>3, <1>6, <1>8, <1>9, <3>1 DEF CallInv
  <2>2. ASSUME NEW q \in Procs, q # p PROVE CallInv(q)' BY <1>1, <1>9, <2>2, OthersKept DEF RepliesInv
  <2>. QED BY <2>1, <2>2
<1>17. RetentionInv'
  <2>1. faults.clears \in Nat BY <1>1, FaultsUpdates
  <2>2. PruneSafe' BY <1>1, <1>6, <1>8, <1>9, <2>1, PruneKept DEF RepliesInv, RetentionInv
  <2>3. retaining BY <1>1, <1>2 DEF CallInv
  <2>. QED BY <1>6, <2>2, <2>3 DEF RepliesInv, RetentionInv
<1>18. ASSUME faults'.fenced PROVE ReplyInv'
  <2>1. ReplyInv /\ pending # "synch" BY <1>1, <1>2, <1>6, <1>18 DEF RepliesInv, CallInv
  <2>2. \A i \in Retained("rx")' : i \in Retained("rx") /\ i \in 1..Len(log) /\ log'[i] = log[i]
    <3>1. \A i \in Retained("rx")' : i \in 1..Len(log') /\ log'[i].dir = "rx" /\ i > cursor /\ i > oldest
      BY <1>6 DEF Retained, End
    <3>2. \A i \in Retained("rx")' : i \in 1..Len(log) /\ log[i].dir = "rx" BY <1>5, <1>10, <3>1
    <3>. QED BY <1>10, <3>1, <3>2 DEF Retained, End
  <2>3. \A i \in 1..Len(toEcu) : toEcu[i].n \in Nat /\ toEcu[i].n <= sent /\ toEcu[i].cmd # "synch"
    BY <1>1, <2>1, ElementsTyped DEF OneSynch, ReplyInv, OrderInv, RepliesInv
  <2>4. OneSynch'
    <3>1. \A i \in 1..Len(toEcu') : toEcu'[i].n = sent' => toEcu'[i].cmd = pending'
      BY <1>3, <1>4, <1>6, <1>11, <2>3
    <3>2. \A i \in 1..Len(toEcu') : toEcu'[i].cmd = "synch" => toEcu'[i].n = sent'
      BY <1>4, <1>6, <1>11, <2>3
    <3>3. \A i \in 1..Len(toClient') : toClient'[i].kind # "marker" BY <1>6, <2>1 DEF OneSynch, ReplyInv
    <3>4. \A i \in Retained("rx")' : log'[i].pkt.kind # "marker" BY <2>1, <2>2 DEF OneSynch, ReplyInv
    <3>. QED BY <3>1, <3>2, <3>3, <3>4 DEF OneSynch
  <2>5. ASSUME NEW q \in Procs, Trusting(q)' PROVE Alone'
    <3>1. q = p BY <1>1, <1>9, <2>5, OthersKept DEF RepliesInv
    <3>2. call[p].cmd # "synch" /\ ~call[p].recovering BY <1>8, <1>9, <2>5, <3>1 DEF Trusting
    <3>3. ~Outstanding(cursor) BY <1>1, <1>2, <2>1, <3>2 DEF CallInv, ReplyInv
    <3>4. toEcu = <<>> /\ Len(toEcu) = 0 BY <3>3 DEF Outstanding
    <3>5. \A i \in 1..Len(toEcu') : toEcu'[i].n = sent' BY <1>4, <1>6, <1>11, <3>4
    <3>6. \A i \in 1..Len(toClient') : ~Returning(i)' BY <1>6, <3>3 DEF Outstanding, Returning
    <3>7. \A i \in Retained("rx")' : ~Received(i)'
      <4>1. \A i \in Retained("rx") : i > cursor BY DEF Retained
      <4>. QED BY <2>2, <3>3, <4>1 DEF Outstanding, Received
    <3>. QED BY <3>5, <3>6, <3>7 DEF Alone
  <2>6. pending' # "none" BY <1>3, <1>6 DEF Commands
  <2>. QED BY <1>6, <2>1, <2>4, <2>5, <2>6 DEF ReplyInv
<1>. QED BY <1>12, <1>13, <1>14, <1>15, <1>16, <1>17, <1>18 DEF RepliesInv

\* What receive makes of a packet: whether the call goes on, and how the session
\* ends up.
Went(p, at, c) ==
  /\ at \in {"receive", "command", "idle"} /\ c \in Calls /\ Goto(p, at, c)
  /\ c.n = call[p].n /\ (c.res = "range" => call[p].res = "range")
  /\ at = "command" => c.todo # <<>>
  /\ at = "receive" => c = call[p] /\ pending' = pending
  /\ at # "idle" => UNCHANGED <<gate, retaining>>
  /\ at = "idle" => gate' = TRUE /\ retaining' \in BOOLEAN /\ (retaining' <=> pending' = "synch")

SessionTyped ==
  /\ connected' \in BOOLEAN /\ pending' \in Commands \union {"none"}
  /\ capabilities' \in Nat /\ capabilities' <= sent
  /\ trusted' \in [cmd : Commands \union {"none"}, n : Nat, reply : Nat]

\* The packet settles the pending command, or it does not, or it ends the session.
Settles(p, pkt) ==
  /\ pending' = "none" /\ trusted'.n = sent /\ trusted'.reply = pkt.n /\ pkt.kind \in Answers
  /\ ~call[p].recovering /\ (call[p].cmd = "synch" => pkt.kind = "marker")
  /\ connected' = connected \/ connected' = (connected \/ call[p].cmd = "connect")

LEMMA SettleDoes ==
  ASSUME Typed, NEW p \in Procs, NEW pkt \in Packets, Settle(p, pkt), CallInv(p), pkt.n <= sent,
         capabilities <= sent, pc[p] = "receive", pkt.kind \in Answers, call[p].cmd = "synch" => pkt.kind = "marker"
  PROVE  /\ \E at, c : Went(p, at, c)
         /\ SessionTyped
         /\ (pending' = pending /\ trusted' = trusted) \/ Settles(p, pkt)
<1>1. /\ call[p] \in Calls /\ pkt.n \in Nat /\ pkt.data \in Nat /\ sent \in Nat /\ capabilities \in Nat
      /\ connected \in BOOLEAN /\ call[p].todo \in Seq(Commands) /\ call[p].data \in Seq(Nat)
      /\ pending \in Commands \union {"none"} /\ trusted \in [cmd : Commands \union {"none"}, n : Nat, reply : Nat]
  BY DEF Typed, Packets, Calls
<1>2. call[p].cmd \in Commands /\ pending = call[p].cmd /\ call[p].n = sent BY DEF CallInv
<1>3. CASE call[p].recovering
  <2>1. <<"synch", "connect">> \in Seq(Commands) BY DEF Commands
  <2>2. PICK todo \in Seq(Commands) : todo = <<"synch", "connect">> \o call[p].todo /\ todo # <<>>
    <3>1. <<"synch", "connect">> \o call[p].todo \in Seq(Commands) BY <1>1, <2>1, ConcatProperties
    <3>2. Len(<<"synch", "connect">> \o call[p].todo) = 2 + Len(call[p].todo) BY <1>1, <2>1, ConcatProperties
    <3>3. Len(call[p].todo) \in Nat BY <1>1, LenProperties
    <3>4. PICK todo : todo = <<"synch", "connect">> \o call[p].todo OBVIOUS
    <3>5. todo \in Seq(Commands) /\ Len(todo) >= 2 BY <3>1, <3>2, <3>3, <3>4
    <3>6. todo # <<>> BY <3>5
    <3>. QED BY <3>4, <3>5, <3>6
  <2>3. PICK c : c = [call[p] EXCEPT !.todo = todo] OBVIOUS
  <2>4. c \in Calls /\ c.todo = todo /\ c.n = call[p].n /\ c.res = call[p].res
    BY <1>1, <2>2, <2>3, CallUpdates DEF Calls
  <2>5. Goto(p, "command", c) /\ UNCHANGED <<session, gate, retaining, trusted>>
    <3>1. c = [call[p] EXCEPT !.todo = <<"synch", "connect">> \o @] BY <2>2, <2>3
    <3>. QED BY <1>3, <3>1 DEF Settle, IsCandidate
  <2>6. Went(p, "command", c) BY <2>2, <2>4, <2>5 DEF Went
  <2>. QED BY <1>1, <2>5, <2>6 DEF SessionTyped, session
<1>4. CASE ~call[p].recovering
  <2>. DEFINE d == IF call[p].cmd = "upload" THEN Append(call[p].data, pkt.data) ELSE call[p].data
  <2>1. d \in Seq(Nat) BY <1>1, AppendProperties
  <2>2. PICK c : c = [call[p] EXCEPT !.data = d] OBVIOUS
  <2>. HIDE DEF d
  <2>3. /\ c \in Calls /\ c.n = call[p].n /\ c.res = call[p].res /\ c.todo = call[p].todo
    <3>1. call[p] \in Calls BY <1>1
    <3>2. c \in Calls BY <2>1, <2>2, <3>1, CallUpdates
    <3>3. c.n = call[p].n /\ c.res = call[p].res /\ c.todo = call[p].todo BY <2>2, <3>1 DEF Calls
    <3>. QED BY <3>2, <3>3
  <2>. USE DEF d
  <2>4. /\ pending' = "none"
        /\ connected' = (connected \/ call[p].cmd = "connect")
        /\ capabilities' = IF call[p].cmd = "connect" THEN pkt.n ELSE capabilities
        /\ trusted' = [cmd |-> call[p].cmd, n |-> call[p].n, reply |-> pkt.n]
        /\ IF call[p].todo = <<>> THEN Finish(p, "ok", "none", c)
           ELSE Goto(p, "command", c) /\ UNCHANGED <<gate, retaining>>
    <3>1. c = [call[p] EXCEPT !.data = IF call[p].cmd = "upload" THEN Append(@, pkt.data) ELSE @]
      BY <2>2
    <3>. QED BY <1>4, <3>1 DEF Settle, IsCandidate
  <2>. HIDE DEF d
  <2>5. SessionTyped BY <1>1, <1>2, <2>4 DEF SessionTyped
  <2>6. Settles(p, pkt) BY <1>1, <1>2, <1>4, <2>4 DEF Settles
  <2>7. \E at, cc : Went(p, at, cc)
    <3>1. CASE call[p].todo # <<>>
      <4>1. Went(p, "command", c) BY <2>3, <2>4, <3>1 DEF Went
      <4>. QED BY <4>1
    <3>2. CASE call[p].todo = <<>>
      <4>1. PICK cc : cc = [c EXCEPT !.res = "ok"] OBVIOUS
      <4>2. "ok" \in Results BY DEF Results
      <4>3. cc \in Calls /\ cc.n = c.n /\ cc.res = "ok" BY <2>3, <4>1, <4>2, CallUpdates DEF Calls
      <4>4. Finish(p, "ok", "none", c) BY <2>4, <3>2
      <4>5. Goto(p, "idle", cc) /\ gate' = TRUE /\ retaining' = FALSE
        BY <4>1, <4>4 DEF Finish, KeepsRetaining
      <4>6. Went(p, "idle", cc) BY <2>3, <2>4, <4>3, <4>5 DEF Went
      <4>. QED BY <4>6
    <3>. QED BY <3>1, <3>2
  <2>. QED BY <2>5, <2>6, <2>7
<1>. QED BY <1>3, <1>4

LEMMA PacketDoes ==
  ASSUME Typed, NEW p \in Procs, NEW pkt \in Packets, OnPacket(p, pkt), CallInv(p), pkt.n <= sent,
         capabilities <= sent, pc[p] = "receive", pkt.kind # "none"
  PROVE  /\ \E at, c : Went(p, at, c)
         /\ SessionTyped
         /\ \/ pending' = pending /\ trusted' = trusted
            \/ pending' = "none" /\ trusted' = trusted /\ pkt.kind = "terminated"
            \/ Settles(p, pkt)
<1>1. /\ call[p] \in Calls /\ pkt.n \in Nat /\ sent \in Nat /\ capabilities \in Nat /\ pkt.kind \in Kinds
      /\ connected \in BOOLEAN
      /\ pending \in Commands \union {"none"} /\ trusted \in [cmd : Commands \union {"none"}, n : Nat, reply : Nat]
  BY DEF Typed, Packets
<1>2. /\ call[p].cmd \in Commands /\ pending = call[p].cmd /\ call[p].n = sent
      /\ (call[p].recovering => call[p].cmd = "connect")
  BY DEF CallInv
<1>3. ASSUME NEW res \in Results, res # "range", NEW pend \in Commands \union {"none"}, Finish(p, res, pend, call[p]),
             pending' = pend
      PROVE \E at, c : Went(p, at, c)
  <2>1. PICK c : c = [call[p] EXCEPT !.res = res] OBVIOUS
  <2>2. c \in Calls /\ c.n = call[p].n /\ c.res = res BY <1>1, <2>1, CallUpdates DEF Calls
  <2>3. /\ Goto(p, "idle", c) /\ gate' = TRUE /\ retaining' \in BOOLEAN
        /\ (retaining' <=> pending' = "synch")
    BY <1>3, <2>1 DEF Finish, KeepsRetaining
  <2>4. Went(p, "idle", c) BY <1>3, <2>2, <2>3 DEF Went
  <2>. QED BY <2>4
<1>4. CASE Goto(p, "receive", call[p]) /\ UNCHANGED <<session, gate, retaining, trusted>>
  <2>1. Went(p, "receive", call[p]) BY <1>1, <1>4 DEF Went, session
  <2>. QED BY <1>1, <1>4, <2>1 DEF SessionTyped, session
<1>5. CASE pkt.kind \in {"daq", "pending"}
  BY <1>4, <1>5 DEF OnPacket
<1>6. CASE pkt.kind = "terminated"
  <2>1. /\ connected' = FALSE /\ pending' = "none" /\ UNCHANGED <<capabilities, trusted>>
        /\ Finish(p, "terminated", "none", call[p])
    BY <1>6 DEF OnPacket
  <2>2. \E at, c : Went(p, at, c) BY <1>3, <2>1 DEF Results
  <2>. QED BY <1>1, <1>6, <2>1, <2>2 DEF SessionTyped
<1>7. CASE pkt.kind \in {"res", "err", "short"} /\ call[p].cmd = "synch"
  BY <1>4, <1>7 DEF OnPacket
<1>8. CASE pkt.kind = "marker" /\ call[p].cmd = "synch"
  <2>1. Settle(p, pkt) BY <1>8 DEF OnPacket
  <2>2. pkt.kind \in Answers BY <1>8 DEF Answers
  <2>. QED BY <1>1, <1>8, <2>1, <2>2, SettleDoes
<1>9. CASE pkt.kind = "res" /\ call[p].cmd # "synch"
  <2>1. Settle(p, pkt) BY <1>9 DEF OnPacket
  <2>2. pkt.kind \in Answers BY <1>9 DEF Answers
  <2>. QED BY <1>1, <1>9, <2>1, <2>2, SettleDoes
<1>10. CASE pkt.kind = "err" /\ call[p].cmd # "synch"
  <2>1. /\ Reject(p, "negative", "none") /\ UNCHANGED connected
        /\ trusted' = IF call[p].recovering THEN trusted
                      ELSE [cmd |-> call[p].cmd, n |-> call[p].n, reply |-> pkt.n]
    BY <1>10 DEF OnPacket
  <2>2. /\ pending' = Recovered(call[p], "none") /\ capabilities' = capabilities
        /\ Finish(p, "negative", Recovered(call[p], "none"), call[p])
    BY <2>1 DEF Reject
  <2>3. Recovered(call[p], "none") = IF call[p].recovering THEN "connect" ELSE "none" BY DEF Recovered
  <2>4. \E at, c : Went(p, at, c)
    <3>1. Recovered(call[p], "none") \in Commands \union {"none"} BY <2>3 DEF Commands
    <3>2. "negative" \in Results BY DEF Results
    <3>. QED BY <1>3, <2>2, <3>1, <3>2
  <2>5. pending' \in Commands \union {"none"} BY <2>2, <2>3 DEF Commands
  <2>6. SessionTyped BY <1>1, <1>2, <2>1, <2>2, <2>5 DEF SessionTyped
  <2>7. (pending' = pending /\ trusted' = trusted) \/ Settles(p, pkt)
    <3>1. CASE call[p].recovering BY <1>2, <2>1, <2>2, <2>3, <3>1
    <3>2. CASE ~call[p].recovering BY <1>1, <1>2, <1>10, <2>1, <2>2, <2>3, <3>2 DEF Settles, Answers
    <3>. QED BY <3>1, <3>2
  <2>. QED BY <2>4, <2>6, <2>7
<1>11. CASE pkt.kind \in {"marker", "short"} /\ call[p].cmd # "synch"
  <2>1. Reject(p, "invalid", pending) /\ UNCHANGED <<connected, trusted>> BY <1>11 DEF OnPacket
  <2>2. Recovered(call[p], pending) = pending BY <1>2 DEF Recovered
  <2>3. pending' = pending /\ capabilities' = capabilities /\ Finish(p, "invalid", pending, call[p])
    BY <2>1, <2>2 DEF Reject
  <2>4. \E at, c : Went(p, at, c)
    <3>1. "invalid" \in Results BY DEF Results
    <3>. QED BY <1>1, <1>3, <2>3, <3>1
  <2>. QED BY <1>1, <2>1, <2>3, <2>4 DEF SessionTyped
<1>. QED BY <1>1, <1>5, <1>6, <1>7, <1>8, <1>9, <1>10, <1>11 DEF Kinds, Answers

LEMMA ReceiveKept ==
  ASSUME RepliesInv, NEW p \in Procs, Receive(p)
  PROVE  RepliesInv'
<1>. PICK i : i = Min(Retained("rx")) OBVIOUS
<1>. DEFINE pkt == log[i].pkt
<1>1. Typed /\ pc[p] = "receive" /\ MayStep(p) /\ CallInv(p) BY DEF RepliesInv, Receive, MayStep, Owning
<1>2. /\ i \in 1..Len(log) /\ i > cursor /\ i > oldest /\ log[i].dir = "rx" /\ i \in Retained("rx")
  BY <1>1, NextRetained DEF Receive
<1>3. Len(log) \in Nat /\ cursor \in Nat /\ oldest \in Nat /\ sent \in Nat /\ capabilities \in Nat
  BY <1>1, ElementsTyped DEF Typed
<1>4. pkt \in Packets /\ pkt.n <= sent /\ pkt.kind # "none" /\ (pkt.kind \in Answers <=> pkt.n > 0) /\ pkt.n \in Nat
  <2>1. log[i] \in Records BY <1>1, <1>2, ElementsTyped
  <2>2. pkt \in Packets BY <1>2, <2>1 DEF Records
  <2>. QED BY <1>2, <2>2 DEF RepliesInv, OrderInv, Packets
<1>5. /\ cursor' = i /\ OnPacket(p, pkt)
      /\ faults' = [faults EXCEPT !.fenced = @ /\ ~(pkt.kind = "terminated" /\ Outstanding(i))]
      /\ UNCHANGED <<closed, capture, bus, sent, scenario>>
  BY DEF Receive
<1>6. capabilities <= sent BY DEF RepliesInv, NumberInv
<1>. HIDE DEF pkt
<1>7. /\ \E at, c : Went(p, at, c)
      /\ SessionTyped
      /\ \/ pending' = pending /\ trusted' = trusted
         \/ pending' = "none" /\ trusted' = trusted /\ pkt.kind = "terminated"
         \/ Settles(p, pkt)
  BY <1>1, <1>4, <1>5, <1>6, PacketDoes
<1>8. PICK at, c : Went(p, at, c) BY <1>7
<1>9. /\ pc' \in [Procs -> {"idle", "gate"} \union Owning] /\ call' \in [Procs -> Calls]
      /\ pc'[p] = at /\ call'[p] = c /\ Only(p)
  <2>1. Goto(p, at, c) /\ c \in Calls /\ at \in {"idle", "gate"} \union Owning BY <1>8 DEF Went, Owning
  <2>. QED BY <1>1, <2>1, GotoTyped DEF Only
<1>10. /\ faults' \in Faults /\ faults'.clears = faults.clears
       /\ (faults'.fenced => faults.fenced /\ ~(pkt.kind = "terminated" /\ Outstanding(i)))
  BY <1>1, <1>5, FaultsUpdates
<1>11. retaining /\ ~gate BY <1>1 DEF RepliesInv, CallInv, GateInv, Owning
<1>12. retaining' \in BOOLEAN /\ gate' \in BOOLEAN BY <1>1, <1>8 DEF Went, Typed
<1>13. Typed'
  <2>1. cursor' \in 0..Len(log') BY <1>2, <1>3, <1>5 DEF capture
  <2>. QED BY <1>1, <1>5, <1>7, <1>9, <1>10, <1>12, <2>1 DEF Typed, SessionTyped, capture, bus
<1>14. OrderInv' BY <1>5, OrderKept DEF RepliesInv, capture, bus
<1>15. NumberInv'
  <2>1. call[p].n <= sent BY DEF RepliesInv, NumberInv
  <2>2. call'[p].n <= sent BY <1>8, <1>9, <2>1 DEF Went
  <2>3. capabilities' <= sent' /\ sent' = sent BY <1>5, <1>7 DEF SessionTyped
  <2>. QED BY <1>1, <1>3, <1>9, <2>2, <2>3, NumbersKept DEF RepliesInv
<1>16. GateInv'
  <2>1. pc'[p] \in Owning => ~gate' BY <1>8, <1>9, <1>11 DEF Went, Owning
  <2>. QED BY <1>1, <1>9, <2>1, GateKept DEF RepliesInv
<1>17. \A q \in Procs : CallInv(q)' /\ (Trusting(q)' => q = p /\ Trusting(p) /\ pending' = pending)
  <2>1. ASSUME NEW q \in Procs, q # p PROVE CallInv(q)' /\ ~Trusting(q)'
    BY <1>1, <1>9, <2>1, OthersKept DEF RepliesInv
  <2>2. CASE at = "receive"
    <3>1. c = call[p] /\ pending' = pending /\ retaining' = retaining /\ sent' = sent
      BY <1>5, <1>8, <2>2 DEF Went
    <3>2. CallInv(p)' BY <1>1, <1>9, <2>2, <3>1 DEF CallInv
    <3>3. Trusting(p)' => Trusting(p) BY <1>1, <1>9, <2>2, <3>1 DEF Trusting
    <3>. QED BY <2>1, <3>1, <3>2, <3>3
  <2>3. CASE at # "receive"
    <3>1. CallInv(p)' /\ ~Trusting(p)' BY <1>8, <1>9, <2>3 DEF CallInv, Trusting, Went
    <3>. QED BY <2>1, <3>1
  <2>. QED BY <2>2, <2>3
<1>18. RetentionInv'
  <2>1. faults.clears \in Nat BY <1>1, FaultsUpdates
  <2>2. closed' = closed /\ oldest' = oldest /\ snapshot' = snapshot BY <1>5 DEF capture
  <2>3. PruneSafe'
    <3>1. call'[p].res = "range" => call[p].res = "range" BY <1>8, <1>9 DEF Went
    <3>. QED BY <1>1, <1>9, <1>10, <2>1, <2>2, <3>1, PruneKept DEF RepliesInv, RetentionInv
  <2>4. pending' = "synch" => retaining' BY <1>8, <1>11 DEF Went
  <2>5. ASSUME faults'.clears = 0, ~closed', retaining' PROVE oldest' <= cursor' /\ snapshot' <= cursor'
    <3>1. oldest <= cursor /\ snapshot <= cursor
      BY <1>10, <1>11, <2>2, <2>5 DEF RepliesInv, RetentionInv
    <3>2. snapshot \in -1..Len(log) BY <1>1 DEF Typed
    <3>. QED BY <1>2, <1>3, <1>5, <2>2, <3>1, <3>2
  <2>. QED BY <2>3, <2>4, <2>5 DEF RetentionInv
<1>19. ASSUME faults'.fenced PROVE ReplyInv'
  <2>1. ReplyInv /\ ~(pkt.kind = "terminated" /\ Outstanding(i)) BY <1>10, <1>19 DEF RepliesInv
  <2>2. trusted.reply \in {0, trusted.n} BY <2>1 DEF ReplyInv
  <2>3. \A k \in Retained("rx")' : k \in Retained("rx") /\ k > i /\ k \in 1..Len(log) /\ log'[k] = log[k]
    <3>1. log' = log /\ oldest' = oldest /\ cursor' = i BY <1>5 DEF capture
    <3>. QED BY <1>2, <1>3, <3>1 DEF Retained, End
  <2>4. log' = log /\ toEcu' = toEcu /\ toClient' = toClient /\ cursor' = i /\ oldest' = oldest /\ sent' = sent
    BY <1>5 DEF capture, bus
  <2>5. CASE pending' = pending /\ trusted' = trusted
    <3>1. (\E q \in Procs : Trusting(q)') => Alone BY <1>17, <2>1 DEF ReplyInv
    <3>2. /\ cursor' \in Nat /\ oldest' \in Nat /\ cursor' >= cursor /\ oldest' >= oldest
      BY <1>2, <1>3, <2>4
    <3>3. trusted'.reply \in {0, trusted'.n} BY <2>2, <2>5
    <3>. QED BY <1>1, <2>1, <2>4, <2>5, <3>1, <3>2, <3>3, RepliesKept
  <2>6. CASE pending' = "none" /\ trusted' = trusted /\ pkt.kind = "terminated"
    <3>1. ~Outstanding(i) BY <2>1, <2>6
    <3>2. ~Outstanding(cursor)' BY <2>3, <2>4, <3>1 DEF Outstanding
    <3>3. trusted'.reply \in {0, trusted'.n} BY <2>2, <2>6
    <3>. QED BY <1>13, <1>14, <3>2, <3>3, RepliesClear
  <2>7. CASE Settles(p, pkt)
    <3>1. pkt.n = sent /\ pkt.n > 0
      <4>1. pkt.n > 0 BY <1>4, <2>7 DEF Settles
      <4>2. CASE call[p].cmd = "synch" BY <1>2, <2>1, <2>7, <4>1, <4>2 DEF Settles, ReplyInv, OneSynch, pkt
      <4>3. CASE call[p].cmd # "synch"
        <5>1. Trusting(p) BY <1>1, <2>7, <4>3 DEF Trusting, Settles
        <5>2. Received(i) BY <1>2, <4>1 DEF Received, pkt
        <5>. QED BY <1>2, <2>1, <4>1, <5>1, <5>2 DEF ReplyInv, Alone, pkt
      <4>. QED BY <4>2, <4>3
    <3>2. Received(i) BY <1>2, <3>1 DEF Received, pkt
    <3>3. \A j \in 1..Len(toEcu) : FALSE
      <4>1. ASSUME NEW j \in 1..Len(toEcu) PROVE FALSE
        <5>1. log[i].pkt.n < toEcu[j].n /\ toEcu[j].n <= sent BY <1>2, <3>2 DEF RepliesInv, OrderInv
        <5>2. toEcu[j].n \in Nat BY <1>1, ElementsTyped
        <5>. QED BY <1>3, <3>1, <5>1, <5>2 DEF pkt
      <4>. QED BY <4>1
    <3>4. ASSUME NEW j \in 1..Len(toClient) PROVE ~(toClient[j].n > 0)
      <4>1. SUFFICES ASSUME Returning(j) PROVE FALSE BY DEF Returning
      <4>2. log[i].pkt.n < toClient[j].n /\ toClient[j].n <= sent BY <1>2, <3>2, <4>1 DEF RepliesInv, OrderInv
      <4>3. toClient[j].n \in Nat BY <1>1, ElementsTyped
      <4>. QED BY <1>3, <3>1, <4>2, <4>3 DEF pkt
    <3>5. ASSUME NEW k \in 1..Len(log), k > i, log[k].dir = "rx" PROVE ~(log[k].pkt.n > 0)
      <4>1. SUFFICES ASSUME Received(k) PROVE FALSE BY <3>5 DEF Received
      <4>2. log[i].pkt.n < log[k].pkt.n /\ log[k].pkt.n <= sent
        BY <1>2, <3>2, <3>5, <4>1 DEF RepliesInv, OrderInv
      <4>3. log[k].pkt.n \in Nat BY <1>1, ElementsTyped
      <4>. QED BY <1>3, <3>1, <4>2, <4>3 DEF pkt
    <3>6. toEcu = <<>>
      <4>1. Len(toEcu) \in Nat /\ toEcu \in Seq(CommandFrames) BY <1>1, ElementsTyped DEF Typed
      <4>2. Len(toEcu) = 0 BY <3>3, <4>1
      <4>. QED BY <4>1, <4>2, EmptySeq
    <3>7. ~Outstanding(cursor)'
      <4>1. \A k \in Retained("rx")' : k \in 1..Len(log) /\ k > i /\ log[k].dir = "rx"
        BY <2>3 DEF Retained
      <4>. QED BY <2>4, <3>4, <3>5, <3>6, <4>1 DEF Outstanding
    <3>8. trusted'.reply \in {0, trusted'.n} BY <2>7, <3>1 DEF Settles
    <3>. QED BY <1>13, <1>14, <3>7, <3>8, RepliesClear
  <2>. QED BY <1>7, <2>5, <2>6, <2>7
<1>. QED BY <1>13, <1>14, <1>15, <1>16, <1>17, <1>18, <1>19 DEF RepliesInv

-----------------------------------------------------------------------------
(* The steps of the ECU, the bus, the callers' contexts and the pruner.    *)

\* The packets that a receive may still read.
Coming == {toClient[i] : i \in 1..Len(toClient)} \union {log[i].pkt : i \in Retained("rx")}

\* No step but the client's brings a reply of an older command than those that
\* were to come: what comes was coming, or answers a command on its way.
LEMMA ComingKept ==
  ASSUME Typed, Typed', ReplyInv, UNCHANGED <<cursor, sent, pending, trusted>>,
         \A q \in Procs : Trusting(q)' => Trusting(q),
         \A j \in 1..Len(toEcu') : \E i \in 1..Len(toEcu) : toEcu'[j] = toEcu[i],
         \A x \in Coming' :
           \/ x \in Coming
           \/ x.n = 0 /\ x.kind # "marker"
           \/ \E i \in 1..Len(toEcu) : toEcu[i].n = x.n /\ (x.kind = "marker" => toEcu[i].cmd = "synch")
  PROVE  ReplyInv'
<1>1. /\ \A i \in 1..Len(toClient') : toClient'[i] \in Coming'
      /\ \A i \in Retained("rx")' : log'[i].pkt \in Coming'
  BY DEF Coming
<1>2. \A x \in Coming : \/ \E i \in 1..Len(toClient) : x = toClient[i]
                        \/ \E i \in Retained("rx") : x = log[i].pkt
  BY DEF Coming
<1>3. \A i \in Retained("rx") : i \in 1..Len(log) /\ i > cursor /\ log[i].dir = "rx" BY DEF Retained, End
<1>4. ASSUME pending' = "none" PROVE ~Outstanding(cursor)'
  <2>1. ~Outstanding(cursor) BY <1>4 DEF ReplyInv
  <2>2. toEcu = <<>> /\ 1..Len(toEcu) = {} BY <2>1 DEF Outstanding
  <2>3. \A x \in Coming : ~(x.n > 0) BY <1>2, <1>3, <2>1 DEF Outstanding
  <2>4. \A x \in Coming' : ~(x.n > 0) BY <2>2, <2>3
  <2>5. toEcu' = <<>>
    <3>1. toEcu' \in Seq(CommandFrames) /\ Len(toEcu') \in Nat BY LenProperties DEF Typed
    <3>2. Len(toEcu') = 0 BY <2>2, <3>1
    <3>. QED BY <3>1, <3>2, EmptySeq
  <2>. QED BY <1>1, <2>4, <2>5 DEF Outstanding
<1>5. \A x \in Coming : x.kind = "marker" => x.n = sent /\ pending = "synch"
  BY <1>2 DEF ReplyInv, OneSynch
<1>6. \A i \in 1..Len(toEcu) : toEcu[i].cmd = "synch" => toEcu[i].n = sent /\ pending = "synch"
  BY DEF ReplyInv, OneSynch
<1>7. \A x \in Coming' : x.kind = "marker" => x.n = sent /\ pending = "synch" BY <1>5, <1>6
<1>8. OneSynch'
  <2>1. \A j \in 1..Len(toEcu') : toEcu'[j].n = sent => toEcu'[j].cmd = pending BY DEF ReplyInv, OneSynch
  <2>2. \A j \in 1..Len(toEcu') : toEcu'[j].cmd = "synch" => toEcu'[j].n = sent BY <1>6
  <2>. QED BY <1>1, <1>7, <2>1, <2>2 DEF OneSynch
<1>9. ASSUME NEW q \in Procs, Trusting(q)' PROVE Alone'
  <2>1. Alone BY <1>9 DEF ReplyInv
  <2>2. \A x \in Coming : x.n > 0 => x.n = sent BY <1>2, <1>3, <2>1 DEF Alone, Returning, Received
  <2>3. \A x \in Coming' : x.n > 0 => x.n = sent BY <2>1, <2>2 DEF Alone
  <2>4. \A j \in 1..Len(toEcu') : toEcu'[j].n = sent BY <2>1 DEF Alone
  <2>. QED BY <1>1, <2>3, <2>4 DEF Alone, Returning, Received
<1>. QED BY <1>4, <1>8, <1>9 DEF ReplyInv

\* The calls and the session stay as they are, but for the end of a context.
LEMMA BusKept ==
  ASSUME RepliesInv, UNCHANGED <<session, gate, cursor, retaining, pc, sent>>, Typed', OrderInv',
         \A q \in Procs : call'[q] = call[q] \/ call'[q] = [call[q] EXCEPT !.ctx = TRUE],
         log' = log \/ \E r \in Records : log' = Append(log, r),
         closed => closed', faults'.clears \in Nat, faults'.clears >= faults.clears, faults'.fenced = faults.fenced,
         faults'.clears = 0 /\ ~closed' /\ retaining =>
           \/ oldest' <= cursor /\ snapshot' <= cursor
           \/ UNCHANGED <<oldest, snapshot>>,
         ReplyInv => ReplyInv'
  PROVE  RepliesInv'
<1>1. Typed /\ \A q \in Procs : call[q] \in Calls BY DEF RepliesInv, Typed
<1>2. faults.clears \in Nat /\ sent \in Nat BY <1>1, FaultsUpdates, ElementsTyped
<1>3. ASSUME NEW q \in Procs
      PROVE /\ call'[q].n = call[q].n /\ call'[q].cmd = call[q].cmd /\ call'[q].recovering = call[q].recovering
            /\ call'[q].todo = call[q].todo /\ call'[q].res = call[q].res
  BY <1>1 DEF Calls
<1>4. NumberInv' BY <1>3 DEF RepliesInv, NumberInv, session
<1>5. GateInv' BY DEF RepliesInv, GateInv
<1>6. ASSUME NEW q \in Procs PROVE CallInv(q)'
  <2>1. CallInv(q) BY DEF RepliesInv
  <2>2. (\E k \in 1..Len(log) : k > cursor /\ log[k].dir = "tx")
        => (\E k \in 1..Len(log') : k > cursor /\ log'[k].dir = "tx")
    <3>1. CASE log' = log BY <3>1
    <3>2. ASSUME NEW r \in Records, log' = Append(log, r)
          PROVE  \A k \in 1..Len(log) : k \in 1..Len(log') /\ log'[k] = log[k]
      <4>1. log \in Seq(Records) BY <1>1 DEF Typed
      <4>2. /\ Len(log) \in Nat /\ Len(log') = Len(log) + 1
            /\ \A k \in 1..Len(log) : log'[k] = log[k]
        BY <3>2, <4>1, AppendIs
      <4>. QED BY <4>2
    <3>. QED BY <3>1, <3>2
  <2>. QED BY <1>3, <2>1, <2>2 DEF CallInv, session
<1>7. RetentionInv'
  <2>1. PruneSafe' BY <1>2, <1>3 DEF RepliesInv, RetentionInv, PruneSafe
  <2>2. ASSUME faults'.clears = 0, ~closed', retaining' PROVE oldest' <= cursor' /\ snapshot' <= cursor'
    <3>1. faults.clears = 0 /\ ~closed /\ retaining BY <1>2, <2>2
    <3>2. oldest <= cursor /\ snapshot <= cursor BY <3>1 DEF RepliesInv, RetentionInv
    <3>. QED BY <2>2, <3>1, <3>2
  <2>. QED BY <2>1, <2>2 DEF RepliesInv, RetentionInv, session
<1>. QED BY <1>4, <1>5, <1>6, <1>7 DEF RepliesInv

LEMMA EcuHandlesKept ==
  ASSUME RepliesInv, EcuHandles
  PROVE  RepliesInv'
<1>. DEFINE f == Head(toEcu)
<1>1. Typed BY DEF RepliesInv
<1>2. /\ toEcu # <<>> /\ toEcu' = Tail(toEcu)
      /\ UNCHANGED <<session, gate, closed, cursor, retaining, capture, busDone, pc, call, sent,
                     trusted, scenario>>
  BY DEF EcuHandles
<1>3. /\ toEcu' \in Seq(CommandFrames) /\ f = toEcu[1] /\ f \in CommandFrames /\ 1 \in 1..Len(toEcu)
      /\ \A i \in 1..Len(toEcu') : toEcu'[i] = toEcu[i + 1] /\ i + 1 \in 1..Len(toEcu)
  BY <1>1, <1>2, TailIs DEF Typed
<1>4. \/ UNCHANGED <<ecu, toClient, faults>>
      \/ /\ ecu' = [connected |-> (ecu.connected \/ f.cmd = "connect") /\ f.cmd # "disconnect",
                    mta |-> CASE f.cmd = "setmta" -> 1 [] f.cmd = "upload" -> ecu.mta + 1
                              [] OTHER -> ecu.mta]
         /\ toClient' = Append(toClient, Reply(IF f.cmd = "synch" THEN "marker" ELSE "res", f.n))
         /\ UNCHANGED faults
      \/ /\ f.cmd # "synch"
         /\ \E kind \in {"err", "short"} : toClient' = Append(toClient, Reply(kind, f.n))
         /\ faults' = [faults EXCEPT !.errs = @ + 1]
         /\ UNCHANGED ecu
  BY DEF EcuHandles
<1>. HIDE DEF f
<1>5. ecu' \in [connected : BOOLEAN, mta : Nat]
  <2>1. ecu \in [connected : BOOLEAN, mta : Nat] BY <1>1 DEF Typed
  <2>2. ecu.mta \in Nat /\ ecu.mta + 1 \in Nat BY <2>1
  <2>3. (CASE f.cmd = "setmta" -> 1 [] f.cmd = "upload" -> ecu.mta + 1 [] OTHER -> ecu.mta) \in Nat
    BY <2>2
  <2>4. PICK m \in Nat :
          m = CASE f.cmd = "setmta" -> 1 [] f.cmd = "upload" -> ecu.mta + 1 [] OTHER -> ecu.mta
    BY <2>3
  <2>5. PICK b \in BOOLEAN : b = ((ecu.connected \/ f.cmd = "connect") /\ f.cmd # "disconnect") OBVIOUS
  <2>6. CASE ecu' = [connected |-> b, mta |-> m] BY <2>6
  <2>7. CASE ecu' = ecu BY <2>1, <2>7
  <2>. QED BY <1>4, <2>4, <2>5, <2>6, <2>7
<1>6. faults' \in Faults /\ faults'.clears = faults.clears /\ faults'.fenced = faults.fenced
  BY <1>1, <1>4, FaultsUpdates DEF Typed
<1>7. \/ toClient' = toClient
      \/ \E r \in Packets : /\ toClient' = Append(toClient, r) /\ r.n = f.n /\ r.kind \in Answers
                            /\ (r.kind = "marker" => f.cmd = "synch")
  <2>1. ecu.mta \in Nat BY <1>1 DEF Typed
  <2>2. \A kind \in Answers : /\ Reply(kind, f.n) \in Packets /\ Reply(kind, f.n).n = f.n
                              /\ Reply(kind, f.n).kind = kind
    BY <1>3, <2>1 DEF Reply, Packets, CommandFrames, Kinds
  <2>3. {"marker", "res", "err", "short"} = Answers BY DEF Answers
  <2>. QED BY <1>4, <2>2, <2>3
<1>8. toClient' \in Seq(Packets)
  <2>1. toClient \in Seq(Packets) BY <1>1 DEF Typed
  <2>. QED BY <1>7, <2>1, AppendProperties
<1>9. Typed' BY <1>1, <1>2, <1>3, <1>5, <1>6, <1>8 DEF Typed, session, capture
<1>10. OrderInv'
  <2>1. OrderInv BY DEF RepliesInv
  <2>. QED BY <1>1, <1>2, <1>7, <2>1, OrderTaken DEF capture, f
<1>11. ASSUME ReplyInv PROVE ReplyInv'
  <2>1. \A j \in 1..Len(toEcu') : \E i \in 1..Len(toEcu) : toEcu'[j] = toEcu[i] BY <1>3
  <2>2. \A i : i \in Retained("rx")' => i \in Retained("rx") /\ log' = log BY <1>2 DEF Retained, End, capture
  <2>3. \A j \in 1..Len(toClient') :
          \/ \E i \in 1..Len(toClient) : toClient'[j] = toClient[i]
          \/ toClient'[j].n = toEcu[1].n /\ (toClient'[j].kind = "marker" => toEcu[1].cmd = "synch")
    <3>1. CASE toClient' = toClient BY <3>1
    <3>2. ASSUME NEW r \in Packets, toClient' = Append(toClient, r), r.n = f.n, r.kind = "marker" => f.cmd = "synch",
                 NEW j \in 1..Len(toClient')
          PROVE  \/ \E i \in 1..Len(toClient) : toClient'[j] = toClient[i]
                 \/ toClient'[j].n = toEcu[1].n /\ (toClient'[j].kind = "marker" => toEcu[1].cmd = "synch")
      BY <1>1, <1>3, <3>2, AppendIs DEF Typed
    <3>. QED BY <1>7, <3>1, <3>2
  <2>4. \A x \in Coming' :
           \/ x \in Coming
           \/ \E i \in 1..Len(toEcu) : toEcu[i].n = x.n /\ (x.kind = "marker" => toEcu[i].cmd = "synch")
    BY <1>3, <2>2, <2>3 DEF Coming
  <2>5. \A q \in Procs : Trusting(q)' => Trusting(q) BY <1>2 DEF Trusting
  <2>. QED BY <1>1, <1>2, <1>9, <1>11, <2>1, <2>4, <2>5, ComingKept DEF session
<1>12. faults.clears \in Nat BY <1>1, FaultsUpdates
<1>. QED BY <1>2, <1>6, <1>9, <1>10, <1>11, <1>12, BusKept DEF capture

LEMMA EcuEventKept ==
  ASSUME RepliesInv, NEW kind \in {"daq", "pending", "terminated"}, EcuEvent(kind)
  PROVE  RepliesInv'
<1>. PICK r : r = Reply(kind, 0) OBVIOUS
<1>1. Typed /\ OrderInv BY DEF RepliesInv
<1>2. /\ toClient' = Append(toClient, r)
      /\ ecu' = IF kind = "terminated" THEN [ecu EXCEPT !.connected = FALSE] ELSE ecu
      /\ faults' = [faults EXCEPT !.events = @ + 1]
      /\ UNCHANGED <<session, gate, closed, cursor, retaining, capture, toEcu, busDone, pc, call,
                     sent, trusted, scenario>>
  BY DEF EcuEvent
<1>3. r \in Packets /\ r.n = 0 /\ r.kind = kind
  <2>1. ecu.mta \in Nat BY <1>1 DEF Typed
  <2>. QED BY <2>1 DEF Reply, Packets, Kinds
<1>4. faults' \in Faults /\ faults'.clears = faults.clears /\ faults'.fenced = faults.fenced
  BY <1>1, <1>2, FaultsUpdates
<1>5. /\ toClient' \in Seq(Packets) /\ Len(toClient) \in Nat /\ toClient'[Len(toClient) + 1] = r
      /\ \A i \in 1..Len(toClient) : toClient'[i] = toClient[i]
      /\ \A i \in 1..Len(toClient') : i \in 1..Len(toClient) \/ i = Len(toClient) + 1
  BY <1>1, <1>2, <1>3, AppendIs DEF Typed
<1>6. ecu' \in [connected : BOOLEAN, mta : Nat] BY <1>1, <1>2 DEF Typed
<1>7. Typed' BY <1>1, <1>2, <1>4, <1>5, <1>6 DEF Typed, session, capture
<1>8. OrderInv' BY <1>1, <1>2, <1>3, OrderEvent DEF capture
<1>9. ASSUME ReplyInv PROVE ReplyInv'
  <2>1. \A i : i \in Retained("rx")' => i \in Retained("rx") /\ log' = log BY <1>2 DEF Retained, End, capture
  <2>2. \A x \in Coming' : x \in Coming \/ x = r BY <1>5, <2>1 DEF Coming
  <2>3. r.kind # "marker" BY <1>3
  <2>4. \A x \in Coming' : x \in Coming \/ (x.n = 0 /\ x.kind # "marker") BY <1>3, <2>2, <2>3
  <2>5. \A q \in Procs : Trusting(q)' => Trusting(q) BY <1>2 DEF Trusting
  <2>6. \A j \in 1..Len(toEcu') : \E i \in 1..Len(toEcu) : toEcu'[j] = toEcu[i] BY <1>2
  <2>. QED BY <1>1, <1>2, <1>7, <1>9, <2>4, <2>5, <2>6, ComingKept DEF session
<1>10. faults.clears \in Nat BY <1>1, FaultsUpdates
<1>. QED BY <1>2, <1>4, <1>7, <1>8, <1>9, <1>10, BusKept DEF capture

LEMMA DeliverKept ==
  ASSUME RepliesInv, Deliver
  PROVE  RepliesInv'
<1>. PICK r : r = [dir |-> "rx", pkt |-> Head(toClient)] OBVIOUS
<1>1. Typed /\ OrderInv BY DEF RepliesInv
<1>2. /\ toClient # <<>> /\ toClient' = Tail(toClient) /\ log' = Append(log, r)
      /\ UNCHANGED <<session, gate, closed, cursor, retaining, oldest, snapshot, toEcu, ecu,
                     busDone, pc, call, sent, trusted, faults, scenario>>
  BY DEF Deliver
<1>3. /\ toClient' \in Seq(Packets) /\ Head(toClient) = toClient[1] /\ toClient[1] \in Packets
      /\ 1 \in 1..Len(toClient)
      /\ \A i \in 1..Len(toClient') : toClient'[i] = toClient[i + 1] /\ i + 1 \in 1..Len(toClient)
  BY <1>1, <1>2, TailIs DEF Typed
<1>4. r \in Records /\ r.pkt = toClient[1] BY <1>3 DEF Records
<1>5. /\ log' \in Seq(Records) /\ Len(log) \in Nat /\ Len(log') = Len(log) + 1 /\ log'[Len(log) + 1] = r
      /\ \A i \in 1..Len(log) : log'[i] = log[i]
      /\ \A i \in 1..Len(log') : i \in 1..Len(log) \/ i = Len(log) + 1
  BY <1>1, <1>2, <1>4, AppendIs DEF Typed
<1>6. Typed'
  <2>1. cursor' \in 0..Len(log') /\ oldest' \in 0..Len(log') /\ snapshot' \in -1..Len(log')
    BY <1>1, <1>2, <1>5 DEF Typed
  <2>. QED BY <1>1, <1>2, <1>3, <1>5, <2>1 DEF Typed, session
<1>7. OrderInv' BY <1>1, <1>2, OrderArrives
<1>8. ASSUME ReplyInv PROVE ReplyInv'
  <2>1. \A i \in Retained("rx")' : (i \in Retained("rx") /\ log'[i] = log[i]) \/ log'[i] = r
    BY <1>2, <1>5 DEF Retained, End
  <2>2. \A x \in Coming' : x \in Coming BY <1>3, <1>4, <2>1 DEF Coming
  <2>3. \A q \in Procs : Trusting(q)' => Trusting(q) BY <1>2 DEF Trusting
  <2>4. \A j \in 1..Len(toEcu') : \E i \in 1..Len(toEcu) : toEcu'[j] = toEcu[i] BY <1>2
  <2>. QED BY <1>1, <1>2, <1>6, <1>8, <2>2, <2>3, <2>4, ComingKept DEF session
<1>9. faults.clears \in Nat BY <1>1, FaultsUpdates
<1>. QED BY <1>2, <1>4, <1>6, <1>7, <1>8, <1>9, BusKept

LEMMA LoseKept ==
  ASSUME RepliesInv, Lose
  PROVE  RepliesInv'
<1>1. Typed /\ OrderInv BY DEF RepliesInv
<1>2. /\ faults' = [faults EXCEPT !.lost = @ + 1]
      /\ \/ toClient # <<>> /\ toClient' = Tail(toClient) /\ UNCHANGED toEcu
         \/ toEcu # <<>> /\ toEcu' = Tail(toEcu) /\ UNCHANGED toClient
      /\ UNCHANGED <<session, gate, closed, cursor, retaining, capture, ecu, busDone, pc, call,
                     sent, trusted, scenario>>
  BY DEF Lose
<1>3. faults' \in Faults /\ faults'.clears = faults.clears /\ faults'.fenced = faults.fenced
  BY <1>1, <1>2, FaultsUpdates
<1>4. /\ toClient' \in Seq(Packets)
      /\ \A j \in 1..Len(toClient') : \E i \in 1..Len(toClient) : toClient'[j] = toClient[i]
  <2>1. CASE toClient' = toClient BY <1>1, <2>1 DEF Typed
  <2>2. CASE toClient # <<>> /\ toClient' = Tail(toClient)
    <3>1. toClient \in Seq(Packets) BY <1>1 DEF Typed
    <3>2. /\ toClient' \in Seq(Packets)
          /\ \A i \in 1..Len(toClient') : toClient'[i] = toClient[i + 1] /\ i + 1 \in 1..Len(toClient)
      BY <2>2, <3>1, TailIs
    <3>. QED BY <3>2
  <2>. QED BY <1>2, <2>1, <2>2
<1>5. /\ toEcu' \in Seq(CommandFrames)
      /\ \A j \in 1..Len(toEcu') : \E i \in 1..Len(toEcu) : toEcu'[j] = toEcu[i]
  <2>1. CASE toEcu' = toEcu BY <1>1, <2>1 DEF Typed
  <2>2. CASE toEcu # <<>> /\ toEcu' = Tail(toEcu)
    <3>1. toEcu \in Seq(CommandFrames) BY <1>1 DEF Typed
    <3>2. /\ toEcu' \in Seq(CommandFrames)
          /\ \A i \in 1..Len(toEcu') : toEcu'[i] = toEcu[i + 1] /\ i + 1 \in 1..Len(toEcu)
      BY <2>2, <3>1, TailIs
    <3>. QED BY <3>2
  <2>. QED BY <1>2, <2>1, <2>2
<1>6. Typed' BY <1>1, <1>2, <1>3, <1>4, <1>5 DEF Typed, session, capture
<1>7. OrderInv'
  <2>1. CASE toClient # <<>> /\ toClient' = Tail(toClient) /\ UNCHANGED toEcu
    BY <1>1, <1>2, <2>1, OrderArrives DEF capture
  <2>2. CASE toEcu # <<>> /\ toEcu' = Tail(toEcu) /\ UNCHANGED toClient
    BY <1>1, <1>2, <2>2, OrderTaken DEF capture
  <2>. QED BY <1>2, <2>1, <2>2
<1>8. ASSUME ReplyInv PROVE ReplyInv'
  <2>1. \A i : i \in Retained("rx")' => i \in Retained("rx") /\ log' = log BY <1>2 DEF Retained, End, capture
  <2>2. \A x \in Coming' : x \in Coming BY <1>4, <2>1 DEF Coming
  <2>3. \A q \in Procs : Trusting(q)' => Trusting(q) BY <1>2 DEF Trusting
  <2>. QED BY <1>1, <1>2, <1>5, <1>6, <1>8, <2>2, <2>3, ComingKept DEF session
<1>9. faults.clears \in Nat BY <1>1, FaultsUpdates
<1>. QED BY <1>2, <1>3, <1>6, <1>7, <1>8, <1>9, BusKept DEF capture

LEMMA EndsKept ==
  ASSUME RepliesInv, Ends
  PROVE  RepliesInv'
<1>1. Typed /\ OrderInv BY DEF RepliesInv
<1>2. /\ faults' = [faults EXCEPT !.ends = @ + 1]
      /\ UNCHANGED <<session, gate, cursor, retaining, capture, toEcu, toClient, ecu, pc, sent,
                     trusted, scenario>>
      /\ closed' \in BOOLEAN /\ busDone' \in BOOLEAN /\ (closed => closed')
  BY <1>1 DEF Ends, Typed
<1>3. /\ call' \in [Procs -> Calls]
      /\ \A q \in Procs : call'[q] = call[q] \/ call'[q] = [call[q] EXCEPT !.ctx = TRUE]
  <2>1. call \in [Procs -> Calls] BY <1>1 DEF Typed
  <2>2. CASE call' = call BY <2>1, <2>2
  <2>3. ASSUME NEW p \in Procs, call' = [call EXCEPT ![p].ctx = TRUE]
        PROVE  /\ call' \in [Procs -> Calls]
               /\ \A q \in Procs : call'[q] = call[q] \/ call'[q] = [call[q] EXCEPT !.ctx = TRUE]
    <3>1. [call[p] EXCEPT !.ctx = TRUE] \in Calls BY <2>1, CallUpdates
    <3>. QED BY <2>1, <2>3, <3>1
  <2>. QED BY <2>2, <2>3 DEF Ends
<1>4. faults' \in Faults /\ faults'.clears = faults.clears /\ faults'.fenced = faults.fenced
  BY <1>1, <1>2, FaultsUpdates
<1>5. Typed' BY <1>1, <1>2, <1>3, <1>4 DEF Typed, session, capture
<1>6. OrderInv' BY <1>1, <1>2, OrderKept DEF capture
<1>7. ASSUME ReplyInv PROVE ReplyInv'
  <2>1. Coming' = Coming BY <1>2 DEF Coming, Retained, End, capture
  <2>2. ASSUME NEW q \in Procs, Trusting(q)' PROVE Trusting(q)
    <3>1. call[q] \in Calls BY <1>1 DEF Typed
    <3>2. call'[q].cmd = call[q].cmd /\ call'[q].recovering = call[q].recovering BY <1>3, <3>1 DEF Calls
    <3>. QED BY <1>2, <2>2, <3>2 DEF Trusting
  <2>3. \A j \in 1..Len(toEcu') : \E i \in 1..Len(toEcu) : toEcu'[j] = toEcu[i] BY <1>2
  <2>. QED BY <1>1, <1>2, <1>5, <1>7, <2>1, <2>2, <2>3, ComingKept DEF session
<1>8. faults.clears \in Nat BY <1>1, FaultsUpdates
<1>. QED BY <1>2, <1>3, <1>4, <1>5, <1>6, <1>7, <1>8, BusKept DEF capture

LEMMA ClearKept ==
  ASSUME RepliesInv, Clear
  PROVE  RepliesInv'
<1>. PICK r : r = [dir |-> "clear", pkt |-> Reply("none", 0)] OBVIOUS
<1>1. Typed /\ OrderInv BY DEF RepliesInv
<1>2. /\ faults' = [faults EXCEPT !.clears = @ + 1] /\ log' = Append(log, r) /\ oldest' = Len(log) + 1
      /\ UNCHANGED <<session, gate, closed, cursor, retaining, snapshot, bus, pc, call, sent,
                     trusted, scenario>>
  BY DEF Clear, End
<1>3. r \in Records /\ r.dir = "clear" /\ r.pkt.n = 0
  <2>1. ecu.mta \in Nat BY <1>1 DEF Typed
  <2>2. Reply("none", 0) \in Packets /\ Reply("none", 0).n = 0 BY <2>1 DEF Reply, Packets, Kinds
  <2>. QED BY <2>2 DEF Records
<1>4. /\ log' \in Seq(Records) /\ Len(log) \in Nat /\ Len(log') = Len(log) + 1
      /\ \A i \in 1..Len(log) : log'[i] = log[i]
  BY <1>1, <1>2, <1>3, AppendIs DEF Typed
<1>5. /\ faults' \in Faults /\ faults'.fenced = faults.fenced /\ faults'.clears = faults.clears + 1
      /\ faults.clears \in Nat
  BY <1>1, <1>2, FaultsUpdates
<1>6. Typed'
  <2>1. cursor' \in 0..Len(log') /\ oldest' \in 0..Len(log') /\ snapshot' \in -1..Len(log')
    BY <1>1, <1>2, <1>4 DEF Typed
  <2>. QED BY <1>1, <1>2, <1>4, <1>5, <2>1 DEF Typed, session, bus
<1>7. OrderInv'
  <2>1. sent \in Nat /\ r.dir # "rx" /\ r.pkt.n <= sent' BY <1>1, <1>2, <1>3, ElementsTyped
  <2>2. toClient' = toClient /\ toEcu' = toEcu /\ sent' = sent BY <1>2 DEF bus
  <2>. QED BY <1>1, <1>2, <1>3, <2>1, <2>2, OrderNoted
<1>8. ASSUME ReplyInv PROVE ReplyInv'
  <2>1. Retained("rx")' = {} BY <1>2, <1>4 DEF Retained, End
  <2>2. \A x \in Coming' : x \in Coming BY <1>2, <2>1 DEF Coming, bus
  <2>3. \A q \in Procs : Trusting(q)' => Trusting(q) BY <1>2 DEF Trusting
  <2>4. \A j \in 1..Len(toEcu') : \E i \in 1..Len(toEcu) : toEcu'[j] = toEcu[i] BY <1>2 DEF bus
  <2>. QED BY <1>1, <1>2, <1>6, <1>8, <2>2, <2>3, <2>4, ComingKept DEF session
<1>9. faults'.clears # 0 /\ faults'.clears \in Nat /\ faults'.clears >= faults.clears BY <1>5
<1>. QED BY <1>2, <1>3, <1>5, <1>6, <1>7, <1>8, <1>9, BusKept

\* Less of the capture is retained, or the pruner knows how much may go.
LEMMA PrunerKept ==
  ASSUME RepliesInv, UNCHANGED <<session, gate, closed, cursor, retaining, log, bus, pc, call, sent, trusted, scenario>>,
         faults' \in Faults, faults'.clears = faults.clears, faults'.fenced = faults.fenced,
         oldest' \in 0..Len(log), snapshot' \in -1..Len(log), oldest' >= oldest,
         faults.clears = 0 /\ ~closed /\ retaining => oldest' <= cursor /\ snapshot' <= cursor
  PROVE  RepliesInv'
<1>1. Typed /\ OrderInv BY DEF RepliesInv
<1>2. Typed' BY <1>1 DEF Typed, session, bus
<1>3. OrderInv' BY <1>1, OrderKept DEF bus
<1>4. ASSUME ReplyInv PROVE ReplyInv'
  <2>1. oldest \in Nat /\ Len(log) \in Nat BY <1>1, ElementsTyped DEF Typed
  <2>2. \A i : i \in Retained("rx")' => i \in Retained("rx") BY <2>1 DEF Retained, End
  <2>3. \A x \in Coming' : x \in Coming BY <2>2 DEF Coming, bus
  <2>4. \A q \in Procs : Trusting(q)' => Trusting(q) BY DEF Trusting
  <2>5. \A j \in 1..Len(toEcu') : \E i \in 1..Len(toEcu) : toEcu'[j] = toEcu[i] BY DEF bus
  <2>. QED BY <1>1, <1>2, <1>4, <2>3, <2>4, <2>5, ComingKept DEF session
<1>5. faults.clears \in Nat BY <1>1, FaultsUpdates
<1>. QED BY <1>2, <1>3, <1>4, <1>5, BusKept

LEMMA ReadRetentionKept ==
  ASSUME RepliesInv, ReadRetention
  PROVE  RepliesInv'
<1>1. Typed BY DEF RepliesInv
<1>2. /\ faults' \in Faults /\ faults'.clears = faults.clears /\ faults'.fenced = faults.fenced
  BY <1>1, FaultsUpdates DEF ReadRetention
<1>3. /\ snapshot' = RetentionCursor
      /\ UNCHANGED <<session, gate, closed, cursor, retaining, log, oldest, bus, pc, call, sent,
                     trusted, scenario>>
  BY DEF ReadRetention
<1>4. snapshot' \in -1..Len(log) /\ oldest' \in 0..Len(log) /\ oldest' >= oldest
  BY <1>1, <1>3, ElementsTyped DEF Typed, RetentionCursor, End
<1>5. faults.clears = 0 /\ ~closed /\ retaining => oldest' <= cursor /\ snapshot' <= cursor
  <2>1. cursor \in Nat BY <1>1, ElementsTyped DEF Typed
  <2>. QED BY <1>3, <2>1 DEF RepliesInv, RetentionInv, RetentionCursor
<1>. QED BY <1>2, <1>3, <1>4, <1>5, PrunerKept

LEMMA PruneStepKept ==
  ASSUME RepliesInv, Prune
  PROVE  RepliesInv'
<1>1. Typed BY DEF RepliesInv
<1>2. /\ snapshot # -1 /\ oldest' = Max({oldest, snapshot}) /\ snapshot' = -1
      /\ UNCHANGED <<session, gate, closed, cursor, retaining, log, bus, pc, call, sent, trusted,
                     faults, scenario>>
  BY DEF Prune
<1>3. /\ Len(log) \in Nat /\ oldest \in 0..Len(log) /\ snapshot \in 0..Len(log) /\ faults \in Faults
      /\ cursor \in Nat
  BY <1>1, <1>2, ElementsTyped DEF Typed
<1>4. Max({oldest, snapshot}) = IF oldest >= snapshot THEN oldest ELSE snapshot
  <2>1. CASE oldest >= snapshot
    <3>1. oldest \in {oldest, snapshot} /\ \A y \in {oldest, snapshot} : oldest >= y BY <1>3, <2>1
    <3>2. \A x \in {oldest, snapshot} : (\A y \in {oldest, snapshot} : x >= y) => x = oldest
      BY <1>3, <2>1
    <3>. QED BY <2>1, <3>1, <3>2 DEF Max
  <2>2. CASE ~(oldest >= snapshot)
    <3>1. snapshot \in {oldest, snapshot} /\ \A y \in {oldest, snapshot} : snapshot >= y BY <1>3, <2>2
    <3>2. \A x \in {oldest, snapshot} : (\A y \in {oldest, snapshot} : x >= y) => x = snapshot
      BY <1>3, <2>2
    <3>. QED BY <2>2, <3>1, <3>2 DEF Max
  <2>. QED BY <2>1, <2>2
<1>5. snapshot' \in -1..Len(log) /\ oldest' \in 0..Len(log) /\ oldest' >= oldest BY <1>2, <1>3, <1>4
<1>6. faults.clears = 0 /\ ~closed /\ retaining => oldest' <= cursor /\ snapshot' <= cursor
  <2>1. faults.clears = 0 /\ ~closed /\ retaining => oldest <= cursor /\ snapshot <= cursor
    BY DEF RepliesInv, RetentionInv
  <2>. QED BY <1>2, <1>3, <1>4, <2>1
<1>. QED BY <1>2, <1>3, <1>5, <1>6, PrunerKept

-----------------------------------------------------------------------------
(* The invariant holds, and with it the property.                          *)

LEMMA InitReplies == Init => RepliesInv
<1>. SUFFICES ASSUME Init PROVE RepliesInv OBVIOUS
<1>1. Typed BY InitTyped
<1>2. /\ log = <<>> /\ toEcu = <<>> /\ toClient = <<>> /\ Len(log) = 0 /\ Len(toEcu) = 0 /\ Len(toClient) = 0
      /\ sent = 0 /\ capabilities = 0 /\ pending = "none" /\ ~retaining /\ gate
      /\ \A p \in Procs : pc[p] = "idle" /\ call[p] = NoCall
      /\ trusted.n = 0 /\ trusted.reply = 0
  BY DEF Init
<1>3. OrderInv BY <1>2 DEF OrderInv
<1>4. NumberInv BY <1>2 DEF NumberInv, NoCall
<1>5. GateInv BY <1>2 DEF GateInv, Owning
<1>6. RetentionInv BY <1>2 DEF RetentionInv, PruneSafe, NoCall
<1>7. \A p \in Procs : CallInv(p) BY <1>2 DEF CallInv
<1>8. ReplyInv
  <2>1. Retained("rx") = {} BY <1>2 DEF Retained, End
  <2>. QED BY <1>2, <2>1 DEF ReplyInv, Outstanding, OneSynch, Trusting
<1>. QED BY <1>1, <1>3, <1>4, <1>5, <1>6, <1>7, <1>8 DEF RepliesInv

LEMMA NextReplies == RepliesInv /\ [Next]_vars => RepliesInv'
<1>. SUFFICES ASSUME RepliesInv, [Next]_vars PROVE RepliesInv' OBVIOUS
<1>1. CASE UNCHANGED vars
  <2>. /\ connected' = connected /\ pending' = pending /\ capabilities' = capabilities /\ gate' = gate
       /\ closed' = closed /\ busDone' = busDone /\ cursor' = cursor /\ retaining' = retaining /\ log' = log
       /\ oldest' = oldest /\ snapshot' = snapshot /\ toEcu' = toEcu /\ toClient' = toClient /\ ecu' = ecu
       /\ pc' = pc /\ call' = call /\ sent' = sent /\ trusted' = trusted /\ faults' = faults
       /\ scenario' = scenario
    BY <1>1 DEF vars
  <2>1. Typed' BY DEF RepliesInv, Typed
  <2>2. OrderInv' /\ NumberInv' BY DEF RepliesInv, OrderInv, NumberInv, Received, Returning
  <2>3. GateInv' BY DEF RepliesInv, GateInv, Owning
  <2>4. RetentionInv' BY DEF RepliesInv, RetentionInv, PruneSafe
  <2>5. \A p \in Procs : CallInv(p)' BY DEF RepliesInv, CallInv
  <2>6. Outstanding(cursor)' <=> Outstanding(cursor) BY DEF Outstanding, Retained, End
  <2>7. OneSynch' <=> OneSynch BY DEF OneSynch, Retained, End
  <2>8. Alone' <=> Alone BY DEF Alone, Received, Returning, Retained, End
  <2>9. \A p \in Procs : Trusting(p)' <=> Trusting(p) BY DEF Trusting
  <2>10. ReplyInv => ReplyInv' BY <2>6, <2>7, <2>8, <2>9 DEF ReplyInv
  <2>11. (faults.fenced => ReplyInv)' BY <2>10 DEF RepliesInv
  <2>. QED BY <2>1, <2>2, <2>3, <2>4, <2>5, <2>11 DEF RepliesInv
<1>2. ASSUME NEW p \in Procs, NEW op \in scenario.ops, Call(p, op) PROVE RepliesInv' BY <1>2, CallKept
<1>3. ASSUME NEW p \in Procs, ClientStep(p) PROVE RepliesInv'
  BY <1>3, BeginFailsKept, BeginKept, CommandKept, SendKept, SendFailsKept, LocateKept, ReceiveKept,
     ReceiveFailsKept
  DEF ClientStep
<1>. QED
  BY <1>1, <1>2, <1>3, EcuHandlesKept, EcuEventKept, DeliverKept, LoseKept, EndsKept, ClearKept,
     ReadRetentionKept, PruneStepKept
  DEF Next

LEMMA AtMostOne ==
  ASSUME NEW S, \A x, y \in S : x = y
  PROVE  IsFiniteSet(S) /\ Cardinality(S) \in 0..1
<1>1. CASE S = {} BY <1>1, FS_EmptySet
<1>2. ASSUME NEW x \in S PROVE IsFiniteSet(S) /\ Cardinality(S) \in 0..1
  <2>1. S = {x} BY <1>2
  <2>. QED BY <2>1, FS_Singleton
<1>. QED BY <1>1, <1>2

\* All barriers are the last command, and the places are in order: there is one.
LEMMA BarrierIsOne ==
  ASSUME RepliesInv
  PROVE  OneBarrier
<1>. SUFFICES ASSUME faults.fenced PROVE OneBarrier BY DEF OneBarrier
<1>. DEFINE A == {i \in 1..Len(toEcu) : toEcu[i].cmd = "synch"}
            B == {i \in 1..Len(toClient) : toClient[i].kind = "marker"}
            C == {i \in Retained("rx") : log[i].pkt.kind = "marker"}
<1>1. Typed /\ OrderInv /\ OneSynch BY DEF RepliesInv, ReplyInv
<1>2. sent \in Nat /\ Len(toEcu) \in Nat /\ Len(toClient) \in Nat /\ Len(log) \in Nat BY <1>1, ElementsTyped
<1>3. \A i \in A : i \in 1..Len(toEcu) /\ toEcu[i].n = sent BY <1>1 DEF OneSynch
<1>4. \A i \in B : i \in 1..Len(toClient) /\ Returning(i) /\ toClient[i].n = sent
  <2>1. "marker" \in Answers BY DEF Answers
  <2>. QED BY <1>1, <2>1 DEF OneSynch, OrderInv, Returning
<1>5. \A i \in C : i \in 1..Len(log) /\ Received(i) /\ log[i].pkt.n = sent
  <2>1. "marker" \in Answers BY DEF Answers
  <2>2. \A i \in C : i \in 1..Len(log) /\ log[i].dir = "rx" BY DEF Retained, End
  <2>. QED BY <1>1, <2>1, <2>2 DEF OneSynch, OrderInv, Received
<1>. HIDE DEF A, B, C
<1>6. \A i, j \in A : i = j
  <2>1. \A i, j \in A : ~(i < j) /\ i \in Nat /\ j \in Nat BY <1>1, <1>2, <1>3 DEF OrderInv
  <2>. QED BY <2>1
<1>7. \A i, j \in B : i = j
  <2>1. \A i, j \in B : ~(i < j) /\ i \in Nat /\ j \in Nat BY <1>1, <1>2, <1>4 DEF OrderInv
  <2>. QED BY <2>1
<1>8. \A i, j \in C : i = j
  <2>1. \A i, j \in C : ~(i < j) /\ i \in Nat /\ j \in Nat BY <1>1, <1>2, <1>5 DEF OrderInv
  <2>. QED BY <2>1
<1>9. (A = {} \/ B = {}) /\ (A = {} \/ C = {}) /\ (B = {} \/ C = {})
  <2>1. \A i \in A, j \in B : FALSE BY <1>1, <1>2, <1>3, <1>4 DEF OrderInv
  <2>2. \A i \in A, j \in C : FALSE BY <1>1, <1>2, <1>3, <1>5 DEF OrderInv
  <2>3. \A i \in B, j \in C : FALSE BY <1>1, <1>2, <1>4, <1>5 DEF OrderInv
  <2>. QED BY <2>1, <2>2, <2>3
<1>10. Cardinality(A) \in 0..1 /\ Cardinality(B) \in 0..1 /\ Cardinality(C) \in 0..1
  BY <1>6, <1>7, <1>8, AtMostOne
<1>11. Cardinality({}) = 0 BY FS_EmptySet
<1>12. Cardinality(A) + Cardinality(B) + Cardinality(C) <= 1 BY <1>9, <1>10, <1>11
<1>. QED BY <1>12 DEF OneBarrier, A, B, C

LEMMA RepliesHold == RepliesInv => RepliesExact
<1>. SUFFICES ASSUME RepliesInv PROVE RepliesExact OBVIOUS
<1>1. Typed BY DEF RepliesInv
<1>2. TypeOK
  <2>1. sent \in Nat /\ \A p \in Procs : call[p].n \in Nat BY <1>1 DEF Typed, Calls
  <2>2. capabilities \in 0..sent /\ \A p \in Procs : call[p].n \in 0..sent
    BY <1>1, <2>1 DEF RepliesInv, NumberInv, Typed
  <2>. QED BY <1>1, <2>2 DEF TypeOK, Typed, Commands
<1>3. ReplyPaired /\ NothingOutstanding BY DEF RepliesInv, ReplyInv, ReplyPaired, NothingOutstanding
<1>4. PruneSafe BY DEF RepliesInv, RetentionInv
<1>. QED BY <1>2, <1>3, <1>4, BarrierIsOne DEF RepliesExact

LEMMA RepliesInvariant == Spec => []RepliesInv
BY InitReplies, NextReplies, PTL DEF Spec

\* For every number of goroutines, commands, faults and responses of a Read, no
\* reply is ever taken for that of another command: the last reply the client
\* trusted answers the command it was trusted for, a connected client with
\* nothing pending has nothing outstanding, at most one SYNCH is without an
\* answer, and pruning never takes the history of the active command.
THEOREM EveryReplyExact == Spec => []RepliesExact
BY RepliesInvariant, RepliesHold, PTL

-----------------------------------------------------------------------------
(* What a session remembers and reads.                                     *)

\* The capabilities are those of the last CONNECT.
CapabilityInv ==
  connected => /\ capabilities >= 1
               /\ \A i \in 1..Len(log) :
                    log[i].dir = "tx" /\ log[i].pkt.cmd = "connect" => log[i].pkt.n <= capabilities

\* A Read sets its address and then uploads, and no other call does.
PlanInv(p) ==
  LET c == call[p] IN
  /\ c.op # "read" => /\ \A i \in 1..Len(c.todo) : c.todo[i] \notin {"setmta", "upload"}
                      /\ c.cmd \notin {"setmta", "upload"} /\ c.data = <<>>
  /\ c.op = "read" =>
       /\ c.cmd \in {"none", "setmta", "upload"}
       /\ c.cmd # "upload" => c.data = <<>>
       /\ c.cmd # "none" => \A i \in 1..Len(c.todo) : c.todo[i] = "upload"
       /\ \A i \in 2..Len(c.todo) : c.todo[i] = "upload"
       /\ c.cmd = "none" /\ pc[p] = "command" => c.todo[1] = "setmta"
  /\ pc[p] = "gate" => c.op \in Operations /\ c.data = <<>> /\ c.cmd = "none" /\ c.todo = Program(c.op)

\* The results of the last command.
Replies == {toClient[i] : i \in 1..Len(toClient)} \union {log[i].pkt : i \in {k \in 1..Len(log) : Received(k)}}
Answered == {x \in Replies : x.kind = "res" /\ x.n = sent}

\* The address of the ECU is where the next upload of p reads.
AddressInv(p) ==
  LET c == call[p]
      here == ecu.mta = Len(c.data) + 1 IN
  /\ \A i \in 1..Len(c.data) : c.data[i] = i
  /\ pc[p] = "command" /\ Head(c.todo) = "upload" => here /\ pending = "none"
  /\ pc[p] = "send" /\ c.cmd = "upload" => here /\ pending = "none"
  /\ pc[p] \in {"locate", "receive"} /\ c.cmd = "setmta" => (Answered # {} => ecu.mta = 1)
  /\ pc[p] \in {"locate", "receive"} /\ c.cmd = "upload" =>
       /\ toEcu # <<>> => here
       /\ Answered # {} => ecu.mta = Len(c.data) + 2
       /\ \A x \in Answered : x.data = Len(c.data) + 1

SessionInv ==
  /\ RepliesInv
  /\ \A p \in Procs : PlanInv(p)
  /\ faults.fenced => CapabilityInv /\ \A p \in Procs : AddressInv(p)

\* q is at the same place of a call that asked, and read, the same.
Alike(q) ==
  /\ pc'[q] = pc[q] /\ call'[q].op = call[q].op /\ call'[q].todo = call[q].todo
  /\ call'[q].cmd = call[q].cmd /\ call'[q].data = call[q].data

LEMMA PlanKept ==
  ASSUME NEW q \in Procs, PlanInv(q), Alike(q)
  PROVE  PlanInv(q)'
BY DEF PlanInv, Alike

\* No result of the last command comes into being, and the ECU stays where it is.
LEMMA AddressKept ==
  ASSUME NEW q \in Procs, AddressInv(q), Alike(q), UNCHANGED pending, ecu'.mta = ecu.mta,
         toEcu' # <<>> => toEcu # <<>>, Answered' \subseteq Answered
  PROVE  AddressInv(q)'
<1>1. Answered' # {} => Answered # {} OBVIOUS
<1>2. \A x \in Answered' : x \in Answered OBVIOUS
<1>. QED BY <1>1, <1>2 DEF AddressInv, Alike

\* A call that does not own the gate needs nothing of the ECU.
LEMMA AddressAside ==
  ASSUME NEW q \in Procs, AddressInv(q), Alike(q), pc[q] \notin Owning
  PROVE  AddressInv(q)'
<1>1. pc'[q] \notin {"command", "send", "locate", "receive"} BY DEF Alike, Owning
<1>. QED BY <1>1 DEF AddressInv, Alike

LEMMA CapabilityKept ==
  ASSUME Typed, CapabilityInv, connected' => connected, capabilities' = capabilities,
         \/ log' = log
         \/ \E r \in Records : /\ log' = Append(log, r)
                               /\ connected' => ~(r.dir = "tx" /\ r.pkt.cmd = "connect")
  PROVE  CapabilityInv'
<1>1. CASE log' = log BY <1>1 DEF CapabilityInv
<1>2. ASSUME NEW r \in Records, log' = Append(log, r), connected' => ~(r.dir = "tx" /\ r.pkt.cmd = "connect")
      PROVE  CapabilityInv'
  <2>1. log \in Seq(Records) BY DEF Typed
  <2>2. /\ \A i \in 1..Len(log) : log'[i] = log[i]
        /\ log'[Len(log) + 1] = r
        /\ \A i \in 1..Len(log') : i \in 1..Len(log) \/ i = Len(log) + 1
    BY <1>2, <2>1, AppendIs
  <2>. QED BY <1>2, <2>2 DEF CapabilityInv
<1>. QED BY <1>1, <1>2

\* p's call moves, while session, capture and bus stay.
LEMMA SessionMoved ==
  ASSUME SessionInv, RepliesInv', NEW p \in Procs, Only(p), UNCHANGED <<session, log, toEcu, toClient, ecu, sent>>,
         faults'.fenced => faults.fenced, PlanInv(p)', faults.fenced => AddressInv(p)'
  PROVE  SessionInv'
<1>1. Replies' = Replies BY DEF Replies, Received
<1>2. Answered' = Answered BY <1>1 DEF Answered
<1>3. \A q \in Procs : q # p => Alike(q) BY DEF Only, Alike
<1>4. \A q \in Procs : PlanInv(q)'
  <2>1. \A q \in Procs : q # p => PlanInv(q)' BY <1>3, PlanKept DEF SessionInv
  <2>. QED BY <2>1
<1>5. ASSUME faults'.fenced PROVE CapabilityInv' /\ \A q \in Procs : AddressInv(q)'
  <2>1. CapabilityInv' BY <1>5, CapabilityKept DEF SessionInv, session, RepliesInv
  <2>2. \A q \in Procs : q # p => AddressInv(q)' BY <1>2, <1>3, <1>5, AddressKept DEF SessionInv, session
  <2>. QED BY <1>5, <2>1, <2>2
<1>. QED BY <1>4, <1>5 DEF SessionInv

\* p's call ends, with what it asked and read.
LEMMA SessionEnded ==
  ASSUME SessionInv, RepliesInv', NEW p \in Procs, NEW c, Goto(p, "idle", c), c \in Calls,
         c.op = call[p].op, c.todo = call[p].todo, c.cmd = call[p].cmd, c.data = call[p].data,
         UNCHANGED <<session, log, toEcu, toClient, ecu, sent>>, faults'.fenced => faults.fenced
  PROVE  SessionInv'
<1>1. Typed BY DEF SessionInv, RepliesInv
<1>2. pc'[p] = "idle" /\ call'[p] = c /\ Only(p)
  BY <1>1, GotoTyped DEF Only
<1>3. PlanInv(p)' BY <1>2 DEF SessionInv, PlanInv
<1>4. ASSUME faults.fenced PROVE AddressInv(p)' BY <1>2, <1>4 DEF SessionInv, AddressInv
<1>. QED BY <1>2, <1>3, <1>4, SessionMoved

LEMMA SessionFinished ==
  ASSUME SessionInv, RepliesInv', NEW p \in Procs, NEW res \in Results, NEW pend, Finish(p, res, pend, call[p]),
         UNCHANGED <<session, log, toEcu, toClient, ecu, sent>>, faults'.fenced => faults.fenced
  PROVE  SessionInv'
<1>1. call[p] \in Calls BY DEF SessionInv, RepliesInv, Typed
<1>2. PICK c : c = [call[p] EXCEPT !.res = res] OBVIOUS
<1>3. /\ c \in Calls /\ c.op = call[p].op /\ c.todo = call[p].todo /\ c.cmd = call[p].cmd
      /\ c.data = call[p].data
  BY <1>1, <1>2, CallUpdates DEF Calls
<1>4. Goto(p, "idle", c) BY <1>2 DEF Finish
<1>. QED BY <1>3, <1>4, SessionEnded

LEMMA CallReads ==
  ASSUME SessionInv, RepliesInv', NEW p \in Procs, NEW op \in scenario.ops, Call(p, op)
  PROVE  SessionInv'
<1>. PICK c : c = [NoCall EXCEPT !.op = op, !.todo = Program(op)] OBVIOUS
<1>1. Typed /\ op \in Operations BY XcpAssumption DEF SessionInv, RepliesInv, Typed
<1>2. /\ Program(op) \in Seq(Commands)
      /\ op # "read" => Program(op) = <<op>>
      /\ op = "read" => /\ Program(op)[1] = "setmta"
                        /\ \A i \in 2..Len(Program(op)) : Program(op)[i] = "upload"
  BY <1>1, ProgramTyped
<1>3. c \in Calls /\ c.op = op /\ c.todo = Program(op) /\ c.cmd = "none" /\ c.data = <<>>
  <2>1. NoCall \in Calls BY DEF NoCall, Calls, Results
  <2>2. NoCall.cmd = "none" /\ NoCall.data = <<>> BY DEF NoCall
  <2>. QED BY <1>1, <1>2, <2>1, <2>2 DEF Calls
<1>4. pc'[p] = "gate" /\ call'[p] = c /\ Only(p)
  <2>1. Goto(p, "gate", c) BY DEF Call
  <2>2. "gate" \in {"idle", "gate"} \union Owning OBVIOUS
  <2>3. /\ pc'[p] = "gate" /\ call'[p] = c
        /\ \A q \in Procs : q # p => pc'[q] = pc[q] /\ call'[q] = call[q]
    <3>1. Typed /\ c \in Calls BY <1>1, <1>3
    <3>. QED BY <2>1, <2>2, <3>1, GotoTyped
  <2>. QED BY <2>3 DEF Only
<1>5. PlanInv(p)'
  <2>1. op # "read" => \A i \in 1..Len(Program(op)) : Program(op)[i] \notin {"setmta", "upload"}
    <3>1. op \notin {"setmta", "upload"} BY <1>1 DEF Operations
    <3>2. \A i \in 1..Len(<<op>>) : <<op>>[i] = op OBVIOUS
    <3>. QED BY <1>2, <3>1, <3>2
  <2>. QED BY <1>1, <1>2, <1>3, <1>4, <2>1 DEF PlanInv
<1>6. AddressInv(p)' BY <1>3, <1>4 DEF AddressInv
<1>7. UNCHANGED <<session, log, toEcu, toClient, ecu, sent>> BY DEF Call, capture, bus
<1>8. faults'.fenced => faults.fenced BY <1>1, FaultsUpdates DEF Call
<1>. QED BY <1>4, <1>5, <1>6, <1>7, <1>8, SessionMoved

LEMMA BeginFailsReads ==
  ASSUME SessionInv, RepliesInv', NEW p \in Procs, BeginFails(p)
  PROVE  SessionInv'
<1>1. call[p] \in Calls BY DEF SessionInv, RepliesInv, Typed
<1>2. PICK cause \in Causes(p) : Goto(p, "idle", [call[p] EXCEPT !.res = cause]) BY DEF BeginFails
<1>3. PICK c : c = [call[p] EXCEPT !.res = cause] OBVIOUS
<1>4. /\ c \in Calls /\ c.op = call[p].op /\ c.todo = call[p].todo /\ c.cmd = call[p].cmd
      /\ c.data = call[p].data
  BY <1>1, <1>2, <1>3, CausesTyped DEF Calls
<1>5. UNCHANGED <<session, log, toEcu, toClient, ecu, sent, faults>> BY DEF BeginFails, capture, bus
<1>. QED BY <1>2, <1>3, <1>4, <1>5, SessionEnded

LEMMA BeginReads ==
  ASSUME SessionInv, RepliesInv', NEW p \in Procs, Begin(p)
  PROVE  SessionInv'
<1>1. Typed /\ call[p] \in Calls /\ PlanInv(p) BY DEF SessionInv, RepliesInv, Typed
<1>2. UNCHANGED <<session, log, toEcu, toClient, ecu, sent, faults>> BY DEF Begin, capture, bus
<1>3. CASE \E cause \in Causes(p) : Finish(p, cause, pending, call[p])
  BY <1>2, <1>3, CausesTyped, SessionFinished
<1>4. CASE Finish(p, Refusal(call[p].op), pending, call[p])
  <2>1. Refusal(call[p].op) \in Results BY DEF Refusal, Results
  <2>. QED BY <1>2, <1>4, <2>1, SessionFinished
<1>5. CASE Goto(p, "command", call[p])
  <2>1. pc'[p] = "command" /\ call'[p] = call[p] /\ Only(p) BY <1>1, <1>5, GotoTyped DEF Only, Owning
  <2>2. /\ call[p].op \in Operations /\ call[p].data = <<>> /\ call[p].cmd = "none"
        /\ call[p].todo = Program(call[p].op)
    BY <1>1 DEF Begin, PlanInv
  <2>3. /\ call[p].todo # <<>> /\ call[p].todo \in Seq(Commands)
        /\ call[p].op # "read" => call[p].todo = <<call[p].op>>
        /\ call[p].op = "read" => call[p].todo[1] = "setmta"
    BY <2>2, ProgramTyped
  <2>4. PlanInv(p)' BY <1>1, <2>1, <2>2, <2>3 DEF PlanInv
  <2>5. Head(call[p].todo) # "upload"
    <3>1. Head(call[p].todo) = call[p].todo[1] BY <2>3, TailIs
    <3>2. call[p].op # "read" => call[p].todo[1] = call[p].op BY <2>3
    <3>3. call[p].op # "upload" BY <2>2 DEF Operations
    <3>. QED BY <2>3, <3>1, <3>2, <3>3
  <2>6. AddressInv(p)' BY <2>1, <2>2, <2>5 DEF AddressInv
  <2>. QED BY <1>2, <2>1, <2>4, <2>6, SessionMoved
<1>. QED BY <1>3, <1>4, <1>5 DEF Begin

LEMMA CommandReads ==
  ASSUME SessionInv, RepliesInv', NEW p \in Procs, Command(p)
  PROVE  SessionInv'
<1>. PICK cmd : cmd = Head(call[p].todo) OBVIOUS
<1>. PICK recovering \in BOOLEAN : recovering = (cmd = "connect" /\ pending \in {"connect", "disconnect"}) OBVIOUS
<1>. PICK next : next = [call[p] EXCEPT !.cmd = cmd, !.todo = Tail(@), !.recovering = recovering] OBVIOUS
<1>1. /\ Typed /\ call[p] \in Calls /\ PlanInv(p) /\ pc[p] = "command"
      /\ call[p].todo # <<>> /\ call[p].todo \in Seq(Commands)
  BY DEF SessionInv, RepliesInv, Typed, Command, CallInv, Calls
<1>2. UNCHANGED <<session, log, toEcu, toClient, ecu, sent, faults>> BY DEF Command, capture, bus
<1>3. /\ cmd \in Commands /\ Tail(call[p].todo) \in Seq(Commands) /\ cmd = call[p].todo[1]
      /\ 1 \in 1..Len(call[p].todo)
      /\ \A i \in 1..Len(Tail(call[p].todo)) :
           Tail(call[p].todo)[i] = call[p].todo[i + 1] /\ i + 1 \in 2..Len(call[p].todo)
  <2>1. \A i \in 1..Len(Tail(call[p].todo)) : i + 1 >= 2 OBVIOUS
  <2>. QED BY <1>1, <2>1, TailIs
<1>4. /\ next \in Calls /\ next.cmd = cmd /\ next.todo = Tail(call[p].todo) /\ next.op = call[p].op
      /\ next.data = call[p].data
  <2>1. next \in Calls BY <1>1, <1>3, CallUpdates
  <2>. QED BY <1>1, <2>1 DEF Calls
<1>5. CASE \E cause \in Causes(p) : Finish(p, cause, pending, call[p])
  BY <1>2, <1>5, CausesTyped, SessionFinished
<1>6. CASE Finish(p, ValidateRequest(cmd), pending, call[p])
  <2>1. ValidateRequest(cmd) \in Results BY DEF ValidateRequest, Results
  <2>. QED BY <1>2, <1>6, <2>1, SessionFinished
<1>7. ASSUME NEW c \in Calls, NEW at \in {"send", "receive"}, Goto(p, at, c), c.cmd = cmd,
             c.todo = Tail(call[p].todo), c.op = call[p].op, c.data = call[p].data,
             at = "send" /\ cmd = "upload" => pending = "none", at = "receive" => cmd = "synch"
      PROVE  SessionInv'
  <2>1. pc'[p] = at /\ call'[p] = c /\ Only(p) BY <1>1, <1>7, GotoTyped DEF Only, Owning
  <2>2. PlanInv(p)'
    <3>1. c.op # "read" => /\ \A i \in 1..Len(c.todo) : c.todo[i] \notin {"setmta", "upload"}
                           /\ c.cmd \notin {"setmta", "upload"} /\ c.data = <<>>
      BY <1>1, <1>3, <1>7 DEF PlanInv
    <3>2. c.op = "read" => \A i \in 1..Len(c.todo) : c.todo[i] = "upload" BY <1>1, <1>3, <1>7 DEF PlanInv
    <3>3. c.op = "read" => c.cmd \in {"setmta", "upload"} /\ (c.cmd # "upload" => c.data = <<>>)
      <4>1. ASSUME c.op = "read", call[p].cmd = "none" PROVE cmd = "setmta" /\ c.data = <<>>
        BY <1>1, <1>3, <1>7, <4>1 DEF PlanInv
      <4>2. ASSUME c.op = "read", call[p].cmd # "none" PROVE cmd = "upload"
        BY <1>1, <1>3, <1>7, <4>2 DEF PlanInv
      <4>. QED BY <1>7, <4>1, <4>2
    <3>4. \A i \in 2..Len(c.todo) : i \in 1..Len(c.todo) OBVIOUS
    <3>5. at \notin {"gate", "command"} BY <1>7
    <3>. QED BY <2>1, <3>1, <3>2, <3>3, <3>4, <3>5 DEF PlanInv
  <2>3. ASSUME faults.fenced PROVE AddressInv(p)'
    <3>1. AddressInv(p) BY <2>3 DEF SessionInv
    <3>2. /\ \A i \in 1..Len(call[p].data) : call[p].data[i] = i
          /\ cmd = "upload" => ecu.mta = Len(call[p].data) + 1
      BY <1>1, <3>1 DEF AddressInv
    <3>. QED BY <1>2, <1>7, <2>1, <3>2 DEF AddressInv, session
  <2>. QED BY <1>2, <2>1, <2>2, <2>3, SessionMoved
<1>8. CASE Resumes(cmd) /\ Goto(p, "receive", [next EXCEPT !.n = sent])
  <2>1. PICK c : c = [next EXCEPT !.n = sent] OBVIOUS
  <2>2. sent \in Nat BY <1>1, ElementsTyped
  <2>3. c \in Calls /\ c.cmd = cmd /\ c.todo = next.todo /\ c.op = next.op /\ c.data = next.data
    <3>1. c \in Calls BY <1>4, <2>1, <2>2, CallUpdates
    <3>2. next \in Calls /\ next.cmd = cmd BY <1>4
    <3>. QED BY <2>1, <3>1, <3>2 DEF Calls
  <2>4. cmd = "synch" BY <1>8 DEF Resumes
  <2>. QED BY <1>4, <1>7, <1>8, <2>1, <2>3, <2>4
<1>9. CASE ValidateRequest(cmd) = "none" /\ Goto(p, "send", next)
  <2>1. cmd = "upload" => pending = "none" BY <1>9 DEF ValidateRequest
  <2>. QED BY <1>4, <1>7, <1>9, <2>1
<1>. QED BY <1>5, <1>6, <1>8, <1>9 DEF Command

LEMMA SendFailsReads ==
  ASSUME SessionInv, RepliesInv', NEW p \in Procs, SendFails(p)
  PROVE  SessionInv'
<1>1. UNCHANGED <<session, log, toEcu, toClient, ecu, sent>> BY DEF SendFails, capture, bus
<1>2. PICK res \in Causes(p) \union {"queue"} :
        /\ Finish(p, res, pending, call[p])
        /\ faults' = [faults EXCEPT !.ends = IF res = "queue" THEN @ + 1 ELSE @]
  BY DEF SendFails
<1>3. res \in Results BY <1>2 DEF Causes, Results
<1>4. faults'.fenced = faults.fenced
  <2>1. faults \in Faults BY DEF SessionInv, RepliesInv, Typed
  <2>. QED BY <1>2, <2>1 DEF Faults
<1>. QED BY <1>1, <1>2, <1>3, <1>4, SessionFinished

LEMMA LocateReads ==
  ASSUME SessionInv, RepliesInv', NEW p \in Procs, Locate(p)
  PROVE  SessionInv'
<1>1. Typed /\ call[p] \in Calls /\ PlanInv(p) /\ pc[p] = "locate" BY DEF SessionInv, RepliesInv, Typed, Locate
<1>2. UNCHANGED <<session, log, toEcu, toClient, ecu, sent, faults>> BY DEF Locate, capture, bus
<1>3. CASE Finish(p, "range", pending, call[p])
  <2>1. "range" \in Results BY DEF Results
  <2>. QED BY <1>2, <1>3, <2>1, SessionFinished
<1>4. CASE Goto(p, "receive", call[p])
  <2>1. pc'[p] = "receive" /\ call'[p] = call[p] /\ Only(p) BY <1>1, <1>4, GotoTyped DEF Only, Owning
  <2>2. PlanInv(p)' BY <1>1, <2>1 DEF PlanInv
  <2>3. ASSUME faults.fenced PROVE AddressInv(p)'
    <3>1. AddressInv(p) BY <2>3 DEF SessionInv
    <3>2. Answered' = Answered BY <1>2 DEF Answered, Replies, Received
    <3>. QED BY <1>1, <1>2, <2>1, <3>1, <3>2 DEF AddressInv
  <2>. QED BY <1>2, <2>1, <2>2, <2>3, SessionMoved
<1>. QED BY <1>3, <1>4 DEF Locate

LEMMA ReceiveFailsReads ==
  ASSUME SessionInv, RepliesInv', NEW p \in Procs, ReceiveFails(p)
  PROVE  SessionInv'
<1>1. pc[p] = "receive" /\ CallInv(p) BY DEF SessionInv, RepliesInv, ReceiveFails
<1>2. Recovered(call[p], pending) = pending BY <1>1 DEF CallInv, Recovered
<1>3. PICK res \in Causes(p) \union (IF ValidCursor(cursor) THEN {"timeout"} ELSE {"range"}) :
        Reject(p, res, pending)
  BY DEF ReceiveFails
<1>4. res \in Results BY <1>3 DEF Causes, Results
<1>5. Finish(p, res, pending, call[p]) /\ UNCHANGED <<session, log, toEcu, toClient, ecu, sent, faults>>
  BY <1>2, <1>3 DEF Reject, ReceiveFails, session, capture, bus
<1>. QED BY <1>4, <1>5, SessionFinished

LEMMA SendReads ==
  ASSUME SessionInv, RepliesInv', NEW p \in Procs, Send(p)
  PROVE  SessionInv'
<1>. PICK r : r = [dir |-> "tx", pkt |-> [cmd |-> call[p].cmd, n |-> sent + 1]] OBVIOUS
<1>1. /\ RepliesInv /\ Typed /\ OrderInv /\ call[p] \in Calls /\ PlanInv(p) /\ CallInv(p) /\ pc[p] = "send"
      /\ MayStep(p)
  BY DEF SessionInv, RepliesInv, Typed, Send, MayStep, Owning
<1>2. /\ log' = Append(log, r) /\ sent' = sent + 1
      /\ connected' = (connected /\ call[p].cmd \notin {"connect", "disconnect", "other"})
      /\ UNCHANGED <<capabilities, toClient, ecu, faults>>
      /\ Goto(p, "locate", [call[p] EXCEPT !.n = sent + 1])
  BY DEF Send
<1>3. sent \in Nat /\ sent + 1 \in Nat /\ call[p].cmd \in Commands BY <1>1, ElementsTyped DEF CallInv
<1>4. r \in Records /\ r.dir = "tx" /\ r.pkt.cmd = call[p].cmd BY <1>3 DEF Records, CommandFrames
<1>5. PICK c : c = [call[p] EXCEPT !.n = sent + 1] OBVIOUS
<1>6. /\ c \in Calls /\ c.cmd = call[p].cmd /\ c.todo = call[p].todo /\ c.op = call[p].op
      /\ c.data = call[p].data
  <2>1. c \in Calls BY <1>1, <1>3, <1>5, CallUpdates
  <2>. QED BY <1>1, <1>5, <2>1 DEF Calls
<1>7. pc'[p] = "locate" /\ call'[p] = c /\ Only(p)
  <2>1. Goto(p, "locate", c) /\ "locate" \in {"idle", "gate"} \union Owning BY <1>2, <1>5 DEF Owning
  <2>. QED BY <1>1, <1>6, <2>1, GotoTyped DEF Only
<1>8. \A q \in Procs : q # p => Alike(q) /\ pc[q] \notin Owning
  <2>1. \A q \in Procs : q # p => pc[q] \notin Owning
    BY <1>1, <1>7, OthersKept DEF RepliesInv
  <2>. QED BY <1>7, <2>1 DEF Only, Alike
<1>9. \A q \in Procs : PlanInv(q)'
  <2>1. PlanInv(p)' BY <1>1, <1>6, <1>7 DEF PlanInv
  <2>2. \A q \in Procs : q # p => PlanInv(q)' BY <1>8, PlanKept DEF SessionInv
  <2>. QED BY <2>1, <2>2
<1>10. ASSUME faults'.fenced PROVE CapabilityInv' /\ \A q \in Procs : AddressInv(q)'
  <2>1. CapabilityInv /\ \A q \in Procs : AddressInv(q) BY <1>2, <1>10 DEF SessionInv
  <2>2. CapabilityInv'
    <3>1. connected' => connected /\ ~(r.dir = "tx" /\ r.pkt.cmd = "connect") BY <1>2, <1>4
    <3>. QED BY <1>1, <1>2, <1>4, <2>1, <3>1, CapabilityKept
  <2>3. \A q \in Procs : q # p => AddressInv(q)' BY <1>8, <2>1, AddressAside
  <2>4. Answered' = {}
    <3>1. /\ Len(log) \in Nat /\ log'[Len(log) + 1] = r
          /\ \A i \in 1..Len(log) : log'[i] = log[i]
          /\ \A i \in 1..Len(log') : i \in 1..Len(log) \/ i = Len(log) + 1
      BY <1>1, <1>2, <1>4, AppendIs DEF Typed
    <3>2. \A i \in 1..Len(log') : Received(i)' => i \in 1..Len(log) /\ log'[i] = log[i]
      BY <1>4, <3>1 DEF Received
    <3>3. \A i \in 1..Len(log) : log[i].pkt.n \in Nat /\ log[i].pkt.n <= sent
      BY <1>1, ElementsTyped DEF OrderInv
    <3>4. \A i \in 1..Len(toClient) : toClient[i].n \in Nat /\ toClient[i].n <= sent
      BY <1>1, ElementsTyped DEF OrderInv
    <3>5. \A x \in Replies' : x.n \in Nat /\ x.n <= sent BY <1>2, <3>2, <3>3, <3>4 DEF Replies
    <3>6. \A x \in Replies' : x.n # sent' BY <1>2, <1>3, <3>5
    <3>. QED BY <3>6 DEF Answered
  <2>5. AddressInv(p)'
    <3>1. /\ \A i \in 1..Len(call[p].data) : call[p].data[i] = i
          /\ call[p].cmd = "upload" => ecu.mta = Len(call[p].data) + 1
      BY <1>1, <2>1 DEF AddressInv
    <3>. QED BY <1>2, <1>6, <1>7, <2>4, <3>1 DEF AddressInv
  <2>. QED BY <2>2, <2>3, <2>5
<1>. QED BY <1>9, <1>10 DEF SessionInv

\* The reply that a command trusts is the last command's.
LEMMA LastReply ==
  ASSUME RepliesInv, faults.fenced, NEW p \in Procs, pc[p] = "receive", call[p].cmd # "synch",
         ~call[p].recovering, NEW i \in Retained("rx"), log[i].pkt.kind \in Answers
  PROVE  /\ log[i].pkt.n = sent /\ sent >= 1
         /\ log[i].pkt.kind = "res" => log[i].pkt \in Answered
<1>1. Trusting(p) /\ Alone BY DEF Trusting, RepliesInv, ReplyInv
<1>2. i \in 1..Len(log) /\ log[i].dir = "rx" BY DEF Retained, End
<1>3. log[i].pkt.n > 0 /\ log[i].pkt.n \in Nat BY <1>2, ElementsTyped DEF RepliesInv, OrderInv
<1>4. Received(i) BY <1>2, <1>3 DEF Received
<1>5. log[i].pkt.n = sent BY <1>1, <1>4 DEF Alone
<1>6. log[i].pkt \in Replies BY <1>2, <1>4 DEF Replies
<1>. QED BY <1>3, <1>5, <1>6 DEF Answered

\* The capture and the bus stay when a packet is read.
LEMMA SessionRead ==
  ASSUME SessionInv, RepliesInv', NEW p \in Procs, Only(p), MayStep(p),
         faults'.fenced => faults.fenced, PlanInv(p)', faults.fenced => CapabilityInv' /\ AddressInv(p)'
  PROVE  SessionInv'
<1>1. RepliesInv BY DEF SessionInv
<1>2. \A q \in Procs : q # p => Alike(q) /\ pc[q] \notin Owning
  <2>1. \A q \in Procs : q # p => pc[q] \notin Owning BY <1>1, OthersKept DEF RepliesInv
  <2>. QED BY <2>1 DEF Only, Alike
<1>3. \A q \in Procs : PlanInv(q)'
  <2>1. \A q \in Procs : q # p => PlanInv(q)' BY <1>2, PlanKept DEF SessionInv
  <2>. QED BY <2>1
<1>4. ASSUME faults'.fenced PROVE CapabilityInv' /\ \A q \in Procs : AddressInv(q)'
  <2>1. \A q \in Procs : q # p => AddressInv(q)' BY <1>2, <1>4, AddressAside DEF SessionInv
  <2>. QED BY <1>4, <2>1
<1>. QED BY <1>3, <1>4 DEF SessionInv

\* A packet that ends the call leaves what was read, and no session is gained.
LEMMA RejectReads ==
  ASSUME SessionInv, RepliesInv', NEW p \in Procs, NEW res \in Results, NEW pend, MayStep(p),
         Finish(p, res, pend, call[p]), connected' => connected, capabilities' = capabilities, log' = log,
         faults'.fenced => faults.fenced
  PROVE  SessionInv'
<1>1. Typed /\ call[p] \in Calls BY DEF SessionInv, RepliesInv, Typed
<1>2. PICK c : c = [call[p] EXCEPT !.res = res] OBVIOUS
<1>3. /\ c \in Calls /\ c.op = call[p].op /\ c.todo = call[p].todo /\ c.cmd = call[p].cmd
      /\ c.data = call[p].data
  BY <1>1, <1>2, CallUpdates DEF Calls
<1>4. Goto(p, "idle", c) BY <1>2 DEF Finish
<1>5. pc'[p] = "idle" /\ call'[p] = c /\ Only(p) BY <1>1, <1>3, <1>4, GotoTyped DEF Only
<1>6. PlanInv(p)' BY <1>3, <1>5 DEF SessionInv, PlanInv
<1>7. ASSUME faults.fenced PROVE CapabilityInv' /\ AddressInv(p)'
  <2>1. CapabilityInv' BY <1>1, <1>7, CapabilityKept DEF SessionInv
  <2>2. AddressInv(p)' BY <1>3, <1>5, <1>7 DEF SessionInv, AddressInv
  <2>. QED BY <2>1, <2>2
<1>. QED BY <1>5, <1>6, <1>7, SessionRead

\* A reply that settles a command: the capabilities are those of the CONNECT just
\* answered, and an upload brings the next part of the memory.
LEMMA SettleReads ==
  ASSUME SessionInv, RepliesInv', NEW p \in Procs, NEW i \in Retained("rx"), pc[p] = "receive",
         Settle(p, log[i].pkt), log[i].pkt.kind \in Answers,
         call[p].cmd # "synch" => log[i].pkt.kind = "res",
         log' = log, UNCHANGED <<toEcu, toClient, ecu, sent>>, faults'.fenced => faults.fenced
  PROVE  SessionInv'
<1>. PICK pkt : pkt = log[i].pkt OBVIOUS
<1>1. /\ RepliesInv /\ Typed /\ OrderInv /\ call[p] \in Calls /\ PlanInv(p) /\ CallInv(p) /\ MayStep(p)
      /\ call[p].todo \in Seq(Commands) /\ call[p].data \in Seq(Nat)
  BY DEF SessionInv, RepliesInv, Typed, MayStep, Owning, Calls
<1>2. call[p].cmd \in Commands /\ (call[p].recovering => call[p].cmd = "connect") BY <1>1 DEF CallInv
<1>3. i \in 1..Len(log) /\ pkt.n \in Nat /\ pkt.data \in Nat /\ sent \in Nat
  <2>1. i \in 1..Len(log) /\ log[i].dir = "rx" BY DEF Retained, End
  <2>2. log[i] \in Records /\ sent \in Nat BY <1>1, <2>1, ElementsTyped
  <2>3. pkt \in Packets BY <2>1, <2>2 DEF Records
  <2>. QED BY <2>1, <2>2, <2>3 DEF Packets
<1>4. "command" \in {"idle", "gate"} \union Owning /\ "idle" \in {"idle", "gate"} \union Owning BY DEF Owning
<1>5. CASE call[p].recovering
  <2>1. PICK todo : todo = <<"synch", "connect">> \o call[p].todo OBVIOUS
  <2>2. /\ todo \in Seq(Commands) /\ todo # <<>> /\ todo[1] = "synch"
        /\ \A k \in 1..Len(todo) : todo[k] \in {"synch", "connect"} \/ \E j \in 1..Len(call[p].todo) : todo[k] = call[p].todo[j]
    <3>. PICK s : s = <<"synch", "connect">> OBVIOUS
    <3>1. s \in Seq(Commands) /\ Len(s) = 2 /\ s[1] = "synch" /\ s[2] = "connect" BY DEF Commands
    <3>2. /\ todo \in Seq(Commands) /\ Len(todo) = Len(s) + Len(call[p].todo)
          /\ \A k \in 1..Len(s) + Len(call[p].todo) :
               todo[k] = IF k <= Len(s) THEN s[k] ELSE call[p].todo[k - Len(s)]
      BY <1>1, <2>1, <3>1, ConcatProperties
    <3>3. Len(call[p].todo) \in Nat BY <1>1, LenProperties
    <3>4. todo # <<>> /\ todo[1] = "synch" BY <3>1, <3>2, <3>3
    <3>5. ASSUME NEW k \in 1..Len(todo)
          PROVE todo[k] \in {"synch", "connect"} \/ \E j \in 1..Len(call[p].todo) : todo[k] = call[p].todo[j]
      <4>1. CASE k <= 2
        <5>1. k = 1 \/ k = 2 BY <4>1
        <5>. QED BY <3>1, <3>2, <3>3, <5>1
      <4>2. CASE ~(k <= 2)
        <5>1. k - 2 \in 1..Len(call[p].todo) /\ todo[k] = call[p].todo[k - 2] BY <3>1, <3>2, <3>3, <4>2
        <5>. QED BY <5>1
      <4>. QED BY <4>1, <4>2
    <3>. QED BY <3>2, <3>4, <3>5
  <2>3. PICK c : c = [call[p] EXCEPT !.todo = todo] OBVIOUS
  <2>4. c \in Calls /\ c.todo = todo /\ c.cmd = call[p].cmd /\ c.op = call[p].op /\ c.data = call[p].data
    <3>1. c \in Calls BY <1>1, <2>2, <2>3, CallUpdates
    <3>. QED BY <1>1, <2>3, <3>1 DEF Calls
  <2>5. Goto(p, "command", c) /\ UNCHANGED session
    <3>1. c = [call[p] EXCEPT !.todo = <<"synch", "connect">> \o @] BY <2>1, <2>3
    <3>. QED BY <1>5, <3>1 DEF Settle, IsCandidate
  <2>6. pc'[p] = "command" /\ call'[p] = c /\ Only(p) BY <1>1, <1>4, <2>4, <2>5, GotoTyped DEF Only
  <2>7. PlanInv(p)'
    <3>1. call[p].op # "read" BY <1>1, <1>2, <1>5 DEF PlanInv
    <3>2. \A k \in 1..Len(call[p].todo) : call[p].todo[k] \notin {"setmta", "upload"} BY <1>1, <3>1 DEF PlanInv
    <3>3. \A k \in 1..Len(todo) : todo[k] \notin {"setmta", "upload"} BY <2>2, <3>2
    <3>. QED BY <1>1, <2>4, <2>6, <3>1, <3>3 DEF PlanInv
  <2>8. Head(todo) # "upload" BY <2>2, TailIs
  <2>9. ASSUME faults.fenced PROVE CapabilityInv' /\ AddressInv(p)'
    <3>1. CapabilityInv' BY <1>1, <2>5, <2>9, CapabilityKept DEF SessionInv, session
    <3>2. AddressInv(p)' BY <2>4, <2>6, <2>8, <2>9 DEF SessionInv, AddressInv
    <3>. QED BY <3>1, <3>2
  <2>. QED BY <1>1, <2>6, <2>7, <2>9, SessionRead
<1>6. CASE ~call[p].recovering
  <2>1. PICK d : d = IF call[p].cmd = "upload" THEN Append(call[p].data, pkt.data) ELSE call[p].data OBVIOUS
  <2>2. d \in Seq(Nat) BY <1>1, <1>3, <2>1, AppendProperties
  <2>3. PICK c : c = [call[p] EXCEPT !.data = d] OBVIOUS
  <2>4. c \in Calls /\ c.cmd = call[p].cmd /\ c.todo = call[p].todo /\ c.op = call[p].op /\ c.data = d
    <3>1. c \in Calls BY <1>1, <2>2, <2>3, CallUpdates
    <3>. QED BY <1>1, <2>3, <3>1 DEF Calls
  <2>5. /\ pending' = "none"
        /\ connected' = (connected \/ call[p].cmd = "connect")
        /\ capabilities' = IF call[p].cmd = "connect" THEN pkt.n ELSE capabilities
        /\ IF call[p].todo = <<>> THEN Finish(p, "ok", "none", c)
           ELSE Goto(p, "command", c) /\ UNCHANGED <<gate, retaining>>
    <3>1. c = [call[p] EXCEPT !.data = IF call[p].cmd = "upload" THEN Append(@, pkt.data) ELSE @]
      BY <2>1, <2>3
    <3>. QED BY <1>6, <3>1 DEF Settle, IsCandidate
  <2>6. PICK at \in {"command", "idle"}, e \in Calls :
          /\ Goto(p, at, e) /\ e.cmd = call[p].cmd /\ e.todo = call[p].todo /\ e.op = call[p].op /\ e.data = d
          /\ at = "command" => call[p].todo # <<>>
    <3>1. CASE call[p].todo # <<>> BY <2>4, <2>5, <3>1
    <3>2. CASE call[p].todo = <<>>
      <4>1. PICK e : e = [c EXCEPT !.res = "ok"] OBVIOUS
      <4>2. "ok" \in Results BY DEF Results
      <4>3. e \in Calls BY <2>4, <4>1, <4>2, CallUpdates
      <4>4. e.cmd = c.cmd /\ e.todo = c.todo /\ e.op = c.op /\ e.data = c.data BY <2>4, <4>1, <4>3 DEF Calls
      <4>5. Goto(p, "idle", e) BY <2>5, <3>2, <4>1 DEF Finish
      <4>. QED BY <2>4, <4>3, <4>4, <4>5
    <3>. QED BY <3>1, <3>2
  <2>7. pc'[p] = at /\ call'[p] = e /\ Only(p) BY <1>1, <1>4, <2>6, GotoTyped DEF Only
  <2>8. PlanInv(p)'
    <3>1. CASE call[p].op = "read"
      <4>1. /\ call[p].cmd \in {"setmta", "upload"}
            /\ (call[p].cmd # "upload" => call[p].data = <<>>)
            /\ \A k \in 1..Len(call[p].todo) : call[p].todo[k] = "upload"
            /\ \A k \in 2..Len(call[p].todo) : call[p].todo[k] = "upload"
        BY <1>1, <1>2, <3>1 DEF PlanInv, Commands
      <4>. QED BY <2>1, <2>6, <2>7, <3>1, <4>1 DEF PlanInv
    <3>2. CASE call[p].op # "read"
      <4>1. /\ call[p].cmd \notin {"setmta", "upload"} /\ call[p].data = <<>>
            /\ \A k \in 1..Len(call[p].todo) : call[p].todo[k] \notin {"setmta", "upload"}
        BY <1>1, <3>2 DEF PlanInv
      <4>. QED BY <2>1, <2>6, <2>7, <3>2, <4>1 DEF PlanInv
    <3>. QED BY <3>1, <3>2
  <2>9. ASSUME faults.fenced PROVE CapabilityInv' /\ AddressInv(p)'
    <3>1. CapabilityInv /\ AddressInv(p) BY <2>9 DEF SessionInv
    <3>2. call[p].cmd # "synch" => pkt.n = sent /\ sent >= 1 /\ pkt \in Answered
      BY <1>1, <1>6, <2>9, LastReply
    <3>3. CapabilityInv'
      <4>1. CASE call[p].cmd = "connect"
        <5>1. capabilities' = sent /\ sent >= 1 BY <2>5, <3>2, <4>1
        <5>. QED BY <1>1, <5>1 DEF CapabilityInv, OrderInv
      <4>2. CASE call[p].cmd # "connect"
        <5>1. (connected' => connected) /\ capabilities' = capabilities BY <2>5, <4>2
        <5>. QED BY <1>1, <3>1, <5>1, CapabilityKept
      <4>. QED BY <4>1, <4>2
    <3>4. CASE call[p].cmd = "upload"
      <4>1. ecu.mta = Len(call[p].data) + 2 /\ pkt.data = Len(call[p].data) + 1
        BY <3>1, <3>2, <3>4 DEF AddressInv
      <4>2. /\ Len(call[p].data) \in Nat /\ Len(d) = Len(call[p].data) + 1
            /\ \A k \in 1..Len(call[p].data) : d[k] = call[p].data[k]
            /\ d[Len(call[p].data) + 1] = pkt.data
            /\ \A k \in 1..Len(call[p].data) + 1 : k \in 1..Len(call[p].data) \/ k = Len(call[p].data) + 1
        BY <1>1, <1>3, <2>1, <3>4, AppendIs
      <4>3. \A k \in 1..Len(d) : d[k] = k BY <3>1, <4>1, <4>2 DEF AddressInv
      <4>4. ecu.mta = Len(d) + 1 BY <4>1, <4>2
      <4>5. AddressInv(p)' BY <2>5, <2>6, <2>7, <4>3, <4>4 DEF AddressInv
      <4>. QED BY <3>3, <4>5
    <3>5. CASE call[p].cmd # "upload"
      <4>1. d = call[p].data BY <2>1, <3>5
      <4>2. \A k \in 1..Len(d) : d[k] = k BY <3>1, <4>1 DEF AddressInv
      <4>3. ASSUME at = "command", Head(call[p].todo) = "upload" PROVE ecu.mta = Len(d) + 1
        <5>1. 1 \in 1..Len(call[p].todo) /\ call[p].todo[1] = "upload"
          <6>1. call[p].todo # <<>> BY <2>6, <4>3
          <6>. QED BY <1>1, <4>3, <6>1, TailIs
        <5>2. call[p].op = "read" BY <1>1, <5>1 DEF PlanInv
        <5>3. call[p].cmd = "setmta" /\ call[p].data = <<>> BY <1>1, <1>2, <3>5, <5>2 DEF PlanInv, Commands
        <5>4. ecu.mta = 1 BY <3>1, <3>2, <5>3 DEF AddressInv
        <5>. QED BY <4>1, <5>3, <5>4
      <4>4. AddressInv(p)' BY <2>5, <2>6, <2>7, <4>2, <4>3 DEF AddressInv
      <4>. QED BY <3>3, <4>4
    <3>. QED BY <3>4, <3>5
  <2>. QED BY <1>1, <2>7, <2>8, <2>9, SessionRead
<1>. QED BY <1>5, <1>6

LEMMA ReceiveReads ==
  ASSUME SessionInv, RepliesInv', NEW p \in Procs, Receive(p)
  PROVE  SessionInv'
<1>. PICK i : i = Min(Retained("rx")) OBVIOUS
<1>. PICK pkt : pkt = log[i].pkt OBVIOUS
<1>1. /\ RepliesInv /\ Typed /\ OrderInv /\ call[p] \in Calls /\ PlanInv(p) /\ CallInv(p) /\ pc[p] = "receive"
      /\ MayStep(p)
  BY DEF SessionInv, RepliesInv, Typed, Receive, MayStep, Owning
<1>2. i \in 1..Len(log) /\ log[i].dir = "rx" /\ i \in Retained("rx") BY <1>1, NextRetained DEF Receive
<1>3. pkt.kind \in Kinds /\ pkt.kind # "none"
  <2>1. log[i] \in Records BY <1>1, <1>2, ElementsTyped
  <2>2. pkt \in Packets BY <1>2, <2>1 DEF Records
  <2>. QED BY <1>1, <1>2, <2>2 DEF OrderInv, Packets
<1>4. /\ OnPacket(p, pkt) /\ log' = log /\ UNCHANGED <<toEcu, toClient, ecu, sent>>
      /\ faults' = [faults EXCEPT !.fenced = @ /\ ~(pkt.kind = "terminated" /\ Outstanding(i))]
  BY DEF Receive, capture, bus
<1>5. faults'.fenced => faults.fenced BY <1>1, <1>4, FaultsUpdates
<1>6. CASE Goto(p, "receive", call[p]) /\ UNCHANGED <<session, gate, retaining, trusted>>
  <2>1. pc'[p] = "receive" /\ call'[p] = call[p] /\ Only(p) BY <1>1, <1>6, GotoTyped DEF Only, Owning
  <2>2. Alike(p) BY <1>1, <2>1 DEF Alike
  <2>3. PlanInv(p)' BY <1>1, <2>2, PlanKept
  <2>4. ASSUME faults.fenced PROVE AddressInv(p)'
    <3>1. Answered' = Answered BY <1>4 DEF Answered, Replies, Received
    <3>. QED BY <1>4, <1>6, <2>2, <2>4, <3>1, AddressKept DEF SessionInv, session
  <2>. QED BY <1>4, <1>5, <1>6, <2>1, <2>3, <2>4, SessionMoved
<1>7. ASSUME NEW res \in Results, NEW pend, Reject(p, res, pend), UNCHANGED connected PROVE SessionInv'
  BY <1>1, <1>4, <1>5, <1>7, RejectReads DEF Reject
<1>8. CASE pkt.kind \in {"daq", "pending"} BY <1>4, <1>6, <1>8 DEF OnPacket
<1>9. CASE pkt.kind = "terminated"
  <2>1. connected' = FALSE /\ capabilities' = capabilities /\ Finish(p, "terminated", "none", call[p])
    BY <1>4, <1>9 DEF OnPacket
  <2>2. "terminated" \in Results BY DEF Results
  <2>. QED BY <1>1, <1>4, <1>5, <2>1, <2>2, RejectReads
<1>10. CASE pkt.kind \in {"res", "err", "short"} /\ call[p].cmd = "synch" BY <1>4, <1>6, <1>10 DEF OnPacket
<1>11. ASSUME Settle(p, pkt), pkt.kind \in Answers, call[p].cmd # "synch" => pkt.kind = "res" PROVE SessionInv'
  BY <1>1, <1>2, <1>4, <1>5, <1>11, SettleReads
<1>12. CASE pkt.kind = "marker" /\ call[p].cmd = "synch" BY <1>4, <1>11, <1>12 DEF OnPacket, Answers
<1>13. CASE pkt.kind = "res" /\ call[p].cmd # "synch" BY <1>4, <1>11, <1>13 DEF OnPacket, Answers
<1>14. CASE pkt.kind = "err" /\ call[p].cmd # "synch"
  <2>1. Reject(p, "negative", "none") /\ UNCHANGED connected BY <1>4, <1>14 DEF OnPacket
  <2>2. "negative" \in Results BY DEF Results
  <2>. QED BY <1>7, <2>1, <2>2
<1>15. CASE pkt.kind \in {"marker", "short"} /\ call[p].cmd # "synch"
  <2>1. Reject(p, "invalid", pending) /\ UNCHANGED connected BY <1>4, <1>15 DEF OnPacket
  <2>2. "invalid" \in Results BY DEF Results
  <2>. QED BY <1>7, <2>1, <2>2
<1>. QED BY <1>3, <1>8, <1>9, <1>10, <1>12, <1>13, <1>14, <1>15 DEF Kinds, Answers

\* The ECU takes the only command on its way, whose reply is the one awaited.
LEMMA EcuHandlesReads ==
  ASSUME SessionInv, RepliesInv', EcuHandles
  PROVE  SessionInv'
<1>. PICK f : f = Head(toEcu) OBVIOUS
<1>1. RepliesInv /\ Typed /\ OrderInv BY DEF SessionInv, RepliesInv
<1>2. /\ toEcu # <<>> /\ toEcu' = Tail(toEcu)
      /\ UNCHANGED <<session, log, pc, call, sent>>
  BY DEF EcuHandles, capture
<1>3. /\ Len(toEcu) \in Nat /\ Len(toEcu) >= 1 /\ Len(toEcu') = Len(toEcu) - 1 /\ f = toEcu[1]
      /\ 1 \in 1..Len(toEcu) /\ toEcu' \in Seq(CommandFrames)
  BY <1>1, <1>2, TailIs DEF Typed
<1>4. \/ UNCHANGED <<ecu, toClient, faults>>
      \/ /\ ecu'.mta = CASE f.cmd = "setmta" -> 1 [] f.cmd = "upload" -> ecu.mta + 1 [] OTHER -> ecu.mta
         /\ toClient' = Append(toClient, Reply(IF f.cmd = "synch" THEN "marker" ELSE "res", f.n))
         /\ UNCHANGED faults
      \/ /\ \E kind \in {"err", "short"} : toClient' = Append(toClient, Reply(kind, f.n))
         /\ faults' = [faults EXCEPT !.errs = @ + 1]
         /\ UNCHANGED ecu
  BY DEF EcuHandles
<1>5. faults'.fenced = faults.fenced BY <1>1, <1>4, FaultsUpdates
<1>6. \A q \in Procs : Alike(q) BY <1>2 DEF Alike
<1>7. \A q \in Procs : PlanInv(q)' BY <1>6, PlanKept DEF SessionInv
<1>8. ASSUME faults'.fenced PROVE CapabilityInv' BY <1>1, <1>2, <1>5, <1>8, CapabilityKept DEF SessionInv, session
<1>9. ASSUME faults'.fenced, NEW q \in Procs PROVE AddressInv(q)'
  <2>1. AddressInv(q) /\ ReplyInv /\ CallInv(q) BY <1>1, <1>5, <1>9 DEF SessionInv, RepliesInv
  <2>2. pending # "none" BY <1>2, <2>1 DEF ReplyInv, Outstanding
  <2>3. CASE ~(pc[q] \in {"locate", "receive"} /\ call[q].cmd \in {"setmta", "upload"})
    BY <1>2, <2>1, <2>2, <2>3 DEF AddressInv
  <2>4. CASE pc[q] \in {"locate", "receive"} /\ call[q].cmd \in {"setmta", "upload"}
    <3>1. Trusting(q) BY <2>1, <2>4 DEF Trusting, CallInv
    <3>2. Alone /\ OneSynch BY <2>1, <3>1 DEF ReplyInv
    <3>3. f.n = sent /\ f.cmd = call[q].cmd BY <1>3, <2>1, <2>4, <3>2 DEF Alone, OneSynch, CallInv
    <3>4. sent \in Nat BY <1>1, ElementsTyped
    <3>5. toEcu' = <<>>
      <4>1. ~(2 \in 1..Len(toEcu)) BY <1>1, <1>3, <3>2, <3>4 DEF OrderInv, Alone
      <4>2. Len(toEcu') = 0 BY <1>3, <4>1
      <4>. QED BY <1>3, <4>2, EmptySeq
    <3>6. Answered = {}
      <4>1. "res" \in Answers BY DEF Answers
      <4>2. \A k \in 1..Len(toClient) : toClient[k].kind = "res" => toClient[k].n < f.n
        BY <1>1, <1>3, <4>1 DEF OrderInv, Returning
      <4>3. \A k \in 1..Len(log) : Received(k) => log[k].pkt.n < f.n BY <1>1, <1>3 DEF OrderInv
      <4>4. \A x \in Replies : x.kind = "res" => x.n # sent BY <3>3, <3>4, <4>2, <4>3 DEF Replies
      <4>. QED BY <4>4 DEF Answered
    <3>7. \A k : Received(k)' <=> Received(k) BY <1>2 DEF Received
    <3>8. ASSUME NEW r, toClient' = Append(toClient, r), r \in Packets PROVE Answered' \subseteq {r}
      <4>1. /\ toClient'[Len(toClient) + 1] = r
            /\ \A k \in 1..Len(toClient) : toClient'[k] = toClient[k]
            /\ \A k \in 1..Len(toClient') : k \in 1..Len(toClient) \/ k = Len(toClient) + 1
        BY <1>1, <3>8, AppendIs DEF Typed
      <4>2. \A x \in Replies' : x \in Replies \/ x = r BY <1>2, <3>7, <4>1 DEF Replies
      <4>. QED BY <1>2, <3>6, <4>2 DEF Answered
    <3>9. ecu.mta \in Nat /\ f.n \in Nat BY <1>1, <3>3, <3>4 DEF Typed
    <3>10. \A kind \in Answers : Reply(kind, f.n) \in Packets /\ Reply(kind, f.n).kind = kind
                                 /\ Reply(kind, f.n).data = ecu.mta
      BY <3>9 DEF Reply, Packets, Kinds
    <3>11. /\ \A k \in 1..Len(call[q].data) : call[q].data[k] = k
           /\ call[q].cmd = "upload" => ecu.mta = Len(call[q].data) + 1
      BY <1>2, <2>1, <2>4 DEF AddressInv
    <3>12. CASE UNCHANGED <<ecu, toClient>>
      <4>1. Replies' = Replies BY <1>2, <3>7, <3>12 DEF Replies
      <4>2. Answered' = {} BY <1>2, <3>6, <4>1 DEF Answered
      <4>. QED BY <1>2, <2>4, <3>5, <3>11, <4>2 DEF AddressInv
    <3>13. CASE /\ UNCHANGED ecu
                /\ \E kind \in {"err", "short"} : toClient' = Append(toClient, Reply(kind, f.n))
      <4>1. PICK kind \in {"err", "short"} : toClient' = Append(toClient, Reply(kind, f.n)) BY <3>13
      <4>2. kind \in Answers /\ kind # "res" BY <4>1 DEF Answers
      <4>3. Answered' \subseteq {Reply(kind, f.n)} BY <3>8, <3>10, <4>1, <4>2
      <4>4. Answered' = {} BY <3>10, <4>2, <4>3 DEF Answered
      <4>. QED BY <1>2, <2>4, <3>5, <3>11, <4>4 DEF AddressInv
    <3>14. CASE /\ ecu'.mta = CASE f.cmd = "setmta" -> 1 [] f.cmd = "upload" -> ecu.mta + 1 [] OTHER -> ecu.mta
                /\ toClient' = Append(toClient, Reply(IF f.cmd = "synch" THEN "marker" ELSE "res", f.n))
      <4>1. "res" \in Answers /\ f.cmd # "synch" BY <2>4, <3>3 DEF Answers
      <4>2. PICK r : r = Reply("res", f.n) OBVIOUS
      <4>3. toClient' = Append(toClient, r) /\ r \in Packets /\ r.data = ecu.mta
        BY <3>10, <3>14, <4>1, <4>2
      <4>4. Answered' \subseteq {r} BY <3>8, <4>3
      <4>5. CASE call[q].cmd = "setmta"
        <5>1. ecu'.mta = 1 BY <3>3, <3>14, <4>5
        <5>. QED BY <1>2, <2>4, <3>11, <4>5, <5>1 DEF AddressInv
      <4>6. CASE call[q].cmd = "upload"
        <5>1. ecu'.mta = ecu.mta + 1 BY <3>3, <3>14, <4>6
        <5>2. Len(call[q].data) \in Nat
          <6>1. call[q].data \in Seq(Nat) BY <1>1 DEF Typed, Calls
          <6>. QED BY <6>1, LenProperties
        <5>3. ecu'.mta = Len(call[q].data) + 2 BY <3>11, <4>6, <5>1, <5>2
        <5>4. \A x \in Answered' : x.data = Len(call[q].data) + 1 BY <3>11, <4>3, <4>4, <4>6
        <5>. QED BY <1>2, <2>4, <3>5, <3>11, <4>6, <5>3, <5>4 DEF AddressInv
      <4>. QED BY <2>4, <4>5, <4>6
    <3>. QED BY <1>4, <3>12, <3>13, <3>14
  <2>. QED BY <2>3, <2>4
<1>. QED BY <1>7, <1>8, <1>9 DEF SessionInv

\* No other step of the bus or the capture makes a result.
LEMMA BusReads ==
  ASSUME SessionInv, RepliesInv', \A q \in Procs : Alike(q), UNCHANGED session, ecu'.mta = ecu.mta,
         toEcu' # <<>> => toEcu # <<>>, Answered' \subseteq Answered, faults'.fenced => faults.fenced,
         \/ log' = log
         \/ \E r \in Records : log' = Append(log, r) /\ r.dir # "tx"
  PROVE  SessionInv'
<1>1. \A q \in Procs : PlanInv(q)' BY PlanKept DEF SessionInv
<1>2. ASSUME faults'.fenced PROVE CapabilityInv' /\ \A q \in Procs : AddressInv(q)'
  <2>1. CapabilityInv' BY <1>2, CapabilityKept DEF SessionInv, RepliesInv, session
  <2>2. \A q \in Procs : AddressInv(q)' BY <1>2, AddressKept DEF SessionInv, session
  <2>. QED BY <2>1, <2>2
<1>. QED BY <1>1, <1>2 DEF SessionInv

LEMMA EcuEventReads ==
  ASSUME SessionInv, RepliesInv', NEW kind \in {"daq", "pending", "terminated"}, EcuEvent(kind)
  PROVE  SessionInv'
<1>. PICK r : r = Reply(kind, 0) OBVIOUS
<1>1. Typed BY DEF SessionInv, RepliesInv
<1>2. /\ toClient' = Append(toClient, r) /\ UNCHANGED <<session, log, toEcu, pc, call, sent>>
      /\ ecu'.mta = ecu.mta
  <2>1. ecu \in [connected : BOOLEAN, mta : Nat] BY <1>1 DEF Typed
  <2>. QED BY <2>1 DEF EcuEvent, capture
<1>3. faults'.fenced = faults.fenced BY <1>1, FaultsUpdates DEF EcuEvent
<1>4. r \in Packets /\ r.kind # "res"
  <2>1. ecu.mta \in Nat BY <1>1 DEF Typed
  <2>. QED BY <2>1 DEF Reply, Packets, Kinds
<1>5. /\ toClient'[Len(toClient) + 1] = r
      /\ \A i \in 1..Len(toClient) : toClient'[i] = toClient[i]
      /\ \A i \in 1..Len(toClient') : i \in 1..Len(toClient) \/ i = Len(toClient) + 1
  BY <1>1, <1>2, <1>4, AppendIs DEF Typed
<1>6. \A k : Received(k)' <=> Received(k) BY <1>2 DEF Received
<1>7. \A x \in Replies' : x \in Replies \/ x = r BY <1>2, <1>5, <1>6 DEF Replies
<1>8. Answered' \subseteq Answered BY <1>2, <1>4, <1>7 DEF Answered
<1>9. \A q \in Procs : Alike(q) BY <1>2 DEF Alike
<1>. QED BY <1>2, <1>3, <1>8, <1>9, BusReads

LEMMA DeliverReads ==
  ASSUME SessionInv, RepliesInv', Deliver
  PROVE  SessionInv'
<1>. PICK r : r = [dir |-> "rx", pkt |-> Head(toClient)] OBVIOUS
<1>1. Typed BY DEF SessionInv, RepliesInv
<1>2. /\ toClient # <<>> /\ toClient' = Tail(toClient) /\ log' = Append(log, r)
      /\ UNCHANGED <<session, toEcu, ecu, pc, call, sent, faults>>
  BY DEF Deliver
<1>3. /\ Head(toClient) = toClient[1] /\ toClient[1] \in Packets /\ 1 \in 1..Len(toClient)
      /\ \A i \in 1..Len(toClient') : toClient'[i] = toClient[i + 1] /\ i + 1 \in 1..Len(toClient)
  BY <1>1, <1>2, TailIs DEF Typed
<1>4. r \in Records /\ r.pkt = toClient[1] /\ r.dir = "rx" BY <1>3 DEF Records
<1>5. /\ log'[Len(log) + 1] = r
      /\ \A i \in 1..Len(log) : log'[i] = log[i]
      /\ \A i \in 1..Len(log') : i \in 1..Len(log) \/ i = Len(log) + 1
  BY <1>1, <1>2, <1>4, AppendIs DEF Typed
<1>6. \A k \in 1..Len(log) : Received(k)' => Received(k) BY <1>5 DEF Received
<1>7. \A x \in Replies' : x \in Replies BY <1>3, <1>4, <1>5, <1>6, SMTT(30) DEF Replies
<1>8. Answered' \subseteq Answered BY <1>2, <1>7 DEF Answered
<1>9. \A q \in Procs : Alike(q) BY <1>2 DEF Alike
<1>. QED BY <1>2, <1>4, <1>8, <1>9, BusReads

LEMMA LoseReads ==
  ASSUME SessionInv, RepliesInv', Lose
  PROVE  SessionInv'
<1>1. Typed BY DEF SessionInv, RepliesInv
<1>2. /\ \/ toClient # <<>> /\ toClient' = Tail(toClient) /\ UNCHANGED toEcu
         \/ toEcu # <<>> /\ toEcu' = Tail(toEcu) /\ UNCHANGED toClient
      /\ UNCHANGED <<session, log, ecu, pc, call, sent>>
  BY DEF Lose, capture
<1>3. faults'.fenced = faults.fenced BY <1>1, FaultsUpdates DEF Lose
<1>4. \A j \in 1..Len(toClient') : \E i \in 1..Len(toClient) : toClient'[j] = toClient[i]
  <2>1. CASE toClient' = toClient BY <2>1
  <2>2. CASE toClient # <<>> /\ toClient' = Tail(toClient)
    <3>1. toClient \in Seq(Packets) BY <1>1 DEF Typed
    <3>2. \A i \in 1..Len(toClient') : toClient'[i] = toClient[i + 1] /\ i + 1 \in 1..Len(toClient)
      BY <2>2, <3>1, TailIs
    <3>. QED BY <3>2
  <2>. QED BY <1>2, <2>1, <2>2
<1>5. \A k : Received(k)' <=> Received(k) BY <1>2 DEF Received
<1>6. \A x \in Replies' : x \in Replies BY <1>2, <1>4, <1>5 DEF Replies
<1>7. Answered' \subseteq Answered BY <1>2, <1>6 DEF Answered
<1>8. \A q \in Procs : Alike(q) BY <1>2 DEF Alike
<1>9. toEcu' # <<>> => toEcu # <<>> BY <1>2
<1>. QED BY <1>2, <1>3, <1>7, <1>8, <1>9, BusReads

LEMMA ClearReads ==
  ASSUME SessionInv, RepliesInv', Clear
  PROVE  SessionInv'
<1>. PICK r : r = [dir |-> "clear", pkt |-> Reply("none", 0)] OBVIOUS
<1>1. Typed BY DEF SessionInv, RepliesInv
<1>2. log' = Append(log, r) /\ UNCHANGED <<session, toEcu, toClient, ecu, pc, call, sent>>
  BY DEF Clear, bus
<1>3. faults'.fenced = faults.fenced BY <1>1, FaultsUpdates DEF Clear
<1>4. r \in Records /\ r.dir = "clear"
  <2>1. ecu.mta \in Nat BY <1>1 DEF Typed
  <2>2. Reply("none", 0) \in Packets BY <2>1 DEF Reply, Packets, Kinds
  <2>. QED BY <2>2 DEF Records
<1>5. /\ log'[Len(log) + 1] = r
      /\ \A i \in 1..Len(log) : log'[i] = log[i]
      /\ \A i \in 1..Len(log') : i \in 1..Len(log) \/ i = Len(log) + 1
  BY <1>1, <1>2, <1>4, AppendIs DEF Typed
<1>6. \A k \in 1..Len(log') : Received(k)' => k \in 1..Len(log) /\ Received(k) BY <1>4, <1>5 DEF Received
<1>7. \A x \in Replies' : x \in Replies BY <1>2, <1>5, <1>6 DEF Replies
<1>8. Answered' \subseteq Answered BY <1>2, <1>7 DEF Answered
<1>9. \A q \in Procs : Alike(q) BY <1>2 DEF Alike
<1>. QED BY <1>2, <1>3, <1>4, <1>8, <1>9, BusReads

LEMMA EndsReads ==
  ASSUME SessionInv, RepliesInv', Ends
  PROVE  SessionInv'
<1>1. Typed BY DEF SessionInv, RepliesInv
<1>2. UNCHANGED <<session, log, toEcu, toClient, ecu, pc, sent>> BY DEF Ends, capture
<1>3. faults'.fenced = faults.fenced BY <1>1, FaultsUpdates DEF Ends
<1>4. Answered' = Answered BY <1>2 DEF Answered, Replies, Received
<1>5. \A q \in Procs : Alike(q)
  <2>1. call \in [Procs -> Calls] BY <1>1 DEF Typed
  <2>2. CASE call' = call BY <1>2, <2>2 DEF Alike
  <2>3. ASSUME NEW p \in Procs, call' = [call EXCEPT ![p].ctx = TRUE], NEW q \in Procs PROVE Alike(q)
    <3>1. call[q] \in Calls /\ (call'[q] = call[q] \/ call'[q] = [call[q] EXCEPT !.ctx = TRUE])
      BY <2>1, <2>3
    <3>. QED BY <1>2, <3>1 DEF Alike, Calls
  <2>. QED BY <2>2, <2>3 DEF Ends
<1>. QED BY <1>2, <1>3, <1>4, <1>5, BusReads

LEMMA PrunerReads ==
  ASSUME SessionInv, RepliesInv', ReadRetention \/ Prune
  PROVE  SessionInv'
<1>1. Typed BY DEF SessionInv, RepliesInv
<1>2. UNCHANGED <<session, log, toEcu, toClient, ecu, pc, call, sent>> BY DEF ReadRetention, Prune, bus
<1>3. faults'.fenced = faults.fenced BY <1>1, FaultsUpdates DEF ReadRetention, Prune
<1>4. Answered' = Answered BY <1>2 DEF Answered, Replies, Received
<1>5. \A q \in Procs : Alike(q) BY <1>2 DEF Alike
<1>. QED BY <1>2, <1>3, <1>4, <1>5, BusReads

LEMMA InitSession == Init => SessionInv
<1>. SUFFICES ASSUME Init PROVE SessionInv OBVIOUS
<1>1. /\ ~connected /\ toEcu = <<>>
      /\ \A p \in Procs : /\ pc[p] = "idle" /\ call[p].op = "none" /\ call[p].todo = <<>>
                          /\ call[p].cmd = "none" /\ call[p].data = <<>>
  BY DEF Init, NoCall
<1>2. \A p \in Procs : PlanInv(p) BY <1>1 DEF PlanInv
<1>3. CapabilityInv BY <1>1 DEF CapabilityInv
<1>4. \A p \in Procs : AddressInv(p) BY <1>1 DEF AddressInv
<1>. QED BY <1>2, <1>3, <1>4, InitReplies DEF SessionInv

LEMMA NextSession == SessionInv /\ [Next]_vars => SessionInv'
<1>. SUFFICES ASSUME SessionInv, [Next]_vars PROVE SessionInv' OBVIOUS
<1>1. RepliesInv' BY NextReplies DEF SessionInv
<1>2. CASE UNCHANGED vars
  BY <1>1, <1>2 DEF vars, SessionInv, PlanInv, CapabilityInv, AddressInv, Answered, Replies, Received
<1>3. ASSUME NEW p \in Procs, NEW op \in scenario.ops, Call(p, op) PROVE SessionInv' BY <1>1, <1>3, CallReads
<1>4. ASSUME NEW p \in Procs, ClientStep(p) PROVE SessionInv'
  BY <1>1, <1>4, BeginFailsReads, BeginReads, CommandReads, SendReads, SendFailsReads, LocateReads,
     ReceiveReads, ReceiveFailsReads
  DEF ClientStep
<1>. QED
  BY <1>1, <1>2, <1>3, <1>4, EcuHandlesReads, EcuEventReads, DeliverReads, LoseReads, EndsReads,
     ClearReads, PrunerReads
  DEF Next

LEMMA SessionHolds == SessionInv => SessionExact
<1>. SUFFICES ASSUME SessionInv PROVE SessionExact OBVIOUS
<1>1. Typed /\ capabilities \in Nat /\ sent \in Nat /\ capabilities <= sent
  BY DEF SessionInv, RepliesInv, Typed, NumberInv
<1>2. CapabilitiesFresh BY <1>1 DEF SessionInv, CapabilityInv, CapabilitiesFresh
<1>3. ASSUME NEW p \in Procs, faults.fenced
      PROVE  call[p].data = [i \in 1..Len(call[p].data) |-> i]
  <2>1. call[p].data \in Seq(Nat) BY <1>1 DEF Typed, Calls
  <2>2. \A i \in 1..Len(call[p].data) : call[p].data[i] = i BY <1>3 DEF SessionInv, AddressInv
  <2>3. /\ DOMAIN call[p].data = 1..Len(call[p].data)
        /\ call[p].data = [i \in DOMAIN call[p].data |-> call[p].data[i]]
    BY <2>1
  <2>. QED BY <2>2, <2>3
<1>. QED BY <1>2, <1>3 DEF ReadExact, SessionExact

\* For every number of goroutines, commands, faults and responses of a Read, the
\* capabilities of a connected client are those of the last CONNECT the bus
\* accepted, and what a Read returns, in full or as a prefix, is consecutive
\* memory from the address it set.
THEOREM EverySessionExact == Spec => []SessionExact
<1>1. Spec => []SessionInv BY InitSession, NextSession, PTL DEF Spec
<1>. QED BY <1>1, SessionHolds, PTL

=============================================================================
