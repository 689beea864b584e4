---------------------------- MODULE J1939Proofs ----------------------------
(***************************************************************************)
(* Proofs about the J1939 clients: an address has one owner unless a claim *)
(* that will decide it is under way, and a client without its address says *)
(* nothing but claims and has no transfers.                                *)
(*                                                                         *)
(* Sound describes a client's record: what it holds and what it may have   *)
(* said in its present state.  Every part of run keeps it.                 *)
(***************************************************************************)
EXTENDS J1939, SequenceTheorems, TLAPS

IsSeq(q) == q \in Seq({q[i] : i \in DOMAIN q})

\* A sequence that grows, shrinks or is joined to another.
LEMMA IsASequence == ASSUME NEW S, NEW q \in Seq(S) PROVE IsSeq(q)
<1> DEFINE R == {q[i] : i \in DOMAIN q}
<1>1. Len(q) \in Nat /\ q \in [1 .. Len(q) -> S] /\ DOMAIN q = 1 .. Len(q)
  BY LenProperties
<1>2. q \in [1 .. Len(q) -> R]
  BY <1>1
<1> HIDE DEF R
<1>3. q \in UNION {[1 .. n -> R] : n \in Nat}
  BY <1>1, <1>2
<1>4. q \in Seq(R)
  BY <1>3, SeqDef
<1> QED BY <1>4 DEF IsSeq, R

LEMMA Appended ==
  ASSUME NEW q, IsSeq(q), NEW f
  PROVE  /\ IsSeq(Append(q, f))
         /\ Len(q) \in Nat /\ Len(Append(q, f)) = Len(q) + 1
         /\ Append(q, f)[Len(q) + 1] = f
         /\ \A i \in 1 .. Len(q) : Append(q, f)[i] = q[i]
<1> DEFINE S == {q[i] : i \in DOMAIN q} \cup {f}
<1>1. q \in Seq(S) /\ f \in S
  <2>1. q \in Seq({q[i] : i \in DOMAIN q})
    BY DEF IsSeq
  <2> QED BY <2>1, SeqMonotonic
<1> HIDE DEF S
<1>2. /\ Append(q, f) \in Seq(S) /\ Len(Append(q, f)) = Len(q) + 1
      /\ \A i \in 1 .. Len(q) : Append(q, f)[i] = q[i]
      /\ Append(q, f)[Len(q) + 1] = f
  BY ONLY <1>1, AppendProperties
<1>3. Len(q) \in Nat
  BY ONLY <1>1, LenProperties
<1>4. IsSeq(Append(q, f))
  BY ONLY <1>2, IsASequence
<1> QED BY <1>2, <1>3, <1>4

LEMMA Joined ==
  ASSUME NEW q, IsSeq(q), NEW r, IsSeq(r)
  PROVE  /\ IsSeq(q \o r)
         /\ Len(q) \in Nat /\ Len(r) \in Nat /\ Len(q \o r) = Len(q) + Len(r)
         /\ \A i \in 1 .. Len(q) : (q \o r)[i] = q[i]
         /\ \A i \in 1 .. Len(r) : (q \o r)[Len(q) + i] = r[i]
         /\ \A i \in 1 .. Len(q \o r) : i \notin 1 .. Len(q) =>
               i - Len(q) \in 1 .. Len(r) /\ (q \o r)[i] = r[i - Len(q)]
<1> DEFINE S == {q[i] : i \in DOMAIN q} \cup {r[i] : i \in DOMAIN r}
<1>1. q \in Seq(S) /\ r \in Seq(S)
  <2>1. q \in Seq({q[i] : i \in DOMAIN q}) /\ r \in Seq({r[i] : i \in DOMAIN r})
    BY DEF IsSeq
  <2> QED BY <2>1, SeqMonotonic
<1> HIDE DEF S
<1>2. q \o r \in Seq(S)
  BY <1>1, ConcatProperties
<1>3. Len(q) \in Nat /\ Len(r) \in Nat /\ Len(q \o r) = Len(q) + Len(r)
  BY <1>1, ConcatProperties, LenProperties
<1>4. \A i \in 1 .. Len(q) + Len(r) :
        (q \o r)[i] = IF i <= Len(q) THEN q[i] ELSE r[i - Len(q)]
  BY <1>1, ConcatProperties
<1>5. \A i \in 1 .. Len(q) : (q \o r)[i] = q[i]
  BY <1>3, <1>4
<1>6. \A i \in 1 .. Len(r) : (q \o r)[Len(q) + i] = r[i]
  BY <1>3, <1>4
<1>7. \A i \in 1 .. Len(q \o r) : i \notin 1 .. Len(q) =>
        i - Len(q) \in 1 .. Len(r) /\ (q \o r)[i] = r[i - Len(q)]
  BY <1>3, <1>4
<1>8. IsSeq(q \o r)
  BY ONLY <1>2, IsASequence
<1> QED BY <1>3, <1>5, <1>6, <1>7, <1>8

LEMMA Shortened ==
  ASSUME NEW q, IsSeq(q), q # <<>>
  PROVE  /\ IsSeq(Tail(q)) /\ Head(q) = q[1]
         /\ Len(q) \in Nat /\ Len(q) >= 1 /\ Len(Tail(q)) = Len(q) - 1
         /\ \A i \in 1 .. Len(Tail(q)) : Tail(q)[i] = q[i + 1]
<1> DEFINE S == {q[i] : i \in DOMAIN q}
<1>1. q \in Seq(S)
  BY DEF IsSeq
<1> HIDE DEF S
<1>2. /\ Tail(q) \in Seq(S) /\ Len(Tail(q)) = Len(q) - 1
      /\ \A i \in 1 .. Len(Tail(q)) : Tail(q)[i] = q[i + 1]
  BY <1>1, HeadTailProperties
<1>3. Len(q) \in Nat /\ Len(q) # 0 /\ Head(q) = q[1]
  BY <1>1, LenProperties, EmptySeq, HeadTailProperties
<1>4. IsSeq(Tail(q))
  BY ONLY <1>2, IsASequence
<1> QED BY <1>2, <1>3, <1>4

-----------------------------------------------------------------------------
(* The record of a client                                                  *)

Fields == {"pc", "state", "out", "cannot", "tx", "rx", "request", "limit"}

\* What client n may have said in the state of s.
Sayable(n, s, f) ==
    IF f.kind = "claim"
    THEN f.a = Name(n) /\ (s.state # "lost" => f.src = Address(n))
    ELSE s.state = "claimed"

\* A client has transfers only while it has its address, the two of them with
\* different peers, and repeats or gives up the claim of its own NAME.
Sound(n, s) ==
    /\ Fields \subseteq DOMAIN s
    /\ s.state \in {"none", "claiming", "claimed", "lost"}
    /\ s.cannot \in BOOLEAN
    /\ s.cannot => s.state = "lost"
    /\ s.tx # None => s.state = "claimed" /\ "dst" \in DOMAIN s.tx
    /\ s.rx # None => s.state = "claimed" /\ "next" \in DOMAIN s.rx
    /\ "src" \in DOMAIN s.rx
    /\ s.tx # None /\ s.rx # None => s.tx.dst # s.rx.src
    /\ IsSeq(s.out)
    /\ \A i \in 1 .. Len(s.out) : Sayable(n, s, s.out[i])

\* What no part of a step but the address claim changes.
Keeps(s, t) ==
    /\ t.state = s.state
    /\ t.request = s.request /\ t.limit = s.limit
    /\ t.pc = s.pc \/ t.pc = "done"

\* The bus accepts a frame.
LEMMA PutSound ==
  ASSUME NEW n, NEW s, Sound(n, s), NEW f, Sayable(n, s, f)
  PROVE  /\ Sound(n, Put(s, f)) /\ Keeps(s, Put(s, f))
         /\ Put(s, f).tx = s.tx /\ Put(s, f).rx = s.rx /\ Put(s, f).pc = s.pc
         /\ Put(s, f).out = Append(s.out, f)
<1> DEFINE t == Put(s, f)
<1>1. /\ Fields \subseteq DOMAIN t /\ t.out = Append(s.out, f)
      /\ t.state = s.state /\ t.cannot = s.cannot /\ t.tx = s.tx /\ t.rx = s.rx
      /\ t.pc = s.pc /\ t.request = s.request /\ t.limit = s.limit
  BY DEF Put, Sound, Fields
<1> HIDE DEF t
<1>2. /\ IsSeq(t.out) /\ Len(t.out) = Len(s.out) + 1 /\ Len(s.out) \in Nat
      /\ t.out[Len(s.out) + 1] = f /\ \A i \in 1 .. Len(s.out) : t.out[i] = s.out[i]
  BY <1>1, Appended DEF Sound
<1>3. \A i \in 1 .. Len(t.out) : Sayable(n, t, t.out[i])
  <2> SUFFICES ASSUME NEW i \in 1 .. Len(t.out) PROVE Sayable(n, t, t.out[i])
    OBVIOUS
  <2>1. CASE i = Len(s.out) + 1
    BY <1>1, <1>2, <2>1 DEF Sayable
  <2>2. CASE i # Len(s.out) + 1
    <3>1. i \in 1 .. Len(s.out)
      BY <1>2, <2>2
    <3>2. Sayable(n, s, s.out[i])
      BY <3>1 DEF Sound
    <3> QED BY <1>1, <1>2, <3>1, <3>2 DEF Sayable
  <2> QED BY <2>1, <2>2
<1>4. Sound(n, t)
  BY <1>1, <1>2, <1>3 DEF Sound
<1> QED BY <1>1, <1>4 DEF t, Keeps

LEMMA FailedSound ==
  ASSUME NEW n, NEW s, Sound(n, s)
  PROVE  Sound(n, Failed(s)) /\ Keeps(s, Failed(s)) /\ Failed(s).pc = "done"
         /\ Failed(s).tx = s.tx /\ Failed(s).rx = s.rx
<1> DEFINE t == Failed(s)
<1>1. /\ Fields \subseteq DOMAIN t /\ t.out = s.out
      /\ t.state = s.state /\ t.cannot = s.cannot /\ t.tx = s.tx /\ t.rx = s.rx
      /\ t.pc = "done" /\ t.request = s.request /\ t.limit = s.limit
  BY DEF Failed, Sound, Fields
<1> HIDE DEF t
<1>2. Sound(n, t)
  BY <1>1 DEF Sound, Sayable
<1> QED BY <1>1, <1>2 DEF t, Keeps

LEMMA ControlSound ==
  ASSUME NEW n, NEW s, Sound(n, s), NEW f, Sayable(n, s, f)
  PROVE  /\ Sound(n, control(s, f)) /\ Keeps(s, control(s, f))
         /\ control(s, f).tx = s.tx /\ control(s, f).rx = s.rx
         /\ control(s, f).pc = "done" \/ control(s, f).out = Append(s.out, f)
BY PutSound, FailedSound DEF control

\* A record that differs from a sound one in its transfers.
LEMMA TransfersSound ==
  ASSUME NEW n, NEW s, Sound(n, s), NEW t, Fields \subseteq DOMAIN t,
         t.out = s.out, t.state = s.state, t.cannot = s.cannot,
         t.pc = s.pc \/ t.pc = "done", t.request = s.request /\ t.limit = s.limit,
         t.tx # None => s.state = "claimed" /\ "dst" \in DOMAIN t.tx,
         t.rx # None => s.state = "claimed" /\ "next" \in DOMAIN t.rx,
         "src" \in DOMAIN t.rx,
         t.tx # None /\ t.rx # None => t.tx.dst # t.rx.src
  PROVE  Sound(n, t) /\ Keeps(s, t)
BY DEF Sound, Sayable, Keeps

LEMMA KeepsTransitive ==
  ASSUME NEW s, NEW t, NEW u, Keeps(s, t), Keeps(t, u) PROVE Keeps(s, u)
BY DEF Keeps

LEMMA ClaimSound ==
  ASSUME NEW n, NEW s, Sound(n, s), NEW address, s.state = "lost" \/ address = Address(n)
  PROVE  /\ Sound(n, claim(n, s, address)) /\ Keeps(s, claim(n, s, address))
         /\ claim(n, s, address).tx = s.tx /\ claim(n, s, address).rx = s.rx
         /\ \/ claim(n, s, address).pc = "done"
            \/ claim(n, s, address).out =
                  Append(s.out, Frame("claim", address, GlobalAddress, 0, Name(n), 0, 0))
<1>1. Sayable(n, s, Frame("claim", address, GlobalAddress, 0, Name(n), 0, 0))
  BY DEF Sayable, Frame
<1> QED BY <1>1, ControlSound DEF claim

LEMMA AbortSound ==
  ASSUME NEW n, NEW s, Sound(n, s), s.state = "claimed", NEW peer, NEW pgn
  PROVE  /\ Sound(n, abort(n, s, peer, pgn)) /\ Keeps(s, abort(n, s, peer, pgn))
         /\ abort(n, s, peer, pgn).tx = s.tx /\ abort(n, s, peer, pgn).rx = s.rx
<1>1. Sayable(n, s, Frame("abort", Address(n), peer, pgn, 0, 0, 0))
  BY DEF Sayable, Frame
<1> QED BY <1>1, ControlSound DEF abort

LEMMA FinishSound ==
  ASSUME NEW n, NEW s, Sound(n, s), NEW res
  PROVE  /\ Sound(n, finishSend(s, res)) /\ Keeps(s, finishSend(s, res))
         /\ finishSend(s, res).tx = None /\ finishSend(s, res).rx = s.rx
         /\ finishSend(s, res).out = s.out /\ finishSend(s, res).pc = s.pc
<1>1. CASE s.tx = None
  BY <1>1 DEF finishSend, Keeps
<1>2. CASE s.tx # None
  <2> DEFINE t == finishSend(s, res)
  <2>1. /\ Fields \subseteq DOMAIN t /\ t.tx = None /\ t.rx = s.rx /\ t.out = s.out
        /\ t.state = s.state /\ t.cannot = s.cannot /\ t.pc = s.pc /\ t.request = s.request
        /\ t.limit = s.limit
    BY <1>2 DEF finishSend, Sound, Fields
  <2> HIDE DEF t
  <2>2. Sound(n, t) /\ Keeps(s, t)
    <3>1. /\ t.rx # None => s.state = "claimed" /\ "next" \in DOMAIN t.rx
          /\ "src" \in DOMAIN t.rx
      BY <2>1 DEF Sound
    <3> QED BY <2>1, <3>1, TransfersSound
  <2> QED BY <2>1, <2>2 DEF t
<1> QED BY <1>1, <1>2

LEMMA FailSendSound ==
  ASSUME NEW n, NEW s, Sound(n, s), s.tx # None, NEW res
  PROVE  /\ Sound(n, failSend(n, s, res)) /\ Keeps(s, failSend(n, s, res))
         /\ failSend(n, s, res).tx = None /\ failSend(n, s, res).rx = s.rx
<1> DEFINE u == IF s.tx.dst = GlobalAddress THEN s ELSE abort(n, s, s.tx.dst, s.tx.pgn)
<1>1. s.state = "claimed" /\ Keeps(s, s)
  BY DEF Sound, Keeps
<1>2. Sound(n, u) /\ Keeps(s, u) /\ u.rx = s.rx
  BY <1>1, AbortSound
<1>3. failSend(n, s, res) = finishSend(u, res)
  BY DEF failSend
<1> HIDE DEF u
<1>4. /\ Sound(n, finishSend(u, res)) /\ Keeps(u, finishSend(u, res))
      /\ finishSend(u, res).tx = None /\ finishSend(u, res).rx = u.rx
  BY <1>2, FinishSound
<1> QED BY <1>2, <1>3, <1>4, KeepsTransitive

\* Without its incoming transfer a record is as sound as before.
LEMMA NoReceiveSound ==
  ASSUME NEW n, NEW s, Sound(n, s)
  PROVE  LET t == [s EXCEPT !.rx = None]
         IN Sound(n, t) /\ Keeps(s, t) /\ t.rx = None /\ t.tx = s.tx /\ t.out = s.out
            /\ t.pc = s.pc
<1> DEFINE t == [s EXCEPT !.rx = None]
<1>1. /\ Fields \subseteq DOMAIN t /\ t.rx = None /\ t.tx = s.tx /\ t.out = s.out
      /\ t.state = s.state /\ t.cannot = s.cannot /\ t.pc = s.pc /\ t.request = s.request
      /\ t.limit = s.limit
  BY DEF Sound, Fields
<1> HIDE DEF t
<1>2. /\ t.tx # None => s.state = "claimed" /\ "dst" \in DOMAIN t.tx
      /\ "src" \in DOMAIN t.rx
  BY <1>1 DEF Sound, None
<1>3. Sound(n, t) /\ Keeps(s, t)
  BY <1>1, <1>2, TransfersSound
<1> QED BY <1>1, <1>3 DEF t

LEMMA FailReceiveSound ==
  ASSUME NEW n, NEW s, Sound(n, s), s.rx # None
  PROVE  /\ Sound(n, failReceive(n, s)) /\ Keeps(s, failReceive(n, s))
         /\ failReceive(n, s).rx = None /\ failReceive(n, s).tx = s.tx
<1> DEFINE u == [s EXCEPT !.rx = None]
<1>1. Sound(n, u) /\ Keeps(s, u) /\ u.rx = None /\ u.tx = s.tx
  BY NoReceiveSound
<1>2. s.state = "claimed"
  BY DEF Sound
<1>3. failReceive(n, s) = abort(n, u, s.rx.src, s.rx.pgn)
  BY DEF failReceive
<1> HIDE DEF u
<1>4. u.state = "claimed"
  BY <1>1, <1>2 DEF Keeps
<1> QED BY <1>1, <1>3, <1>4, AbortSound, KeepsTransitive

LEMMA ExpireSound ==
  ASSUME NEW n, NEW s, Sound(n, s), NEW fires
  PROVE  /\ Sound(n, expireTransport(n, s, fires)) /\ Keeps(s, expireTransport(n, s, fires))
         /\ expireTransport(n, s, fires).tx \in {s.tx, None}
         /\ expireTransport(n, s, fires).rx \in {s.rx, None}
<1> DEFINE u == IF s.tx # None /\ s.tx.id \in cancelled THEN failSend(n, s, "context") ELSE s
           v == IF Alive(u) /\ u.rx # None /\ "rx" \in fires THEN failReceive(n, u) ELSE u
           w == IF Alive(v) /\ v.tx # None /\ "tx" \in fires
                   /\ (~v.tx.due \/ v.tx.dst # GlobalAddress)
                THEN failSend(n, v, "timeout") ELSE v
<1>1. expireTransport(n, s, fires) = w
  BY DEF expireTransport
<1>2. Sound(n, u) /\ Keeps(s, u) /\ u.tx \in {s.tx, None} /\ u.rx = s.rx
  <2>1. Keeps(s, s)
    BY DEF Keeps
  <2> QED BY <2>1, FailSendSound
<1> HIDE DEF u
<1>3. Sound(n, v) /\ Keeps(s, v) /\ v.tx = u.tx /\ v.rx \in {u.rx, None}
  BY <1>2, FailReceiveSound, KeepsTransitive
<1> HIDE DEF v
<1>4. Sound(n, w) /\ Keeps(s, w) /\ w.tx \in {v.tx, None} /\ w.rx = v.rx
  BY <1>3, FailSendSound, KeepsTransitive
<1> HIDE DEF w
<1> QED BY <1>1, <1>2, <1>3, <1>4

-----------------------------------------------------------------------------
(* The frames of a transfer                                                *)

\* A record whose incoming transfer has gone on.
LEMMA ReceivingSound ==
  ASSUME NEW n, NEW s, Sound(n, s), s.rx # None, NEW t, Fields \subseteq DOMAIN t,
         t.out = s.out, t.state = s.state, t.cannot = s.cannot, t.pc = s.pc,
         t.request = s.request /\ t.limit = s.limit, t.tx = s.tx, {"src", "next"} \subseteq DOMAIN t.rx,
         t.rx.src = s.rx.src
  PROVE  Sound(n, t) /\ Keeps(s, t)
<1>1. /\ t.tx # None => s.state = "claimed" /\ "dst" \in DOMAIN t.tx
      /\ t.rx # None => s.state = "claimed" /\ "next" \in DOMAIN t.rx
      /\ t.tx # None /\ t.rx # None => t.tx.dst # t.rx.src
  BY DEF Sound
<1> QED BY <1>1, TransfersSound

LEMMA GrantSound ==
  ASSUME NEW n, NEW s, Sound(n, s), s.rx # None
  PROVE  Sound(n, grant(n, s)) /\ Keeps(s, grant(n, s))
<1> DEFINE r == s.rx
           count == Min({r.window, r.packets - r.next + 1})
           t == [s EXCEPT !.rx.end = r.next + count - 1, !.rx.barrier = s.sent + 1,
                          !.fires = @ \ {"rx"}]
           f == Frame("cts", Address(n), r.src, r.pgn, count, r.next, r.id)
<1>1. grant(n, s) = control(t, f)
  BY DEF grant
<1> HIDE DEF count
<1>2. /\ Fields \subseteq DOMAIN t /\ t.out = s.out /\ t.state = s.state
      /\ t.cannot = s.cannot /\ t.pc = s.pc /\ t.request = s.request /\ t.limit = s.limit
      /\ t.tx = s.tx
      /\ {"src", "next"} \subseteq DOMAIN t.rx /\ t.rx.src = s.rx.src
  BY DEF Sound, Fields
<1>3. f.kind = "cts"
  BY DEF Frame
<1> HIDE DEF t, f
<1>4. Sound(n, t) /\ Keeps(s, t)
  BY <1>2, ReceivingSound
<1>5. Sayable(n, t, f)
  BY <1>2, <1>3 DEF Sayable, Sound
<1>6. Sound(n, control(t, f)) /\ Keeps(t, control(t, f))
  BY <1>4, <1>5, ControlSound
<1> QED BY <1>1, <1>4, <1>6, KeepsTransitive

LEMMA DataSound ==
  ASSUME NEW n, NEW s, Sound(n, s), s.state = "claimed", NEW f
  PROVE  Sound(n, handleData(n, s, f)) /\ Keeps(s, handleData(n, s, f))
<1> DEFINE r == s.rx
           u == [s EXCEPT !.rx.next = @ + 1]
           v == [u EXCEPT !.rx = None]
           ack == Frame("eoma", Address(n), r.src, r.pgn, r.packets, 0, r.id)
<1>1. Keeps(s, s)
  BY DEF Keeps
<1>2. CASE r = None \/ r.src # f.src
  BY <1>1, <1>2 DEF handleData
<1>3. CASE r # None /\ r.src = f.src
           /\ (s.observed < r.barrier \/ f.a # r.next \/ r.next > r.end)
  BY <1>3, FailReceiveSound DEF handleData
<1>4. CASE r # None /\ r.src = f.src
           /\ ~(s.observed < r.barrier \/ f.a # r.next \/ r.next > r.end)
  <2>1. handleData(n, s, f) = IF r.next = r.packets THEN control(v, ack)
                              ELSE IF r.next = r.end THEN grant(n, u) ELSE u
    BY <1>4 DEF handleData
  <2>2. /\ Fields \subseteq DOMAIN u /\ u.out = s.out /\ u.state = s.state
        /\ u.cannot = s.cannot /\ u.pc = s.pc /\ u.request = s.request /\ u.limit = s.limit
        /\ u.tx = s.tx
        /\ {"src", "next"} \subseteq DOMAIN u.rx /\ u.rx.src = s.rx.src
    BY <1>4 DEF Sound, Fields
  <2>3. u.rx # None
    <3>1. "next" \in DOMAIN u.rx /\ "next" \notin DOMAIN None
      BY <2>2 DEF None
    <3> QED BY <3>1
  <2>4. ack.kind = "eoma"
    BY DEF Frame
  <2> HIDE DEF u, ack
  <2>5. Sound(n, u) /\ Keeps(s, u)
    BY <1>4, <2>2, ReceivingSound
  <2>6. Sound(n, v) /\ Keeps(u, v)
    BY <2>5, NoReceiveSound
  <2> HIDE DEF v
  <2>7. Sayable(n, v, ack)
    BY <2>2, <2>4, <2>6 DEF Sayable, Keeps
  <2>8. /\ Sound(n, control(v, ack)) /\ Keeps(v, control(v, ack))
        /\ Sound(n, grant(n, u)) /\ Keeps(u, grant(n, u))
    BY <2>3, <2>5, <2>6, <2>7, ControlSound, GrantSound
  <2>9. Keeps(s, control(v, ack)) /\ Keeps(s, grant(n, u))
    BY <2>5, <2>6, <2>8 DEF Keeps
  <2> QED BY <2>1, <2>5, <2>8, <2>9
<1> QED BY <1>2, <1>3, <1>4

LEMMA RtsSound ==
  ASSUME NEW n, NEW s, Sound(n, s), s.state = "claimed", NEW f
  PROVE  Sound(n, handleRts(n, s, f)) /\ Keeps(s, handleRts(n, s, f))
<1> DEFINE u == [s EXCEPT !.rx = None]
           rx == [src |-> f.src, pgn |-> f.pgn, packets |-> f.a, next |-> 1, end |-> 0,
                  window |-> f.b, barrier |-> 0, id |-> f.id]
           v == [s EXCEPT !.rx = rx]
<1>1. Sound(n, abort(n, s, f.src, f.pgn)) /\ Keeps(s, abort(n, s, f.src, f.pgn))
  BY AbortSound
<1>2. Sound(n, abort(n, u, f.src, f.pgn)) /\ Keeps(s, abort(n, u, f.src, f.pgn))
  <2>1. Sound(n, u) /\ Keeps(s, u)
    BY NoReceiveSound
  <2> HIDE DEF u
  <2>2. u.state = "claimed"
    BY <2>1 DEF Keeps
  <2> QED BY <2>1, <2>2, AbortSound, KeepsTransitive
<1>3. ASSUME s.rx = None, ~(s.tx # None /\ s.tx.dst = f.src)
      PROVE  Sound(n, grant(n, v)) /\ Keeps(s, grant(n, v))
  <2>1. {"src", "next"} \subseteq DOMAIN rx /\ rx.src = f.src /\ rx # None
    BY DEF None
  <2> HIDE DEF rx
  <2>2. /\ Fields \subseteq DOMAIN v /\ v.out = s.out /\ v.state = s.state
        /\ v.cannot = s.cannot /\ v.pc = s.pc /\ v.request = s.request /\ v.limit = s.limit
        /\ v.tx = s.tx
        /\ v.rx = rx
    BY DEF Sound, Fields
  <2> HIDE DEF v
  <2>3. Sound(n, v) /\ Keeps(s, v)
    <3>1. /\ v.tx # None => s.state = "claimed" /\ "dst" \in DOMAIN v.tx
          /\ v.rx # None => s.state = "claimed" /\ "next" \in DOMAIN v.rx
          /\ "src" \in DOMAIN v.rx
          /\ v.tx # None /\ v.rx # None => v.tx.dst # v.rx.src
      BY <1>3, <2>1, <2>2 DEF Sound
    <3> QED BY <2>2, <3>1, TransfersSound
  <2>4. Sound(n, grant(n, v)) /\ Keeps(v, grant(n, v))
    BY <2>1, <2>2, <2>3, GrantSound
  <2> QED BY <2>3, <2>4, KeepsTransitive
<1>4. \/ handleRts(n, s, f) = abort(n, s, f.src, f.pgn)
      \/ handleRts(n, s, f) = abort(n, u, f.src, f.pgn)
      \/ /\ handleRts(n, s, f) = grant(n, v)
         /\ s.rx = None /\ ~(s.tx # None /\ s.tx.dst = f.src)
  <2>1. CASE s.rx # None
    BY <2>1 DEF handleRts
  <2>2. CASE s.rx = None /\ (f.b = 0 \/ (s.tx # None /\ s.tx.dst = f.src))
    BY <2>2 DEF handleRts
  <2>3. CASE s.rx = None /\ f.b # 0 /\ ~(s.tx # None /\ s.tx.dst = f.src)
    BY <2>3 DEF handleRts
  <2> QED BY <2>1, <2>2, <2>3
<1> QED BY <1>1, <1>2, <1>3, <1>4

LEMMA AbortedSound ==
  ASSUME NEW n, NEW s, Sound(n, s), NEW f
  PROVE  Sound(n, handleAbort(s, f)) /\ Keeps(s, handleAbort(s, f))
<1> DEFINE u == IF s.rx # None /\ s.rx.src = f.src /\ s.rx.pgn = f.pgn
                THEN [s EXCEPT !.rx = None] ELSE s
<1>1. Sound(n, u) /\ Keeps(s, u)
  <2>1. Keeps(s, s)
    BY DEF Keeps
  <2> QED BY <2>1, NoReceiveSound
<1>2. handleAbort(s, f) = IF u.tx # None /\ u.tx.dst = f.src /\ u.tx.pgn = f.pgn
                          THEN finishSend(u, "protocol") ELSE u
  BY DEF handleAbort
<1> HIDE DEF u
<1> QED BY <1>1, <1>2, FinishSound, KeepsTransitive

LEMMA EomaSound ==
  ASSUME NEW n, NEW s, Sound(n, s), NEW f
  PROVE  Sound(n, handleEoma(n, s, f)) /\ Keeps(s, handleEoma(n, s, f))
<1>1. Keeps(s, s)
  BY DEF Keeps
<1> QED BY <1>1, FailSendSound, FinishSound DEF handleEoma

LEMMA CtsSound ==
  ASSUME NEW n, NEW s, Sound(n, s), NEW f
  PROVE  Sound(n, handleCts(n, s, f)) /\ Keeps(s, handleCts(n, s, f))
<1> DEFINE t == [s EXCEPT !.tx.next = f.b, !.tx.end = f.b + f.a - 1, !.tx.due = TRUE]
<1>1. Keeps(s, s)
  BY DEF Keeps
<1>2. ASSUME s.tx # None PROVE Sound(n, t) /\ Keeps(s, t)
  <2>1. /\ Fields \subseteq DOMAIN t /\ t.out = s.out /\ t.state = s.state
        /\ t.cannot = s.cannot /\ t.pc = s.pc /\ t.request = s.request /\ t.limit = s.limit
        /\ t.rx = s.rx
        /\ "dst" \in DOMAIN t.tx /\ t.tx.dst = s.tx.dst
    BY <1>2 DEF Sound, Fields
  <2> HIDE DEF t
  <2>2. /\ t.tx # None => s.state = "claimed" /\ "dst" \in DOMAIN t.tx
        /\ t.rx # None => s.state = "claimed" /\ "next" \in DOMAIN t.rx
        /\ "src" \in DOMAIN t.rx
        /\ t.tx # None /\ t.rx # None => t.tx.dst # t.rx.src
    BY <1>2, <2>1 DEF Sound
  <2> QED BY <2>1, <2>2, TransfersSound
<1>3. \/ handleCts(n, s, f) = s
      \/ s.tx # None /\ handleCts(n, s, f) = failSend(n, s, "protocol")
      \/ s.tx # None /\ handleCts(n, s, f) = t
  BY DEF handleCts
<1> HIDE DEF t
<1> QED BY <1>1, <1>2, <1>3, FailSendSound

\* The transport part of a frame, for a client that has its address.
LEMMA TransportSound ==
  ASSUME NEW n, NEW s, Sound(n, s), s.state = "claimed", NEW f, NEW fires
  PROVE  /\ Sound(n, handleTransport(n, s, f, fires))
         /\ Keeps(s, handleTransport(n, s, f, fires))
<1> DEFINE u == expireTransport(n, s, fires)
           w == handleTransport(n, s, f, fires)
<1>1. Sound(n, u) /\ Keeps(s, u)
  BY ExpireSound
<1>2. \/ w = u
      \/ w = handleData(n, u, f)
      \/ u.rx # None /\ w = failReceive(n, u)
      \/ w = handleRts(n, u, f)
      \/ w = handleAbort(u, f)
      \/ w = handleCts(n, u, f)
      \/ w = handleEoma(n, u, f)
  BY DEF handleTransport
<1> HIDE DEF u, w
<1>3. u.state = "claimed"
  BY <1>1 DEF Keeps
<1>4. Keeps(u, u)
  BY DEF Keeps
<1>5. Sound(n, w) /\ Keeps(u, w)
  BY <1>1, <1>2, <1>3, <1>4, DataSound, FailReceiveSound, RtsSound, AbortedSound, CtsSound, EomaSound
<1> QED BY <1>1, <1>5, KeepsTransitive DEF u, w

-----------------------------------------------------------------------------
(* Claims, requests and the end of an iteration                            *)

LEMMA InvalidateSound ==
  ASSUME NEW n, NEW s, Sound(n, s), NEW peers
  PROVE  /\ Sound(n, invalidatePeers(s, peers)) /\ Keeps(s, invalidatePeers(s, peers))
         /\ invalidatePeers(s, peers).out = s.out /\ invalidatePeers(s, peers).pc = s.pc
<1> DEFINE u == IF s.tx # None /\ s.tx.dst \in peers THEN finishSend(s, "protocol") ELSE s
<1>1. Sound(n, u) /\ Keeps(s, u) /\ u.out = s.out /\ u.pc = s.pc
  <2>1. Keeps(s, s)
    BY DEF Keeps
  <2> QED BY <2>1, FinishSound
<1>2. invalidatePeers(s, peers) =
        IF u.rx # None /\ u.rx.src \in peers THEN [u EXCEPT !.rx = None] ELSE u
  BY DEF invalidatePeers
<1> HIDE DEF u
<1> QED BY <1>1, <1>2, NoReceiveSound, KeepsTransitive

\* The fields a client's soundness is about.
LEMMA SameSound ==
  ASSUME NEW n, NEW s, Sound(n, s), NEW t, Fields \subseteq DOMAIN t,
         t.out = s.out, t.state = s.state, t.cannot = s.cannot, t.pc = s.pc,
         t.request = s.request, t.tx = s.tx, t.rx = s.rx
  PROVE  Sound(n, t) /\ (t.limit = s.limit => Keeps(s, t))
BY DEF Sound, Sayable, Keeps

LEMMA ObserveSound ==
  ASSUME NEW n, NEW s, Sound(n, s), NEW f
  PROVE  /\ Sound(n, ObservePeer(s, f)) /\ Keeps(s, ObservePeer(s, f))
         /\ ObservePeer(s, f).out = s.out /\ ObservePeer(s, f).pc = s.pc
<1> DEFINE old == {x \in DOMAIN s.peers : s.peers[x] = f.a /\ x # f.src}
           t == [s EXCEPT !.peers = [x \in DOMAIN @ |-> IF x \in old THEN 0 ELSE @[x]]]
           u == invalidatePeers(t, old)
           v == IF u.peers[f.src] # 0 THEN invalidatePeers(u, {f.src}) ELSE u
           w == [v EXCEPT !.peers[f.src] = f.a]
<1>1. ObservePeer(s, f) = IF f.src >= NullAddress \/ u.peers[f.src] = f.a THEN u ELSE w
  BY DEF ObservePeer
<1>2. Sound(n, t) /\ Keeps(s, t) /\ t.out = s.out /\ t.pc = s.pc
  <2> HIDE DEF old
  <2>1. /\ Fields \subseteq DOMAIN t /\ t.out = s.out /\ t.state = s.state
        /\ t.cannot = s.cannot /\ t.pc = s.pc /\ t.request = s.request /\ t.limit = s.limit
        /\ t.tx = s.tx
        /\ t.rx = s.rx
    BY DEF Sound, Fields
  <2> HIDE DEF t
  <2> QED BY <2>1, SameSound
<1> HIDE DEF t, old
<1>3. Sound(n, u) /\ Keeps(s, u) /\ u.out = s.out /\ u.pc = s.pc
  BY <1>2, InvalidateSound, KeepsTransitive
<1> HIDE DEF u
<1>4. Sound(n, v) /\ Keeps(s, v) /\ v.out = s.out /\ v.pc = s.pc
  BY <1>3, InvalidateSound, KeepsTransitive
<1> HIDE DEF v
<1>5. Sound(n, w) /\ Keeps(s, w) /\ w.out = s.out /\ w.pc = s.pc
  <2>1. /\ Fields \subseteq DOMAIN w /\ w.out = v.out /\ w.state = v.state
        /\ w.cannot = v.cannot /\ w.pc = v.pc /\ w.request = v.request /\ w.limit = v.limit
        /\ w.tx = v.tx
        /\ w.rx = v.rx
    BY <1>4 DEF Sound, Fields
  <2> HIDE DEF w
  <2> QED BY <1>4, <2>1, SameSound, KeepsTransitive
<1> HIDE DEF w
<1> QED BY <1>1, <1>3, <1>5

\* A client that loses its address has nothing left to send and no transfer.
LEMMA LoseSound ==
  ASSUME NEW n, NEW s, Sound(n, s), s.out = <<>>
  PROVE  /\ Sound(n, loseAddress(s)) /\ loseAddress(s).state = "lost"
         /\ loseAddress(s).out = <<>> /\ loseAddress(s).pc = s.pc
         /\ loseAddress(s).request = s.request /\ loseAddress(s).limit = s.limit
<1> DEFINE u == [s EXCEPT !.state = "lost"]
           v == finishSend(u, "lost")
           w == [v EXCEPT !.rx = None, !.cannot = TRUE]
<1>1. loseAddress(s) = w
  BY DEF loseAddress
<1>2. /\ Fields \subseteq DOMAIN u /\ u.state = "lost" /\ u.out = <<>> /\ u.pc = s.pc
      /\ u.request = s.request /\ u.limit = s.limit
  BY DEF Sound, Fields
<1> HIDE DEF u
<1>3. /\ Fields \subseteq DOMAIN v /\ v.state = "lost" /\ v.out = <<>> /\ v.pc = s.pc
      /\ v.request = s.request /\ v.limit = s.limit /\ v.tx = None
  BY <1>2 DEF finishSend, Fields
<1> HIDE DEF v
<1>4. /\ Fields \subseteq DOMAIN w /\ w.state = "lost" /\ w.out = <<>> /\ w.pc = s.pc
      /\ w.request = s.request /\ w.limit = s.limit /\ w.tx = None /\ w.rx = None /\ w.cannot = TRUE
  BY <1>3 DEF Fields
<1> HIDE DEF w
<1>5. IsSeq(<<>>) /\ Len(<<>>) = 0
  BY EmptySeq, IsASequence
<1>6. Sound(n, w)
  <2>1. IsSeq(w.out) /\ \A i \in 1 .. Len(w.out) : Sayable(n, w, w.out[i])
    BY <1>4, <1>5
  <2>2. "src" \in DOMAIN w.rx
    BY <1>4 DEF None
  <2> QED BY <1>4, <2>1, <2>2 DEF Sound
<1> QED BY <1>1, <1>4, <1>6

\* A challenged client has repeated its claim, ended or lost its address.
LEMMA HandleClaimSound ==
  ASSUME NEW n, NEW s, Sound(n, s), s.out = <<>>, NEW f
  PROVE  LET t == handleClaim(n, s, f) IN
         /\ Sound(n, t) /\ t.state \in {s.state, "lost"} /\ t.request = s.request
         /\ t.limit = s.limit
         /\ t.pc = s.pc \/ t.pc = "done"
         /\ Challenges(n, s, f) =>
              \/ t.state = "lost"
              \/ t.pc = "done"
              \/ t.out = Append(<<>>, Frame("claim", Address(n), GlobalAddress, 0, Name(n), 0, 0))
<1>1. ASSUME Challenges(n, s, f), f.a > Name(n)
      PROVE  handleClaim(n, s, f) = claim(n, s, Address(n))
  BY <1>1 DEF handleClaim
<1>2. ASSUME Challenges(n, s, f), ~(f.a > Name(n))
      PROVE  handleClaim(n, s, f) = ObservePeer(loseAddress(s), f)
  BY <1>2 DEF handleClaim
<1>3. ASSUME ~Challenges(n, s, f)
      PROVE  handleClaim(n, s, f) = ObservePeer(s, f)
  BY <1>3 DEF handleClaim
<1>4. CASE Challenges(n, s, f) /\ f.a > Name(n)
  BY <1>1, <1>4, ClaimSound DEF Keeps
<1>5. CASE Challenges(n, s, f) /\ ~(f.a > Name(n))
  BY <1>2, <1>5, LoseSound, ObserveSound DEF Keeps
<1>6. CASE ~Challenges(n, s, f)
  BY <1>3, <1>6, ObserveSound DEF Keeps
<1> QED BY <1>4, <1>5, <1>6

LEMMA CompleteSound ==
  ASSUME NEW n, NEW s, Sound(n, s), NEW passed
  PROVE  LET t == completeClaim(s, passed) IN
         /\ Sound(n, t) /\ t.out = s.out /\ t.pc = s.pc /\ t.request = s.request
         /\ t.limit = s.limit
         /\ t.state = s.state \/ (s.state = "claiming" /\ t.state = "claimed")
<1> DEFINE u == [s EXCEPT !.state = "claimed", !.ready = "open"]
<1>1. CASE ~(passed /\ s.state = "claiming")
  BY <1>1 DEF completeClaim
<1>2. CASE passed /\ s.state = "claiming"
  <2>1. completeClaim(s, passed) = u
    BY <1>2 DEF completeClaim
  <2>2. /\ Fields \subseteq DOMAIN u /\ u.out = s.out /\ u.state = "claimed"
        /\ u.cannot = s.cannot /\ u.pc = s.pc /\ u.request = s.request /\ u.limit = s.limit
        /\ u.tx = s.tx
        /\ u.rx = s.rx
    BY DEF Sound, Fields
  <2> HIDE DEF u
  <2>3. \A i \in 1 .. Len(u.out) : Sayable(n, u, u.out[i])
    BY <1>2, <2>2 DEF Sound, Sayable
  <2>4. Sound(n, u)
    BY <1>2, <2>2, <2>3 DEF Sound
  <2> QED BY <1>2, <2>1, <2>2, <2>4
<1> QED BY <1>1, <1>2

\* A request for a claim: a client that lost its address cannot claim one.
LEMMA HandleRequestSound ==
  ASSUME NEW n, NEW s, Sound(n, s), s.state # "none"
  PROVE  Sound(n, handleRequest(n, s)) /\ Keeps(s, handleRequest(n, s))
<1> DEFINE u == [s EXCEPT !.cannot = TRUE]
<1>1. CASE s.state \in {"claiming", "claimed"}
  BY <1>1, ClaimSound DEF handleRequest
<1>2. CASE s.state \notin {"claiming", "claimed"}
  <2>1. handleRequest(n, s) = u
    BY <1>2 DEF handleRequest
  <2>2. /\ Fields \subseteq DOMAIN u /\ u.out = s.out /\ u.state = s.state
        /\ u.cannot = TRUE /\ u.pc = s.pc /\ u.request = s.request /\ u.limit = s.limit
        /\ u.tx = s.tx
        /\ u.rx = s.rx /\ s.state = "lost"
    BY <1>2 DEF Sound, Fields
  <2> HIDE DEF u
  <2>3. Sound(n, u) /\ Keeps(s, u)
    BY <2>2 DEF Sound, Sayable, Keeps
  <2> QED BY <2>1, <2>3
<1> QED BY <1>1, <1>2

\* One frame of the snapshot: only the loss of the address ends a claim.
LEMMA HandleSound ==
  ASSUME NEW n, NEW s, Sound(n, s), s.out = <<>>, s.state # "none", NEW f, NEW fires
  PROVE  LET t == handle(n, s, f, fires) IN
         /\ Sound(n, t) /\ t.request = s.request /\ t.limit = s.limit
         /\ t.pc = s.pc \/ t.pc = "done"
         /\ \/ t.state \in {s.state, "lost"}
            \/ s.state = "claiming" /\ t.state = "claimed"
<1> DEFINE t == handle(n, s, f, fires)
           u == completeClaim(s, "claim" \in fires)
<1>1. CASE f.kind = "claim"
  <2>1. t = handleClaim(n, s, f)
    BY <1>1 DEF handle
  <2> HIDE DEF t
  <2>2. /\ Sound(n, t) /\ t.state \in {s.state, "lost"} /\ t.request = s.request /\ t.limit = s.limit
        /\ t.pc = s.pc \/ t.pc = "done"
    BY <2>1, HandleClaimSound
  <2> QED BY <2>2 DEF t
<1>2. CASE f.kind = "request" /\ f.dst \in {GlobalAddress, Address(n)}
  <2>1. t = handleRequest(n, s)
    BY <1>2 DEF handle
  <2> HIDE DEF t
  <2>2. Sound(n, t) /\ Keeps(s, t)
    BY <2>1, HandleRequestSound
  <2> QED BY <2>2 DEF t, Keeps
<1>3. CASE f.kind # "claim" /\ ~(f.kind = "request" /\ f.dst \in {GlobalAddress, Address(n)})
  <2>1. t = u \/ (u.state = "claimed" /\ t = handleTransport(n, u, f, fires))
    BY <1>3 DEF handle
  <2> HIDE DEF t
  <2>2. /\ Sound(n, u) /\ u.pc = s.pc /\ u.request = s.request /\ u.limit = s.limit
        /\ u.state = s.state \/ (s.state = "claiming" /\ u.state = "claimed")
    BY CompleteSound
  <2> HIDE DEF u
  <2>3. Sound(n, t) /\ Keeps(u, t)
    <3>1. Keeps(u, u)
      BY DEF Keeps
    <3> QED BY <2>1, <2>2, <3>1, TransportSound
  <2> QED BY <2>2, <2>3 DEF t, Keeps
<1> QED BY <1>1, <1>2, <1>3

\* The request the loop took, of a message of this client's.
LEMMA StartSound ==
  ASSUME NEW n, NEW s, Sound(n, s), NEW m, m = 0 \/ Msg(m).kind # "claim"
  PROVE  Sound(n, startSend(n, s, m)) /\ Keeps(s, startSend(n, s, m))
<1> DEFINE r == Msg(m)
           result(res) == [s EXCEPT !.res = [@ EXCEPT ![m] = res]]
           refused == IF s.ctx THEN "closed" ELSE "full"
           rts == Frame(IF r.dst = GlobalAddress THEN "bam" ELSE "rts", Address(n), r.dst, r.pgn,
                        r.packets, r.packets, m)
           whole == Frame(r.kind, Address(n), r.dst, r.pgn, 0, 0, m)
           tx == [id |-> m, dst |-> r.dst, pgn |-> r.pgn, packets |-> r.packets, next |-> 1,
                  sent |-> 0, end |-> 0, due |-> r.dst = GlobalAddress, barrier |-> s.sent + 1]
           u == [s EXCEPT !.tx = tx]
           t == startSend(n, s, m)
<1>1. \/ t = s
      \/ \E res \in {"context", "lost", "busy", refused} : t = result(res)
      \/ m # 0 /\ s.state = "claimed" /\ t = Put(result("nil"), whole)
      \/ /\ m # 0 /\ s.state = "claimed" /\ s.tx = None /\ ~(s.rx # None /\ s.rx.src = r.dst)
         /\ t = Put(u, rts)
  <2>1. CASE m = 0
    BY <2>1 DEF startSend
  <2>2. CASE m # 0 /\ m \in cancelled
    BY <2>2 DEF startSend
  <2>3. CASE m # 0 /\ m \notin cancelled /\ s.state # "claimed"
    BY <2>3 DEF startSend
  <2>4. CASE m # 0 /\ m \notin cancelled /\ s.state = "claimed"
    BY <2>4 DEF startSend
  <2> QED BY <2>1, <2>2, <2>3, <2>4
<1>2. \A res : Sound(n, result(res)) /\ Keeps(s, result(res)) /\ result(res).state = s.state
  <2> SUFFICES ASSUME NEW res
               PROVE  /\ Sound(n, result(res)) /\ Keeps(s, result(res))
                      /\ result(res).state = s.state
    OBVIOUS
  <2> DEFINE v == result(res)
  <2>1. /\ Fields \subseteq DOMAIN v /\ v.out = s.out /\ v.state = s.state
        /\ v.cannot = s.cannot /\ v.pc = s.pc /\ v.request = s.request /\ v.limit = s.limit
        /\ v.tx = s.tx
        /\ v.rx = s.rx
    BY DEF Sound, Fields
  <2> HIDE DEF v
  <2>2. Sound(n, v) /\ Keeps(s, v) /\ v.state = s.state
    BY <2>1, SameSound
  <2> QED BY <2>2 DEF v
<1>3. ASSUME m # 0, s.state = "claimed"
      PROVE  LET w == Put(result("nil"), whole) IN Sound(n, w) /\ Keeps(s, w)
  <2>1. whole.kind # "claim"
    BY <1>3 DEF Frame
  <2> HIDE DEF whole
  <2> DEFINE v == result("nil")
  <2>2. Sound(n, v) /\ Keeps(s, v) /\ v.state = s.state
    BY <1>2
  <2> HIDE DEF v
  <2>3. Sayable(n, v, whole)
    BY <1>3, <2>1, <2>2 DEF Sayable
  <2>4. Sound(n, Put(v, whole)) /\ Keeps(v, Put(v, whole))
    BY <2>2, <2>3, PutSound
  <2>5. Sound(n, Put(v, whole)) /\ Keeps(s, Put(v, whole))
    BY <2>2, <2>4, KeepsTransitive
  <2> QED BY <2>5 DEF v
<1>4. ASSUME m # 0, s.state = "claimed", s.tx = None, ~(s.rx # None /\ s.rx.src = r.dst)
      PROVE  Sound(n, Put(u, rts)) /\ Keeps(s, Put(u, rts))
  <2>1. rts.kind # "claim" /\ tx.dst = r.dst /\ "dst" \in DOMAIN tx
    BY DEF Frame
  <2> HIDE DEF rts, tx
  <2>2. /\ Fields \subseteq DOMAIN u /\ u.out = s.out /\ u.state = s.state
        /\ u.cannot = s.cannot /\ u.pc = s.pc /\ u.request = s.request /\ u.limit = s.limit
        /\ u.tx = tx
        /\ u.rx = s.rx
    BY DEF Sound, Fields
  <2> HIDE DEF u
  <2>3. Sound(n, u) /\ Keeps(s, u)
    <3>1. /\ u.tx # None => s.state = "claimed" /\ "dst" \in DOMAIN u.tx
          /\ u.rx # None => s.state = "claimed" /\ "next" \in DOMAIN u.rx
          /\ "src" \in DOMAIN u.rx
          /\ u.tx # None /\ u.rx # None => u.tx.dst # u.rx.src
      BY <1>4, <2>1, <2>2 DEF Sound
    <3> QED BY <2>2, <3>1, TransfersSound
  <2>4. Sayable(n, u, rts)
    BY <1>4, <2>1, <2>2 DEF Sayable
  <2>5. Sound(n, Put(u, rts)) /\ Keeps(u, Put(u, rts))
    BY <2>3, <2>4, PutSound
  <2> QED BY <2>3, <2>5, KeepsTransitive
<1>5. Keeps(s, s)
  BY DEF Keeps
<1> HIDE DEF t, u, rts, whole, tx, result, refused
<1>6. Sound(n, t) /\ Keeps(s, t)
  BY <1>1, <1>2, <1>3, <1>4, <1>5
<1> QED BY <1>6 DEF t

LEMMA TickTransportSound ==
  ASSUME NEW n, NEW s, Sound(n, s), NEW fires
  PROVE  /\ Sound(n, tickTransport(n, s, fires))
         /\ Keeps(s, tickTransport(n, s, fires))
<1> DEFINE t == s.tx
           last == t.next = (IF t.dst = GlobalAddress THEN t.packets ELSE t.end)
           u == [s EXCEPT !.tx.next = @ + 1, !.tx.sent = Max({@, t.next}),
                          !.tx.barrier = s.sent + 1, !.tx.due = ~last,
                          !.tx.end = IF last THEN 0 ELSE @]
           f == Frame("dt", Address(n), t.dst, 0, t.next, 0, t.id)
           v == Put(u, f)
           x == Put(s, f)
           w == tickTransport(n, s, fires)
<1>1. \/ w = s
      \/ t # None /\ w = failSend(n, s, "context")
      \/ t # None /\ w = failSend(n, s, "timeout")
      \/ t # None /\ w = failSend(n, x, "timeout")
      \/ t # None /\ w = failSend(n, s, IF s.ctx THEN "closed" ELSE "full")
      \/ t # None /\ w = finishSend(v, "nil")
      \/ t # None /\ w = v
  <2> HIDE DEF last
  <2>1. CASE t = None
    BY <2>1 DEF tickTransport
  <2>2. CASE t # None /\ t.id \in cancelled
    BY <2>2 DEF tickTransport
  <2>3. CASE t # None /\ t.id \notin cancelled
    BY <2>3 DEF tickTransport, last
  <2> QED BY <2>1, <2>2, <2>3
<1> HIDE DEF w
<1>2. ASSUME t # None PROVE Sound(n, v) /\ Keeps(s, v)
  <2> HIDE DEF last
  <2>1. /\ Fields \subseteq DOMAIN u /\ u.out = s.out /\ u.state = s.state
        /\ u.cannot = s.cannot /\ u.pc = s.pc /\ u.request = s.request /\ u.limit = s.limit
        /\ u.rx = s.rx
        /\ "dst" \in DOMAIN u.tx /\ u.tx.dst = s.tx.dst
    BY <1>2 DEF Sound, Fields
  <2>2. f.kind = "dt"
    BY DEF Frame
  <2> HIDE DEF u, f
  <2>3. Sound(n, u) /\ Keeps(s, u)
    <3>1. /\ u.tx # None => s.state = "claimed" /\ "dst" \in DOMAIN u.tx
          /\ u.rx # None => s.state = "claimed" /\ "next" \in DOMAIN u.rx
          /\ "src" \in DOMAIN u.rx
          /\ u.tx # None /\ u.rx # None => u.tx.dst # u.rx.src
      BY <1>2, <2>1 DEF Sound
    <3> QED BY <2>1, <3>1, TransfersSound
  <2>4. Sayable(n, u, f)
    BY <1>2, <2>1, <2>2 DEF Sayable, Sound
  <2>5. Sound(n, v) /\ Keeps(u, v)
    BY <2>3, <2>4, PutSound
  <2> QED BY <2>3, <2>5, KeepsTransitive
<1>7. ASSUME t # None
      PROVE  /\ Sound(n, failSend(n, x, "timeout"))
             /\ Keeps(s, failSend(n, x, "timeout"))
  <2>1. s.state = "claimed" /\ f.kind = "dt"
    BY <1>7 DEF Sound, Frame
  <2> HIDE DEF f
  <2>2. Sayable(n, s, f)
    BY <2>1 DEF Sayable
  <2>3. x.tx = s.tx
    BY DEF Put, Sound, Fields
  <2>4. Sound(n, x) /\ Keeps(s, x)
    BY <2>2, PutSound
  <2> HIDE DEF x
  <2>5. x.tx # None
    BY <1>7, <2>3
  <2> QED BY <2>4, <2>5, FailSendSound, KeepsTransitive
<1> HIDE DEF v, x
<1>3. ASSUME t # None
      PROVE  Sound(n, finishSend(v, "nil")) /\ Keeps(s, finishSend(v, "nil"))
  BY <1>2, <1>3, FinishSound, KeepsTransitive
<1>4. ASSUME t # None, NEW res PROVE Sound(n, failSend(n, s, res)) /\ Keeps(s, failSend(n, s, res))
  BY <1>4, FailSendSound
<1>5. Keeps(s, s)
  BY DEF Keeps
<1>6. Sound(n, w) /\ Keeps(s, w)
  BY <1>1, <1>2, <1>3, <1>4, <1>5, <1>7
<1> QED BY <1>6 DEF w

LEMMA TickSound ==
  ASSUME NEW n, NEW s, Sound(n, s), NEW fires
  PROVE  Sound(n, tick(n, s, fires)) /\ Keeps(s, tick(n, s, fires))
<1> DEFINE u == [s EXCEPT !.cannot = FALSE, !.ready = IF @ = "empty" THEN "lost" ELSE @]
           v == IF s.cannot /\ "cannot" \in fires THEN claim(n, u, NullAddress) ELSE s
<1>1. tick(n, s, fires) = IF Alive(v) THEN tickTransport(n, v, fires) ELSE v
  BY DEF tick
<1>2. ASSUME s.cannot PROVE Sound(n, u) /\ Keeps(s, u) /\ u.state = "lost"
  <2>1. /\ Fields \subseteq DOMAIN u /\ u.out = s.out /\ u.state = s.state
        /\ u.cannot = FALSE /\ u.pc = s.pc /\ u.request = s.request /\ u.limit = s.limit
        /\ u.tx = s.tx
        /\ u.rx = s.rx /\ s.state = "lost"
    BY <1>2 DEF Sound, Fields
  <2> HIDE DEF u
  <2> QED BY <2>1 DEF Sound, Sayable, Keeps
<1> HIDE DEF u
<1>3. Sound(n, v) /\ Keeps(s, v)
  <2>1. Keeps(s, s)
    BY DEF Keeps
  <2>2. CASE s.cannot /\ "cannot" \in fires
    BY <1>2, <2>2, ClaimSound, KeepsTransitive
  <2>3. CASE ~(s.cannot /\ "cannot" \in fires)
    BY <2>1, <2>3
  <2> QED BY <2>2, <2>3
<1> HIDE DEF v
<1> QED BY <1>1, <1>3, TickTransportSound, KeepsTransitive

\* The end of the snapshot, the request and the ticker.
LEMMA EndSound ==
  ASSUME NEW n, NEW s, Sound(n, s), NEW fires, NEW m, m = 0 \/ Msg(m).kind # "claim"
  PROVE  LET t == EndOfIteration(n, s, fires, m) IN
         /\ Sound(n, t) /\ t.request = s.request /\ t.limit = s.limit
         /\ t.pc = s.pc \/ t.pc = "done"
         /\ t.state = s.state \/ (s.state = "claiming" /\ t.state = "claimed")
<1> DEFINE c == completeClaim(s, "claim" \in fires)
           u == expireTransport(n, c, fires)
           v == IF Alive(u) THEN startSend(n, u, m) ELSE u
           w == IF Alive(v) THEN tick(n, v, fires) ELSE v
<1>1. EndOfIteration(n, s, fires, m) = w
  BY DEF EndOfIteration
<1>2. /\ Sound(n, c) /\ c.pc = s.pc /\ c.request = s.request /\ c.limit = s.limit
      /\ c.state = s.state \/ (s.state = "claiming" /\ c.state = "claimed")
  BY CompleteSound
<1> HIDE DEF c
<1>3. Sound(n, u) /\ Keeps(c, u)
  BY <1>2, ExpireSound
<1> HIDE DEF u
<1>4. Sound(n, v) /\ Keeps(c, v)
  BY <1>3, StartSound, KeepsTransitive
<1> HIDE DEF v
<1>5. Sound(n, w) /\ Keeps(c, w)
  BY <1>4, TickSound, KeepsTransitive
<1> HIDE DEF w
<1> QED BY <1>1, <1>2, <1>5 DEF Keeps

-----------------------------------------------------------------------------
(* The inductive invariant                                                 *)

\* A claim of x, in the NAME and, unless x lost it, of the address of x.
ClaimOf(x, f) == f.a = Name(x) /\ (node[x].state # "lost" => f.src = Address(x))

\* A record that a client has still to read: its own claims are the sent ones,
\* and a claim is of the client that it names.
ReadOk(n, rec) ==
    rec.f.kind = "claim" =>
        /\ rec.dir = "tx" => rec.f.a = Name(n)
        /\ \A x \in Nodes : rec.f.a = Name(x) => ClaimOf(x, rec.f)

\* What run has made of client n: nothing before Open.
Opened(n) ==
    /\ node[n].pc = "new" => node[n].state = "none"
    /\ node[n].state = "none" => node[n].pc = "new" /\ node[n].out = <<>>
    /\ opener[n] = "idle" => node[n].pc = "new"
    /\ node[n].request = 0 \/ node[n].request \in Messages
    /\ node[n].pc = "poll" => node[n].limit \in 0 .. Len(unread[n])

\* What is on its way from and to client n.
Bus(n) ==
    /\ IsSeq(queue[n]) /\ IsSeq(unread[n])
    /\ \A i \in 1 .. Len(queue[n]) : queue[n][i].kind = "claim" => ClaimOf(n, queue[n][i])
    /\ \A i \in 1 .. Len(unread[n]) : ReadOk(n, unread[n][i])

Active(n) == node[n].state \in {"claiming", "claimed"} /\ node[n].pc # "done"

\* Two clients that both want, or have, one address will hear of each other.
Rivalry(n, x) ==
    n # x /\ Active(n) /\ Active(x) /\ Address(n) = Address(x)
        => ClaimUnderWay(n, x) \/ ClaimUnderWay(x, n)

OwnerInv ==
    /\ scenario \in Scenarios
    /\ "rival" \in DOMAIN faults /\ faults.rival \in Nat
    /\ node \in [Nodes -> {node[n] : n \in Nodes}]
    /\ DOMAIN queue = Nodes /\ DOMAIN unread = Nodes /\ DOMAIN opener = Nodes
    /\ \A n \in Nodes : Sound(n, node[n]) /\ Opened(n) /\ Bus(n)
    /\ \A n, x \in Nodes : Rivalry(n, x)

\* The address and the NAME of a client do not change.
LEMMA SameIdentity ==
  ASSUME scenario' = scenario
  PROVE  /\ \A x : Name(x)' = Name(x) /\ Address(x)' = Address(x)
         /\ Messages' = Messages
         /\ \A x \in Nodes : Sound(x, node'[x]) => Sound(x, node[x])'
<1>1. \A x : Name(x)' = Name(x) /\ Address(x)' = Address(x)
  BY DEF Name, Address
<1>2. Messages' = Messages
  BY DEF Messages
<1>3. ASSUME NEW x \in Nodes, Sound(x, node'[x]) PROVE Sound(x, node[x])'
  BY <1>1, <1>3 DEF Sound, Sayable
<1> QED BY <1>1, <1>2, <1>3

\* A lost address stays lost, so a claim that was in order is so after a step.
LEMMA ClaimsStay ==
  ASSUME scenario' = scenario,
         \A x \in Nodes : node[x].state = "lost" => node'[x].state = "lost"
  PROVE  /\ \A x \in Nodes : \A f : ClaimOf(x, f) =>
               f.a = Name(x) /\ (node'[x].state # "lost" => f.src = Address(x))
         /\ \A n \in Nodes : \A rec : ReadOk(n, rec) =>
               (rec.f.kind = "claim" =>
                  /\ rec.dir = "tx" => rec.f.a = Name(n)
                  /\ \A x \in Nodes : rec.f.a = Name(x) =>
                       (node'[x].state # "lost" => rec.f.src = Address(x)))
BY DEF ClaimOf, ReadOk

\* What a step has to keep of the buses.
LEMMA BusStep ==
  ASSUME scenario' = scenario,
         \A x \in Nodes : node[x].state = "lost" => node'[x].state = "lost",
         NEW n \in Nodes, IsSeq(queue'[n]), IsSeq(unread'[n]),
         \A i \in 1 .. Len(queue'[n]) : queue'[n][i].kind = "claim" =>
            \/ ClaimOf(n, queue'[n][i])
            \/ /\ queue'[n][i].a = Name(n)
               /\ node'[n].state # "lost" => queue'[n][i].src = Address(n),
         \A i \in 1 .. Len(unread'[n]) : ReadOk(n, unread'[n][i])
  PROVE  Bus(n)'
<1>1. \A x : Name(x)' = Name(x) /\ Address(x)' = Address(x)
  BY SameIdentity
<1>2. \A i \in 1 .. Len(queue'[n]) : queue'[n][i].kind = "claim" =>
        /\ queue'[n][i].a = Name(n)
        /\ node'[n].state # "lost" => queue'[n][i].src = Address(n)
  BY ClaimsStay
<1>3. \A i \in 1 .. Len(unread'[n]) : unread'[n][i].f.kind = "claim" =>
        /\ unread'[n][i].dir = "tx" => unread'[n][i].f.a = Name(n)
        /\ \A x \in Nodes : unread'[n][i].f.a = Name(x) =>
             (node'[x].state # "lost" => unread'[n][i].f.src = Address(x))
  BY ClaimsStay
<1>4. (\A i \in 1 .. Len(queue[n]) : queue[n][i].kind = "claim" => ClaimOf(n, queue[n][i]))'
  BY <1>1, <1>2 DEF ClaimOf
<1>5. (\A i \in 1 .. Len(unread[n]) : ReadOk(n, unread[n][i]))'
  BY <1>1, <1>3 DEF ReadOk, ClaimOf
<1>6. (IsSeq(queue[n]) /\ IsSeq(unread[n]))'
  BY DEF IsSeq
<1> QED BY <1>4, <1>5, <1>6 DEF Bus

\* A step after which the buses hold the claims they held.
LEMMA RivalryStep ==
  ASSUME OwnerInv, scenario' = scenario, NEW n \in Nodes, NEW x \in Nodes,
         Active(n)' => Active(n), Active(x)' => Active(x),
         ClaimUnderWay(n, x) => ClaimUnderWay(n, x)',
         ClaimUnderWay(x, n) => ClaimUnderWay(x, n)'
  PROVE  Rivalry(n, x)'
<1>1. Address(n)' = Address(n) /\ Address(x)' = Address(x)
  BY SameIdentity
<1>2. Rivalry(n, x)
  BY DEF OwnerInv
<1> QED BY <1>1, <1>2 DEF Rivalry

\* Steps that say and read nothing.
LEMMA SilentStep ==
  ASSUME OwnerInv, UNCHANGED <<queue, unread, scenario>>,
         "rival" \in DOMAIN faults', faults'.rival \in Nat,
         node' \in [Nodes -> {node'[x] : x \in Nodes}], DOMAIN opener' = Nodes,
         \A x \in Nodes :
            /\ Fields \subseteq DOMAIN node'[x]
            /\ node'[x].out = node[x].out /\ node'[x].state = node[x].state
            /\ node'[x].cannot = node[x].cannot
            /\ node'[x].tx = node[x].tx /\ node'[x].rx = node[x].rx
            /\ node'[x].request = 0 \/ node'[x].request \in Messages
            /\ node'[x].pc = "poll" => node'[x].limit \in 0 .. Len(unread[x])
            /\ node'[x].pc = "new" <=> node[x].pc = "new"
            /\ node'[x].pc # "done" => node[x].pc # "done"
            /\ opener'[x] = "idle" => opener[x] = "idle"
  PROVE  OwnerInv'
<1>1. /\ \A x : Name(x)' = Name(x) /\ Address(x)' = Address(x)
      /\ Messages' = Messages
      /\ \A x \in Nodes : Sound(x, node'[x]) => Sound(x, node[x])'
  BY SameIdentity
<1>2. \A x \in Nodes : Sound(x, node[x])'
  <2> SUFFICES ASSUME NEW x \in Nodes PROVE Sound(x, node'[x])
    BY <1>1
  <2>1. Sound(x, node[x])
    BY DEF OwnerInv
  <2> QED BY <2>1 DEF Sound, Sayable
<1>3. \A x \in Nodes : Opened(x)'
  <2> SUFFICES ASSUME NEW x \in Nodes PROVE Opened(x)'
    OBVIOUS
  <2>1. Opened(x)
    BY DEF OwnerInv
  <2> QED BY <1>1, <2>1 DEF Opened
<1>4. \A x \in Nodes : Bus(x)'
  <2> SUFFICES ASSUME NEW x \in Nodes PROVE Bus(x)'
    OBVIOUS
  <2>1. Bus(x)
    BY DEF OwnerInv
  <2>2. /\ IsSeq(queue'[x]) /\ IsSeq(unread'[x])
        /\ \A i \in 1 .. Len(queue'[x]) : queue'[x][i].kind = "claim" => ClaimOf(x, queue'[x][i])
        /\ \A i \in 1 .. Len(unread'[x]) : ReadOk(x, unread'[x][i])
    BY <2>1 DEF Bus
  <2> QED BY <2>2, BusStep
<1>5. \A n, x \in Nodes : Rivalry(n, x)'
  <2> SUFFICES ASSUME NEW n \in Nodes, NEW x \in Nodes PROVE Rivalry(n, x)'
    OBVIOUS
  <2>1. (Active(n)' => Active(n)) /\ (Active(x)' => Active(x))
    BY DEF Active
  <2>2. /\ ClaimUnderWay(n, x) => ClaimUnderWay(n, x)'
        /\ ClaimUnderWay(x, n) => ClaimUnderWay(x, n)'
    BY <1>1 DEF ClaimUnderWay
  <2> QED BY <2>1, <2>2, RivalryStep
<1>6. (/\ scenario \in Scenarios
       /\ "rival" \in DOMAIN faults /\ faults.rival \in Nat
       /\ node \in [Nodes -> {node[n] : n \in Nodes}]
       /\ DOMAIN queue = Nodes /\ DOMAIN unread = Nodes /\ DOMAIN opener = Nodes)'
  BY DEF OwnerInv
<1> QED BY <1>2, <1>3, <1>4, <1>5, <1>6 DEF OwnerInv

-----------------------------------------------------------------------------
(* The buses and the captures                                              *)

\* A capture records a frame for its client.
\* What was to be read stays so.
Grows(u, v) == Len(u) \in Nat /\ Len(u) <= Len(v) /\ \A i \in 1 .. Len(u) : v[i] = u[i]

LEMMA RecordedOk ==
  ASSUME OwnerInv, NEW x \in Nodes, NEW dir, NEW f, ReadOk(x, [dir |-> dir, f |-> f])
  PROVE  LET u == Recorded(x, dir, f) IN
         /\ IsSeq(u) /\ \A i \in 1 .. Len(u) : ReadOk(x, u[i])
         /\ Grows(unread[x], u)
         /\ Active(x) => \E i \in 1 .. Len(u) : u[i].f = f
<1> DEFINE rec == [dir |-> dir, f |-> f]
           u == Append(unread[x], rec)
<1>1. /\ IsSeq(unread[x]) /\ \A i \in 1 .. Len(unread[x]) : ReadOk(x, unread[x][i])
      /\ Opened(x)
  BY DEF OwnerInv, Bus
<1>2. rec.f = f
  OBVIOUS
<1> HIDE DEF rec
<1>3. /\ IsSeq(u) /\ Len(unread[x]) \in Nat /\ Len(u) = Len(unread[x]) + 1
      /\ u[Len(unread[x]) + 1] = rec /\ \A i \in 1 .. Len(unread[x]) : u[i] = unread[x][i]
  BY <1>1, Appended
<1> HIDE DEF u
<1>4. \A i \in 1 .. Len(u) : ReadOk(x, u[i])
  <2> SUFFICES ASSUME NEW i \in 1 .. Len(u) PROVE ReadOk(x, u[i])
    OBVIOUS
  <2>1. i \in 1 .. Len(unread[x]) \/ i = Len(unread[x]) + 1
    BY <1>3
  <2>2. ReadOk(x, rec)
    BY DEF rec
  <2> QED BY <1>1, <1>3, <2>1, <2>2
<1>5. Grows(unread[x], u)
  BY <1>3 DEF Grows
<1>6. \E i \in 1 .. Len(u) : u[i].f = f
  <2>1. Len(unread[x]) + 1 \in 1 .. Len(u)
    BY <1>3
  <2> QED BY <1>2, <1>3, <2>1
<1>7. CASE node[x].pc \in {"new", "done"}
  <2>1. Recorded(x, dir, f) = unread[x]
    BY <1>7 DEF Recorded
  <2>2. ~Active(x)
    BY <1>1, <1>7 DEF Active, Opened
  <2>3. Grows(unread[x], unread[x])
    BY <1>3 DEF Grows
  <2> QED BY <1>1, <2>1, <2>2, <2>3
<1>8. CASE node[x].pc \notin {"new", "done"}
  <2>1. Recorded(x, dir, f) = u
    BY <1>8 DEF Recorded, u, rec
  <2> QED BY <1>3, <1>4, <1>5, <1>6, <2>1
<1> QED BY <1>7, <1>8

\* Client x in a step that brings what is on its way further, and loses no
\* claim that a client with an address could read.
Heard(x) ==
    /\ Sound(x, node'[x])
    /\ node'[x].state = node[x].state /\ node'[x].pc = node[x].pc
    /\ node'[x].request = node[x].request /\ node'[x].limit = node[x].limit
    /\ node'[x].state = "none" => node'[x].out = <<>>
    /\ IsSeq(queue'[x]) /\ IsSeq(unread'[x])
    /\ \A i \in 1 .. Len(queue'[x]) : queue'[x][i].kind = "claim" => ClaimOf(x, queue'[x][i])
    /\ \A i \in 1 .. Len(unread'[x]) : ReadOk(x, unread'[x][i])
    /\ Grows(unread[x], unread'[x])
    /\ \A i \in 1 .. Len(queue[x]) : queue[x][i].kind = "claim" =>
          \/ \E j \in 1 .. Len(queue'[x]) : queue'[x][j] = queue[x][i]
          \/ \A y \in Nodes \ {x} : Active(y) =>
                \E j \in 1 .. Len(unread'[y]) : unread'[y][j].f = queue[x][i]

LEMMA HearStep ==
  ASSUME OwnerInv, UNCHANGED <<scenario, opener>>,
         "rival" \in DOMAIN faults', faults'.rival \in Nat,
         node' \in [Nodes -> {node'[x] : x \in Nodes}],
         DOMAIN queue' = Nodes, DOMAIN unread' = Nodes,
         \A x \in Nodes : Heard(x)
  PROVE  OwnerInv'
<1>1. /\ \A x : Name(x)' = Name(x) /\ Address(x)' = Address(x)
      /\ Messages' = Messages
      /\ \A x \in Nodes : Sound(x, node'[x]) => Sound(x, node[x])'
  BY SameIdentity
<1>2. \A x \in Nodes : Sound(x, node[x])'
  BY <1>1 DEF Heard
<1>3. \A x \in Nodes : Opened(x)'
  <2> SUFFICES ASSUME NEW x \in Nodes PROVE Opened(x)'
    OBVIOUS
  <2>1. Opened(x)
    BY DEF OwnerInv
  <2>2. Heard(x)
    OBVIOUS
  <2>3. node[x].limit \in 0 .. Len(unread[x]) => node[x].limit \in 0 .. Len(unread'[x])
    BY <2>2, LenProperties DEF Heard, Grows, IsSeq
  <2> QED BY <1>1, <2>1, <2>2, <2>3 DEF Opened, Heard
<1>4. \A x \in Nodes : Bus(x)'
  <2> SUFFICES ASSUME NEW x \in Nodes PROVE Bus(x)'
    OBVIOUS
  <2>1. Heard(x) /\ \A y \in Nodes : node[y].state = "lost" => node'[y].state = "lost"
    BY DEF Heard
  <2>2. /\ IsSeq(queue'[x]) /\ IsSeq(unread'[x])
        /\ \A i \in 1 .. Len(queue'[x]) : queue'[x][i].kind = "claim" => ClaimOf(x, queue'[x][i])
        /\ \A i \in 1 .. Len(unread'[x]) : ReadOk(x, unread'[x][i])
    BY <2>1 DEF Heard
  <2> QED BY <2>1, <2>2, BusStep
<1>5. \A n, x \in Nodes : n # x /\ Active(n) /\ ClaimUnderWay(n, x) => ClaimUnderWay(n, x)'
  <2> SUFFICES ASSUME NEW n \in Nodes, NEW x \in Nodes, n # x, Active(n), ClaimUnderWay(n, x)
               PROVE  \/ \E i \in 1 .. Len(unread'[n]) :
                           unread'[n][i].f.kind = "claim" /\ unread'[n][i].f.a = Name(x)
                      \/ \E i \in 1 .. Len(queue'[x]) : queue'[x][i].kind = "claim"
    BY <1>1 DEF ClaimUnderWay
  <2>1. CASE \E i \in 1 .. Len(unread[n]) :
               unread[n][i].f.kind = "claim" /\ unread[n][i].f.a = Name(x)
    <3>1. PICK i \in 1 .. Len(unread[n]) :
            unread[n][i].f.kind = "claim" /\ unread[n][i].f.a = Name(x)
      BY <2>1
    <3>2. Heard(n)
      OBVIOUS
    <3>3. Len(unread'[n]) \in Nat
      BY <3>2, LenProperties DEF Heard, IsSeq
    <3>4. i \in 1 .. Len(unread'[n]) /\ unread'[n][i] = unread[n][i]
      BY <3>2, <3>3 DEF Heard, Grows
    <3> QED BY <3>1, <3>4
  <2>2. CASE \E i \in 1 .. Len(queue[x]) : queue[x][i].kind = "claim"
    <3>1. PICK i \in 1 .. Len(queue[x]) : queue[x][i].kind = "claim"
      BY <2>2
    <3>2. queue[x][i].a = Name(x)
      BY <3>1 DEF OwnerInv, Bus, ClaimOf
    <3>3. \/ \E j \in 1 .. Len(queue'[x]) : queue'[x][j] = queue[x][i]
          \/ \E j \in 1 .. Len(unread'[n]) : unread'[n][j].f = queue[x][i]
      <4>1. n \in Nodes \ {x}
        OBVIOUS
      <4>2. \/ \E j \in 1 .. Len(queue'[x]) : queue'[x][j] = queue[x][i]
            \/ \A y \in Nodes \ {x} : Active(y) =>
                  \E j \in 1 .. Len(unread'[y]) : unread'[y][j].f = queue[x][i]
        BY <3>1 DEF Heard
      <4> QED BY <4>1, <4>2
    <3> QED BY <3>1, <3>2, <3>3
  <2> QED BY <2>1, <2>2 DEF ClaimUnderWay
<1>6. \A n, x \in Nodes : Rivalry(n, x)'
  <2> SUFFICES ASSUME NEW n \in Nodes, NEW x \in Nodes PROVE Rivalry(n, x)'
    OBVIOUS
  <2>1. (Active(n)' => Active(n)) /\ (Active(x)' => Active(x))
    BY DEF Active, Heard
  <2>2. Rivalry(n, x)
    BY DEF OwnerInv
  <2> QED BY <1>1, <1>5, <2>1, <2>2 DEF Rivalry
<1>7. (/\ scenario \in Scenarios
       /\ "rival" \in DOMAIN faults /\ faults.rival \in Nat
       /\ node \in [Nodes -> {node[n] : n \in Nodes}]
       /\ DOMAIN queue = Nodes /\ DOMAIN unread = Nodes /\ DOMAIN opener = Nodes)'
  BY DEF OwnerInv
<1> QED BY <1>2, <1>3, <1>4, <1>6, <1>7 DEF OwnerInv

\* A frame of another controller.
LEMMA ArrivesStep ==
  ASSUME OwnerInv, NEW f, Arrives(f),
         f.kind = "claim" => \A x \in Nodes : f.a # Name(x),
         "rival" \in DOMAIN faults', faults'.rival \in Nat
  PROVE  OwnerInv'
<1>1. \A x \in Nodes : ReadOk(x, [dir |-> "rx", f |-> f])
  BY DEF ReadOk
<1>2. UNCHANGED <<scenario, opener, node, queue>> /\ DOMAIN unread' = Nodes
      /\ \A x \in Nodes : unread'[x] = Recorded(x, "rx", f)
  BY DEF Arrives
<1>3. node' \in [Nodes -> {node'[x] : x \in Nodes}] /\ DOMAIN queue' = Nodes
  BY <1>2 DEF OwnerInv
<1>4. ASSUME NEW x \in Nodes
      PROVE  Heard(x)
  <2>1. Sound(x, node[x]) /\ Opened(x) /\ Bus(x)
    BY DEF OwnerInv
  <2>2. LET u == Recorded(x, "rx", f) IN
        /\ IsSeq(u) /\ \A i \in 1 .. Len(u) : ReadOk(x, u[i])
        /\ Grows(unread[x], u)
    BY <1>1, RecordedOk
  <2> QED BY <1>2, <2>1, <2>2 DEF Opened, Bus, Heard
<1> QED BY <1>2, <1>3, <1>4, HearStep

LEMMA OthersStep ==
  ASSUME OwnerInv,
         EcuGrants \/ EcuAcknowledges \/ EcuStarts \/ EcuSends \/ EcuAborts \/ Requests \/ Rival
  PROVE  OwnerInv'
<1>1. "rival" \in DOMAIN faults /\ faults.rival \in Nat /\ scenario \in Scenarios
  BY DEF OwnerInv
<1>2. ASSUME NEW f, Arrives(f), f.kind # "claim", "rival" \in DOMAIN faults',
             faults'.rival = faults.rival
      PROVE  OwnerInv'
  BY <1>1, <1>2, ArrivesStep
<1>3. CASE EcuGrants
  <2>1. "rival" \in DOMAIN faults' /\ faults'.rival = faults.rival
    BY <1>1, <1>3 DEF EcuGrants
  <2>2. PICK next, count :
           Arrives(Frame("cts", Ecu, ecu.rx.src, ecu.rx.pgn, count, next, ecu.rx.id))
    BY <1>3, Zenon DEF EcuGrants
  <2>3. Frame("cts", Ecu, ecu.rx.src, ecu.rx.pgn, count, next, ecu.rx.id).kind # "claim"
    BY DEF Frame
  <2> QED BY <1>2, <2>1, <2>2, <2>3
<1>4. CASE EcuAcknowledges
  <2>1. /\ Arrives(Frame("eoma", Ecu, ecu.rx.src, ecu.rx.pgn, ecu.rx.packets, 0, ecu.rx.id))
        /\ faults' = faults
    BY <1>4 DEF EcuAcknowledges
  <2>2. Frame("eoma", Ecu, ecu.rx.src, ecu.rx.pgn, ecu.rx.packets, 0, ecu.rx.id).kind # "claim"
    BY DEF Frame
  <2> QED BY <1>1, <1>2, <2>1, <2>2
<1>5. CASE EcuStarts
  <2> DEFINE m == Head(ecu.left)
  <2>1. /\ Arrives(Frame("rts", Ecu, m.dst, m.pgn, m.packets, m.window, m.id))
        /\ faults' = faults
    BY <1>5 DEF EcuStarts
  <2>2. Frame("rts", Ecu, m.dst, m.pgn, m.packets, m.window, m.id).kind # "claim"
    BY DEF Frame
  <2> QED BY <1>1, <1>2, <2>1, <2>2
<1>6. CASE EcuSends
  <2>1. /\ Arrives(Frame("dt", Ecu, ecu.tx.dst, 0, ecu.tx.next, 0, ecu.tx.id))
        /\ faults' = faults
    BY <1>6 DEF EcuSends
  <2>2. Frame("dt", Ecu, ecu.tx.dst, 0, ecu.tx.next, 0, ecu.tx.id).kind # "claim"
    BY DEF Frame
  <2> QED BY <1>1, <1>2, <2>1, <2>2
<1>7. CASE EcuAborts
  <2>1. "rival" \in DOMAIN faults' /\ faults'.rival = faults.rival
    BY <1>1, <1>7 DEF EcuAborts
  <2>2. \/ Arrives(Frame("abort", Ecu, ecu.rx.src, ecu.rx.pgn, 0, 0, 0))
        \/ Arrives(Frame("abort", Ecu, ecu.tx.dst, ecu.tx.pgn, 0, 0, 0))
    BY <1>7 DEF EcuAborts
  <2>3. /\ Frame("abort", Ecu, ecu.rx.src, ecu.rx.pgn, 0, 0, 0).kind # "claim"
        /\ Frame("abort", Ecu, ecu.tx.dst, ecu.tx.pgn, 0, 0, 0).kind # "claim"
    BY DEF Frame
  <2> QED BY <1>2, <2>1, <2>2, <2>3
<1>8. CASE Requests
  <2>1. /\ "rival" \in DOMAIN faults' /\ faults'.rival = faults.rival
        /\ Arrives(Frame("request", Ecu, GlobalAddress, 0, 0, 0, 0))
    BY <1>1, <1>8 DEF Requests
  <2>2. Frame("request", Ecu, GlobalAddress, 0, 0, 0, 0).kind # "claim"
    BY DEF Frame
  <2> QED BY <1>2, <2>1, <2>2
<1>9. CASE Rival
  <2> DEFINE r == scenario.rival
             i == faults.rival + 1
             f == Frame("claim", r[i].src, GlobalAddress, 0, r[i].name, 0, 0)
  <2>1. /\ faults.rival < Len(r) /\ Arrives(f)
        /\ "rival" \in DOMAIN faults' /\ faults'.rival = faults.rival + 1
    BY <1>1, <1>9 DEF Rival
  <2>2. r \in Seq([src : 0 .. NullAddress, name : Nat])
        /\ \A j \in DOMAIN r, n \in Nodes : r[j].name # Name(n)
    BY <1>1, ScenariosAssumption DEF Name
  <2>3. i \in DOMAIN r
    <3>1. Len(r) \in Nat /\ DOMAIN r = 1 .. Len(r)
      BY <2>2, LenProperties
    <3> QED BY <1>1, <2>1, <3>1
  <2>4. f.a = r[i].name
    BY DEF Frame
  <2> HIDE DEF f
  <2>5. \A x \in Nodes : f.a # Name(x)
    BY <2>2, <2>3, <2>4
  <2> QED BY <1>1, <2>1, <2>5, ArrivesStep
<1> QED BY <1>3, <1>4, <1>5, <1>6, <1>7, <1>8, <1>9

\* A sequence that loses its head keeps the rest.
LEMMA TailKeeps ==
  ASSUME NEW q, IsSeq(q), q # <<>>
  PROVE  /\ IsSeq(Tail(q)) /\ 1 \in 1 .. Len(q) /\ Head(q) = q[1]
         /\ \A i \in 1 .. Len(Tail(q)) : i + 1 \in 1 .. Len(q) /\ Tail(q)[i] = q[i + 1]
         /\ \A i \in 1 .. Len(q) : i = 1 \/ \E j \in 1 .. Len(Tail(q)) : Tail(q)[j] = q[i]
<1>1. /\ IsSeq(Tail(q)) /\ Head(q) = q[1]
      /\ Len(q) \in Nat /\ Len(q) >= 1 /\ Len(Tail(q)) = Len(q) - 1
      /\ \A i \in 1 .. Len(Tail(q)) : Tail(q)[i] = q[i + 1]
  BY Shortened
<1>2. ASSUME NEW i \in 1 .. Len(q), i # 1
      PROVE  \E j \in 1 .. Len(Tail(q)) : Tail(q)[j] = q[i]
  <2>1. i - 1 \in 1 .. Len(Tail(q)) /\ (i - 1) + 1 = i
    BY <1>1, <1>2
  <2>2. Tail(q)[i - 1] = q[i]
    BY <1>1, <2>1
  <2> QED BY <2>1, <2>2
<1>3. \A i \in 1 .. Len(Tail(q)) : i + 1 \in 1 .. Len(q)
  BY <1>1
<1>4. 1 \in 1 .. Len(q)
  BY <1>1
<1> QED BY <1>1, <1>2, <1>3, <1>4

\* An accepted frame enters the capture of its sender.
LEMMA RecordStep ==
  ASSUME OwnerInv, NEW n \in Nodes, Record(n)
  PROVE  OwnerInv'
<1> DEFINE f == Head(node[n].out)
           s == node'[n]
<1>1. /\ Sound(n, node[n]) /\ Opened(n)
      /\ "rival" \in DOMAIN faults /\ faults.rival \in Nat
      /\ node \in [Nodes -> {node[x] : x \in Nodes}]
      /\ DOMAIN unread = Nodes /\ DOMAIN queue = Nodes
  BY DEF OwnerInv
<1>2. /\ UNCHANGED <<scenario, opener, queue, faults>>
      /\ node[n].out # <<>>
      /\ node' = [node EXCEPT ![n].out = Tail(@)]
      /\ unread' = [unread EXCEPT ![n] = Recorded(n, "tx", f)]
  BY DEF Record
<1>3. /\ DOMAIN node' = Nodes /\ DOMAIN unread' = Nodes
      /\ \A x \in Nodes : x # n => node'[x] = node[x] /\ unread'[x] = unread[x]
      /\ unread'[n] = Recorded(n, "tx", f)
  BY <1>1, <1>2
<1>4. /\ Fields \subseteq DOMAIN s /\ s.out = Tail(node[n].out)
      /\ s.state = node[n].state /\ s.cannot = node[n].cannot /\ s.tx = node[n].tx
      /\ s.rx = node[n].rx /\ s.pc = node[n].pc /\ s.request = node[n].request
      /\ s.limit = node[n].limit
  BY <1>1, <1>2 DEF Sound, Fields
<1>5. /\ IsSeq(Tail(node[n].out)) /\ 1 \in 1 .. Len(node[n].out) /\ f = node[n].out[1]
      /\ \A i \in 1 .. Len(Tail(node[n].out)) :
            i + 1 \in 1 .. Len(node[n].out) /\ Tail(node[n].out)[i] = node[n].out[i + 1]
  BY <1>1, <1>2, TailKeeps DEF Sound
<1>6. Sayable(n, node[n], f)
  BY <1>1, <1>5 DEF Sound
<1> HIDE DEF f, s
<1>7. Sound(n, s)
  <2>1. \A i \in 1 .. Len(s.out) : Sayable(n, s, s.out[i])
    <3> SUFFICES ASSUME NEW i \in 1 .. Len(s.out) PROVE Sayable(n, s, s.out[i])
      OBVIOUS
    <3>1. i + 1 \in 1 .. Len(node[n].out) /\ s.out[i] = node[n].out[i + 1]
      BY <1>4, <1>5
    <3>2. Sayable(n, node[n], s.out[i])
      BY <1>1, <3>1 DEF Sound
    <3> QED BY <1>4, <3>2 DEF Sayable
  <2> QED BY <1>1, <1>4, <1>5, <2>1 DEF Sound
<1>8. node[n].state # "none"
  BY <1>1, <1>2 DEF Opened
<1>9. ReadOk(n, [dir |-> "tx", f |-> f])
  <2>1. \A x \in Nodes : Name(x) = Name(n) => x = n
    BY ScenariosAssumption DEF OwnerInv, Name
  <2> QED BY <1>6, <2>1 DEF ReadOk, ClaimOf, Sayable
<1>10. LET u == Recorded(n, "tx", f) IN
       /\ IsSeq(u) /\ \A i \in 1 .. Len(u) : ReadOk(n, u[i])
       /\ Grows(unread[n], u)
  BY <1>9, RecordedOk
<1>11. ASSUME NEW x \in Nodes
       PROVE  Heard(x)
  <2>1. Sound(x, node[x]) /\ Opened(x) /\ Bus(x)
    BY DEF OwnerInv
  <2>2. CASE x # n
    <3>1. Grows(unread[x], unread'[x])
      BY <1>3, <2>1, <2>2, LenProperties DEF Grows, Bus, IsSeq
    <3> QED BY <1>2, <1>3, <2>1, <2>2, <3>1 DEF Opened, Bus, Heard
  <2>3. CASE x = n
    <3>1. Grows(unread[n], unread'[n])
      BY <1>3, <1>10
    <3>2. Sound(x, node'[x]) /\ node'[x].state # "none" /\ node'[x].state = node[x].state
          /\ node'[x].pc = node[x].pc /\ node'[x].request = node[x].request
          /\ node'[x].limit = node[x].limit
      BY <1>4, <1>7, <1>8, <2>3 DEF s
    <3> QED BY <1>2, <1>3, <1>10, <2>1, <2>3, <3>1, <3>2 DEF Bus, Heard
  <2> QED BY <2>2, <2>3
<1>12. node' \in [Nodes -> {node'[x] : x \in Nodes}]
  BY <1>1, <1>2
<1>13. DOMAIN queue' = Nodes /\ DOMAIN unread' = Nodes
       /\ "rival" \in DOMAIN faults' /\ faults'.rival \in Nat
  BY <1>1, <1>2, <1>3
<1> QED BY ONLY OwnerInv, <1>2, <1>11, <1>12, <1>13, HearStep

\* A frame goes over the wire; claims are not lost.
LEMMA BroadcastStep ==
  ASSUME OwnerInv, NEW n \in Nodes, Broadcast(n)
  PROVE  OwnerInv'
<1> DEFINE f == Head(queue[n])
<1>1. /\ Bus(n)
      /\ "rival" \in DOMAIN faults /\ faults.rival \in Nat
      /\ node \in [Nodes -> {node[x] : x \in Nodes}]
      /\ DOMAIN unread = Nodes /\ DOMAIN queue = Nodes
  BY DEF OwnerInv
<1>2. /\ UNCHANGED <<scenario, opener, node>>
      /\ queue[n] # <<>>
      /\ queue' = [queue EXCEPT ![n] = Tail(@)]
  BY DEF Broadcast
<1>3. PICK lost :
        /\ lost # {} => f.kind # "claim"
        /\ unread' = [x \in Nodes |-> IF x \in (Nodes \ {n}) \ lost
                                     THEN Recorded(x, "rx", f) ELSE unread[x]]
  BY Zenon DEF Broadcast
<1>4. "rival" \in DOMAIN faults' /\ faults'.rival = faults.rival
  <2>1. PICK ls, lt : faults' = [faults EXCEPT !.lost = @ + Cardinality(ls),
                                               !.late = @ + IF lt = {} THEN 0 ELSE 1]
    BY Zenon DEF Broadcast
  <2> QED BY <1>1, <2>1
<1>5. /\ DOMAIN queue' = Nodes /\ DOMAIN unread' = Nodes
      /\ \A x \in Nodes : x # n => queue'[x] = queue[x]
      /\ queue'[n] = Tail(queue[n])
  BY <1>1, <1>2, <1>3
<1>6. /\ IsSeq(Tail(queue[n])) /\ 1 \in 1 .. Len(queue[n]) /\ f = queue[n][1]
      /\ \A i \in 1 .. Len(Tail(queue[n])) :
            i + 1 \in 1 .. Len(queue[n]) /\ Tail(queue[n])[i] = queue[n][i + 1]
      /\ \A i \in 1 .. Len(queue[n]) :
            i = 1 \/ \E j \in 1 .. Len(Tail(queue[n])) : Tail(queue[n])[j] = queue[n][i]
  BY <1>1, <1>2, TailKeeps DEF Bus
<1>7. f.kind = "claim" => ClaimOf(n, f)
  BY <1>1, <1>6 DEF Bus
<1> HIDE DEF f
<1>8. \A x \in Nodes : ReadOk(x, [dir |-> "rx", f |-> f])
  <2>1. \A x \in Nodes : Name(x) = Name(n) => x = n
    BY ScenariosAssumption DEF OwnerInv, Name
  <2> QED BY <1>7, <2>1 DEF ReadOk, ClaimOf
<1>9. ASSUME NEW x \in Nodes
      PROVE  /\ IsSeq(unread'[x])
             /\ \A i \in 1 .. Len(unread'[x]) : ReadOk(x, unread'[x][i])
             /\ Grows(unread[x], unread'[x])
             /\ x # n /\ f.kind = "claim" /\ Active(x) =>
                   \E j \in 1 .. Len(unread'[x]) : unread'[x][j].f = f
  <2>1. IsSeq(unread[x]) /\ \A i \in 1 .. Len(unread[x]) : ReadOk(x, unread[x][i])
    BY DEF OwnerInv, Bus
  <2>2. LET u == Recorded(x, "rx", f) IN
        /\ IsSeq(u) /\ \A i \in 1 .. Len(u) : ReadOk(x, u[i])
        /\ Grows(unread[x], u)
        /\ Active(x) => \E i \in 1 .. Len(u) : u[i].f = f
    BY <1>8, RecordedOk
  <2>3. CASE x \in (Nodes \ {n}) \ lost
    <3>1. unread'[x] = Recorded(x, "rx", f)
      BY <1>3, <2>3
    <3> QED BY <2>2, <3>1
  <2>4. CASE x \notin (Nodes \ {n}) \ lost
    <3>1. unread'[x] = unread[x]
      BY <1>3, <2>4
    <3>2. x = n \/ f.kind # "claim"
      BY <1>3, <2>4
    <3>3. Grows(unread[x], unread[x])
      BY <2>1, LenProperties DEF Grows, IsSeq
    <3> QED BY <2>1, <3>1, <3>2, <3>3
  <2> QED BY <2>3, <2>4
<1>10. ASSUME NEW x \in Nodes
       PROVE  Heard(x)
  <2>1. Sound(x, node[x]) /\ Opened(x) /\ Bus(x)
    BY DEF OwnerInv
  <2>2. /\ IsSeq(queue'[x])
        /\ \A i \in 1 .. Len(queue'[x]) :
              queue'[x][i].kind = "claim" => ClaimOf(x, queue'[x][i])
    <3>1. CASE x # n
      BY <1>5, <2>1, <3>1 DEF Bus
    <3>2. CASE x = n
      <4>1. \A i \in 1 .. Len(queue'[n]) : \E j \in 1 .. Len(queue[n]) : queue'[n][i] = queue[n][j]
        BY <1>5, <1>6
      <4>2. ASSUME NEW i \in 1 .. Len(queue'[n]), queue'[n][i].kind = "claim"
            PROVE  ClaimOf(n, queue'[n][i])
        <5>1. PICK j \in 1 .. Len(queue[n]) : queue'[n][i] = queue[n][j]
          BY <4>1
        <5>2. queue[n][j].kind = "claim"
          BY <4>2, <5>1
        <5>3. ClaimOf(n, queue[n][j])
          BY <1>1, <5>2 DEF Bus
        <5> QED BY <5>1, <5>3
      <4>3. IsSeq(queue'[n])
        BY <1>5, <1>6
      <4> QED BY <3>2, <4>2, <4>3
    <3> QED BY <3>1, <3>2
  <2>3. ASSUME NEW i \in 1 .. Len(queue[x]), queue[x][i].kind = "claim"
        PROVE  \/ \E j \in 1 .. Len(queue'[x]) : queue'[x][j] = queue[x][i]
               \/ \A y \in Nodes \ {x} : Active(y) =>
                     \E j \in 1 .. Len(unread'[y]) : unread'[y][j].f = queue[x][i]
    <3>1. CASE x # n
      BY <1>5, <3>1
    <3>2. CASE x = n /\ i # 1
      BY <1>5, <1>6, <3>2
    <3>3. CASE x = n /\ i = 1
      <4>1. queue[x][i] = f
        BY <1>6, <3>3
      <4> QED BY <1>9, <2>3, <3>3, <4>1
    <3> QED BY <3>1, <3>2, <3>3
  <2> QED BY <1>2, <1>9, <2>1, <2>2, <2>3 DEF Opened, Heard
<1>11. node' \in [Nodes -> {node'[x] : x \in Nodes}]
  BY <1>1, <1>2
<1>12. "rival" \in DOMAIN faults' /\ faults'.rival \in Nat
  BY <1>1, <1>4
<1> QED BY ONLY OwnerInv, <1>2, <1>5, <1>10, <1>11, <1>12, HearStep

-----------------------------------------------------------------------------
(* The steps of run                                                        *)

\* What a step of run made of its client, which had nothing left to record.
LEMMA Became ==
  ASSUME OwnerInv, NEW n \in Nodes, NEW t, Sound(n, t), node[n].out = <<>>, Becomes(n, t)
  PROVE  /\ node' \in [Nodes -> {node'[x] : x \in Nodes}] /\ DOMAIN queue' = Nodes
         /\ Sound(n, node'[n]) /\ node'[n].out = t.out /\ node'[n].state = t.state
         /\ node'[n].pc = t.pc /\ node'[n].request = t.request /\ node'[n].limit = t.limit
         /\ \A x \in Nodes : x # n => node'[x] = node[x] /\ queue'[x] = queue[x]
         /\ IsSeq(queue'[n])
         /\ \A i \in 1 .. Len(queue[n]) : i \in 1 .. Len(queue'[n]) /\ queue'[n][i] = queue[n][i]
         /\ \A i \in 1 .. Len(t.out) : \E j \in 1 .. Len(queue'[n]) : queue'[n][j] = t.out[i]
         /\ \A j \in 1 .. Len(queue'[n]) :
              \/ \E i \in 1 .. Len(queue[n]) : queue'[n][j] = queue[n][i]
              \/ \E i \in 1 .. Len(t.out) : queue'[n][j] = t.out[i]
<1>1. /\ node \in [Nodes -> {node[x] : x \in Nodes}] /\ DOMAIN queue = Nodes
      /\ IsSeq(queue[n])
  BY DEF OwnerInv, Bus
<1>2. /\ node' = [node EXCEPT ![n] = [t EXCEPT !.full = FALSE]]
      /\ queue' = [queue EXCEPT ![n] = @ \o SubSeq(t.out, Len(node[n].out) + 1, Len(t.out))]
  BY DEF Becomes
<1> DEFINE s == [t EXCEPT !.full = FALSE]
<1>3. /\ Fields \subseteq DOMAIN s /\ s.out = t.out /\ s.state = t.state
      /\ s.cannot = t.cannot /\ s.pc = t.pc /\ s.request = t.request /\ s.limit = t.limit
      /\ s.tx = t.tx
      /\ s.rx = t.rx
  BY DEF Sound, Fields
<1>4. node'[n] = s /\ \A x \in Nodes : x # n => node'[x] = node[x]
  BY <1>1, <1>2
<1> HIDE DEF s
<1>5. Sound(n, s)
  BY <1>3, SameSound
<1>6. IsSeq(t.out) /\ Len(t.out) \in Nat
  BY LenProperties DEF Sound, IsSeq
<1>7. SubSeq(t.out, Len(node[n].out) + 1, Len(t.out)) = t.out
  <2> DEFINE S == {t.out[i] : i \in DOMAIN t.out}
             u == SubSeq(t.out, 1, Len(t.out))
  <2>1. t.out \in Seq(S) /\ Len(t.out) \in Nat
    BY <1>6 DEF IsSeq
  <2> HIDE DEF S
  <2>2. \A i \in 1 .. Len(t.out) : t.out[i] \in S
    BY <2>1, ElementOfSeq
  <2>3. /\ u \in Seq(S) /\ Len(u) = IF 1 <= Len(t.out) THEN Len(t.out) - 1 + 1 ELSE 0
        /\ \A i \in 1 .. Len(t.out) - 1 + 1 : u[i] = t.out[1 + i - 1]
    BY <2>1, <2>2, SubSeqProperties
  <2>4. Len(u) = Len(t.out) /\ \A i \in 1 .. Len(u) : u[i] = t.out[i]
    BY <2>1, <2>3
  <2>5. u = t.out
    BY <2>1, <2>3, <2>4, SeqEqual
  <2>6. Len(node[n].out) = 0
    BY EmptySeq
  <2> QED BY <2>5, <2>6
<1>8. /\ queue'[n] = queue[n] \o t.out /\ DOMAIN queue' = Nodes
      /\ \A x \in Nodes : x # n => queue'[x] = queue[x]
  BY <1>1, <1>2, <1>7
<1> DEFINE q == queue[n]
           r == t.out
<1>9. IsSeq(q) /\ IsSeq(r)
  BY <1>1, <1>6
<1>10. queue'[n] = q \o r /\ q = queue[n] /\ r = t.out
  BY <1>8
<1> HIDE DEF q, r
<1>11. /\ IsSeq(q \o r)
       /\ Len(q) \in Nat /\ Len(r) \in Nat /\ Len(q \o r) = Len(q) + Len(r)
       /\ \A i \in 1 .. Len(q) : (q \o r)[i] = q[i]
       /\ \A i \in 1 .. Len(r) : (q \o r)[Len(q) + i] = r[i]
       /\ \A i \in 1 .. Len(q \o r) : i \notin 1 .. Len(q) =>
             i - Len(q) \in 1 .. Len(r) /\ (q \o r)[i] = r[i - Len(q)]
  BY ONLY <1>9, Joined
<1>12. \A i \in 1 .. Len(q) : i \in 1 .. Len(q \o r)
  BY ONLY <1>11
<1>13. \A i \in 1 .. Len(r) : Len(q) + i \in 1 .. Len(q \o r)
  BY ONLY <1>11
<1>14. node' \in [Nodes -> {node'[x] : x \in Nodes}]
  BY <1>1, <1>2
<1>15. \A i \in 1 .. Len(r) : \E j \in 1 .. Len(q \o r) : (q \o r)[j] = r[i]
  BY <1>11, <1>13
<1>16. \A j \in 1 .. Len(q \o r) :
         \/ \E i \in 1 .. Len(q) : (q \o r)[j] = q[i]
         \/ \E i \in 1 .. Len(r) : (q \o r)[j] = r[i]
  <2> SUFFICES ASSUME NEW j \in 1 .. Len(q \o r)
               PROVE  \/ \E i \in 1 .. Len(q) : (q \o r)[j] = q[i]
                      \/ \E i \in 1 .. Len(r) : (q \o r)[j] = r[i]
    OBVIOUS
  <2>1. CASE j \in 1 .. Len(q)
    BY <1>11, <2>1
  <2>2. CASE j \notin 1 .. Len(q)
    BY <1>11, <2>2
  <2> QED BY <2>1, <2>2
<1>17. /\ IsSeq(queue'[n])
       /\ \A i \in 1 .. Len(queue[n]) :
            i \in 1 .. Len(queue'[n]) /\ queue'[n][i] = queue[n][i]
  BY ONLY <1>10, <1>11, <1>12
<1>18. \A i \in 1 .. Len(t.out) : \E j \in 1 .. Len(queue'[n]) : queue'[n][j] = t.out[i]
  <2> SUFFICES ASSUME NEW i \in 1 .. Len(t.out)
               PROVE  \E j \in 1 .. Len(queue'[n]) : queue'[n][j] = t.out[i]
    OBVIOUS
  <2>1. i \in 1 .. Len(r)
    BY ONLY i \in 1 .. Len(t.out), <1>10
  <2>2. PICK j \in 1 .. Len(q \o r) : (q \o r)[j] = r[i]
    BY ONLY <1>15, <2>1
  <2>3. j \in 1 .. Len(queue'[n]) /\ queue'[n][j] = t.out[i]
    BY ONLY <2>2, <1>10
  <2> QED BY ONLY <2>3
<1>19. \A j \in 1 .. Len(queue'[n]) :
         \/ \E i \in 1 .. Len(queue[n]) : queue'[n][j] = queue[n][i]
         \/ \E i \in 1 .. Len(t.out) : queue'[n][j] = t.out[i]
  <2> SUFFICES ASSUME NEW j \in 1 .. Len(queue'[n])
               PROVE  \/ \E i \in 1 .. Len(queue[n]) : queue'[n][j] = queue[n][i]
                      \/ \E i \in 1 .. Len(t.out) : queue'[n][j] = t.out[i]
    OBVIOUS
  <2>1. j \in 1 .. Len(q \o r)
    BY ONLY j \in 1 .. Len(queue'[n]), <1>10
  <2>2. CASE \E i \in 1 .. Len(q) : (q \o r)[j] = q[i]
    BY ONLY <2>2, <1>10
  <2>3. CASE \E i \in 1 .. Len(r) : (q \o r)[j] = r[i]
    BY ONLY <2>3, <1>10
  <2> QED BY ONLY <1>16, <2>1, <2>2, <2>3
<1>20. /\ Sound(n, node'[n]) /\ node'[n].out = t.out /\ node'[n].state = t.state
       /\ node'[n].pc = t.pc /\ node'[n].request = t.request /\ node'[n].limit = t.limit
  BY ONLY <1>3, <1>4, <1>5
<1> QED BY ONLY <1>4, <1>8, <1>14, <1>17, <1>18, <1>20, <1>19

\* A step of run that makes t of its client: it has not won or wanted an
\* address by it, or has just said so; and a claim it read was answered or
\* decided.
Ran(n, t) ==
    /\ Sound(n, t) /\ node[n].out = <<>> /\ Becomes(n, t)
    /\ scenario' = scenario /\ "rival" \in DOMAIN faults' /\ faults'.rival \in Nat
    /\ DOMAIN unread' = Nodes /\ DOMAIN opener' = Nodes
    /\ \A x \in Nodes : opener'[x] = "idle" => opener[x] = "idle" /\ x # n
    /\ \A x \in Nodes : x # n => unread'[x] = unread[x]
    /\ IsSeq(unread'[n]) /\ \A i \in 1 .. Len(unread'[n]) : ReadOk(n, unread'[n][i])
    /\ t.pc # "new" /\ t.state # "none"
    /\ t.request = 0 \/ t.request \in Messages
    /\ t.pc = "poll" => t.limit \in 0 .. Len(unread'[n])
    /\ node[n].state = "lost" => t.state = "lost"
    /\ t.state \in {"claiming", "claimed"} /\ t.pc # "done" =>
         \/ \E i \in 1 .. Len(t.out) : t.out[i].kind = "claim"
         \/ /\ Active(n)
            /\ \A x \in Nodes \ {n} : Active(x) /\ Address(x) = Address(n) =>
                 \A i \in 1 .. Len(unread[n]) :
                    unread[n][i].f.kind = "claim" /\ unread[n][i].f.a = Name(x) =>
                       \E j \in 1 .. Len(unread'[n]) : unread'[n][j] = unread[n][i]

LEMMA RunStep ==
  ASSUME OwnerInv, NEW n \in Nodes, NEW t, Ran(n, t)
  PROVE  OwnerInv'
<1> USE DEF Ran
<1>1. /\ \A x : Name(x)' = Name(x) /\ Address(x)' = Address(x)
      /\ Messages' = Messages
      /\ \A x \in Nodes : Sound(x, node'[x]) => Sound(x, node[x])'
  BY SameIdentity
<1>2. /\ node' \in [Nodes -> {node'[x] : x \in Nodes}] /\ DOMAIN queue' = Nodes
      /\ Sound(n, node'[n]) /\ node'[n].out = t.out /\ node'[n].state = t.state
      /\ node'[n].pc = t.pc /\ node'[n].request = t.request /\ node'[n].limit = t.limit
      /\ \A x \in Nodes : x # n => node'[x] = node[x] /\ queue'[x] = queue[x]
      /\ IsSeq(queue'[n])
      /\ \A i \in 1 .. Len(queue[n]) : i \in 1 .. Len(queue'[n]) /\ queue'[n][i] = queue[n][i]
      /\ \A i \in 1 .. Len(t.out) : \E j \in 1 .. Len(queue'[n]) : queue'[n][j] = t.out[i]
      /\ \A j \in 1 .. Len(queue'[n]) :
           \/ \E i \in 1 .. Len(queue[n]) : queue'[n][j] = queue[n][i]
           \/ \E i \in 1 .. Len(t.out) : queue'[n][j] = t.out[i]
  BY Became
<1>3. \A x \in Nodes : Sound(x, node[x])'
  <2> SUFFICES ASSUME NEW x \in Nodes PROVE Sound(x, node'[x])
    BY <1>1
  <2> QED BY <1>2 DEF OwnerInv
<1>4. \A x \in Nodes : Opened(x)'
  <2> SUFFICES ASSUME NEW x \in Nodes PROVE Opened(x)'
    OBVIOUS
  <2>1. Opened(x)
    BY DEF OwnerInv
  <2>2. CASE x = n
    BY <1>1, <1>2, <2>2 DEF Opened
  <2>3. CASE x # n
    BY <1>1, <1>2, <2>1, <2>3 DEF Opened
  <2> QED BY <2>2, <2>3
<1>5. \A x \in Nodes : node[x].state = "lost" => node'[x].state = "lost"
  BY <1>2
<1>6. \A x \in Nodes : Bus(x)'
  <2> SUFFICES ASSUME NEW x \in Nodes PROVE Bus(x)'
    OBVIOUS
  <2>1. Bus(x)
    BY DEF OwnerInv
  <2>2. CASE x # n
    <3>1. queue'[x] = queue[x] /\ unread'[x] = unread[x]
      BY <1>2, <2>2
    <3>2. /\ IsSeq(queue'[x]) /\ IsSeq(unread'[x])
          /\ \A i \in 1 .. Len(queue'[x]) : queue'[x][i].kind = "claim" => ClaimOf(x, queue'[x][i])
          /\ \A i \in 1 .. Len(unread'[x]) : ReadOk(x, unread'[x][i])
      BY <2>1, <3>1 DEF Bus
    <3> QED BY <1>5, <3>2, BusStep
  <2>3. CASE x = n
    <3>1. ASSUME NEW j \in 1 .. Len(queue'[n]), queue'[n][j].kind = "claim"
          PROVE  \/ ClaimOf(n, queue'[n][j])
                 \/ /\ queue'[n][j].a = Name(n)
                    /\ node'[n].state # "lost" => queue'[n][j].src = Address(n)
      <4>1. CASE \E i \in 1 .. Len(queue[n]) : queue'[n][j] = queue[n][i]
        <5>1. PICK i \in 1 .. Len(queue[n]) : queue'[n][j] = queue[n][i]
          BY <4>1
        <5>2. ClaimOf(n, queue[n][i])
          BY <2>1, <2>3, <3>1, <5>1 DEF Bus
        <5> QED BY <5>1, <5>2
      <4>2. CASE \E i \in 1 .. Len(t.out) : queue'[n][j] = t.out[i]
        <5>1. PICK i \in 1 .. Len(t.out) : queue'[n][j] = t.out[i]
          BY <4>2
        <5>2. Sayable(n, t, t.out[i])
          BY DEF Sound
        <5> QED BY <1>2, <3>1, <5>1, <5>2 DEF Sayable
      <4> QED BY <1>2, <4>1, <4>2
    <3>2. \A j \in 1 .. Len(queue'[n]) : queue'[n][j].kind = "claim" =>
             \/ ClaimOf(n, queue'[n][j])
             \/ /\ queue'[n][j].a = Name(n)
                /\ node'[n].state # "lost" => queue'[n][j].src = Address(n)
      BY <3>1
    <3>3. Bus(n)'
      BY <1>2, <1>5, <3>2, BusStep
    <3> QED BY <2>3, <3>3
  <2> QED BY <2>2, <2>3
<1>7. \A x \in Nodes : \A y \in Nodes :
        (\E i \in 1 .. Len(queue[x]) : queue[x][i].kind = "claim")
           => \E i \in 1 .. Len(queue'[x]) : queue'[x][i].kind = "claim"
  BY <1>2
<1>8. ASSUME NEW x \in Nodes, x # n, Active(n)', Active(x)', Address(n)' = Address(x)'
      PROVE  ClaimUnderWay(n, x)' \/ ClaimUnderWay(x, n)'
  <2>1. t.state \in {"claiming", "claimed"} /\ t.pc # "done" /\ Active(x) /\ Address(n) = Address(x)
    BY <1>1, <1>2, <1>8 DEF Active
  <2>2. CASE \E i \in 1 .. Len(t.out) : t.out[i].kind = "claim"
    <3>1. \E i \in 1 .. Len(queue'[n]) : queue'[n][i].kind = "claim"
      BY <1>2, <2>2
    <3> QED BY <3>1 DEF ClaimUnderWay
  <2>3. CASE Active(n) /\ \A i \in 1 .. Len(unread[n]) :
               unread[n][i].f.kind = "claim" /\ unread[n][i].f.a = Name(x) =>
                  \E j \in 1 .. Len(unread'[n]) : unread'[n][j] = unread[n][i]
    <3>1. ClaimUnderWay(n, x) \/ ClaimUnderWay(x, n)
      BY <1>8, <2>1, <2>3 DEF OwnerInv, Rivalry
    <3>2. CASE \E i \in 1 .. Len(unread[n]) :
                 unread[n][i].f.kind = "claim" /\ unread[n][i].f.a = Name(x)
      <4>1. \E j \in 1 .. Len(unread'[n]) :
              unread'[n][j].f.kind = "claim" /\ unread'[n][j].f.a = Name(x)
        BY <2>3, <3>2
      <4> QED BY <1>1, <4>1 DEF ClaimUnderWay
    <3>3. CASE \E i \in 1 .. Len(queue[x]) : queue[x][i].kind = "claim"
      <4>1. \E i \in 1 .. Len(queue'[x]) : queue'[x][i].kind = "claim"
        BY <1>7, <3>3
      <4> QED BY <4>1 DEF ClaimUnderWay
    <3>4. CASE \E i \in 1 .. Len(unread[x]) :
                 unread[x][i].f.kind = "claim" /\ unread[x][i].f.a = Name(n)
      <4>1. \E i \in 1 .. Len(unread'[x]) :
              unread'[x][i].f.kind = "claim" /\ unread'[x][i].f.a = Name(n)
        BY <1>8, <3>4
      <4> QED BY <1>1, <4>1 DEF ClaimUnderWay
    <3>5. CASE \E i \in 1 .. Len(queue[n]) : queue[n][i].kind = "claim"
      <4>1. \E i \in 1 .. Len(queue'[n]) : queue'[n][i].kind = "claim"
        BY <1>7, <3>5
      <4> QED BY <4>1 DEF ClaimUnderWay
    <3> QED BY <3>1, <3>2, <3>3, <3>4, <3>5 DEF ClaimUnderWay
  <2> QED BY <1>8, <2>1, <2>2, <2>3
<1>9. \A x, y \in Nodes : Rivalry(x, y)'
  <2> SUFFICES ASSUME NEW x \in Nodes, NEW y \in Nodes PROVE Rivalry(x, y)'
    OBVIOUS
  <2>1. CASE x = n \/ y = n
    BY <1>8, <2>1 DEF Rivalry
  <2>2. CASE x # n /\ y # n
    <3>1. node'[x] = node[x] /\ node'[y] = node[y] /\ queue'[x] = queue[x] /\ queue'[y] = queue[y]
          /\ unread'[x] = unread[x] /\ unread'[y] = unread[y]
      BY <1>2, <2>2
    <3>2. Rivalry(x, y)
      BY DEF OwnerInv
    <3> QED BY <1>1, <3>1, <3>2 DEF Rivalry, Active, ClaimUnderWay
  <2> QED BY <2>1, <2>2
<1>10. (/\ scenario \in Scenarios
        /\ "rival" \in DOMAIN faults /\ faults.rival \in Nat
        /\ node \in [Nodes -> {node[m] : m \in Nodes}]
        /\ DOMAIN queue = Nodes /\ DOMAIN unread = Nodes /\ DOMAIN opener = Nodes)'
  BY <1>2 DEF OwnerInv
<1> QED BY <1>3, <1>4, <1>6, <1>9, <1>10 DEF OwnerInv

\* A full transmit queue is counted, beside what the rival claimed.
LEMMA RefusalsKeep ==
  ASSUME "rival" \in DOMAIN faults, faults.rival \in Nat, NEW full
  PROVE  "rival" \in DOMAIN Refusals(full) /\ Refusals(full).rival \in Nat
BY DEF Refusals

\* Open: the client claims its address.
LEMMA OpenStep ==
  ASSUME OwnerInv, NEW n \in Nodes, Open(n)
  PROVE  OwnerInv'
<1>0. \E full \in Fulls :
        /\ Becomes(n, claim(n, [node[n] EXCEPT !.pc = "select", !.state = "claiming",
                                              !.full = full], Address(n)))
        /\ faults' = Refusals(full)
  BY Zenon DEF Open
<1>14. PICK full \in Fulls :
        /\ Becomes(n, claim(n, [node[n] EXCEPT !.pc = "select", !.state = "claiming",
                                              !.full = full], Address(n)))
        /\ faults' = Refusals(full)
  BY Zenon, <1>0
<1> DEFINE s == [node[n] EXCEPT !.pc = "select", !.state = "claiming", !.full = full]
           f == Frame("claim", Address(n), GlobalAddress, 0, Name(n), 0, 0)
           t == claim(n, s, Address(n))
<1>1. /\ Sound(n, node[n]) /\ Opened(n) /\ Bus(n)
      /\ "rival" \in DOMAIN faults /\ faults.rival \in Nat
      /\ DOMAIN unread = Nodes /\ DOMAIN opener = Nodes
  BY DEF OwnerInv
<1>2. /\ opener[n] = "idle" /\ opener' = [opener EXCEPT ![n] = "waiting"]
      /\ Becomes(n, t) /\ faults' = Refusals(full) /\ UNCHANGED <<unread, scenario>>
  BY <1>14 DEF Open
<1>3. node[n].state = "none" /\ node[n].out = <<>>
  BY <1>1, <1>2 DEF Opened
<1>4. /\ Fields \subseteq DOMAIN s /\ s.out = <<>> /\ s.state = "claiming"
      /\ s.cannot = node[n].cannot /\ s.pc = "select" /\ s.request = node[n].request
      /\ s.tx = node[n].tx /\ s.rx = node[n].rx
  BY <1>1, <1>3 DEF Sound, Fields
<1> HIDE DEF s
<1>5. IsSeq(<<>>) /\ Len(<<>>) = 0
  BY EmptySeq, IsASequence
<1>6. Sound(n, s)
  <2>1. node[n].tx = None /\ node[n].rx = None /\ ~node[n].cannot /\ node[n].cannot \in BOOLEAN
    BY <1>1, <1>3 DEF Sound
  <2>2. "src" \in DOMAIN s.rx
    BY <1>1, <1>4 DEF Sound
  <2>3. IsSeq(s.out) /\ \A i \in 1 .. Len(s.out) : Sayable(n, s, s.out[i])
    BY <1>4, <1>5
  <2> QED BY <1>4, <2>1, <2>2, <2>3 DEF Sound
<1>7. /\ Sound(n, t) /\ Keeps(s, t)
      /\ t.pc = "done" \/ t.out = Append(<<>>, f)
  BY <1>4, <1>6, ClaimSound
<1>8. f.kind = "claim"
  BY DEF Frame
<1> HIDE DEF t, f
<1>9. t.pc # "done" => \E i \in 1 .. Len(t.out) : t.out[i].kind = "claim"
  <2>1. Len(Append(<<>>, f)) = 1 /\ Append(<<>>, f)[1] = f
    BY <1>5, Appended
  <2>2. t.out = Append(<<>>, f) => 1 \in 1 .. Len(t.out) /\ t.out[1].kind = "claim"
    BY <1>8, <2>1
  <2> QED BY <1>7, <2>2
<1>10. /\ t.pc # "new" /\ t.state # "none"
       /\ t.request = 0 \/ t.request \in Messages
       /\ node[n].state = "lost" => t.state = "lost"
       /\ t.pc # "poll"
  BY <1>1, <1>3, <1>4, <1>7 DEF Keeps, Opened
<1>11. /\ DOMAIN opener' = Nodes
       /\ \A x \in Nodes : opener'[x] = "idle" => opener[x] = "idle" /\ x # n
  BY <1>1, <1>2
<1>12. IsSeq(unread'[n]) /\ \A i \in 1 .. Len(unread'[n]) : ReadOk(n, unread'[n][i])
  BY <1>1, <1>2 DEF Bus
<1>13. Ran(n, t)
  <2>1. DOMAIN unread' = Nodes /\ \A x \in Nodes : unread'[x] = unread[x]
    BY <1>1, <1>2
  <2>2. "rival" \in DOMAIN faults' /\ faults'.rival \in Nat /\ scenario' = scenario
    BY <1>1, <1>2, RefusalsKeep
  <2> QED BY <1>2, <1>3, <1>7, <1>9, <1>10, <1>11, <1>12, <2>1, <2>2 DEF Ran
<1> QED BY <1>13, RunStep

\* poll: a client that reads the claim of a rival answers it or gives up.
LEMMA PollStep ==
  ASSUME OwnerInv, NEW n \in Nodes, Poll(n)
  PROVE  OwnerInv'
<1> DEFINE rec == Head(unread[n])
           s0 == [node[n] EXCEPT !.limit = @ - 1,
                                 !.observed = IF rec.dir = "tx" THEN @ + 1 ELSE @]
<1>1. /\ Sound(n, node[n]) /\ Opened(n) /\ Bus(n)
      /\ "rival" \in DOMAIN faults /\ faults.rival \in Nat
      /\ DOMAIN unread = Nodes /\ DOMAIN opener = Nodes
  BY DEF OwnerInv
<1>2. /\ node[n].pc = "poll" /\ node[n].out = <<>>
      /\ unread' = [unread EXCEPT ![n] = Tail(@)]
      /\ UNCHANGED <<opener, scenario>>
  BY DEF Poll, Ready
<1>0. \E full \in Fulls, fires \in SUBSET node[n].fires :
        LET s == [s0 EXCEPT !.full = full]
            s1 == IF rec.dir = "tx" /\ ~(rec.f.kind = "request" /\ rec.f.dst = GlobalAddress)
                  THEN s ELSE handle(n, s, rec.f, fires)
        IN /\ full => Blocked \/ ~Alive(s1)
           /\ Becomes(n, s1)
           /\ faults' = Refusals(full)
  BY Zenon DEF Poll
<1>3. PICK full \in Fulls, fires \in SUBSET node[n].fires :
        LET s == [s0 EXCEPT !.full = full]
            s1 == IF rec.dir = "tx" /\ ~(rec.f.kind = "request" /\ rec.f.dst = GlobalAddress)
                  THEN s ELSE handle(n, s, rec.f, fires)
        IN /\ full => Blocked \/ ~Alive(s1)
           /\ Becomes(n, s1)
           /\ faults' = Refusals(full)
  BY Zenon, <1>0
<1> DEFINE s == [s0 EXCEPT !.full = full]
           t == IF rec.dir = "tx" /\ ~(rec.f.kind = "request" /\ rec.f.dst = GlobalAddress)
                THEN s ELSE handle(n, s, rec.f, fires)
<1>4. Becomes(n, t) /\ "rival" \in DOMAIN faults' /\ faults'.rival \in Nat
  BY <1>1, <1>3, RefusalsKeep
<1>5. node[n].state # "none" /\ node[n].pc # "done"
  BY <1>1, <1>2 DEF Opened
<1>6. /\ Fields \subseteq DOMAIN s /\ s.out = node[n].out /\ s.state = node[n].state
      /\ s.cannot = node[n].cannot /\ s.pc = node[n].pc /\ s.request = node[n].request
      /\ s.tx = node[n].tx /\ s.rx = node[n].rx
      /\ s.limit = node[n].limit - 1
  BY <1>1 DEF Sound, Fields
<1> HIDE DEF s
<1>7. Sound(n, s)
  BY <1>1, <1>6, SameSound
<1>8. /\ Sound(n, t) /\ t.request = s.request /\ t.limit = s.limit
      /\ t.pc = s.pc \/ t.pc = "done"
      /\ \/ t.state \in {s.state, "lost"}
         \/ s.state = "claiming" /\ t.state = "claimed"
  BY <1>2, <1>5, <1>6, <1>7, HandleSound
<1>9. ASSUME rec.f.kind = "claim", rec.dir # "tx"
      PROVE  /\ t.state \in {s.state, "lost"}
             /\ Challenges(n, s, rec.f) =>
                  \/ t.state = "lost"
                  \/ t.pc = "done"
                  \/ t.out = Append(<<>>, Frame("claim", Address(n), GlobalAddress, 0, Name(n), 0, 0))
  <2>1. t = handleClaim(n, s, rec.f)
    BY <1>9 DEF handle
  <2>2. s.out = <<>>
    BY <1>2, <1>6
  <2> HIDE DEF t
  <2> QED BY <1>7, <2>1, <2>2, HandleClaimSound
<1> HIDE DEF t
<1>10. node[n].limit \in 0 .. Len(unread[n]) /\ node[n].limit > 0
  <2>1. node[n].limit > 0
    BY Zenon DEF Poll
  <2> QED BY <1>1, <1>2, <2>1 DEF Opened
<1>11. unread[n] # <<>> /\ IsSeq(unread[n])
  <2>1. unread[n] # <<>>
    BY <1>10, EmptySeq
  <2> QED BY <1>1, <2>1 DEF Bus
<1>12. /\ IsSeq(Tail(unread[n])) /\ 1 \in 1 .. Len(unread[n]) /\ rec = unread[n][1]
       /\ \A i \in 1 .. Len(Tail(unread[n])) :
             i + 1 \in 1 .. Len(unread[n]) /\ Tail(unread[n])[i] = unread[n][i + 1]
       /\ \A i \in 1 .. Len(unread[n]) :
             i = 1 \/ \E j \in 1 .. Len(Tail(unread[n])) : Tail(unread[n])[j] = unread[n][i]
  BY <1>11, TailKeeps
<1>13. ReadOk(n, rec)
  BY <1>1, <1>12 DEF Bus
<1> HIDE DEF rec
<1>14. /\ DOMAIN unread' = Nodes /\ unread'[n] = Tail(unread[n])
       /\ \A x \in Nodes : x # n => unread'[x] = unread[x]
  BY <1>1, <1>2
<1>15. /\ IsSeq(unread'[n]) /\ \A i \in 1 .. Len(unread'[n]) : ReadOk(n, unread'[n][i])
       /\ \A i \in 1 .. Len(unread[n]) :
             i = 1 \/ \E j \in 1 .. Len(unread'[n]) : unread'[n][j] = unread[n][i]
  <2>1. ASSUME NEW i \in 1 .. Len(unread'[n]) PROVE ReadOk(n, unread'[n][i])
    <3>1. i + 1 \in 1 .. Len(unread[n]) /\ unread'[n][i] = unread[n][i + 1]
      BY <1>12, <1>14
    <3> QED BY <1>1, <3>1 DEF Bus
  <2>2. \A i \in 1 .. Len(unread[n]) :
          i = 1 \/ \E j \in 1 .. Len(unread'[n]) : unread'[n][j] = unread[n][i]
    BY ONLY <1>12, <1>14
  <2> QED BY ONLY <1>12, <1>14, <2>1, <2>2
<1>16. t.limit \in 0 .. Len(unread'[n])
  <2>1. Len(unread[n]) \in Nat /\ Len(unread'[n]) = Len(unread[n]) - 1
    BY <1>11, <1>14, Shortened
  <2> QED BY <1>6, <1>8, <1>10, <2>1
<1>17. ASSUME t.state \in {"claiming", "claimed"}, t.pc # "done"
       PROVE  \/ \E i \in 1 .. Len(t.out) : t.out[i].kind = "claim"
              \/ /\ Active(n)
                 /\ \A x \in Nodes \ {n} : Active(x) /\ Address(x) = Address(n) =>
                      \A i \in 1 .. Len(unread[n]) :
                         unread[n][i].f.kind = "claim" /\ unread[n][i].f.a = Name(x) =>
                            \E j \in 1 .. Len(unread'[n]) : unread'[n][j] = unread[n][i]
  <2>1. Active(n)
    BY <1>5, <1>6, <1>8, <1>17 DEF Active
  <2>2. ASSUME NEW x \in Nodes, x # n, Active(x), Address(x) = Address(n),
               rec.f.kind = "claim", rec.f.a = Name(x)
        PROVE  \E i \in 1 .. Len(t.out) : t.out[i].kind = "claim"
    <3>1. Name(x) # Name(n)
      BY <2>2, ScenariosAssumption DEF OwnerInv, Name
    <3>2. rec.dir # "tx" /\ rec.f.src = Address(n)
      BY <1>13, <2>2, <3>1 DEF ReadOk, ClaimOf, Active
    <3>3. Challenges(n, s, rec.f)
      BY <1>6, <2>1, <2>2, <3>1, <3>2 DEF Challenges, Active
    <3> DEFINE f == Frame("claim", Address(n), GlobalAddress, 0, Name(n), 0, 0)
    <3>4. t.out = Append(<<>>, f)
      BY <1>9, <1>17, <2>2, <3>2, <3>3
    <3>5. f.kind = "claim"
      BY DEF Frame
    <3> HIDE DEF f
    <3>6. IsSeq(<<>>) /\ Len(<<>>) = 0
      BY EmptySeq, IsASequence
    <3>7. Len(Append(<<>>, f)) = 1 /\ Append(<<>>, f)[1] = f
      BY <3>6, Appended
    <3> QED BY <3>4, <3>5, <3>7
  <2>3. CASE \E i \in 1 .. Len(t.out) : t.out[i].kind = "claim"
    BY <2>3
  <2>4. CASE ~\E i \in 1 .. Len(t.out) : t.out[i].kind = "claim"
    <3>1. ASSUME NEW x \in Nodes \ {n}, Active(x), Address(x) = Address(n),
                 NEW i \in 1 .. Len(unread[n]),
                 unread[n][i].f.kind = "claim", unread[n][i].f.a = Name(x)
          PROVE  \E j \in 1 .. Len(unread'[n]) : unread'[n][j] = unread[n][i]
      BY <1>12, <1>15, <2>2, <2>4, <3>1
    <3> QED BY <2>1, <3>1
  <2> QED BY <2>3, <2>4
<1>18. /\ t.pc # "new" /\ t.state # "none"
       /\ t.request = 0 \/ t.request \in Messages
       /\ node[n].state = "lost" => t.state = "lost"
  BY <1>1, <1>2, <1>5, <1>6, <1>8 DEF Opened
<1>19. /\ DOMAIN opener' = Nodes
       /\ \A x \in Nodes : opener'[x] = "idle" => opener[x] = "idle" /\ x # n
  BY <1>1, <1>2 DEF OwnerInv, Opened
<1>20. node[n].out = <<>> /\ scenario' = scenario
  BY <1>2
<1>21. Ran(n, t)
  BY ONLY <1>4, <1>8, <1>14, <1>15, <1>16, <1>17, <1>18, <1>19, <1>20 DEF Ran
<1> QED BY <1>21, RunStep

\* The kinds of what a client's callers send.
LEMMA MessageKinds ==
  ASSUME OwnerInv, NEW m \in Messages PROVE Msg(m).kind # "claim"
BY ScenariosAssumption DEF OwnerInv, Messages, Msg

LEMMA EndPollStep ==
  ASSUME OwnerInv, NEW n \in Nodes, EndPoll(n)
  PROVE  OwnerInv'
<1>1. /\ Sound(n, node[n]) /\ Opened(n) /\ Bus(n)
      /\ "rival" \in DOMAIN faults /\ faults.rival \in Nat
      /\ DOMAIN unread = Nodes /\ DOMAIN opener = Nodes
  BY DEF OwnerInv
<1>2. /\ node[n].pc = "poll" /\ node[n].out = <<>>
      /\ UNCHANGED <<unread, opener, scenario>>
  BY DEF EndPoll, Ready
<1>0. \E full \in Fulls :
        LET s == [node[n] EXCEPT !.full = full, !.pc = "select", !.fires = {}, !.request = 0]
            s1 == EndOfIteration(n, s, node[n].fires, node[n].request)
            s2 == EndOfIteration(n, [s EXCEPT !.full = FALSE], node[n].fires, node[n].request)
        IN /\ full => Blocked \/ [s1 EXCEPT !.full = FALSE] # s2
           /\ Becomes(n, s1)
           /\ faults' = Refusals(full)
  BY Zenon DEF EndPoll
<1>3. PICK full \in Fulls :
        LET s == [node[n] EXCEPT !.full = full, !.pc = "select", !.fires = {}, !.request = 0]
            s1 == EndOfIteration(n, s, node[n].fires, node[n].request)
            s2 == EndOfIteration(n, [s EXCEPT !.full = FALSE], node[n].fires, node[n].request)
        IN /\ full => Blocked \/ [s1 EXCEPT !.full = FALSE] # s2
           /\ Becomes(n, s1)
           /\ faults' = Refusals(full)
  BY Zenon, <1>0
<1> DEFINE s == [node[n] EXCEPT !.full = full, !.pc = "select", !.fires = {}, !.request = 0]
           t == EndOfIteration(n, s, node[n].fires, node[n].request)
<1>4. Becomes(n, t) /\ "rival" \in DOMAIN faults' /\ faults'.rival \in Nat
  BY <1>1, <1>3, RefusalsKeep
<1>5. /\ Fields \subseteq DOMAIN s /\ s.out = node[n].out /\ s.state = node[n].state
      /\ s.cannot = node[n].cannot /\ s.pc = "select" /\ s.request = 0
      /\ s.tx = node[n].tx /\ s.rx = node[n].rx
  BY <1>1 DEF Sound, Fields
<1> HIDE DEF s
<1>6. Sound(n, s)
  BY <1>1, <1>5 DEF Sound, Sayable
<1>7. node[n].request = 0 \/ Msg(node[n].request).kind # "claim"
  BY <1>1, MessageKinds DEF Opened
<1>8. /\ Sound(n, t) /\ t.request = 0
      /\ t.pc = "select" \/ t.pc = "done"
      /\ t.state = s.state \/ (s.state = "claiming" /\ t.state = "claimed")
  BY <1>5, <1>6, <1>7, EndSound
<1> HIDE DEF t
<1>9. node[n].state # "none" /\ node[n].pc # "done"
  BY <1>1, <1>2 DEF Opened
<1>10. /\ t.pc # "new" /\ t.pc # "poll" /\ t.state # "none"
       /\ node[n].state = "lost" => t.state = "lost"
  BY <1>5, <1>8, <1>9
<1>11. t.state \in {"claiming", "claimed"} => Active(n)
  BY <1>5, <1>8, <1>9 DEF Active
<1>12. /\ DOMAIN opener' = Nodes /\ DOMAIN unread' = Nodes
       /\ \A x \in Nodes : opener'[x] = "idle" => opener[x] = "idle" /\ x # n
       /\ \A x \in Nodes : unread'[x] = unread[x]
  BY <1>1, <1>2 DEF Opened
<1>13. IsSeq(unread'[n]) /\ \A i \in 1 .. Len(unread'[n]) : ReadOk(n, unread'[n][i])
  BY <1>1, <1>12 DEF Bus
<1>14. \A i \in 1 .. Len(unread[n]) : \E j \in 1 .. Len(unread'[n]) : unread'[n][j] = unread[n][i]
  BY <1>12
<1>15. Ran(n, t)
  BY <1>2, <1>4, <1>8, <1>10, <1>11, <1>12, <1>13, <1>14 DEF Ran
<1> QED BY <1>15, RunStep

\* shutdown: the peers of a client that has its address learn of its end.
LEMMA ShutdownStep ==
  ASSUME OwnerInv, NEW n \in Nodes, Shutdown(n)
  PROVE  OwnerInv'
<1> DEFINE s == [node[n] EXCEPT !.ctx = FALSE, !.full = Blocked]
           s1 == IF s.tx # None /\ s.tx.dst # GlobalAddress
                 THEN abort(n, s, s.tx.dst, s.tx.pgn) ELSE s
           s2 == IF s1.rx # None THEN abort(n, s1, s1.rx.src, s1.rx.pgn) ELSE s1
           s3 == IF s.state = "claimed" THEN s2 ELSE s
           t == [s3 EXCEPT !.pc = "done", !.ctx = TRUE]
<1>1. /\ Sound(n, node[n]) /\ Opened(n) /\ Bus(n)
      /\ "rival" \in DOMAIN faults /\ faults.rival \in Nat
      /\ DOMAIN unread = Nodes /\ DOMAIN opener = Nodes
  BY DEF OwnerInv
<1>2. /\ node[n].pc = "select" /\ node[n].out = <<>>
      /\ Becomes(n, t)
      /\ UNCHANGED <<unread, opener, faults, scenario>>
  BY DEF Shutdown, Ready, Farewells
<1>3. /\ Fields \subseteq DOMAIN s /\ s.out = node[n].out /\ s.state = node[n].state
      /\ s.cannot = node[n].cannot /\ s.pc = node[n].pc /\ s.request = node[n].request
      /\ s.limit = node[n].limit /\ s.tx = node[n].tx /\ s.rx = node[n].rx
  BY <1>1 DEF Sound, Fields
<1> HIDE DEF s
<1>4. Sound(n, s)
  BY <1>1, <1>3, SameSound
<1>5. Sound(n, t) /\ Keeps(s, t) /\ t.pc = "done"
  <2>1. Keeps(s, s)
    BY DEF Keeps
  <2>2. ASSUME s.state = "claimed" PROVE Sound(n, s2) /\ Keeps(s, s2)
    <3>1. Sound(n, s1) /\ Keeps(s, s1)
      BY <1>4, <2>1, <2>2, AbortSound
    <3> HIDE DEF s1
    <3>2. s1.state = "claimed" /\ Keeps(s1, s1)
      BY <2>2, <3>1 DEF Keeps
    <3>3. Sound(n, s2) /\ Keeps(s1, s2)
      BY <3>1, <3>2, AbortSound
    <3> QED BY <3>1, <3>3, KeepsTransitive
  <2> HIDE DEF s1, s2
  <2>3. Sound(n, s3) /\ Keeps(s, s3)
    BY <1>4, <2>1, <2>2
  <2> HIDE DEF s3
  <2>4. /\ Fields \subseteq DOMAIN t /\ t.out = s3.out /\ t.state = s3.state
        /\ t.cannot = s3.cannot /\ t.pc = "done" /\ t.request = s3.request
        /\ t.limit = s3.limit /\ t.tx = s3.tx /\ t.rx = s3.rx
    BY <2>3 DEF Sound, Fields
  <2> HIDE DEF t
  <2>5. Sound(n, t)
    BY ONLY <2>3, <2>4 DEF Sound, Sayable
  <2> QED BY ONLY <2>3, <2>4, <2>5 DEF Keeps
<1> HIDE DEF t
<1>6. node[n].state # "none"
  BY <1>1, <1>2 DEF Opened
<1>7. /\ t.pc # "new" /\ t.pc # "poll" /\ t.state # "none"
      /\ t.request = 0 \/ t.request \in Messages
      /\ node[n].state = "lost" => t.state = "lost"
  BY <1>1, <1>3, <1>5, <1>6 DEF Keeps, Opened
<1>8. /\ DOMAIN opener' = Nodes /\ DOMAIN unread' = Nodes
      /\ \A x \in Nodes : opener'[x] = "idle" => opener[x] = "idle" /\ x # n
      /\ \A x \in Nodes : unread'[x] = unread[x]
      /\ "rival" \in DOMAIN faults' /\ faults'.rival \in Nat /\ scenario' = scenario
  BY <1>1, <1>2 DEF Opened
<1>9. IsSeq(unread'[n]) /\ \A i \in 1 .. Len(unread'[n]) : ReadOk(n, unread'[n][i])
  BY <1>1, <1>8 DEF Bus
<1>10. Ran(n, t)
  BY <1>2, <1>5, <1>7, <1>8, <1>9 DEF Ran
<1> QED BY <1>10, RunStep

\* select, the ends of the bus and of the capture, and what Open and Close do to the client.
LEMMA GoroutineStep ==
  ASSUME OwnerInv, NEW n \in Nodes,
         \/ WakeAny(n) \/ PollFails(n) \/ BusEnds(n)
         \/ ContextEnds(n) \/ OpenReturns(n) \/ Close(n) \/ CloseReturns(n)
  PROVE  OwnerInv'
<1>1. /\ "rival" \in DOMAIN faults /\ faults.rival \in Nat
      /\ DOMAIN node = Nodes /\ DOMAIN opener = Nodes
      /\ \A x \in Nodes : Fields \subseteq DOMAIN node[x] /\ Opened(x)
  BY DEF OwnerInv, Sound
<1>2. /\ UNCHANGED <<queue, unread, scenario>>
      /\ "rival" \in DOMAIN faults' /\ faults'.rival \in Nat
      /\ \/ UNCHANGED opener
         \/ \E at \in {"open", "closing", "closed"} : opener' = [opener EXCEPT ![n] = at]
      /\ \/ UNCHANGED node
         \/ \E s : node' = [node EXCEPT ![n] = s]
  <2>1. CASE WakeAny(n)
    <3>1. PICK m, fires : Wake(n, m, fires)
      BY <2>1 DEF WakeAny
    <3>2. /\ UNCHANGED <<queue, unread, opener, scenario>>
          /\ node' = [node EXCEPT ![n].pc = "poll", ![n].limit = Len(unread[n]),
                                  ![n].fires = fires, ![n].request = m]
          /\ faults' = IF OnTime(n, fires) THEN faults ELSE [faults EXCEPT !.early = @ + 1]
      BY <3>1 DEF Wake
    <3>3. "rival" \in DOMAIN faults' /\ faults'.rival \in Nat
      BY <1>1, <3>2
    <3>4. \E s : node' = [node EXCEPT ![n] = s]
      BY <3>2
    <3> QED BY <3>2, <3>3, <3>4
  <2>2. CASE PollFails(n) \/ BusEnds(n)
    BY <1>1, <2>2 DEF PollFails, BusEnds
  <2>3. CASE OpenReturns(n)
    BY <1>1, <2>3 DEF OpenReturns
  <2>4. CASE ContextEnds(n) \/ Close(n) \/ CloseReturns(n)
    BY <1>1, <2>4 DEF ContextEnds, Close, CloseReturns
  <2> QED BY <2>1, <2>2, <2>3, <2>4
<1>3. "rival" \in DOMAIN faults' /\ faults'.rival \in Nat
  BY <1>2
<1>4. /\ DOMAIN opener' = Nodes
      /\ \A x \in Nodes : opener'[x] = "idle" => opener[x] = "idle"
  BY <1>1, <1>2
<1>5. DOMAIN node' = Nodes /\ \A x \in Nodes : x # n => node'[x] = node[x]
  BY <1>1, <1>2
<1>6. node' \in [Nodes -> {node'[x] : x \in Nodes}]
  <2>1. node \in [Nodes -> {node[x] : x \in Nodes}]
    BY DEF OwnerInv
  <2>2. node' = [x \in Nodes |-> node'[x]]
    BY <1>2, <2>1
  <2> QED BY <2>2
<1>7. /\ Fields \subseteq DOMAIN node'[n]
      /\ node'[n].out = node[n].out /\ node'[n].state = node[n].state
      /\ node'[n].cannot = node[n].cannot
      /\ node'[n].tx = node[n].tx /\ node'[n].rx = node[n].rx
      /\ node'[n].request = 0 \/ node'[n].request \in Messages
      /\ node'[n].pc = "poll" => node'[n].limit \in 0 .. Len(unread[n])
      /\ node'[n].pc = "new" <=> node[n].pc = "new"
      /\ node'[n].pc # "done" => node[n].pc # "done"
  <2>1. Fields \subseteq DOMAIN node[n] /\ Opened(n)
    BY <1>1
  <2>2. CASE WakeAny(n)
    <3>1. \E m \in {0} \cup Mine(n) : \E fires : Wake(n, m, fires)
      BY <2>2 DEF WakeAny
    <3>2. PICK m \in {0} \cup Mine(n) : \E fires : Wake(n, m, fires)
      BY <3>1
    <3>3. PICK fires : Wake(n, m, fires)
      BY <3>2
    <3>4. /\ node[n].pc = "select"
          /\ node' = [node EXCEPT ![n].pc = "poll", ![n].limit = Len(unread[n]),
                                  ![n].fires = fires, ![n].request = m]
      BY <3>3 DEF Wake, Ready
    <3>5. m = 0 \/ m \in Messages
      BY DEF Mine
    <3>6. Len(unread[n]) \in Nat
      <4>1. IsSeq(unread[n])
        BY DEF OwnerInv, Bus
      <4> QED BY <4>1, LenProperties DEF IsSeq
    <3> QED BY <1>1, <2>1, <3>4, <3>5, <3>6 DEF Fields
  <2>3. CASE PollFails(n) \/ BusEnds(n)
    <3>1. node[n].pc = "select" /\ node' = [node EXCEPT ![n].pc = "done"]
      BY <2>3 DEF PollFails, BusEnds, Ready
    <3> QED BY <1>1, <2>1, <3>1 DEF Fields, Opened
  <2>4. CASE ContextEnds(n) \/ OpenReturns(n) \/ Close(n) \/ CloseReturns(n)
    <3>1. \/ UNCHANGED node
          \/ node' = [node EXCEPT ![n].ready = "empty"]
          \/ node' = [node EXCEPT ![n].ready = "empty", ![n].ctx = TRUE]
          \/ node' = [node EXCEPT ![n].ctx = TRUE]
      BY <2>4 DEF ContextEnds, OpenReturns, Close, CloseReturns
    <3> QED BY <1>1, <2>1, <3>1 DEF Fields, Opened
  <2> QED BY <2>2, <2>3, <2>4
<1>8. \A x \in Nodes :
        /\ Fields \subseteq DOMAIN node'[x]
        /\ node'[x].out = node[x].out /\ node'[x].state = node[x].state
        /\ node'[x].cannot = node[x].cannot
        /\ node'[x].tx = node[x].tx /\ node'[x].rx = node[x].rx
        /\ node'[x].request = 0 \/ node'[x].request \in Messages
        /\ node'[x].pc = "poll" => node'[x].limit \in 0 .. Len(unread[x])
        /\ node'[x].pc = "new" <=> node[x].pc = "new"
        /\ node'[x].pc # "done" => node[x].pc # "done"
        /\ opener'[x] = "idle" => opener[x] = "idle"
  <2> SUFFICES ASSUME NEW x \in Nodes
               PROVE  /\ Fields \subseteq DOMAIN node'[x]
                      /\ node'[x].out = node[x].out /\ node'[x].state = node[x].state
                      /\ node'[x].cannot = node[x].cannot
                      /\ node'[x].tx = node[x].tx /\ node'[x].rx = node[x].rx
                      /\ node'[x].request = 0 \/ node'[x].request \in Messages
                      /\ node'[x].pc = "poll" => node'[x].limit \in 0 .. Len(unread[x])
                      /\ node'[x].pc = "new" <=> node[x].pc = "new"
                      /\ node'[x].pc # "done" => node[x].pc # "done"
    BY <1>4
  <2>1. CASE x = n
    BY <1>7, <2>1
  <2>2. CASE x # n
    <3>1. node'[x] = node[x] /\ Fields \subseteq DOMAIN node[x] /\ Opened(x)
      BY <1>1, <1>5, <2>2
    <3> QED BY ONLY <3>1 DEF Opened
  <2> QED BY <2>1, <2>2
<1> QED BY ONLY <1>2, <1>3, <1>4, <1>6, <1>8, SilentStep, OwnerInv

\* What the callers of Send and the transmit queues of the buses do leaves the
\* clients alone.
LEMMA CallerStep ==
  ASSUME OwnerInv,
         \/ \E m \in Messages : Send(m) \/ Cancel(m) \/ Return(m)
         \/ Blocks \/ Drains
         \/ UNCHANGED vars
  PROVE  OwnerInv'
<1>1. /\ "rival" \in DOMAIN faults /\ faults.rival \in Nat
      /\ node \in [Nodes -> {node[x] : x \in Nodes}] /\ DOMAIN opener = Nodes
      /\ \A x \in Nodes : Fields \subseteq DOMAIN node[x] /\ Opened(x)
  BY DEF OwnerInv, Sound
<1>2. UNCHANGED <<node, queue, unread, opener, scenario>>
  BY DEF Send, Cancel, Return, Blocks, Drains, vars
<1>3. "rival" \in DOMAIN faults' /\ faults'.rival \in Nat
  BY <1>1 DEF Send, Cancel, Return, Blocks, Drains, vars
<1>4. node' \in [Nodes -> {node'[x] : x \in Nodes}] /\ DOMAIN opener' = Nodes
  BY <1>1, <1>2
<1>5. \A x \in Nodes :
        /\ Fields \subseteq DOMAIN node'[x]
        /\ node'[x].out = node[x].out /\ node'[x].state = node[x].state
        /\ node'[x].cannot = node[x].cannot
        /\ node'[x].tx = node[x].tx /\ node'[x].rx = node[x].rx
        /\ node'[x].request = 0 \/ node'[x].request \in Messages
        /\ node'[x].pc = "poll" => node'[x].limit \in 0 .. Len(unread[x])
        /\ node'[x].pc = "new" <=> node[x].pc = "new"
        /\ node'[x].pc # "done" => node[x].pc # "done"
        /\ opener'[x] = "idle" => opener[x] = "idle"
  BY <1>1, <1>2 DEF Opened
<1> QED BY ONLY <1>2, <1>3, <1>4, <1>5, SilentStep, OwnerInv

-----------------------------------------------------------------------------
(* The theorems                                                            *)

LEMMA InitOwner == Init => OwnerInv
<1> SUFFICES ASSUME Init PROVE OwnerInv
  OBVIOUS
<1> DEFINE new(n) == [NewNode EXCEPT !.res = [m \in Mine(n) |-> "none"]]
<1>1. /\ scenario \in Scenarios
      /\ node = [n \in Nodes |-> new(n)]
      /\ unread = [n \in Nodes |-> <<>>] /\ queue = [n \in Nodes |-> <<>>]
      /\ opener = [n \in Nodes |-> "idle"]
  BY DEF Init
<1>2. "rival" \in DOMAIN faults /\ faults.rival \in Nat
  BY DEF Init
<1>3. IsSeq(<<>>) /\ Len(<<>>) = 0
  BY EmptySeq, IsASequence
<1>4. ASSUME NEW n \in Nodes
      PROVE  /\ Fields \subseteq DOMAIN new(n)
             /\ new(n).pc = "new" /\ new(n).state = "none" /\ new(n).cannot = FALSE
             /\ new(n).tx = None /\ new(n).rx = None /\ new(n).out = <<>>
             /\ new(n).request = 0
  BY DEF NewNode, Fields
<1> HIDE DEF new
<1>5. "src" \in DOMAIN None
  BY DEF None
<1>6. ASSUME NEW n \in Nodes PROVE Sound(n, node[n]) /\ Opened(n) /\ Bus(n) /\ ~Active(n)
  <2>1. node[n] = new(n) /\ queue[n] = <<>> /\ unread[n] = <<>>
    BY <1>1
  <2>2. Sound(n, node[n])
    <3>1. IsSeq(node[n].out) /\ \A i \in 1 .. Len(node[n].out) : Sayable(n, node[n], node[n].out[i])
      <4>1. node[n].out = <<>>
        BY <1>4, <2>1
      <4> QED BY ONLY <1>3, <4>1
    <3> QED BY <1>4, <1>5, <2>1, <3>1 DEF Sound
  <2>3. Opened(n) /\ ~Active(n)
    BY <1>4, <2>1 DEF Opened, Active
  <2>4. Bus(n)
    BY <1>3, <2>1 DEF Bus
  <2> QED BY <2>2, <2>3, <2>4
<1>7. node \in [Nodes -> {node[n] : n \in Nodes}]
      /\ DOMAIN queue = Nodes /\ DOMAIN unread = Nodes /\ DOMAIN opener = Nodes
  BY <1>1
<1> QED BY <1>1, <1>2, <1>6, <1>7 DEF OwnerInv, Rivalry

LEMMA NextOwner == OwnerInv /\ [Next]_vars => OwnerInv'
<1> SUFFICES ASSUME OwnerInv, [Next]_vars PROVE OwnerInv'
  OBVIOUS
<1>1. ASSUME NEW n \in Nodes, Step(n) PROVE OwnerInv'
  BY <1>1, RecordStep, ShutdownStep, PollStep, EndPollStep, BroadcastStep DEF Step
<1>2. ASSUME NEW n \in Nodes, Open(n) PROVE OwnerInv'
  BY <1>2, OpenStep
<1>3. ASSUME NEW n \in Nodes,
             \/ WakeAny(n) \/ PollFails(n) \/ BusEnds(n)
             \/ ContextEnds(n) \/ OpenReturns(n) \/ Close(n) \/ CloseReturns(n)
      PROVE  OwnerInv'
  BY <1>3, GoroutineStep
<1>4. CASE \/ \E m \in Messages : Send(m) \/ Cancel(m) \/ Return(m)
           \/ Blocks \/ Drains
           \/ UNCHANGED vars
  BY <1>4, CallerStep
<1>5. CASE EcuGrants \/ EcuAcknowledges \/ EcuStarts \/ EcuSends \/ EcuAborts \/ Requests \/ Rival
  BY <1>5, OthersStep
<1>6. CASE Ended
  BY <1>4, <1>6 DEF Ended
<1> QED BY <1>1, <1>2, <1>3, <1>4, <1>5, <1>6 DEF Next

\* OwnerInv: every client's record is sound, what is on the buses is in order,
\* and two clients that want one address will hear of each other.
THEOREM OwnerInvariant == Spec => []OwnerInv
BY InitOwner, NextOwner, PTL DEF Spec

\* OneOwner: whatever the clients, their addresses and NAMEs, and whatever the
\* other controllers do, two clients hold one address only while a claim that
\* will take it from one of them is on its way (Client.handle, loseAddress).
THEOREM OneOwnerAlways == Spec => []OneOwner
<1>1. OwnerInv => OneOwner
  BY DEF OwnerInv, Rivalry, OneOwner, Has, Active
<1> QED BY <1>1, OwnerInvariant, PTL

\* OneTransferEachWay: the transfers of a client have different peers and end
\* when it loses its address (handleTransport, startSend, loseAddress).
THEOREM TransfersSeparate == Spec => []OneTransferEachWay
<1>1. OwnerInv => OneTransferEachWay
  BY DEF OwnerInv, Sound, OneTransferEachWay
<1> QED BY <1>1, OwnerInvariant, PTL

\* NoUseAfterLoss: no step of run sends anything but a claim for a client that
\* has no address, whatever it reads in that step (startSend, tick, shutdown).
THEOREM NeverUsedAfterLoss == Spec => NoUseAfterLoss
<1> DEFINE A == \A n \in Nodes : \A i \in Len(node[n].out) + 1 .. Len(node'[n].out) :
                   node'[n].out[i].kind # "claim" => node'[n].state = "claimed"
<1>1. OwnerInv /\ OwnerInv' => A
  <2> SUFFICES ASSUME OwnerInv, OwnerInv', NEW n \in Nodes,
                      NEW i \in Len(node[n].out) + 1 .. Len(node'[n].out),
                      node'[n].out[i].kind # "claim"
               PROVE  node'[n].state = "claimed"
    OBVIOUS
  <2>1. IsSeq(node[n].out) /\ IsSeq(node'[n].out)
        /\ \A j \in 1 .. Len(node'[n].out) :
             node'[n].out[j].kind # "claim" => node'[n].state = "claimed"
    BY DEF OwnerInv, Sound, Sayable, IsSeq
  <2>2. Len(node[n].out) \in Nat /\ Len(node'[n].out) \in Nat
    BY <2>1, LenProperties DEF IsSeq
  <2>3. i \in 1 .. Len(node'[n].out)
    BY <2>2
  <2> QED BY <2>1, <2>3
<1> HIDE DEF A
<1>2. Spec => [][A]_vars
  BY <1>1, OwnerInvariant, PTL DEF Spec
<1> QED BY <1>2 DEF NoUseAfterLoss, A
=============================================================================
