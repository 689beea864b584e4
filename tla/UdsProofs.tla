----------------------------- MODULE UdsProofs -----------------------------
(***************************************************************************)
(* Proofs about ISO-TP links and the UDS clients that use them.            *)
(*                                                                         *)
(* Tokens: whatever calls, failures and closes come in which order, each   *)
(* token lies in its channel or is held by exactly one goroutine or        *)
(* exchange.  Answers: behind its receiving token an exchange reads every  *)
(* record received since its request, so that what Do returns is about     *)
(* that request.                                                           *)
(***************************************************************************)
EXTENDS Uds, FiniteSetTheorems, SequenceTheorems, WellFoundedInduction, TLAPS

-----------------------------------------------------------------------------
(* The inductive invariant.                                                *)

Tokens == {"sending", "receiving"}
Transmitting == {"transmit", "locate", "flow", "block"}
Receiving == {"first", "grant", "follow"}
Points == {"idle", "sending", "receiving", "returned"} \union Transmitting \union Receiving
ExchangeStates == {"none", "open", "cancelled"}

\* The locals of a call that decide about its tokens.
Shaped(c) == {"op", "msg", "waits"} \subseteq DOMAIN c /\ c.waits \in Nat

\* Where a call can be, given its operation and the exchange of its process.
PlaceOK(x, at, c) ==
  /\ Shaped(c)
  /\ at = "sending" \/ at \in Transmitting => c.op \in {"send", "begin"}
  /\ at = "receiving" => c.op \in {"begin", "receive", "reset"} \/ (c.op = "send" /\ MultiFrame(c.msg))
  /\ at \in Receiving => c.op = "receive" \/ (c.op = "next" /\ x # "none")
  /\ x # "none" => at \in {"idle", "returned"} \union Receiving /\ (at \in Receiving => c.op = "next")

\* What a process holds that is at this place of this call.
HoldsAt(x, at, c, token) ==
  \/ x # "none"
  \/ token = "sending" /\ c.op \in {"send", "begin"} /\ at \notin {"idle", "sending", "returned"}
  \/ /\ token = "receiving"
     /\ \/ c.op = "receive" /\ at \notin {"idle", "receiving", "returned"}
        \/ /\ c.op = "begin" \/ (c.op = "send" /\ MultiFrame(c.msg))
           /\ at \notin {"idle", "sending", "receiving", "returned"}

Typed ==
  /\ tokens \in [Links -> SUBSET Tokens] /\ exchange \in [Procs -> ExchangeStates]
  /\ pc \in [Procs -> Points] /\ call = [p \in Procs |-> call[p]]

\* A token has one place.
Placed(l, token) ==
  /\ token \in tokens[l] => \A p \in Procs : LinkOf[p] = l => ~Holds(p, token)
  /\ token \notin tokens[l] => \E p \in Procs : LinkOf[p] = l /\ Holds(p, token)
  /\ \A p, q \in Procs :
       LinkOf[p] = l /\ LinkOf[q] = l /\ Holds(p, token) /\ Holds(q, token) => p = q

\* A Flow Control that parses has one of three states.
Sound(f) == f.kind = "flow" => f.status \in {"continue", "wait", "overflow"}

IsSeq(s) == s \in Seq({s[i] : i \in DOMAIN s})

FramesOK ==
  /\ wire = [l \in Links |-> wire[l]] /\ log = [l \in Links |-> log[l]]
  /\ \A l \in Links : /\ IsSeq(wire[l]) /\ \A i \in 1..Len(wire[l]) : Sound(wire[l][i])
                      /\ IsSeq(log[l]) /\ \A i \in 1..Len(log[l]) : Sound(log[l][i].frame)

TokenInv ==
  /\ Typed
  /\ \A p \in Procs : PlaceOK(exchange[p], pc[p], call[p])
  /\ \A l \in Links, token \in Tokens : Placed(l, token)
  /\ FramesOK

-----------------------------------------------------------------------------
(* Frames.                                                                 *)

LEMMA SeqOfItself ==
  ASSUME NEW S, NEW s \in Seq(S)
  PROVE  IsSeq(s)
<1>1. s \in [1..Len(s) -> S] /\ Len(s) \in Nat BY LenProperties
<1>2. s \in [1..Len(s) -> {s[i] : i \in DOMAIN s}] BY <1>1
<1>. QED BY <1>1, <1>2, SeqDef DEF IsSeq

LEMMA Appended ==
  ASSUME NEW s, IsSeq(s), NEW e
  PROVE  /\ IsSeq(Append(s, e)) /\ Len(s) \in Nat /\ Len(Append(s, e)) = Len(s) + 1
         /\ Append(s, e)[Len(s) + 1] = e /\ \A i \in 1..Len(s) : Append(s, e)[i] = s[i]
<1>. DEFINE S == {s[i] : i \in DOMAIN s} \union {e}
<1>1. s \in Seq(S) /\ e \in S
  <2>1. s \in Seq({s[i] : i \in DOMAIN s}) BY DEF IsSeq
  <2>2. s \in [1..Len(s) -> {s[i] : i \in DOMAIN s}] /\ Len(s) \in Nat BY <2>1, LenProperties
  <2>3. s \in [1..Len(s) -> S] BY <2>2
  <2>. QED BY <2>2, <2>3, SeqDef
<1>. HIDE DEF S
<1>2. /\ Append(s, e) \in Seq(S) /\ Len(Append(s, e)) = Len(s) + 1
      /\ \A i \in 1..Len(s) : Append(s, e)[i] = s[i] /\ Append(s, e)[Len(s) + 1] = e
  BY <1>1, AppendProperties
<1>3. IsSeq(Append(s, e)) BY <1>2, SeqOfItself
<1>4. Append(s, e)[Len(s) + 1] = e /\ Len(s) \in Nat BY <1>1, AppendProperties, LenProperties
<1>. QED BY <1>2, <1>3, <1>4

LEMMA Shortened ==
  ASSUME NEW s, IsSeq(s), s # <<>>
  PROVE  /\ IsSeq(Tail(s)) /\ Len(s) \in Nat /\ Len(s) >= 1 /\ Head(s) = s[1]
         /\ Len(Tail(s)) = Len(s) - 1 /\ \A i \in 1..Len(Tail(s)) : Tail(s)[i] = s[i + 1]
<1>. DEFINE S == {s[i] : i \in DOMAIN s}
<1>1. s \in Seq(S) BY DEF IsSeq
<1>. HIDE DEF S
<1>2. Len(s) \in Nat /\ Len(s) >= 1 BY <1>1, LenProperties, EmptySeq
<1>3. /\ Head(s) = s[1] /\ Tail(s) \in Seq(S) /\ Len(Tail(s)) = Len(s) - 1
      /\ \A i \in 1..Len(Tail(s)) : Tail(s)[i] = s[i + 1]
  BY <1>1, HeadTailProperties
<1>4. IsSeq(Tail(s)) BY <1>3, SeqOfItself
<1>. QED BY <1>2, <1>3, <1>4

\* A frame or a record is appended for one link.
LEMMA WireGrows ==
  ASSUME FramesOK, NEW l \in Links, NEW f, Sound(f), wire' = [wire EXCEPT ![l] = Append(@, f)]
  PROVE  /\ wire' = [x \in Links |-> wire'[x]]
         /\ \A x \in Links : IsSeq(wire'[x]) /\ \A i \in 1..Len(wire'[x]) : Sound(wire'[x][i])
<1>1. wire' = [x \in Links |-> wire'[x]] BY DEF FramesOK
<1>2. wire'[l] = Append(wire[l], f) /\ \A x \in Links : x # l => wire'[x] = wire[x] BY DEF FramesOK
<1>3. IsSeq(wire[l]) /\ \A i \in 1..Len(wire[l]) : Sound(wire[l][i]) BY DEF FramesOK
<1>4. IsSeq(wire'[l]) /\ \A i \in 1..Len(wire'[l]) : Sound(wire'[l][i])
  <2>1. /\ IsSeq(wire'[l]) /\ Len(wire[l]) \in Nat /\ Len(wire'[l]) = Len(wire[l]) + 1
        /\ wire'[l][Len(wire[l]) + 1] = f /\ \A i \in 1..Len(wire[l]) : wire'[l][i] = wire[l][i]
    BY <1>2, <1>3, Appended
  <2>2. \A i \in 1..Len(wire'[l]) : i \in 1..Len(wire[l]) \/ i = Len(wire[l]) + 1 BY <2>1
  <2>. QED BY <1>3, <2>1, <2>2
<1>. QED BY <1>1, <1>2, <1>4 DEF FramesOK

LEMMA LogGrows ==
  ASSUME FramesOK, NEW l \in Links, NEW r, Sound(r.frame), log' = [log EXCEPT ![l] = Append(@, r)]
  PROVE  /\ log' = [x \in Links |-> log'[x]]
         /\ \A x \in Links : IsSeq(log'[x]) /\ \A i \in 1..Len(log'[x]) : Sound(log'[x][i].frame)
<1>1. log' = [x \in Links |-> log'[x]] BY DEF FramesOK
<1>2. log'[l] = Append(log[l], r) /\ \A x \in Links : x # l => log'[x] = log[x] BY DEF FramesOK
<1>3. IsSeq(log[l]) /\ \A i \in 1..Len(log[l]) : Sound(log[l][i].frame) BY DEF FramesOK
<1>4. IsSeq(log'[l]) /\ \A i \in 1..Len(log'[l]) : Sound(log'[l][i].frame)
  <2>1. /\ IsSeq(log'[l]) /\ Len(log[l]) \in Nat /\ Len(log'[l]) = Len(log[l]) + 1
        /\ log'[l][Len(log[l]) + 1] = r /\ \A i \in 1..Len(log[l]) : log'[l][i] = log[l][i]
    BY <1>2, <1>3, Appended
  <2>2. \A i \in 1..Len(log'[l]) : i \in 1..Len(log[l]) \/ i = Len(log[l]) + 1 BY <2>1
  <2>. QED BY <1>3, <2>1, <2>2
<1>. QED BY <1>1, <1>2, <1>4 DEF FramesOK

\* The head of a wire is taken.
LEMMA WireShrinks ==
  ASSUME FramesOK, NEW l \in Links, wire[l] # <<>>, wire' = [wire EXCEPT ![l] = Tail(@)]
  PROVE  /\ wire' = [x \in Links |-> wire'[x]] /\ Sound(Head(wire[l]))
         /\ \A x \in Links : IsSeq(wire'[x]) /\ \A i \in 1..Len(wire'[x]) : Sound(wire'[x][i])
<1>1. wire' = [x \in Links |-> wire'[x]] BY DEF FramesOK
<1>2. wire'[l] = Tail(wire[l]) /\ \A x \in Links : x # l => wire'[x] = wire[x] BY DEF FramesOK
<1>3. IsSeq(wire[l]) /\ \A i \in 1..Len(wire[l]) : Sound(wire[l][i]) BY DEF FramesOK
<1>4. /\ IsSeq(wire'[l]) /\ Len(wire[l]) \in Nat /\ Len(wire[l]) >= 1 /\ Head(wire[l]) = wire[l][1]
      /\ Len(wire'[l]) = Len(wire[l]) - 1 /\ \A i \in 1..Len(wire'[l]) : wire'[l][i] = wire[l][i + 1]
  <2>1. wire'[l] = Tail(wire[l]) BY <1>2
  <2>. DEFINE s == wire[l]
  <2>2. IsSeq(s) /\ s # <<>> BY <1>3
  <2>. HIDE DEF s
  <2>3. /\ IsSeq(Tail(s)) /\ Len(s) \in Nat /\ Len(s) >= 1 /\ Head(s) = s[1]
        /\ Len(Tail(s)) = Len(s) - 1 /\ \A i \in 1..Len(Tail(s)) : Tail(s)[i] = s[i + 1]
    BY <2>2, Shortened
  <2>. QED BY <2>1, <2>3 DEF s
<1>5. \A i \in 1..Len(wire'[l]) : i + 1 \in 1..Len(wire[l]) BY <1>4
<1>6. 1 \in 1..Len(wire[l]) BY <1>4
<1>. QED BY <1>1, <1>2, <1>3, <1>4, <1>5, <1>6 DEF FramesOK

LEMMA AcceptFrames ==
  ASSUME FramesOK, NEW l \in Links, NEW f, Sound(f), Accept(l, f)
  PROVE  FramesOK'
<1>1. Peer(l) \in Links BY DEF Peer, Links
<1>2. wire' = [wire EXCEPT ![Peer(l)] = Append(@, f)] BY DEF Accept
<1>. DEFINE r == [dir |-> "tx", frame |-> f]
<1>3. log' = [log EXCEPT ![l] = Append(@, r)] /\ r.frame = f BY DEF Accept
<1>. HIDE DEF r
<1>4. Sound(r.frame) BY <1>3
<1>. QED BY <1>1, <1>2, <1>3, <1>4, WireGrows, LogGrows DEF FramesOK

\* What nextFrame returns is a frame of the capture.
LEMMA NextIsSound ==
  ASSUME FramesOK, NEW l \in Links, NEW d, Retained(l, d) # {}
  PROVE  Sound(log[l][Min(Retained(l, d))].frame)
<1>1. IsSeq(log[l]) /\ \A i \in 1..Len(log[l]) : Sound(log[l][i].frame) BY DEF FramesOK
<1>. DEFINE S == Retained(l, d)
<1>2. S \subseteq 1..Len(log[l]) BY DEF Retained
<1>3. Len(log[l]) \in Nat BY <1>1, LenProperties DEF IsSeq
<1>. HIDE DEF S
<1>4. S \subseteq Nat BY <1>2, <1>3
<1>5. S # {} BY DEF S
<1>6. PICK x \in S : \A y \in S : ~(<<y, x>> \in OpToRel(<, Nat))
  BY <1>4, <1>5, NatLessThanWellFounded, WFMin, Zenon
<1>7. \A y \in S : x =< y
  <2>1. ASSUME NEW y \in S PROVE x =< y
    <3>1. ~(y < x) BY <1>4, <1>6 DEF OpToRel
    <3>. QED BY <1>4, <3>1
  <2>. QED BY <2>1
<1>8. Min(S) \in S BY <1>7 DEF Min
<1>. QED BY <1>1, <1>2, <1>8 DEF S

-----------------------------------------------------------------------------
(* How the tokens of a link move.                                          *)

\* p is somewhere else, and what it no longer holds lies in the channels.
Hands(p) ==
  LET l == LinkOf[p] IN
  /\ Typed' /\ PlaceOK(exchange[p], pc[p], call[p])'
  /\ \A q \in Procs : q # p => exchange'[q] = exchange[q] /\ pc'[q] = pc[q] /\ call'[q] = call[q]
  /\ \A k \in Links : k # l => tokens'[k] = tokens[k]
  /\ \A token \in Tokens :
       LET before == Holds(p, token) \/ token \in tokens[l] IN
       /\ Holds(p, token)' => before
       /\ token \in tokens'[l] <=> before /\ ~Holds(p, token)'

LEMMA HoldsIsHoldsAt ==
  ASSUME NEW p, NEW token
  PROVE  Holds(p, token) <=> HoldsAt(exchange[p], pc[p], call[p], token)
BY DEF Holds, HoldsAt

LEMMA HandsKeepsPlaced ==
  ASSUME TokenInv, NEW p \in Procs, Hands(p)
  PROVE  \A l \in Links, token \in Tokens : Placed(l, token)'
<1>. SUFFICES ASSUME NEW l \in Links, NEW token \in Tokens PROVE Placed(l, token)' OBVIOUS
<1>1. Placed(l, token) BY DEF TokenInv
<1>2. ASSUME NEW q \in Procs, q # p PROVE Holds(q, token)' <=> Holds(q, token)
  BY <1>2 DEF Hands, Holds
<1>3. CASE LinkOf[p] # l
  <2>1. tokens'[l] = tokens[l] BY <1>3 DEF Hands
  <2>2. \A q \in Procs : LinkOf[q] = l => (Holds(q, token)' <=> Holds(q, token)) BY <1>2, <1>3
  <2>. QED BY <1>1, <2>1, <2>2 DEF Placed
<1>4. CASE LinkOf[p] = l
  <2>1. /\ Holds(p, token)' => Holds(p, token) \/ token \in tokens[l]
        /\ token \in tokens'[l] <=> (Holds(p, token) \/ token \in tokens[l]) /\ ~Holds(p, token)'
    BY <1>4 DEF Hands
  <2>2. ASSUME NEW q \in Procs, LinkOf[q] = l, q # p, Holds(q, token)
        PROVE  ~Holds(p, token) /\ token \notin tokens[l]
    BY <1>1, <1>4, <2>2 DEF Placed
  <2>3. token \in tokens'[l] => \A q \in Procs : LinkOf[q] = l => ~Holds(q, token)'
    BY <1>2, <2>1, <2>2
  <2>4. token \notin tokens'[l] => \E q \in Procs : LinkOf[q] = l /\ Holds(q, token)'
    <3>1. CASE Holds(p, token)' BY <1>4, <3>1
    <3>2. CASE ~Holds(p, token)' /\ token \notin tokens'[l]
      <4>1. ~Holds(p, token) /\ token \notin tokens[l] BY <2>1, <3>2
      <4>2. PICK q \in Procs : LinkOf[q] = l /\ Holds(q, token) BY <1>1, <4>1 DEF Placed
      <4>3. q # p BY <4>1, <4>2
      <4>. QED BY <1>2, <4>2, <4>3
    <3>. QED BY <3>1, <3>2
  <2>5. ASSUME NEW q \in Procs, NEW r \in Procs, LinkOf[q] = l, LinkOf[r] = l, Holds(q, token)', Holds(r, token)'
        PROVE  q = r
    <3>1. CASE q # p /\ r # p BY <1>1, <1>2, <2>5, <3>1 DEF Placed
    <3>2. CASE q = p /\ r # p BY <1>2, <2>1, <2>2, <2>5, <3>2
    <3>3. CASE q # p /\ r = p BY <1>2, <2>1, <2>2, <2>5, <3>3
    <3>. QED BY <3>1, <3>2, <3>3
  <2>. QED BY <2>3, <2>4, <2>5 DEF Placed
<1>. QED BY <1>3, <1>4

LEMMA HandsKeepsInv ==
  ASSUME TokenInv, NEW p \in Procs, Hands(p), FramesOK'
  PROVE  TokenInv'
<1>1. \A q \in Procs : PlaceOK(exchange[q], pc[q], call[q])' BY DEF TokenInv, Hands
<1>. QED BY <1>1, HandsKeepsPlaced DEF TokenInv, Hands

\* Nothing that decides about tokens changes.
LEMMA QuietKeepsInv ==
  ASSUME TokenInv, UNCHANGED <<tokens, exchange, pc, call>>, FramesOK'
  PROVE  TokenInv'
<1>1. Typed' BY DEF TokenInv, Typed
<1>2. \A p \in Procs : PlaceOK(exchange[p], pc[p], call[p])' BY DEF TokenInv
<1>3. \A l \in Links, token \in Tokens : Placed(l, token)' BY DEF TokenInv, Placed, Holds
<1>. QED BY <1>1, <1>2, <1>3 DEF TokenInv

\* A process is at another place of a call, with another exchange.
LEMMA ProcMoves ==
  ASSUME Typed, NEW p \in Procs, NEW at \in Points, NEW c, NEW x \in ExchangeStates, NEW T \in SUBSET Tokens,
         pc' = [pc EXCEPT ![p] = at], call' = [call EXCEPT ![p] = c], exchange' = [exchange EXCEPT ![p] = x],
         tokens' = [tokens EXCEPT ![LinkOf[p]] = T], PlaceOK(x, at, c),
         \A token \in Tokens :
           LET before == HoldsAt(exchange[p], pc[p], call[p], token) \/ token \in tokens[LinkOf[p]] IN
           /\ HoldsAt(x, at, c, token) => before
           /\ token \in T <=> before /\ ~HoldsAt(x, at, c, token)
  PROVE  Hands(p)
<1>1. LinkOf[p] \in Links BY IsoTpAssumption
<1>2. pc'[p] = at /\ call'[p] = c /\ exchange'[p] = x /\ tokens'[LinkOf[p]] = T BY <1>1 DEF Typed
<1>3. /\ \A q \in Procs : q # p => exchange'[q] = exchange[q] /\ pc'[q] = pc[q] /\ call'[q] = call[q]
      /\ \A k \in Links : k # LinkOf[p] => tokens'[k] = tokens[k]
  BY <1>1 DEF Typed
<1>4. Typed' BY <1>1 DEF Typed
<1>5. \A token \in Tokens : Holds(p, token) <=> HoldsAt(exchange[p], pc[p], call[p], token) BY HoldsIsHoldsAt
<1>6. \A token \in Tokens : Holds(p, token)' <=> HoldsAt(x, at, c, token) BY <1>2 DEF Holds, HoldsAt
<1>7. PlaceOK(exchange[p], pc[p], call[p])' BY <1>2
<1>. QED BY <1>2, <1>3, <1>4, <1>5, <1>6, <1>7 DEF Hands

\* A token in its channel is not held.
LEMMA LyingNotHeld ==
  ASSUME TokenInv, NEW p \in Procs, NEW token \in Tokens, token \in tokens[LinkOf[p]]
  PROVE  ~HoldsAt(exchange[p], pc[p], call[p], token)
<1>1. LinkOf[p] \in Links BY IsoTpAssumption
<1>. QED BY <1>1, HoldsIsHoldsAt DEF TokenInv, Placed

-----------------------------------------------------------------------------
(* Steps of a goroutine inside a call.                                     *)

\* The same call, further on.
SameCall(c, d) == Shaped(d) /\ d.op = c.op /\ d.msg = c.msg

\* The call goes on and holds what it held.
LEMMA GoesOn ==
  ASSUME TokenInv, NEW p \in Procs, NEW at \in Points, NEW c, Goto(p, at, c), UNCHANGED <<tokens, exchange>>,
         SameCall(call[p], c),
         \/ at = pc[p]
         \/ pc[p] \in Transmitting /\ at \in Transmitting
         \/ pc[p] \in Receiving /\ at \in Receiving
  PROVE  Hands(p)
<1>. DEFINE x == exchange[p]
            T == tokens[LinkOf[p]]
<1>0. Typed /\ PlaceOK(exchange[p], pc[p], call[p]) BY DEF TokenInv
<1>1. LinkOf[p] \in Links BY IsoTpAssumption
<1>2. x \in ExchangeStates /\ T \in SUBSET Tokens BY <1>0, <1>1 DEF Typed
<1>3. exchange' = [exchange EXCEPT ![p] = x] /\ tokens' = [tokens EXCEPT ![LinkOf[p]] = T] BY <1>0, <1>1 DEF Typed
<1>4. pc' = [pc EXCEPT ![p] = at] /\ call' = [call EXCEPT ![p] = c] BY DEF Goto
<1>. HIDE DEF T
<1>5. PlaceOK(x, at, c) BY <1>0 DEF PlaceOK, SameCall, Points, Transmitting, Receiving
<1>6. \A token \in Tokens : HoldsAt(x, at, c, token) <=> HoldsAt(exchange[p], pc[p], call[p], token)
  BY <1>0 DEF HoldsAt, SameCall, Points, Transmitting, Receiving, PlaceOK
<1>7. \A token \in Tokens : token \in T => ~HoldsAt(exchange[p], pc[p], call[p], token) BY LyingNotHeld DEF T
<1>. QED BY <1>0, <1>2, <1>3, <1>4, <1>5, <1>6, <1>7, ProcMoves DEF T

\* The deferred calls give back what the operation holds.
LEMMA FinishHands ==
  ASSUME TokenInv, NEW p \in Procs, NEW res, NEW c, Finish(p, res, c), SameCall(call[p], c),
         pc[p] \in Transmitting \union Receiving
  PROVE  Hands(p)
<1>. DEFINE x == IF c.op = "begin" /\ res = "ok" THEN "open" ELSE exchange[p]
            R == Released(c, res)
            T == tokens[LinkOf[p]] \union R
            d == [c EXCEPT !.res = res]
<1>0. Typed /\ PlaceOK(exchange[p], pc[p], call[p]) BY DEF TokenInv
<1>1. LinkOf[p] \in Links BY IsoTpAssumption
<1>2. c.op \in {"send", "begin", "receive", "next"}
  BY <1>0 DEF PlaceOK, SameCall, Transmitting, Receiving
<1>3. R \in SUBSET Tokens BY <1>2 DEF Released, Tokens
<1>4. x \in ExchangeStates /\ T \in SUBSET Tokens BY <1>0, <1>1, <1>3 DEF Typed, ExchangeStates
<1>5. /\ pc' = [pc EXCEPT ![p] = "returned"] /\ call' = [call EXCEPT ![p] = d]
      /\ exchange' = [exchange EXCEPT ![p] = x] /\ tokens' = [tokens EXCEPT ![LinkOf[p]] = T]
  BY <1>0, <1>1 DEF Finish, Goto, Typed
<1>6. Shaped(d) /\ d.op = call[p].op /\ d.msg = call[p].msg BY DEF SameCall, Shaped
<1>. HIDE DEF d
<1>7. PlaceOK(x, "returned", d) BY <1>6 DEF PlaceOK, Transmitting, Receiving
<1>8. c.op = call[p].op /\ c.msg = call[p].msg BY DEF SameCall
<1>9. ASSUME NEW token \in Tokens
      PROVE  /\ HoldsAt(x, "returned", d, token) => HoldsAt(exchange[p], pc[p], call[p], token)
             /\ token \in R <=> HoldsAt(exchange[p], pc[p], call[p], token) /\ ~HoldsAt(x, "returned", d, token)
  <2>1. CASE c.op = "next" BY <1>0, <1>6, <1>8, <2>1 DEF HoldsAt, PlaceOK, Released, Transmitting, Receiving
  <2>2. CASE c.op = "begin"
    BY <1>0, <1>6, <1>8, <2>2 DEF HoldsAt, PlaceOK, Released, Transmitting, Receiving, Tokens
  <2>3. CASE c.op = "send"
    BY <1>0, <1>6, <1>8, <2>3 DEF HoldsAt, PlaceOK, Released, Transmitting, Receiving, Tokens
  <2>4. CASE c.op = "receive"
    BY <1>0, <1>6, <1>8, <2>4 DEF HoldsAt, PlaceOK, Released, Transmitting, Receiving, Tokens
  <2>. QED BY <1>2, <2>1, <2>2, <2>3, <2>4
<1>10. \A token \in Tokens : token \in tokens[LinkOf[p]] => ~HoldsAt(exchange[p], pc[p], call[p], token)
  BY LyingNotHeld
<1>. HIDE DEF x, R
<1>11. \A token \in Tokens :
         LET before == HoldsAt(exchange[p], pc[p], call[p], token) \/ token \in tokens[LinkOf[p]] IN
         /\ HoldsAt(x, "returned", d, token) => before
         /\ token \in T <=> before /\ ~HoldsAt(x, "returned", d, token)
  BY <1>9, <1>10
<1>12. "returned" \in Points BY DEF Points
<1>. HIDE DEF T
<1>. QED BY <1>0, <1>4, <1>5, <1>7, <1>11, <1>12, ProcMoves

-----------------------------------------------------------------------------
(* The steps of LinkStep.                                                  *)

LEMMA CallStays ==
  ASSUME NEW c, Shaped(c)
  PROVE  SameCall(c, c) /\ SameCall(c, [c EXCEPT !.buf = <<>>])
BY DEF SameCall, Shaped

\* A token is taken, or the wait for it ends.
LEMMA AcquireSendingHands ==
  ASSUME TokenInv, NEW p \in Procs, AcquireSending(p)
  PROVE  Hands(p)
<1>. DEFINE c == call[p]
            x == exchange[p]
            at == IF c.op = "begin" \/ MultiFrame(c.msg) THEN "receiving" ELSE "transmit"
            T == tokens[LinkOf[p]] \ {"sending"}
<1>0. Typed /\ PlaceOK(x, pc[p], c) BY DEF TokenInv
<1>1. LinkOf[p] \in Links BY IsoTpAssumption
<1>2. x \in ExchangeStates /\ T \in SUBSET Tokens /\ at \in Points
  BY <1>0, <1>1 DEF Typed, Points, Transmitting
<1>3. /\ pc[p] = "sending" /\ "sending" \in tokens[LinkOf[p]]
      /\ pc' = [pc EXCEPT ![p] = at] /\ call' = [call EXCEPT ![p] = c]
      /\ exchange' = [exchange EXCEPT ![p] = x] /\ tokens' = [tokens EXCEPT ![LinkOf[p]] = T]
  BY <1>0, <1>1 DEF AcquireSending, Goto, Typed
<1>4. c.op \in {"send", "begin"} /\ x = "none" BY <1>0, <1>3 DEF PlaceOK, Receiving
<1>5. PlaceOK(x, at, c) BY <1>0, <1>4 DEF PlaceOK, Transmitting, Receiving
<1>6. \A token \in Tokens : token \in tokens[LinkOf[p]] => ~HoldsAt(x, pc[p], c, token) BY LyingNotHeld
<1>7. \A token \in Tokens : /\ ~HoldsAt(x, pc[p], c, token)
                            /\ HoldsAt(x, at, c, token) <=> token = "sending"
  BY <1>3, <1>4 DEF HoldsAt, Tokens
<1>. HIDE DEF at, c, x
<1>8. \A token \in Tokens :
         LET before == HoldsAt(x, pc[p], c, token) \/ token \in tokens[LinkOf[p]] IN
         /\ HoldsAt(x, at, c, token) => before
         /\ token \in T <=> before /\ ~HoldsAt(x, at, c, token)
  BY <1>3, <1>7
<1>. HIDE DEF T
<1>. QED BY <1>0, <1>2, <1>3, <1>5, <1>8, ProcMoves DEF c, x

LEMMA AcquireReceivingHands ==
  ASSUME TokenInv, NEW p \in Procs, AcquireReceiving(p)
  PROVE  Hands(p)
<1>. DEFINE c == call[p]
            x == exchange[p]
            l == LinkOf[p]
<1>0. Typed /\ PlaceOK(x, pc[p], c) BY DEF TokenInv
<1>1. l \in Links BY IsoTpAssumption
<1>2. /\ x \in ExchangeStates /\ exchange' = [exchange EXCEPT ![p] = x]
      /\ pc[p] = "receiving" /\ "receiving" \in tokens[l]
  BY <1>0, <1>1 DEF AcquireReceiving, Typed
<1>3. /\ x = "none" /\ Shaped(c)
      /\ c.op \in {"begin", "receive", "reset"} \/ (c.op = "send" /\ MultiFrame(c.msg))
  BY <1>0, <1>2 DEF PlaceOK, Receiving
<1>4. \A token \in Tokens : token \in tokens[l] => ~HoldsAt(x, pc[p], c, token) BY LyingNotHeld
<1>5. CASE c.op = "reset"
  <2>. DEFINE T == tokens[l]
  <2>1. PICK res : Goto(p, "returned", [c EXCEPT !.res = res]) BY <1>5 DEF AcquireReceiving
  <2>. DEFINE d == [c EXCEPT !.res = res]
  <2>2. /\ pc' = [pc EXCEPT ![p] = "returned"] /\ call' = [call EXCEPT ![p] = d]
        /\ tokens' = [tokens EXCEPT ![l] = T] /\ T \in SUBSET Tokens
    BY <1>0, <1>1, <1>5, <2>1 DEF AcquireReceiving, Goto, Typed
  <2>3. Shaped(d) /\ d.op = "reset" BY <1>3, <1>5 DEF Shaped
  <2>. HIDE DEF d
  <2>4. PlaceOK(x, "returned", d) /\ "returned" \in Points
    BY <1>3, <2>3 DEF PlaceOK, Points, Transmitting, Receiving
  <2>5. \A token \in Tokens : ~HoldsAt(x, pc[p], c, token) /\ ~HoldsAt(x, "returned", d, token)
    BY <1>3, <1>5, <2>3 DEF HoldsAt
  <2>6. \A token \in Tokens :
           LET before == HoldsAt(x, pc[p], c, token) \/ token \in tokens[l] IN
           /\ HoldsAt(x, "returned", d, token) => before
           /\ token \in T <=> before /\ ~HoldsAt(x, "returned", d, token)
    BY <2>5
  <2>. HIDE DEF T
  <2>. QED BY <1>0, <1>2, <2>2, <2>4, <2>6, ProcMoves
<1>6. CASE c.op # "reset"
  <2>. DEFINE T == tokens[l] \ {"receiving"}
              at == IF c.op = "receive" THEN "first" ELSE "transmit"
  <2>1. /\ pc' = [pc EXCEPT ![p] = at] /\ call' = [call EXCEPT ![p] = c]
        /\ tokens' = [tokens EXCEPT ![l] = T]
    BY <1>6 DEF AcquireReceiving, Goto
  <2>2. T \in SUBSET Tokens /\ at \in Points BY <1>0, <1>1 DEF Typed, Points, Transmitting, Receiving
  <2>3. PlaceOK(x, at, c) BY <1>3, <1>6 DEF PlaceOK, Transmitting, Receiving
  <2>4. \A token \in Tokens : HoldsAt(x, at, c, token) <=> HoldsAt(x, pc[p], c, token) \/ token = "receiving"
    BY <1>2, <1>3, <1>6 DEF HoldsAt, Tokens
  <2>. HIDE DEF at
  <2>5. \A token \in Tokens :
           LET before == HoldsAt(x, pc[p], c, token) \/ token \in tokens[l] IN
           /\ HoldsAt(x, at, c, token) => before
           /\ token \in T <=> before /\ ~HoldsAt(x, at, c, token)
    BY <1>2, <1>4, <2>4
  <2>. HIDE DEF T
  <2>. QED BY <1>0, <1>2, <2>1, <2>2, <2>3, <2>5, ProcMoves
<1>. QED BY <1>5, <1>6

LEMMA AcquireFailsHands ==
  ASSUME TokenInv, NEW p \in Procs, AcquireFails(p)
  PROVE  Hands(p)
<1>. DEFINE c == call[p]
            x == exchange[p]
            l == LinkOf[p]
            R == IF pc[p] = "receiving" /\ c.op \in {"begin", "send"} THEN {"sending"} ELSE {}
            T == tokens[l] \union R
<1>0. Typed /\ PlaceOK(x, pc[p], c) BY DEF TokenInv
<1>1. l \in Links BY IsoTpAssumption
<1>2. PICK cause : Goto(p, "returned", [c EXCEPT !.res = cause]) BY DEF AcquireFails
<1>. DEFINE d == [c EXCEPT !.res = cause]
<1>3. /\ pc[p] \in {"sending", "receiving"} /\ x \in ExchangeStates /\ T \in SUBSET Tokens
      /\ exchange' = [exchange EXCEPT ![p] = x] /\ tokens' = [tokens EXCEPT ![l] = T]
      /\ pc' = [pc EXCEPT ![p] = "returned"] /\ call' = [call EXCEPT ![p] = d]
  BY <1>0, <1>1, <1>2 DEF AcquireFails, Goto, Typed, Tokens
<1>4. x = "none" /\ Shaped(c) BY <1>0, <1>3 DEF PlaceOK, Receiving
<1>5. Shaped(d) /\ d.op = c.op BY <1>4 DEF Shaped
<1>. HIDE DEF d
<1>6. PlaceOK(x, "returned", d) /\ "returned" \in Points
  BY <1>4, <1>5 DEF PlaceOK, Points, Transmitting, Receiving
<1>7. \A token \in Tokens : ~HoldsAt(x, "returned", d, token) /\ (HoldsAt(x, pc[p], c, token) <=> token \in R)
  BY <1>0, <1>3, <1>4 DEF HoldsAt, PlaceOK, Tokens
<1>. HIDE DEF R
<1>8. \A token \in Tokens :
         LET before == HoldsAt(x, pc[p], c, token) \/ token \in tokens[l] IN
         /\ HoldsAt(x, "returned", d, token) => before
         /\ token \in T <=> before /\ ~HoldsAt(x, "returned", d, token)
  BY <1>7
<1>. HIDE DEF T
<1>. QED BY <1>0, <1>3, <1>6, <1>8, ProcMoves

\* The operation ends, or goes on, at a point of the transfer itself.
LEMMA Working ==
  ASSUME TokenInv, NEW p \in Procs, NEW c, SameCall(call[p], c),
         \/ pc[p] \in Transmitting \union Receiving /\ \E res : Finish(p, res, c)
         \/ /\ UNCHANGED <<tokens, exchange>>
            /\ \/ pc[p] \in Transmitting /\ \E at \in Transmitting : Goto(p, at, c)
               \/ pc[p] \in Receiving /\ \E at \in Receiving : Goto(p, at, c)
  PROVE  Hands(p)
BY FinishHands, GoesOn DEF Points

LEMMA CallShaped ==
  ASSUME TokenInv, NEW p \in Procs
  PROVE  Shaped(call[p])
BY DEF TokenInv, PlaceOK

LEMMA FramesKept ==
  ASSUME FramesOK, UNCHANGED <<wire, log>>
  PROVE  FramesOK'
BY DEF FramesOK

LEMMA SendFailsHands ==
  ASSUME TokenInv, NEW p \in Procs, SendFails(p)
  PROVE  Hands(p) /\ FramesOK'
<1>1. PICK res : Finish(p, res, [call[p] EXCEPT !.buf = <<>>]) BY DEF SendFails
<1>2. SameCall(call[p], [call[p] EXCEPT !.buf = <<>>]) BY CallShaped, CallStays
<1>3. pc[p] \in Transmitting \union Receiving BY DEF SendFails, Transmitting, Receiving
<1>4. FramesOK' BY FramesKept DEF SendFails, TokenInv
<1>. QED BY <1>1, <1>2, <1>3, <1>4, Working

LEMMA TransmitFirstHands ==
  ASSUME TokenInv, NEW p \in Procs, TransmitFirst(p)
  PROVE  Hands(p) /\ FramesOK'
<1>. DEFINE c == call[p]
            n == Len(log[LinkOf[p]]) + 1
            d == [c EXCEPT !.off = 1, !.tx = n]
<1>1. Shaped(c) BY CallShaped
<1>2. SameCall(c, c) /\ SameCall(c, d) BY <1>1 DEF SameCall, Shaped
<1>3. pc[p] \in Transmitting /\ "locate" \in Transmitting BY DEF TransmitFirst, Transmitting
<1>4. Hands(p)
  <2>1. CASE c.op = "begin" \/ MultiFrame(c.msg)
    <3>1. Goto(p, "locate", d) /\ UNCHANGED <<tokens, exchange>> BY <2>1 DEF TransmitFirst
    <3>. HIDE DEF d
    <3>. QED BY <1>2, <1>3, <3>1, Working
  <2>2. CASE ~(c.op = "begin" \/ MultiFrame(c.msg))
    <3>1. Finish(p, "ok", c) BY <2>2 DEF TransmitFirst
    <3>. QED BY <1>2, <1>3, <3>1, Working
  <2>. QED BY <2>1, <2>2
<1>5. Sound(FirstFrameOf(c.msg)) BY DEF Sound, FirstFrameOf, First, Single
<1>6. LinkOf[p] \in Links /\ Accept(LinkOf[p], FirstFrameOf(c.msg)) /\ FramesOK
  BY IsoTpAssumption DEF TransmitFirst, TokenInv
<1>7. FramesOK' BY <1>5, <1>6, AcceptFrames
<1>. QED BY <1>4, <1>7

LEMMA LocateSentHands ==
  ASSUME TokenInv, NEW p \in Procs, LocateSent(p)
  PROVE  Hands(p) /\ FramesOK'
<1>. DEFINE c == call[p]
            d == [c EXCEPT !.seq = 1]
<1>1. Shaped(c) BY CallShaped
<1>2. SameCall(c, c) /\ SameCall(c, d) BY <1>1 DEF SameCall, Shaped
<1>3. pc[p] \in Transmitting /\ "flow" \in Transmitting BY DEF LocateSent, Transmitting
<1>4. \/ Finish(p, "range", c) \/ Finish(p, "ok", c)
      \/ Goto(p, "flow", d) /\ UNCHANGED <<tokens, exchange>>
  BY DEF LocateSent
<1>. HIDE DEF d
<1>5. Hands(p) BY <1>2, <1>3, <1>4, Working
<1>6. FramesOK' BY FramesKept DEF LocateSent, TokenInv
<1>. QED BY <1>5, <1>6

LEMMA TransmitConsecutiveHands ==
  ASSUME TokenInv, NEW p \in Procs, TransmitConsecutive(p)
  PROVE  Hands(p) /\ FramesOK'
<1>. DEFINE c == call[p]
            next == [c EXCEPT !.off = @ + 1, !.seq = (@ + 1) % SequenceModulus, !.blk = @ + 1]
            d == EndOfBlock(next)
            f == Consecutive(c.msg, c.off, c.seq)
<1>1. Shaped(c) BY CallShaped
<1>2. SameCall(c, next)  BY <1>1 DEF SameCall, Shaped
<1>3. SameCall(c, d) BY <1>2 DEF SameCall, Shaped, EndOfBlock
<1>4. pc[p] \in Transmitting /\ {"block", "flow"} \subseteq Transmitting BY DEF TransmitConsecutive, Transmitting
<1>5. \/ Finish(p, "ok", next)
      \/ (Goto(p, "block", next) \/ Goto(p, "flow", d)) /\ UNCHANGED <<tokens, exchange>>
  BY DEF TransmitConsecutive
<1>. HIDE DEF next, d
<1>6. Hands(p) BY <1>2, <1>3, <1>4, <1>5, Working
<1>7. LinkOf[p] \in Links /\ Accept(LinkOf[p], f) /\ FramesOK
  BY IsoTpAssumption DEF TransmitConsecutive, TokenInv
<1>8. Sound(f) BY DEF Sound, Consecutive
<1>. HIDE DEF f
<1>. QED BY <1>6, <1>7, <1>8, AcceptFrames

LEMMA GrantHands ==
  ASSUME TokenInv, NEW p \in Procs, Grant(p)
  PROVE  Hands(p) /\ FramesOK'
<1>. DEFINE c == call[p]
            l == LinkOf[p]
            refuse == c.first.len > MaximumPayloadLength[l]
            e == [c EXCEPT !.buf = <<>>]
            d == [c EXCEPT !.blk = 0, !.blocked = FALSE, !.seq = IF Len(c.buf) = 1 THEN 1 ELSE @]
            f == FlowControl(l, IF refuse THEN "overflow" ELSE "continue")
<1>1. Shaped(c) BY CallShaped
<1>2. SameCall(c, e) /\ SameCall(c, d) BY <1>1 DEF SameCall, Shaped
<1>3. pc[p] \in Receiving /\ "follow" \in Receiving BY DEF Grant, Receiving
<1>4. Finish(p, "toolarge", e) \/ (Goto(p, "follow", d) /\ UNCHANGED <<tokens, exchange>>)
  BY DEF Grant
<1>. HIDE DEF e, d
<1>5. Hands(p) BY <1>2, <1>3, <1>4, Working
<1>6. l \in Links /\ Accept(l, f) /\ FramesOK BY IsoTpAssumption DEF Grant, TokenInv
<1>7. Sound(f) BY DEF Sound, FlowControl
<1>. HIDE DEF f
<1>. QED BY <1>5, <1>6, <1>7, AcceptFrames

\* A frame that was read decides how the call goes on.
LEMMA OnFlowControlHands ==
  ASSUME TokenInv, NEW p \in Procs, pc[p] = "flow", NEW f, Sound(f), OnFlowControl(p, f)
  PROVE  Hands(p)
<1>. DEFINE c == call[p]
            d == [c EXCEPT !.blk = 0, !.bs = f.bs, !.blocked = FALSE]
            e == [c EXCEPT !.waits = @ + 1, !.blocked = FALSE]
<1>1. Shaped(c) BY CallShaped
<1>2. SameCall(c, c) /\ SameCall(c, d) /\ SameCall(c, e) BY <1>1 DEF SameCall, Shaped
<1>3. pc[p] \in Transmitting /\ {"block", "flow"} \subseteq Transmitting BY DEF Transmitting
<1>4. c.waits \in Nat /\ WaitFrameLimit \in Nat BY <1>1, IsoTpAssumption DEF Shaped
<1>5. \/ Finish(p, "protocol", c) \/ Finish(p, "waitlimit", c) \/ Finish(p, "overflow", c)
      \/ (Goto(p, "block", d) \/ Goto(p, "flow", e)) /\ UNCHANGED <<tokens, exchange>>
  <2>1. CASE f.kind # "flow" BY <2>1 DEF OnFlowControl
  <2>2. CASE f.kind = "flow" /\ f.status = "continue" BY <2>2 DEF OnFlowControl
  <2>3. CASE f.kind = "flow" /\ f.status = "wait" /\ c.waits + 1 <= WaitFrameLimit
    BY <1>4, <2>3 DEF OnFlowControl
  <2>4. CASE f.kind = "flow" /\ f.status = "wait" /\ c.waits + 1 > WaitFrameLimit
    BY <1>4, <2>4 DEF OnFlowControl
  <2>5. CASE f.kind = "flow" /\ f.status = "overflow" BY <2>5 DEF OnFlowControl
  <2>. QED BY <1>4, <2>1, <2>2, <2>3, <2>4, <2>5 DEF Sound
<1>. HIDE DEF d, e
<1>. QED BY <1>2, <1>3, <1>5, Working

LEMMA OnFirstHands ==
  ASSUME TokenInv, NEW p \in Procs, pc[p] = "first", NEW f, OnFirst(p, f)
  PROVE  Hands(p)
<1>. DEFINE c == call[p]
            d == [c EXCEPT !.buf = <<f.data>>]
            e == [c EXCEPT !.first = f, !.buf = <<f.data>>]
<1>1. Shaped(c) BY CallShaped
<1>2. SameCall(c, c) /\ SameCall(c, d) /\ SameCall(c, e) BY <1>1 DEF SameCall, Shaped
<1>3. pc[p] \in Receiving /\ "grant" \in Receiving BY DEF Receiving
<1>4. \/ Finish(p, "toolarge", c) \/ Finish(p, "ok", d) \/ Finish(p, "protocol", c)
      \/ Goto(p, "grant", e) /\ UNCHANGED <<tokens, exchange>>
  <2>1. CASE f.kind = "single" BY <2>1 DEF OnFirst
  <2>2. CASE f.kind = "first" BY <2>2 DEF OnFirst
  <2>3. CASE f.kind \notin {"single", "first"} BY <2>3 DEF OnFirst
  <2>. QED BY <2>1, <2>2, <2>3
<1>. HIDE DEF d, e
<1>. QED BY <1>2, <1>3, <1>4, Working

LEMMA OnConsecutiveHands ==
  ASSUME TokenInv, NEW p \in Procs, pc[p] = "follow", NEW f, OnConsecutive(p, f)
  PROVE  Hands(p)
<1>. DEFINE c == call[p]
            e == [c EXCEPT !.buf = <<>>]
            next == [c EXCEPT !.buf = Append(@, f.data), !.seq = (@ + 1) % SequenceModulus,
                              !.blk = @ + 1, !.blocked = FALSE]
<1>1. Shaped(c) BY CallShaped
<1>2. SameCall(c, e) /\ SameCall(c, next) BY <1>1 DEF SameCall, Shaped
<1>3. pc[p] \in Receiving /\ {"grant", "follow"} \subseteq Receiving BY DEF Receiving
<1>4. \/ Finish(p, "protocol", e) \/ Finish(p, "ok", next)
      \/ (Goto(p, "grant", next) \/ Goto(p, "follow", next)) /\ UNCHANGED <<tokens, exchange>>
  BY DEF OnConsecutive
<1>. HIDE DEF e, next
<1>. QED BY <1>2, <1>3, <1>4, Working

LEMMA NextFrameHands ==
  ASSUME TokenInv, NEW p \in Procs, NextFrame(p)
  PROVE  Hands(p) /\ FramesOK'
<1>. DEFINE f == log[LinkOf[p]][Min(Retained(LinkOf[p], "rx"))].frame
<1>1. LinkOf[p] \in Links /\ FramesOK BY IsoTpAssumption DEF TokenInv
<1>2. pc[p] \in {"flow", "first", "follow"} /\ Sound(f) BY <1>1, NextIsSound DEF NextFrame, Reading
<1>3. FramesOK' BY <1>1, FramesKept DEF NextFrame
<1>4. CASE pc[p] = "flow"
  <2>1. OnFlowControl(p, f) BY <1>4 DEF NextFrame
  <2>. HIDE DEF f
  <2>. QED BY <1>2, <1>3, <1>4, <2>1, OnFlowControlHands
<1>5. CASE pc[p] = "first"
  <2>1. OnFirst(p, f) BY <1>5 DEF NextFrame
  <2>. HIDE DEF f
  <2>. QED BY <1>3, <1>5, <2>1, OnFirstHands
<1>6. CASE pc[p] = "follow"
  <2>1. OnConsecutive(p, f) BY <1>6 DEF NextFrame
  <2>. HIDE DEF f
  <2>. QED BY <1>3, <1>6, <2>1, OnConsecutiveHands
<1>. QED BY <1>2, <1>4, <1>5, <1>6

\* nextFrame without a frame.
LEMMA NextFrameEndsHands ==
  ASSUME TokenInv, NEW p \in Procs,
         NextFrameOutOfRange(p) \/ NextFrameCancelled(p) \/ NextFrameExpires(p)
  PROVE  Hands(p) /\ FramesOK'
<1>. DEFINE c == call[p]
            e == [c EXCEPT !.buf = <<>>]
<1>1. SameCall(c, e) BY CallShaped, CallStays
<1>2. pc[p] \in Transmitting \union Receiving
  BY DEF NextFrameOutOfRange, NextFrameCancelled, NextFrameExpires, Reading, Transmitting, Receiving
<1>3. PICK res : Finish(p, res, e) BY DEF NextFrameOutOfRange, NextFrameCancelled, NextFrameExpires
<1>4. UNCHANGED <<wire, log>> BY DEF NextFrameOutOfRange, NextFrameCancelled, NextFrameExpires
<1>. HIDE DEF e
<1>. QED BY <1>1, <1>2, <1>3, <1>4, Working, FramesKept DEF TokenInv

\* A field of the call that says nothing about tokens.
LEMMA CallNoted ==
  ASSUME TokenInv, NEW p \in Procs, NEW c, call' = [call EXCEPT ![p] = c], SameCall(call[p], c),
         UNCHANGED <<pc, tokens, exchange, wire, log>>
  PROVE  Hands(p) /\ FramesOK'
<1>1. pc[p] \in Points /\ pc' = [pc EXCEPT ![p] = pc[p]] BY DEF TokenInv, Typed
<1>2. Goto(p, pc[p], c) BY <1>1 DEF Goto
<1>. QED BY <1>1, <1>2, GoesOn, FramesKept DEF TokenInv

LEMMA NextFrameBlocksHands ==
  ASSUME TokenInv, NEW p \in Procs, NextFrameBlocks(p)
  PROVE  Hands(p) /\ FramesOK'
<1>. DEFINE c == [call[p] EXCEPT !.blocked = TRUE]
<1>1. SameCall(call[p], c) BY CallShaped DEF SameCall, Shaped
<1>2. call' = [call EXCEPT ![p] = c] /\ UNCHANGED <<pc, tokens, exchange, wire, log>>
  BY DEF NextFrameBlocks
<1>. HIDE DEF c
<1>. QED BY <1>1, <1>2, CallNoted

LEMMA CancelContextHands ==
  ASSUME TokenInv, NEW p \in Procs, CancelContext(p)
  PROVE  Hands(p) /\ FramesOK'
<1>. DEFINE c == [call[p] EXCEPT !.ctx = TRUE]
<1>1. SameCall(call[p], c) BY CallShaped DEF SameCall, Shaped
<1>2. call' = [call EXCEPT ![p] = c] /\ UNCHANGED <<pc, tokens, exchange, wire, log>>
  BY DEF CancelContext
<1>. HIDE DEF c
<1>. QED BY <1>1, <1>2, CallNoted

LEMMA LinkStepHands ==
  ASSUME TokenInv, NEW p \in Procs, LinkStep(p)
  PROVE  Hands(p) /\ FramesOK'
<1>1. CASE AcquireSending(p) \/ AcquireReceiving(p) \/ AcquireFails(p)
  <2>1. UNCHANGED <<wire, log>> BY <1>1 DEF AcquireSending, AcquireReceiving, AcquireFails
  <2>. QED BY <1>1, <2>1, AcquireSendingHands, AcquireReceivingHands, AcquireFailsHands, FramesKept
       DEF TokenInv
<1>2. CASE SendFails(p) \/ TransmitFirst(p) \/ LocateSent(p) \/ TransmitConsecutive(p) \/ Grant(p)
  BY <1>2, SendFailsHands, TransmitFirstHands, LocateSentHands, TransmitConsecutiveHands, GrantHands
<1>3. CASE NextFrame(p) \/ NextFrameBlocks(p) BY <1>3, NextFrameHands, NextFrameBlocksHands
<1>4. CASE NextFrameOutOfRange(p) \/ NextFrameCancelled(p) \/ NextFrameExpires(p)
  BY <1>4, NextFrameEndsHands
<1>. QED BY <1>1, <1>2, <1>3, <1>4 DEF LinkStep

-----------------------------------------------------------------------------
(* The application's and the server's steps.                               *)

\* A call of the package starts.
LEMMA CallHands ==
  ASSUME TokenInv, NEW p \in Procs, NEW op \in {"send", "begin", "receive", "reset"}, NEW m, Call(p, op, m)
  PROVE  Hands(p) /\ FramesOK'
<1>. DEFINE c == [IdleCall EXCEPT !.op = op, !.msg = m]
            e == [c EXCEPT !.res = "toolarge"]
            x == exchange[p]
            T == tokens[LinkOf[p]]
<1>0. Typed /\ LinkOf[p] \in Links BY IsoTpAssumption DEF TokenInv
<1>1. /\ Shaped(c) /\ c.op = op /\ Shaped(e) /\ e.op = op
  BY DEF Shaped, IdleCall
<1>2. pc[p] = "idle" /\ x = "none" BY DEF Call
<1>3. /\ exchange' = [exchange EXCEPT ![p] = x] /\ tokens' = [tokens EXCEPT ![LinkOf[p]] = T]
      /\ T \in SUBSET Tokens /\ x \in ExchangeStates
  BY <1>0 DEF Call, Typed
<1>4. PICK at \in {"returned", "sending", "receiving"}, d \in {c, e} :
        /\ Goto(p, at, d)
        /\ at = "sending" => op \in {"send", "begin"}
        /\ at = "receiving" => op \in {"receive", "reset"}
  BY DEF Call
<1>5. pc' = [pc EXCEPT ![p] = at] /\ call' = [call EXCEPT ![p] = d] BY <1>4 DEF Goto
<1>6. Shaped(d) /\ d.op = op BY <1>1, <1>4
<1>. HIDE DEF c, e
<1>7. PlaceOK(x, at, d) BY <1>2, <1>4, <1>6 DEF PlaceOK, Transmitting, Receiving
<1>8. \A token \in Tokens : /\ ~HoldsAt(x, at, d, token) /\ ~HoldsAt(exchange[p], pc[p], call[p], token)
  BY <1>2, <1>4, <1>6 DEF HoldsAt
<1>9. at \in Points BY <1>4 DEF Points
<1>. HIDE DEF x, T
<1>10. Hands(p)
  <2>1. \A token \in Tokens :
          LET before == HoldsAt(exchange[p], pc[p], call[p], token) \/ token \in tokens[LinkOf[p]] IN
          /\ HoldsAt(x, at, d, token) => before
          /\ token \in T <=> before /\ ~HoldsAt(x, at, d, token)
    BY <1>8 DEF T
  <2>. QED BY <1>0, <1>3, <1>5, <1>7, <1>9, <2>1, ProcMoves
<1>11. FramesOK' BY FramesKept DEF Call, TokenInv
<1>. QED BY <1>10, <1>11

\* Another Next of an open exchange.
LEMMA CallNextHands ==
  ASSUME TokenInv, NEW p \in Procs, NEW timed, CallNext(p, timed)
  PROVE  Hands(p) /\ FramesOK'
<1>. DEFINE c == [IdleCall EXCEPT !.op = "next", !.msg = call[p].msg, !.tx = call[p].tx,
                                  !.timed = timed, !.ctx = call[p].ctx]
            x == exchange[p]
            T == tokens[LinkOf[p]]
<1>0. Typed /\ LinkOf[p] \in Links BY IsoTpAssumption DEF TokenInv
<1>1. Shaped(c) /\ c.op = "next" BY DEF Shaped, IdleCall
<1>2. x # "none" /\ Goto(p, "first", c) BY DEF CallNext
<1>3. /\ exchange' = [exchange EXCEPT ![p] = x] /\ tokens' = [tokens EXCEPT ![LinkOf[p]] = T]
      /\ pc' = [pc EXCEPT ![p] = "first"] /\ call' = [call EXCEPT ![p] = c]
      /\ T \in SUBSET Tokens /\ x \in ExchangeStates
  BY <1>0, <1>2 DEF CallNext, Typed, Goto
<1>. HIDE DEF c
<1>4. PlaceOK(x, "first", c) /\ "first" \in Points
  BY <1>1, <1>2 DEF PlaceOK, Transmitting, Receiving, Points
<1>5. \A token \in Tokens : HoldsAt(x, "first", c, token) /\ HoldsAt(exchange[p], pc[p], call[p], token)
  BY <1>2 DEF HoldsAt
<1>6. \A token \in Tokens : token \in tokens[LinkOf[p]] => ~HoldsAt(exchange[p], pc[p], call[p], token)
  BY LyingNotHeld
<1>. HIDE DEF x
<1>7. \A token \in Tokens :
        LET before == HoldsAt(exchange[p], pc[p], call[p], token) \/ token \in tokens[LinkOf[p]] IN
        /\ HoldsAt(x, "first", c, token) => before
        /\ token \in T <=> before /\ ~HoldsAt(x, "first", c, token)
  BY <1>5, <1>6
<1>. HIDE DEF T
<1>8. Hands(p) BY <1>0, <1>3, <1>4, <1>7, ProcMoves
<1>9. FramesOK' BY FramesKept DEF CallNext, TokenInv
<1>. QED BY <1>8, <1>9

\* A call that returned is left, and an exchange that is ended gives both tokens back.
LEMMA LeftHands ==
  ASSUME TokenInv, NEW p \in Procs, NEW at, NEW c, NEW x,
         \/ at = "idle" /\ c = IdleCall /\ x = exchange[p]
         \/ at = "idle" /\ c = IdleCall /\ x = "none"
         \/ at = pc[p] /\ c = call[p] /\ x = "none" /\ exchange[p] # "none",
         pc[p] = "returned" \/ (at = pc[p] /\ pc[p] \in {"idle", "returned"}),
         pc' = [pc EXCEPT ![p] = at], call' = [call EXCEPT ![p] = c], exchange' = [exchange EXCEPT ![p] = x],
         tokens' = [tokens EXCEPT ![LinkOf[p]] = IF x = exchange[p] THEN @ ELSE @ \union Tokens],
         UNCHANGED <<wire, log>>
  PROVE  Hands(p) /\ FramesOK'
<1>. DEFINE T == IF x = exchange[p] THEN tokens[LinkOf[p]] ELSE tokens[LinkOf[p]] \union Tokens
<1>0. Typed /\ LinkOf[p] \in Links /\ Shaped(call[p]) BY IsoTpAssumption, CallShaped DEF TokenInv
<1>1. T \in SUBSET Tokens /\ tokens' = [tokens EXCEPT ![LinkOf[p]] = T] BY <1>0 DEF Typed
<1>2. x \in ExchangeStates /\ at \in {"idle", "returned"} /\ pc[p] \in {"idle", "returned"}
  BY <1>0 DEF Typed, ExchangeStates
<1>3. Shaped(IdleCall) BY DEF Shaped, IdleCall
<1>4. PlaceOK(x, at, c) /\ at \in Points
  BY <1>0, <1>2, <1>3 DEF PlaceOK, Points, Transmitting, Receiving
<1>5. \A token \in Tokens : /\ HoldsAt(x, at, c, token) <=> x # "none"
                            /\ HoldsAt(exchange[p], pc[p], call[p], token) <=> exchange[p] # "none"
  BY <1>2 DEF HoldsAt
<1>6. \A token \in Tokens : token \in tokens[LinkOf[p]] => ~HoldsAt(exchange[p], pc[p], call[p], token)
  BY LyingNotHeld
<1>7. x = exchange[p] \/ (x = "none" /\ exchange[p] # "none") OBVIOUS
<1>8. \A token \in Tokens :
        LET before == HoldsAt(exchange[p], pc[p], call[p], token) \/ token \in tokens[LinkOf[p]] IN
        /\ HoldsAt(x, at, c, token) => before
        /\ token \in T <=> before /\ ~HoldsAt(x, at, c, token)
  BY <1>5, <1>6, <1>7
<1>. HIDE DEF T
<1>9. Hands(p) BY <1>0, <1>1, <1>2, <1>4, <1>8, ProcMoves
<1>10. FramesOK' BY FramesKept DEF TokenInv
<1>. QED BY <1>9, <1>10

LEMMA DoReturnsHands ==
  ASSUME TokenInv, NEW p \in Procs, pc[p] = "returned", NEW err, NEW payload, DoReturns(p, err, payload)
  PROVE  Hands(p) /\ FramesOK'
<1>1. /\ pc' = [pc EXCEPT ![p] = "idle"] /\ call' = [call EXCEPT ![p] = IdleCall]
      /\ exchange' = [exchange EXCEPT ![p] = "none"] /\ UNCHANGED <<wire, log>>
  BY DEF DoReturns
<1>2. tokens' = [tokens EXCEPT ![LinkOf[p]] = IF "none" = exchange[p] THEN @ ELSE @ \union Tokens]
  BY DEF DoReturns, Tokens
<1>. QED BY <1>1, <1>2, LeftHands

LEMMA DoContinuesHands ==
  ASSUME TokenInv, NEW p \in Procs, DoContinues(p)
  PROVE  Hands(p) /\ FramesOK'
<1>1. pc[p] = "returned" BY DEF DoContinues
<1>2. (\E err, payload : DoReturns(p, err, payload)) \/ \E timer, recovering : DoWaits(p, timer, recovering)
  BY DEF DoContinues
<1>3. CASE \E err, payload : DoReturns(p, err, payload) BY <1>1, <1>3, DoReturnsHands
<1>4. CASE \E timer, recovering : DoWaits(p, timer, recovering) BY <1>4, CallNextHands DEF DoWaits
<1>. QED BY <1>2, <1>3, <1>4

\* The call is left without an exchange to end.
LEMMA IdleHands ==
  ASSUME TokenInv, NEW p \in Procs, pc[p] = "returned", pc' = [pc EXCEPT ![p] = "idle"],
         call' = [call EXCEPT ![p] = IdleCall], UNCHANGED <<exchange, tokens, wire, log>>
  PROVE  Hands(p) /\ FramesOK'
<1>1. Typed /\ LinkOf[p] \in Links BY IsoTpAssumption DEF TokenInv
<1>2. exchange' = [exchange EXCEPT ![p] = exchange[p]] BY <1>1 DEF Typed
<1>3. tokens' = [tokens EXCEPT ![LinkOf[p]] = IF exchange[p] = exchange[p] THEN @ ELSE @ \union Tokens]
  BY <1>1 DEF Typed
<1>. QED BY <1>2, <1>3, LeftHands

\* Close cancels: the exchange is still there.
LEMMA CloseCancelsHands ==
  ASSUME TokenInv, NEW p \in Procs, CloseCancels(p)
  PROVE  Hands(p) /\ FramesOK'
<1>. DEFINE T == tokens[LinkOf[p]]
<1>0. Typed /\ LinkOf[p] \in Links /\ PlaceOK(exchange[p], pc[p], call[p]) BY IsoTpAssumption DEF TokenInv
<1>1. exchange[p] # "none" /\ exchange' = [exchange EXCEPT ![p] = "cancelled"] BY DEF CloseCancels
<1>2. /\ pc[p] \in Points /\ pc' = [pc EXCEPT ![p] = pc[p]] /\ call' = [call EXCEPT ![p] = call[p]]
      /\ tokens' = [tokens EXCEPT ![LinkOf[p]] = T] /\ T \in SUBSET Tokens
  BY <1>0 DEF Typed, CloseCancels
<1>3. PlaceOK("cancelled", pc[p], call[p]) /\ "cancelled" \in ExchangeStates
  BY <1>0, <1>1 DEF PlaceOK, ExchangeStates
<1>4. \A token \in Tokens : /\ HoldsAt("cancelled", pc[p], call[p], token)
                            /\ HoldsAt(exchange[p], pc[p], call[p], token)
  BY <1>1 DEF HoldsAt
<1>5. \A token \in Tokens : token \in tokens[LinkOf[p]] => ~HoldsAt(exchange[p], pc[p], call[p], token)
  BY LyingNotHeld
<1>6. \A token \in Tokens :
        LET before == HoldsAt(exchange[p], pc[p], call[p], token) \/ token \in tokens[LinkOf[p]] IN
        /\ HoldsAt("cancelled", pc[p], call[p], token) => before
        /\ token \in T <=> before /\ ~HoldsAt("cancelled", pc[p], call[p], token)
  BY <1>4, <1>5
<1>. HIDE DEF T
<1>7. Hands(p) BY <1>0, <1>1, <1>2, <1>3, <1>6, ProcMoves
<1>8. FramesOK' BY FramesKept DEF CloseCancels, TokenInv
<1>. QED BY <1>7, <1>8

\* Close has the exchange's mutex, so that no Next is in progress.
LEMMA CloseReleasesHands ==
  ASSUME TokenInv, NEW p \in Procs, CloseReleases(p)
  PROVE  Hands(p) /\ FramesOK'
<1>0. Typed /\ PlaceOK(exchange[p], pc[p], call[p]) BY DEF TokenInv
<1>1. /\ exchange[p] = "cancelled" /\ pc[p] \in {"idle", "returned"}
  BY <1>0 DEF CloseReleases, InNext, PlaceOK, Receiving
<1>2. /\ pc' = [pc EXCEPT ![p] = pc[p]] /\ call' = [call EXCEPT ![p] = call[p]]
      /\ exchange' = [exchange EXCEPT ![p] = "none"] /\ UNCHANGED <<wire, log>>
  BY <1>0 DEF CloseReleases, Typed
<1>3. tokens' = [tokens EXCEPT ![LinkOf[p]] = IF "none" = exchange[p] THEN @ ELSE @ \union Tokens]
  BY <1>1 DEF CloseReleases, Tokens
<1>. QED BY <1>1, <1>2, <1>3, LeftHands

-----------------------------------------------------------------------------
(* The steps that are not a process's.                                     *)

LEMMA LinkEventKeepsInv ==
  ASSUME TokenInv, NEW l \in Links,
         \/ Deliver(l) \/ Lose(l) \/ PeerWaits(l) \/ Clear(l)
         \/ BusEnds(l) \/ ReadRetention(l) \/ Prune(l)
  PROVE  TokenInv'
<1>0. FramesOK BY DEF TokenInv
<1>1. UNCHANGED <<tokens, exchange, pc, call>>
  BY DEF Deliver, Lose, PeerWaits, Clear, BusEnds, ReadRetention, Prune
<1>2. CASE Deliver(l)
  <2>. DEFINE r == [dir |-> "rx", frame |-> Head(wire[l])]
  <2>1. wire[l] # <<>> /\ wire' = [wire EXCEPT ![l] = Tail(@)] /\ log' = [log EXCEPT ![l] = Append(@, r)]
    BY <1>2 DEF Deliver
  <2>2. r.frame = Head(wire[l]) OBVIOUS
  <2>. HIDE DEF r
  <2>3. Sound(r.frame) BY <1>0, <2>1, <2>2, WireShrinks
  <2>4. FramesOK' BY <1>0, <2>1, <2>3, WireShrinks, LogGrows DEF FramesOK
  <2>. QED BY <1>1, <2>4, QuietKeepsInv
<1>3. CASE Lose(l)
  <2>1. wire[l] # <<>> /\ wire' = [wire EXCEPT ![l] = Tail(@)] /\ UNCHANGED log BY <1>3 DEF Lose
  <2>2. FramesOK' BY <1>0, <2>1, WireShrinks DEF FramesOK
  <2>. QED BY <1>1, <2>2, QuietKeepsInv
<1>4. CASE PeerWaits(l)
  <2>. DEFINE f == [kind |-> "flow", status |-> "wait", bs |-> 0]
  <2>1. wire' = [wire EXCEPT ![l] = Append(@, f)] /\ UNCHANGED log BY <1>4 DEF PeerWaits
  <2>2. Sound(f) BY DEF Sound
  <2>. HIDE DEF f
  <2>3. FramesOK' BY <1>0, <2>1, <2>2, WireGrows DEF FramesOK
  <2>. QED BY <1>1, <2>3, QuietKeepsInv
<1>5. CASE Clear(l)
  <2>. DEFINE r == [dir |-> "clear", frame |-> NoFrame]
  <2>1. log' = [log EXCEPT ![l] = Append(@, r)] /\ UNCHANGED wire BY <1>5 DEF Clear
  <2>2. Sound(r.frame) BY DEF Sound, NoFrame
  <2>. HIDE DEF r
  <2>3. FramesOK' BY <1>0, <2>1, <2>2, LogGrows DEF FramesOK
  <2>. QED BY <1>1, <2>3, QuietKeepsInv
<1>6. CASE BusEnds(l) \/ ReadRetention(l) \/ Prune(l)
  <2>1. FramesOK' BY <1>0, <1>6, FramesKept DEF BusEnds, ReadRetention, Prune
  <2>. QED BY <1>1, <2>1, QuietKeepsInv
<1>. QED BY <1>2, <1>3, <1>4, <1>5, <1>6

-----------------------------------------------------------------------------
(* The theorem.                                                            *)

LEMMA InitTokenInv == Init => TokenInv
<1>. SUFFICES ASSUME Init PROVE TokenInv OBVIOUS
<1>1. InitLinks BY DEF Init
<1>2. Typed BY <1>1 DEF InitLinks, Typed, Tokens, ExchangeStates, Points
<1>3. ASSUME NEW p \in Procs PROVE PlaceOK(exchange[p], pc[p], call[p])
  <2>1. exchange[p] = "none" /\ pc[p] = "idle" /\ call[p] = IdleCall BY <1>1 DEF InitLinks
  <2>2. Shaped(IdleCall) BY DEF Shaped, IdleCall
  <2>. QED BY <2>1, <2>2 DEF PlaceOK, Transmitting, Receiving
<1>4. ASSUME NEW l \in Links, NEW token \in Tokens PROVE Placed(l, token)
  <2>1. token \in tokens[l] BY <1>1 DEF InitLinks, Tokens
  <2>2. \A p \in Procs : ~Holds(p, token) BY <1>1 DEF InitLinks, Holds
  <2>. QED BY <2>1, <2>2 DEF Placed
<1>5. FramesOK
  <2>1. \A l \in Links : wire[l] = <<>> /\ log[l] = <<>> BY <1>1 DEF InitLinks
  <2>2. IsSeq(<<>>) /\ Len(<<>>) = 0
    <3>1. <<>> \in Seq(Procs) /\ Len(<<>>) = 0 OBVIOUS
    <3>. QED BY <3>1, SeqOfItself
  <2>3. wire = [l \in Links |-> wire[l]] /\ log = [l \in Links |-> log[l]] BY <1>1 DEF InitLinks
  <2>. QED BY <2>1, <2>2, <2>3 DEF FramesOK
<1>. QED BY <1>2, <1>3, <1>4, <1>5 DEF TokenInv

LEMMA NextTokenInv ==
  ASSUME TokenInv, [Next]_vars
  PROVE  TokenInv'
<1>0. Clients \subseteq Procs /\ Raws \subseteq Procs /\ Servers \subseteq Procs BY ProcsAssumption
<1>1. ASSUME NEW p \in Procs, Hands(p) /\ FramesOK' PROVE TokenInv' BY <1>1, HandsKeepsInv
<1>2. ASSUME NEW p \in Procs, LinkSteps(p) PROVE TokenInv'
  BY <1>1, <1>2, LinkStepHands DEF LinkSteps
<1>3. ASSUME NEW p \in Clients, NEW service \in Services, NEW len \in scenario.lengths, Do(p, service, len)
      PROVE TokenInv'
  BY <1>0, <1>1, <1>3, CallHands DEF Do
<1>4. ASSUME NEW p \in Clients, DoContinues(p) PROVE TokenInv' BY <1>0, <1>1, <1>4, DoContinuesHands
<1>5. ASSUME NEW s \in Servers, ServerReceives(s) PROVE TokenInv'
  BY <1>0, <1>1, <1>5, CallHands DEF ServerReceives
<1>6. ASSUME NEW s \in Servers, ServerTakes(s) PROVE TokenInv'
  BY <1>0, <1>1, <1>6, IdleHands DEF ServerTakes
<1>7. ASSUME NEW s \in Servers, ServerReplies(s) PROVE TokenInv'
  <2>1. \E m : Call(s, "send", m) BY <1>7 DEF ServerReplies
  <2>. QED BY <1>0, <1>1, <2>1, CallHands
<1>8. ASSUME NEW s \in Servers, ServerStaysSilent(s) PROVE TokenInv'
  <2>1. UNCHANGED <<tokens, exchange, pc, call, wire, log>> BY <1>8 DEF ServerStaysSilent, isoVars
  <2>. QED BY <2>1, QuietKeepsInv, FramesKept DEF TokenInv
<1>9. ASSUME NEW r \in Raws, NEW service \in Services, NEW len \in scenario.lengths, RawBegins(r, service, len)
      PROVE TokenInv'
  BY <1>0, <1>1, <1>9, CallHands DEF RawBegins
<1>10. ASSUME NEW r \in Raws, RawResets(r) PROVE TokenInv' BY <1>0, <1>1, <1>10, CallHands DEF RawResets
<1>11. ASSUME NEW r \in Raws, RawNext(r) PROVE TokenInv' BY <1>0, <1>1, <1>11, CallNextHands DEF RawNext
<1>12. ASSUME NEW r \in Raws, RawReturns(r) PROVE TokenInv' BY <1>0, <1>1, <1>12, IdleHands DEF RawReturns
<1>13. ASSUME NEW r \in Raws, RawCloses(r) PROVE TokenInv'
  BY <1>0, <1>1, <1>13, CloseCancelsHands DEF RawCloses
<1>14. ASSUME NEW r \in Raws, RawReleases(r) PROVE TokenInv'
  BY <1>0, <1>1, <1>14, CloseReleasesHands DEF RawReleases
<1>15. ASSUME Environment PROVE TokenInv'
  <2>1. CASE \E p \in Procs \ Servers : CancelContext(p) BY <1>1, <2>1, CancelContextHands
  <2>2. CASE \E l \in Links : \/ Deliver(l) \/ Lose(l) \/ PeerWaits(l) \/ Clear(l)
                              \/ BusEnds(l) \/ ReadRetention(l) \/ Prune(l)
    BY <2>2, LinkEventKeepsInv
  <2>. QED BY <1>15, <2>1, <2>2 DEF Environment
<1>16. CASE UNCHANGED vars
  <2>1. UNCHANGED <<tokens, exchange, pc, call, wire, log>> BY <1>16 DEF vars, isoVars
  <2>. QED BY <2>1, QuietKeepsInv, FramesKept DEF TokenInv
<1>. QED BY <1>2, <1>3, <1>4, <1>5, <1>6, <1>7, <1>8, <1>9, <1>10, <1>11, <1>12, <1>13, <1>14, <1>15, <1>16
     DEF Next

\* One place for each token is one holder, or none when it lies in its channel.
LEMMA PlacedIsCounted ==
  ASSUME TokenInv
  PROVE  TokenAccounting
<1>. SUFFICES ASSUME NEW l \in Links, NEW token \in Tokens
     PROVE Cardinality({p \in Procs : LinkOf[p] = l /\ Holds(p, token)}) = IF token \in tokens[l] THEN 0 ELSE 1
  BY DEF TokenAccounting, Tokens
<1>. DEFINE S == {p \in Procs : LinkOf[p] = l /\ Holds(p, token)}
<1>1. Placed(l, token) BY DEF TokenInv
<1>2. CASE token \in tokens[l]
  <2>1. S = {} BY <1>1, <1>2 DEF Placed
  <2>. QED BY <1>2, <2>1, FS_EmptySet
<1>3. CASE token \notin tokens[l]
  <2>1. PICK p \in S : TRUE BY <1>1, <1>3 DEF Placed
  <2>2. S = {p} BY <1>1, <2>1 DEF Placed
  <2>. QED BY <1>3, <2>2, FS_Singleton
<1>. QED BY <1>2, <1>3

\* Each token of a link lies in its channel or is held by exactly one goroutine
\* or exchange, whatever order calls, failures, Close and a second Close come
\* in: Link.acquire, finishReception and Exchange.Close.
THEOREM TokensAccounted == Spec => []TokenAccounting
<1>1. TokenInv /\ [Next]_vars => TokenInv' BY NextTokenInv
<1>2. TokenInv => TokenAccounting BY PlacedIsCounted
<1>. QED BY InitTokenInv, <1>1, <1>2, PTL DEF Spec

-----------------------------------------------------------------------------
(* The invariant of receptions.                                            *)

Results == {"none", "ok", "toolarge", "context", "bus", "closed", "queue", "ended", "range",
            "protocol", "waitlimit", "overflow", "flowtimeout", "firsttimeout", "followtimeout"}

CallOK(c) ==
  /\ {"op", "msg", "waits", "off", "seq", "tx", "res"} \subseteq DOMAIN c
  /\ c.off \in Nat /\ c.seq \in 0 .. SequenceModulus - 1 /\ c.tx \in Nat /\ c.res \in Results

PositionsOK ==
  /\ oldest = [l \in Links |-> oldest[l]] /\ cursor = [l \in Links |-> cursor[l]]
  /\ snapshot = [l \in Links |-> snapshot[l]] /\ seen = [l \in Links |-> seen[l]]
  /\ retaining \in [Links -> BOOLEAN] /\ busDone \in [Links -> BOOLEAN]
  /\ \A l \in Links : /\ oldest[l] \in 0 .. Len(log[l]) /\ cursor[l] \in 0 .. Len(log[l])
                      /\ snapshot[l] \in -1 .. Len(log[l]) /\ seen[l] \subseteq 1 .. Len(log[l])
  /\ "clears" \in DOMAIN faults /\ faults.clears \in Nat

\* The reception of its link is this call's, which started it at the end of the
\* capture, or the exchange's that it began.
Owns(x, at, c) ==
  \/ x # "none"
  \/ c.op \in {"send", "begin"} /\ at \in Transmitting /\ (c.op = "begin" \/ MultiFrame(c.msg))

Located(x, at, c) == Owns(x, at, c) /\ at \notin {"transmit", "locate"}

Later(l) == {i \in 1 .. Len(log[l]) : i > cursor[l]}

\* Nothing received since the request was passed over, unless the position was lost.
Followed(l, at, c) ==
  \/ c.tx \in 1 .. cursor[l] /\ \A i \in c.tx .. cursor[l] : log[l][i].dir = "rx" => i \in seen[l]
  \/ c.tx \in Nat \ {0} /\ cursor[l] = 0 /\ at = "returned" /\ c.op = "next" /\ c.res = "range"

StandOK(l, x, at, c) ==
  Owns(x, at, c) =>
    /\ retaining[l]
    /\ faults.clears = 0 => oldest[l] =< cursor[l] /\ snapshot[l] =< cursor[l]
    /\ at = "transmit" => \A i \in Later(l) : log[l][i].dir # "tx"
    /\ at = "locate" => c.tx \in Later(l) /\ \A i \in Later(l) : log[l][i].dir = "tx" <=> i = c.tx
    /\ at \in {"transmit", "locate"} => \A i \in seen[l] : i =< cursor[l]
    /\ Located(x, at, c) => Followed(l, at, c)

\* Every frame read since the request is a Flow Control.
Unanswered(l, c) == \A i \in seen[l] : i > c.tx => log[l][i].frame.kind = "flow"

ClientOK(l, x, at, c, w) ==
  /\ {"service", "timer", "recovering"} \subseteq DOMAIN w /\ w.timer \in {"P2", "P2*"}
  /\ c.op \in {"none", "begin", "next"} /\ x \in {"none", "open"} /\ (c.op = "next" => x # "none")
  /\ c.op = "begin" /\ Located(x, at, c) => Unanswered(l, c)
  /\ c.op = "next" /\ w.timer = "P2" /\ (at = "first" \/ (at = "returned" /\ c.res = "firsttimeout"))
       => Unanswered(l, c)

OutcomeOK(o) ==
  /\ o.err \in {"positive", "negative"} => o.payload[1][1].id = o.service /\ o.payload[1][1].kind = o.err
  /\ DoSuppressed(o.err) = "silent" => ~o.answered

\* Only a Begin and a segmented Send look for what they sent.
Aimed(at, c) == at \in {"locate", "flow", "block"} => c.op = "begin" \/ MultiFrame(c.msg)

ProcOK(p) ==
  /\ CallOK(call[p]) /\ Aimed(pc[p], call[p])
  /\ call[p].res = "range" /\ call[p].op # "receive" => faults.clears > 0
  /\ call[p].res = "firsttimeout" => call[p].op \in {"receive", "next"}
  /\ StandOK(LinkOf[p], exchange[p], pc[p], call[p])
  /\ p \in Clients => ClientOK(LinkOf[p], exchange[p], pc[p], call[p], wait[p])
  /\ p \in Servers => exchange[p] = "none" /\ call[p].op \in {"none", "send", "receive"}

AnswerInv ==
  /\ PositionsOK /\ used \subseteq Services \union {"reset"}
  /\ wait = [p \in Clients |-> wait[p]] /\ outcome = [p \in Clients |-> outcome[p]]
  /\ \A p \in Procs : ProcOK(p)
  /\ \A p \in Clients : OutcomeOK(outcome[p])

-----------------------------------------------------------------------------
(* What a step leaves of a link to those who own its reception.            *)

LEMMA MinIsLeast ==
  ASSUME NEW S, S \subseteq Nat, S # {}
  PROVE  Min(S) \in S /\ \A y \in S : Min(S) =< y
<1>1. PICK x \in S : \A y \in S : ~(<<y, x>> \in OpToRel(<, Nat))
  BY NatLessThanWellFounded, WFMin, Zenon
<1>2. \A y \in S : x =< y
  <2>1. ASSUME NEW y \in S PROVE x =< y
    <3>1. ~(y < x) BY <1>1 DEF OpToRel
    <3>. QED BY <3>1
  <2>. QED BY <2>1
<1>. QED BY <1>2 DEF Min

LEMMA MaxOfTwo ==
  ASSUME NEW a \in Int, NEW b \in Int
  PROVE  Max({a, b}) \in {a, b} /\ Max({a, b}) >= a /\ Max({a, b}) >= b
<1>1. \E x \in {a, b} : \A y \in {a, b} : x >= y OBVIOUS
<1>. QED BY <1>1 DEF Max

\* The capture of a link only grows.
Grown(l) ==
  /\ Len(log[l]) \in Nat /\ Len(log'[l]) \in Nat /\ Len(log[l]) =< Len(log'[l])
  /\ \A i \in 1..Len(log[l]) : log'[l][i] = log[l][i]

Untransmitted(l) == \A i \in Len(log[l]) + 1 .. Len(log'[l]) : log'[l][i].dir # "tx"

SamePosition(l) ==
  /\ cursor'[l] = cursor[l] /\ seen'[l] = seen[l]
  /\ retaining[l] => retaining'[l]
  /\ faults'.clears = 0 /\ faults.clears = 0 /\ retaining[l] /\ oldest[l] =< cursor[l] /\ snapshot[l] =< cursor[l]
       => oldest'[l] =< cursor[l] /\ snapshot'[l] =< cursor[l]
  /\ faults.clears \in Nat /\ faults'.clears \in Nat /\ faults'.clears >= faults.clears

\* A call that is where it was still has what it had.
LEMMA StandKept ==
  ASSUME PositionsOK, NEW l \in Links, NEW x, NEW at, NEW c, CallOK(c), StandOK(l, x, at, c), Grown(l), SamePosition(l),
         Owns(x, at, c) /\ at \in {"transmit", "locate"} => Untransmitted(l)
  PROVE  StandOK(l, x, at, c)'
<1>. SUFFICES ASSUME Owns(x, at, c) PROVE StandOK(l, x, at, c)' BY DEF StandOK, Owns
<1>0. /\ cursor[l] \in 0 .. Len(log[l]) /\ cursor'[l] = cursor[l] /\ seen'[l] = seen[l]
      /\ seen[l] \subseteq 1 .. Len(log[l]) /\ c.tx \in Nat
  BY DEF PositionsOK, SamePosition, CallOK
<1>1. retaining'[l] BY DEF StandOK, SamePosition
<1>2. faults'.clears = 0 => oldest'[l] =< cursor'[l] /\ snapshot'[l] =< cursor'[l]
  BY <1>0 DEF StandOK, SamePosition
<1>3. ASSUME at \in {"transmit", "locate"}, NEW i \in Later(l)'
      PROVE  (i \in Later(l) /\ log'[l][i] = log[l][i]) \/ log'[l][i].dir # "tx"
  <2>1. i \in 1 .. Len(log'[l]) /\ i > cursor[l] BY <1>0, <1>3 DEF Later
  <2>2. CASE i \in 1 .. Len(log[l]) BY <2>1, <2>2 DEF Later, Grown
  <2>3. CASE i \in Len(log[l]) + 1 .. Len(log'[l]) BY <1>3, <2>3 DEF Untransmitted
  <2>. QED BY <2>1, <2>2, <2>3 DEF Grown
<1>4. at = "transmit" => \A i \in Later(l)' : log'[l][i].dir # "tx" BY <1>3 DEF StandOK
<1>5. ASSUME at = "locate"
      PROVE  c.tx \in Later(l)' /\ \A i \in Later(l)' : log'[l][i].dir = "tx" <=> i = c.tx
  <2>1. c.tx \in Later(l) /\ \A i \in Later(l) : log[l][i].dir = "tx" <=> i = c.tx BY <1>5 DEF StandOK
  <2>2. c.tx \in Later(l)' /\ log'[l][c.tx] = log[l][c.tx] BY <1>0, <2>1 DEF Later, Grown
  <2>. QED BY <1>3, <1>5, <2>1, <2>2
<1>6. at \in {"transmit", "locate"} => \A i \in seen'[l] : i =< cursor'[l] BY <1>0 DEF StandOK
<1>7. ASSUME Located(x, at, c) PROVE Followed(l, at, c)'
  <2>1. Followed(l, at, c) BY <1>7 DEF StandOK
  <2>2. \A i \in c.tx .. cursor[l] : c.tx >= 1 => log'[l][i] = log[l][i] BY <1>0 DEF Grown
  <2>. QED BY <1>0, <2>1, <2>2 DEF Followed
<1>. QED BY <1>1, <1>2, <1>4, <1>5, <1>6, <1>7 DEF StandOK, Located, Owns

LEMMA UnansweredKept ==
  ASSUME PositionsOK, NEW l \in Links, NEW c, NEW d, d.tx = c.tx, Unanswered(l, c), Grown(l), seen'[l] = seen[l]
  PROVE  Unanswered(l, d)'
<1>1. seen[l] \subseteq 1 .. Len(log[l]) BY DEF PositionsOK
<1>. QED BY <1>1 DEF Unanswered, Grown

\* What a process does is behind the tokens that it holds.
Within(p) ==
  LET l == LinkOf[p] IN
  /\ \A k \in Links : /\ Grown(k)
                      /\ k # l => SamePosition(k) /\ Untransmitted(k)
                      /\ faults'.clears = faults.clears
  /\ Untransmitted(l) \/ Holds(p, "sending") \/ Holds(p, "receiving")
  /\ SamePosition(l) \/ Holds(p, "receiving") \/ "receiving" \in tokens[l]

LEMMA OwnersHold ==
  ASSUME TokenInv, NEW q \in Procs, Owns(exchange[q], pc[q], call[q])
  PROVE  /\ Holds(q, "receiving")
         /\ pc[q] \in {"transmit", "locate"} => Holds(q, "sending")
BY DEF Owns, Holds, Transmitting

LEMMA OneHolds ==
  ASSUME TokenInv, NEW p \in Procs, NEW q \in Procs, p # q, LinkOf[p] = LinkOf[q],
         NEW token \in Tokens, Holds(q, token)
  PROVE  ~Holds(p, token) /\ token \notin tokens[LinkOf[p]]
<1>1. LinkOf[p] \in Links BY IsoTpAssumption
<1>2. Placed(LinkOf[p], token) BY <1>1 DEF TokenInv
<1>. QED BY <1>2 DEF Placed

\* The other goroutines have what they had.
LEMMA OthersKeep ==
  ASSUME TokenInv, AnswerInv, NEW p \in Procs, Hands(p), Within(p), NEW q \in Procs, q # p,
         q \in Clients => wait'[q] = wait[q]
  PROVE  ProcOK(q)'
<1>. PICK l, x, at, c, w : l = LinkOf[q] /\ x = exchange[q] /\ at = pc[q] /\ c = call[q] /\ w = wait[q]
  OBVIOUS
<1>0. /\ l \in Links /\ PositionsOK /\ ProcOK(q) /\ CallOK(c) /\ StandOK(l, x, at, c) /\ Aimed(at, c)
      /\ q \in Clients => ClientOK(l, x, at, c, w)
  BY IsoTpAssumption DEF AnswerInv, ProcOK
<1>1. exchange'[q] = x /\ pc'[q] = at /\ call'[q] = c /\ (q \in Clients => wait'[q] = w) BY DEF Hands
<1>2. Grown(l) /\ faults'.clears = faults.clears BY <1>0 DEF Within
<1>3. ASSUME Owns(x, at, c) PROVE SamePosition(l) /\ (at \in {"transmit", "locate"} => Untransmitted(l))
  <2>1. CASE LinkOf[p] # l BY <1>0, <2>1 DEF Within
  <2>2. CASE LinkOf[p] = l
    <3>1. Holds(q, "receiving") /\ (at \in {"transmit", "locate"} => Holds(q, "sending")) BY <1>3, OwnersHold
    <3>2. ~Holds(p, "receiving") /\ "receiving" \notin tokens[l] BY <2>2, <3>1, OneHolds DEF Tokens
    <3>3. at \in {"transmit", "locate"} => ~Holds(p, "sending") BY <2>2, <3>1, OneHolds DEF Tokens
    <3>. QED BY <2>2, <3>2, <3>3 DEF Within
  <2>. QED BY <2>1, <2>2
<1>4. StandOK(l, x, at, c)'
  <2>1. CASE ~Owns(x, at, c) BY <2>1 DEF StandOK, Owns
  <2>2. CASE Owns(x, at, c) BY <1>0, <1>2, <1>3, <2>2, StandKept
  <2>. QED BY <2>1, <2>2
<1>5. ASSUME q \in Clients PROVE ClientOK(l, x, at, c, w)'
  <2>1. ClientOK(l, x, at, c, w) BY <1>0, <1>5
  <2>2. ASSUME Owns(x, at, c), Unanswered(l, c) PROVE Unanswered(l, c)'
    <3>1. seen'[l] = seen[l] BY <1>3, <2>2 DEF SamePosition
    <3>. QED BY <1>0, <1>2, <2>2, <3>1, UnansweredKept
  <2>3. c.op = "next" => Owns(x, at, c) BY <2>1 DEF ClientOK, Owns
  <2>4. Located(x, at, c) => Owns(x, at, c) BY DEF Located
  <2>. QED BY <2>1, <2>2, <2>3, <2>4 DEF ClientOK, Located, Owns
<1>6. /\ CallOK(c) /\ (c.res = "range" /\ c.op # "receive" => faults'.clears > 0)
      /\ (c.res = "firsttimeout" => c.op \in {"receive", "next"})
      /\ (q \in Servers => x = "none" /\ c.op \in {"none", "send", "receive"})
  BY <1>0, <1>2 DEF ProcOK
<1>7. StandOK(l, exchange[q], pc[q], call[q])' BY <1>1, <1>4 DEF StandOK, Owns, Located, Followed
<1>8. q \in Clients => ClientOK(l, exchange[q], pc[q], call[q], wait[q])'
  BY <1>1, <1>5 DEF ClientOK, Owns, Located, Unanswered
<1>9. CallOK(call[q])' /\ Aimed(pc[q], call[q])' BY <1>0, <1>1 DEF CallOK, Aimed
<1>. QED BY <1>1, <1>6, <1>7, <1>8, <1>9 DEF ProcOK

LEMMA ProcKeepsInv ==
  ASSUME TokenInv, AnswerInv, NEW p \in Procs, Hands(p), Within(p), PositionsOK', ProcOK(p)',
         used' \subseteq Services \union {"reset"},
         wait' = [q \in Clients |-> wait'[q]] /\ outcome' = [q \in Clients |-> outcome'[q]],
         \A q \in Clients : q # p => wait'[q] = wait[q] /\ outcome'[q] = outcome[q],
         p \in Clients => OutcomeOK(outcome'[p])
  PROVE  AnswerInv'
<1>1. \A q \in Procs : q # p => ProcOK(q)' BY OthersKeep
<1>2. \A q \in Clients : OutcomeOK(outcome'[q]) BY DEF AnswerInv
<1>. QED BY <1>1, <1>2 DEF AnswerInv

\* Where a call gets to within its operation.
LEMMA OwnStep ==
  ASSUME NEW p \in Procs, ProcOK(p), NEW d, NEW at, NEW x,
         CallOK(d), Aimed(at, d), d.op = call[p].op, x = exchange[p] \/ (x = "open" /\ d.op = "begin"),
         pc'[p] = at, call'[p] = d, exchange'[p] = x, UNCHANGED wait, faults'.clears = faults.clears,
         d.res = "range" => d.op = "receive" \/ faults.clears > 0 \/ call[p].res = "range",
         d.res = "firsttimeout" => d.op \in {"receive", "next"},
         StandOK(LinkOf[p], x, at, d)',
         p \in Clients /\ d.op = "begin" /\ Located(x, at, d) => Unanswered(LinkOf[p], d)',
         p \in Clients /\ d.op = "next" /\ (at = "first" \/ (at = "returned" /\ d.res = "firsttimeout"))
           /\ wait[p].timer = "P2" => Unanswered(LinkOf[p], d)'
  PROVE  ProcOK(p)'
<1>1. StandOK(LinkOf[p], exchange[p], pc[p], call[p])' BY DEF StandOK, Owns, Located, Followed
<1>2. p \in Clients => ClientOK(LinkOf[p], exchange[p], pc[p], call[p], wait[p])'
  BY DEF ClientOK, Owns, Located, Unanswered, ProcOK
<1>3. CallOK(call[p])' /\ Aimed(pc[p], call[p])' BY DEF CallOK, Aimed
<1>4. d.op = "begin" => p \notin Servers BY DEF ProcOK
<1>. QED BY <1>1, <1>2, <1>3, <1>4 DEF ProcOK

-----------------------------------------------------------------------------
(* Steps of a goroutine inside a call.                                     *)

LEMMA Here ==
  ASSUME TokenInv, AnswerInv, NEW p \in Procs
  PROVE  /\ LinkOf[p] \in Links /\ PositionsOK /\ ProcOK(p) /\ CallOK(call[p]) /\ FramesOK /\ Typed
         /\ PlaceOK(exchange[p], pc[p], call[p]) /\ StandOK(LinkOf[p], exchange[p], pc[p], call[p])
BY IsoTpAssumption DEF TokenInv, AnswerInv, ProcOK

LEMMA CaptureSame ==
  ASSUME FramesOK, UNCHANGED log, NEW k \in Links
  PROVE  Grown(k) /\ Untransmitted(k)
<1>1. Len(log[k]) \in Nat BY LenProperties DEF FramesOK, IsSeq
<1>. QED BY <1>1 DEF Grown, Untransmitted

LEMMA CaptureSent ==
  ASSUME FramesOK, NEW l \in Links, NEW f, Accept(l, f)
  PROVE  /\ \A k \in Links : Grown(k) /\ (k # l => Untransmitted(k))
         /\ Len(log'[l]) = Len(log[l]) + 1 /\ log'[l][Len(log[l]) + 1] = [dir |-> "tx", frame |-> f]
<1>. DEFINE r == [dir |-> "tx", frame |-> f]
<1>1. log' = [log EXCEPT ![l] = Append(@, r)] BY DEF Accept
<1>. HIDE DEF r
<1>2. log'[l] = Append(log[l], r) /\ \A k \in Links : k # l => log'[k] = log[k] BY <1>1 DEF FramesOK
<1>3. \A k \in Links : IsSeq(log[k]) /\ Len(log[k]) \in Nat BY LenProperties DEF FramesOK, IsSeq
<1>4. /\ Len(log'[l]) = Len(log[l]) + 1 /\ log'[l][Len(log[l]) + 1] = r
      /\ \A i \in 1..Len(log[l]) : log'[l][i] = log[l][i]
  BY <1>2, <1>3, Appended
<1>5. Grown(l) BY <1>3, <1>4 DEF Grown
<1>6. ASSUME NEW k \in Links, k # l PROVE Grown(k) /\ Untransmitted(k)
  BY <1>2, <1>3, <1>6 DEF Grown, Untransmitted
<1>. QED BY <1>4, <1>5, <1>6 DEF r

\* A process that has the reception, or takes it, moves the position.
\* What p may have recorded and read.
Recorded(p) == UNCHANGED log \/ (pc[p] \in {"transmit", "block", "grant"} /\ \E f : Accept(LinkOf[p], f))

Reads(p, n, S) ==
  LET l == LinkOf[p] IN
  /\ Recorded(p) /\ n \in 0 .. Len(log'[l]) /\ S \subseteq 1 .. Len(log[l])
  /\ cursor' = [cursor EXCEPT ![l] = n] /\ seen' = [seen EXCEPT ![l] = S]
  /\ (n = cursor[l] /\ S = seen[l]) \/ Holds(p, "receiving")

LinkMove(p, n, S, b) ==
  LET l == LinkOf[p] IN
  /\ Recorded(p) /\ n \in 0 .. Len(log'[l]) /\ S \subseteq 1 .. Len(log[l]) /\ b \in BOOLEAN
  /\ cursor' = [cursor EXCEPT ![l] = n] /\ seen' = [seen EXCEPT ![l] = S]
  /\ retaining' = [retaining EXCEPT ![l] = b] /\ UNCHANGED <<oldest, snapshot, busDone>>
  /\ "clears" \in DOMAIN faults' /\ faults'.clears = faults.clears
  /\ \/ n = cursor[l] /\ S = seen[l] /\ b = retaining[l]
     \/ Holds(p, "receiving") \/ "receiving" \in tokens[l]

LEMMA LinkMoves ==
  ASSUME TokenInv, AnswerInv, NEW p \in Procs, NEW n, NEW S, NEW b, LinkMove(p, n, S, b)
  PROVE  LET l == LinkOf[p] IN
         PositionsOK' /\ Within(p) /\ l \in Links /\ cursor'[l] = n /\ seen'[l] = S /\ retaining'[l] = b
<1>. DEFINE l == LinkOf[p]
<1>0. l \in Links /\ PositionsOK /\ FramesOK /\ Typed /\ PlaceOK(exchange[p], pc[p], call[p]) BY Here
<1>1. \A k \in Links : Grown(k) /\ (k # l => Untransmitted(k))
  BY <1>0, CaptureSame, CaptureSent DEF LinkMove, Recorded
<1>2. Untransmitted(l) \/ Holds(p, "sending") \/ Holds(p, "receiving")
  <2>1. CASE UNCHANGED log BY <1>0, <2>1, CaptureSame
  <2>2. CASE pc[p] \in {"transmit", "block", "grant"}
    BY <1>0, <2>2 DEF Holds, PlaceOK, Transmitting, Receiving
  <2>. QED BY <2>1, <2>2 DEF LinkMove, Recorded
<1>3. /\ cursor'[l] = n /\ seen'[l] = S /\ retaining'[l] = b
      /\ \A k \in Links : k # l => cursor'[k] = cursor[k] /\ seen'[k] = seen[k] /\ retaining'[k] = retaining[k]
  BY <1>0 DEF PositionsOK, LinkMove
<1>4. /\ cursor' = [k \in Links |-> cursor'[k]] /\ seen' = [k \in Links |-> seen'[k]]
      /\ retaining' \in [Links -> BOOLEAN]
  BY <1>0 DEF PositionsOK, LinkMove
<1>5. /\ UNCHANGED <<oldest, snapshot, busDone>> /\ "clears" \in DOMAIN faults' /\ faults'.clears = faults.clears
      /\ n \in 0 .. Len(log'[l]) /\ S \subseteq 1 .. Len(log[l])
  BY DEF LinkMove
<1>6. ASSUME NEW k \in Links
      PROVE  /\ oldest'[k] \in 0 .. Len(log'[k]) /\ cursor'[k] \in 0 .. Len(log'[k])
             /\ snapshot'[k] \in -1 .. Len(log'[k]) /\ seen'[k] \subseteq 1 .. Len(log'[k])
  <2>1. /\ oldest[k] \in 0 .. Len(log[k]) /\ cursor[k] \in 0 .. Len(log[k])
        /\ snapshot[k] \in -1 .. Len(log[k]) /\ seen[k] \subseteq 1 .. Len(log[k])
    BY <1>0 DEF PositionsOK
  <2>2. Len(log[k]) \in Nat /\ Len(log'[k]) \in Nat /\ Len(log[k]) =< Len(log'[k]) BY <1>1 DEF Grown
  <2>3. CASE k = l
    <3>1. cursor'[k] = n /\ seen'[k] = S /\ oldest'[k] = oldest[k] /\ snapshot'[k] = snapshot[k]
      BY <1>3, <1>5, <2>3
    <3>2. n \in 0 .. Len(log'[k]) /\ oldest[k] \in 0 .. Len(log'[k]) /\ snapshot[k] \in -1 .. Len(log'[k])
      BY <1>5, <2>1, <2>2, <2>3
    <3>3. ASSUME NEW i \in S PROVE i \in 1 .. Len(log'[k]) BY <1>5, <2>2, <2>3
    <3>. QED BY <3>1, <3>2, <3>3
  <2>4. CASE k # l
    <3>1. cursor'[k] = cursor[k] /\ seen'[k] = seen[k] /\ oldest'[k] = oldest[k] /\ snapshot'[k] = snapshot[k]
      BY <1>3, <1>5, <2>4
    <3>2. cursor[k] \in 0 .. Len(log'[k]) /\ oldest[k] \in 0 .. Len(log'[k]) /\ snapshot[k] \in -1 .. Len(log'[k])
      BY <2>1, <2>2
    <3>3. ASSUME NEW i \in seen[k] PROVE i \in 1 .. Len(log'[k]) BY <2>1, <2>2
    <3>. QED BY <3>1, <3>2, <3>3
  <2>. QED BY <2>3, <2>4
<1>7. PositionsOK' BY <1>0, <1>4, <1>5, <1>6 DEF PositionsOK
<1>8. \A k \in Links : k # l => SamePosition(k) BY <1>0, <1>3, <1>5 DEF SamePosition, PositionsOK
<1>9. SamePosition(l) \/ Holds(p, "receiving") \/ "receiving" \in tokens[l]
  BY <1>0, <1>3, <1>5 DEF SamePosition, PositionsOK, LinkMove
<1>10. Within(p) BY <1>1, <1>2, <1>5, <1>8, <1>9 DEF Within
<1>. QED BY <1>0, <1>3, <1>7, <1>10

\* What the deferred calls do to the link.
LEMMA FinishMoves ==
  ASSUME TokenInv, AnswerInv, NEW p \in Procs, NEW n, NEW S, NEW res, NEW c, Finish(p, res, c),
         c.op = call[p].op, c.msg = call[p].msg, pc[p] \in Transmitting \union Receiving, Reads(p, n, S)
  PROVE  LET l == LinkOf[p] IN
         /\ PositionsOK' /\ Within(p) /\ cursor'[l] = n /\ seen'[l] = S /\ faults'.clears = faults.clears
         /\ retaining'[l] = (retaining[l] /\ "receiving" \notin Released(c, res))
<1>. DEFINE l == LinkOf[p]
<1>0. /\ l \in Links /\ PositionsOK /\ PlaceOK(exchange[p], pc[p], call[p]) /\ "clears" \in DOMAIN faults
      /\ retaining[l] \in BOOLEAN
  BY Here DEF PositionsOK
<1>. DEFINE b == retaining[l] /\ "receiving" \notin Released(c, res)
<1>1. /\ b \in BOOLEAN /\ retaining' = [retaining EXCEPT ![l] = b] /\ UNCHANGED <<oldest, snapshot, busDone>>
  BY <1>0 DEF Finish
<1>2. "clears" \in DOMAIN faults' /\ faults'.clears = faults.clears BY <1>0 DEF Finish
<1>3. "receiving" \in Released(c, res) => Holds(p, "receiving")
  BY <1>0 DEF Released, Holds, PlaceOK, Transmitting, Receiving
<1>4. b = retaining[l] \/ Holds(p, "receiving") BY <1>0, <1>3
<1>. HIDE DEF b
<1>5. LinkMove(p, n, S, b) BY <1>1, <1>2, <1>4 DEF LinkMove, Reads
<1>6. PositionsOK' /\ Within(p) /\ cursor'[l] = n /\ seen'[l] = S /\ retaining'[l] = b
  BY <1>5, LinkMoves
<1>. QED BY <1>2, <1>6 DEF b

\* A call that ends leaves its exchange where the request was followed to.
LEMMA FinishOwn ==
  ASSUME TokenInv, AnswerInv, NEW p \in Procs, NEW l, l = LinkOf[p], NEW c, NEW res \in Results, Finish(p, res, c),
         pc[p] \in Transmitting \union Receiving, CallOK(c), c.op = call[p].op, c.msg = call[p].msg,
         UNCHANGED wait, faults'.clears = faults.clears, PositionsOK',
         retaining'[l] = (retaining[l] /\ "receiving" \notin Released(c, res)),
         res = "range" => c.op = "receive" \/ faults.clears > 0,
         res = "firsttimeout" => pc[p] = "first" /\ UNCHANGED <<log, seen>> /\ c.tx = call[p].tx,
         Owns(exchange[p], pc[p], call[p]) => cursor'[l] >= cursor[l] \/ faults.clears > 0,
         Owns(exchange[p], pc[p], call[p]) /\ (c.op = "next" \/ (c.op = "begin" /\ res = "ok"))
           => Followed(l, "returned", [c EXCEPT !.res = res])',
         c.op = "begin" /\ res = "ok" /\ p \in Clients => Unanswered(l, c)'
  PROVE  ProcOK(p)'
<1>. PICK x, d : /\ x = IF c.op = "begin" /\ res = "ok" THEN "open" ELSE exchange[p]
                 /\ d = [c EXCEPT !.res = res]
  OBVIOUS
<1>0. /\ l \in Links /\ PositionsOK /\ ProcOK(p) /\ PlaceOK(exchange[p], pc[p], call[p])
      /\ Typed /\ StandOK(l, exchange[p], pc[p], call[p])
  BY Here
<1>1. pc'[p] = "returned" /\ call'[p] = d /\ exchange'[p] = x /\ UNCHANGED <<oldest, snapshot>>
  BY <1>0 DEF Finish, Goto, Typed
<1>2. /\ d.op = c.op /\ d.tx = c.tx /\ d.res = res /\ CallOK(d)
  BY DEF CallOK
<1>3. c.op \in {"send", "begin", "receive", "next"} BY <1>0 DEF PlaceOK, Transmitting, Receiving
<1>4. exchange[p] # "none" => c.op = "next" BY <1>0 DEF PlaceOK, Transmitting, Receiving
<1>5. StandOK(l, x, "returned", d)'
  <2>. SUFFICES ASSUME x # "none" PROVE StandOK(l, x, "returned", d)'
    BY DEF StandOK, Owns, Transmitting
  <2>1. c.op = "next" \/ (c.op = "begin" /\ res = "ok") BY <1>4
  <2>2. Owns(exchange[p], pc[p], call[p])
    <3>1. CASE exchange[p] # "none" BY <3>1 DEF Owns
    <3>2. CASE c.op = "begin" BY <1>0, <3>2 DEF Owns, PlaceOK, Receiving
    <3>. QED BY <3>1, <3>2
  <2>3. retaining[l] /\ (faults.clears = 0 => oldest[l] =< cursor[l] /\ snapshot[l] =< cursor[l])
    BY <1>0, <2>2 DEF StandOK
  <2>4. retaining'[l] BY <2>1, <2>3 DEF Released
  <2>5. faults'.clears = 0 => oldest'[l] =< cursor'[l] /\ snapshot'[l] =< cursor'[l]
    <3>1. /\ oldest[l] \in Int /\ snapshot[l] \in Int /\ cursor[l] \in Int /\ cursor'[l] \in Int /\ faults.clears \in Nat
      BY <1>0 DEF PositionsOK
    <3>. QED BY <1>1, <2>2, <2>3, <3>1
  <2>6. Followed(l, "returned", d)' BY <2>1, <2>2
  <2>. QED BY <2>4, <2>5, <2>6 DEF StandOK
<1>6. p \in Clients /\ d.op = "begin" /\ Located(x, "returned", d) => Unanswered(l, d)'
  <2>1. Unanswered(l, c)' => Unanswered(l, d)' BY <1>2 DEF Unanswered
  <2>2. Located(x, "returned", d) => x # "none" BY DEF Located, Owns, Transmitting
  <2>. QED BY <1>2, <1>4, <2>1, <2>2
<1>7. p \in Clients /\ d.op = "next" /\ d.res = "firsttimeout" /\ wait[p].timer = "P2" => Unanswered(l, d)'
  <2>. SUFFICES ASSUME p \in Clients, d.op = "next", d.res = "firsttimeout", wait[p].timer = "P2"
                PROVE  Unanswered(l, d)'
    OBVIOUS
  <2>1. Unanswered(l, call[p]) BY <1>0, <1>2 DEF ProcOK, ClientOK
  <2>. QED BY <1>2, <2>1 DEF Unanswered
<1>8. d.res = "firsttimeout" => d.op \in {"receive", "next"} BY <1>0, <1>2 DEF PlaceOK, Transmitting, Receiving
<1>9. x = exchange[p] \/ (x = "open" /\ d.op = "begin") BY <1>2
<1>10. Aimed("returned", d) BY DEF Aimed
<1>11. /\ UNCHANGED wait /\ faults'.clears = faults.clears /\ d.op = call[p].op
       /\ d.res = "range" => d.op = "receive" \/ faults.clears > 0
  BY <1>2
<1>. QED BY <1>0, <1>1, <1>2, <1>5, <1>6, <1>7, <1>8, <1>9, <1>10, <1>11, OwnStep

\* A call that goes on.
LEMMA GotoOwn ==
  ASSUME TokenInv, AnswerInv, NEW p \in Procs, NEW l, l = LinkOf[p], NEW at, NEW d, Goto(p, at, d),
         CallOK(d), Aimed(at, d), d.op = call[p].op, d.res = call[p].res, UNCHANGED <<wait, exchange>>,
         faults'.clears = faults.clears, at # "returned", NEW x, x = exchange[p],
         StandOK(l, x, at, d)',
         p \in Clients /\ d.op = "begin" /\ Located(x, at, d) => Unanswered(l, d)',
         at = "first" => d.op # "next"
  PROVE  ProcOK(p)'
<1>1. ProcOK(p) /\ Typed BY Here
<1>2. pc'[p] = at /\ call'[p] = d /\ exchange'[p] = x BY <1>1 DEF Goto, Typed
<1>3. d.res = "firsttimeout" => d.op \in {"receive", "next"} BY <1>1 DEF ProcOK
<1>4. d.res = "range" => d.op = "receive" \/ faults.clears > 0 \/ call[p].res = "range" OBVIOUS
<1>. QED BY <1>1, <1>2, <1>3, <1>4, OwnStep

OwnLink(p) == PositionsOK' /\ Within(p) /\ ProcOK(p)'

\* The position of the link is left alone.
LEMMA LinkRests ==
  ASSUME TokenInv, AnswerInv, NEW p \in Procs,
         UNCHANGED log \/ (pc[p] \in {"transmit", "block", "grant"} /\ \E f : Accept(LinkOf[p], f)),
         UNCHANGED <<oldest, cursor, retaining, snapshot, busDone, seen>>,
         "clears" \in DOMAIN faults', faults'.clears = faults.clears
  PROVE  PositionsOK' /\ Within(p) /\ Grown(LinkOf[p]) /\ SamePosition(LinkOf[p])
<1>. DEFINE l == LinkOf[p]
<1>0. l \in Links /\ PositionsOK /\ FramesOK BY Here
<1>1. /\ cursor' = [cursor EXCEPT ![l] = cursor[l]] /\ seen' = [seen EXCEPT ![l] = seen[l]]
      /\ retaining' = [retaining EXCEPT ![l] = retaining[l]] /\ retaining[l] \in BOOLEAN
      /\ cursor[l] \in 0 .. Len(log[l]) /\ seen[l] \subseteq 1 .. Len(log[l])
  BY <1>0 DEF PositionsOK
<1>2. Grown(l) BY <1>0, CaptureSame, CaptureSent
<1>3. cursor[l] \in 0 .. Len(log'[l]) BY <1>1, <1>2 DEF Grown
<1>4. LinkMove(p, cursor[l], seen[l], retaining[l]) BY <1>1, <1>3 DEF LinkMove, Recorded
<1>5. PositionsOK' /\ Within(p) BY <1>4, LinkMoves
<1>6. SamePosition(l) BY <1>0, <1>1 DEF SamePosition, PositionsOK
<1>. QED BY <1>2, <1>5, <1>6

LEMMA AcquireSendingOwn ==
  ASSUME TokenInv, AnswerInv, NEW p \in Procs, AcquireSending(p), UNCHANGED wait
  PROVE  OwnLink(p)
<1>. PICK x, c, at : /\ x = exchange[p] /\ c = call[p]
                     /\ at = IF c.op = "begin" \/ MultiFrame(c.msg) THEN "receiving" ELSE "transmit"
  OBVIOUS
<1>. DEFINE l == LinkOf[p]
<1>0. /\ l \in Links /\ PositionsOK /\ PlaceOK(x, pc[p], c) /\ CallOK(c)
  BY Here
<1>1. /\ Goto(p, at, c) /\ pc[p] = "sending"
      /\ UNCHANGED <<log, oldest, cursor, retaining, snapshot, busDone, exchange, seen, faults>>
  BY DEF AcquireSending
<1>2. x = "none" /\ ~Owns(x, at, c)
  BY <1>0, <1>1 DEF PlaceOK, Owns, Transmitting, Receiving
<1>3. StandOK(l, x, at, c)' BY <1>2 DEF StandOK, Owns
<1>4. ~Located(x, at, c) BY <1>2 DEF Located
<1>5. Aimed(at, c) /\ at \notin {"returned", "first"} BY DEF Aimed
<1>6. ProcOK(p)' BY <1>0, <1>1, <1>3, <1>4, <1>5, GotoOwn
<1>7. PositionsOK' /\ Within(p) BY <1>0, <1>1, LinkRests DEF PositionsOK
<1>. QED BY <1>6, <1>7 DEF OwnLink

LEMMA AcquireReceivingOwn ==
  ASSUME TokenInv, AnswerInv, NEW p \in Procs, AcquireReceiving(p), UNCHANGED wait
  PROVE  OwnLink(p)
<1>. DEFINE l == LinkOf[p]
            refused == call[p].op = "reset" /\ (call[p].ctx \/ busDone[l])
<1>. PICK x, c, n, b, at, d :
       /\ x = exchange[p] /\ c = call[p]
       /\ n = IF c.op \in {"begin", "send", "reset"} /\ ~refused THEN End(l) ELSE cursor[l]
       /\ b = IF c.op = "reset" THEN retaining[l] ELSE TRUE
       /\ at = IF c.op = "reset" THEN "returned" ELSE IF c.op = "receive" THEN "first" ELSE "transmit"
       /\ d = IF c.op = "reset" THEN [c EXCEPT !.res = IF refused THEN "ended" ELSE "ok"] ELSE c
  OBVIOUS
<1>0. /\ l \in Links /\ PositionsOK /\ PlaceOK(x, pc[p], c) /\ CallOK(c)
      /\ FramesOK /\ ProcOK(p) /\ Typed
  BY Here
<1>1. /\ pc[p] = "receiving" /\ "receiving" \in tokens[l] /\ Goto(p, at, d)
      /\ cursor' = [cursor EXCEPT ![l] = n] /\ UNCHANGED <<log, oldest, snapshot, busDone, exchange, seen, faults>>
  BY DEF AcquireReceiving
<1>2. retaining' = [retaining EXCEPT ![l] = b]
  BY <1>0 DEF AcquireReceiving, PositionsOK
<1>3. x = "none" /\ c.op \in {"begin", "receive", "reset", "send"} /\ (c.op = "send" => MultiFrame(c.msg))
  BY <1>0, <1>1 DEF PlaceOK, Transmitting, Receiving
<1>4. n \in 0 .. Len(log[l]) /\ b \in BOOLEAN /\ seen[l] \subseteq 1 .. Len(log[l]) /\ "clears" \in DOMAIN faults
      /\ seen' = [seen EXCEPT ![l] = seen[l]]
  <2>1. Len(log[l]) \in Nat BY <1>0, LenProperties DEF FramesOK, IsSeq
  <2>2. seen' = [seen EXCEPT ![l] = seen[l]] /\ "clears" \in DOMAIN faults BY <1>0, <1>1 DEF PositionsOK
  <2>3. n \in 0 .. Len(log[l]) BY <1>0, <2>1 DEF PositionsOK, End
  <2>4. b \in BOOLEAN /\ seen[l] \subseteq 1 .. Len(log[l]) BY <1>0 DEF PositionsOK
  <2>. QED BY <2>2, <2>3, <2>4
<1>5. LinkMove(p, n, seen[l], b) BY <1>1, <1>2, <1>4 DEF LinkMove, Recorded
<1>6. PositionsOK' /\ Within(p) /\ cursor'[l] = n /\ seen'[l] = seen[l] /\ retaining'[l] = b
  <2>1. PositionsOK' /\ Within(p) BY <1>5, LinkMoves
  <2>. QED BY <1>0, <1>1, <1>2, <1>4, <2>1 DEF PositionsOK
<1>7. d.op = c.op /\ CallOK(d) /\ (d.res = "range" => d = c) /\ (d.res = "firsttimeout" => d = c)
  BY <1>0 DEF CallOK, Results
<1>8. CASE at = "transmit"
  <2>1. d = c /\ n = End(l) /\ b BY <1>3, <1>8
  <2>2. Later(l)' = {} BY <1>0, <1>1, <1>4, <1>6, <2>1 DEF Later, End
  <2>3. oldest'[l] =< cursor'[l] /\ snapshot'[l] =< cursor'[l] /\ \A i \in seen'[l] : i =< cursor'[l]
    <3>1. cursor'[l] = Len(log[l]) /\ log' = log /\ Len(log[l]) \in Nat
      BY <1>0, <1>1, <1>6, <2>1, LenProperties DEF End, FramesOK, IsSeq
    <3>2. oldest'[l] \in 0 .. Len(log'[l]) /\ snapshot'[l] \in -1 .. Len(log'[l]) BY <1>0, <1>6 DEF PositionsOK
    <3>3. \A i \in seen'[l] : i =< Len(log[l]) BY <1>4, <1>6
    <3>. QED BY <3>1, <3>2, <3>3
  <2>4. StandOK(l, x, "transmit", d)'
    BY <1>6, <2>1, <2>2, <2>3 DEF StandOK, Located
  <2>5. ~Located(x, "transmit", d) BY DEF Located
  <2>6. Aimed("transmit", d) BY DEF Aimed
  <2>7. ProcOK(p)' BY <1>0, <1>1, <1>7, <1>8, <2>1, <2>4, <2>5, <2>6, GotoOwn
  <2>. QED BY <1>6, <2>7 DEF OwnLink
<1>9. CASE at # "transmit"
  <2>1. ~Owns(x, at, d) BY <1>3, <1>7, <1>9 DEF Owns, Transmitting
  <2>2. at = "first" => d.op = "receive" OBVIOUS
  <2>3. pc'[p] = at /\ call'[p] = d /\ exchange'[p] = x /\ Aimed(at, d)
    BY <1>0, <1>1 DEF Goto, Typed, Aimed
  <2>4. StandOK(l, x, at, d)' BY <2>1 DEF StandOK, Owns
  <2>5. ~Located(x, at, d) BY <2>1 DEF Located
  <2>6. d.op # "next" BY <1>3, <1>7
  <2>7. d.res = "firsttimeout" => d.op \in {"receive", "next"} BY <1>0, <1>7 DEF ProcOK
  <2>8. /\ UNCHANGED wait /\ faults'.clears = faults.clears /\ d.op = call[p].op
        /\ d.res = "range" => call[p].res = "range"
    BY <1>1, <1>7
  <2>9. ProcOK(p)' BY <1>0, <1>7, <2>3, <2>4, <2>5, <2>6, <2>7, <2>8, OwnStep
  <2>. QED BY <1>6, <2>9 DEF OwnLink
<1>. QED BY <1>8, <1>9

LEMMA AcquireFailsOwn ==
  ASSUME TokenInv, AnswerInv, NEW p \in Procs, AcquireFails(p), UNCHANGED wait
  PROVE  OwnLink(p)
<1>. PICK x, c : x = exchange[p] /\ c = call[p] OBVIOUS
<1>. DEFINE l == LinkOf[p]
<1>0. /\ l \in Links /\ PositionsOK /\ PlaceOK(x, pc[p], c) /\ CallOK(c) /\ ProcOK(p) /\ Typed
  BY Here
<1>1. PICK res \in Causes(p) : Goto(p, "returned", [c EXCEPT !.res = res]) BY DEF AcquireFails
<1>. DEFINE d == [c EXCEPT !.res = res]
<1>2. res \in {"context", "bus", "closed"} BY DEF Causes
<1>3. CallOK(d) /\ d.op = c.op /\ d.res = res BY <1>0, <1>2 DEF CallOK, Results
<1>4. x = "none" /\ c.op # "next" BY <1>0 DEF AcquireFails, PlaceOK, Transmitting, Receiving
<1>5. pc'[p] = "returned" /\ call'[p] = d /\ exchange'[p] = x
  BY <1>0, <1>1 DEF Goto, Typed, AcquireFails
<1>. HIDE DEF d
<1>6. ~Owns(x, "returned", d) BY <1>4 DEF Owns, Transmitting
<1>7. StandOK(l, x, "returned", d)' /\ ~Located(x, "returned", d) /\ Aimed("returned", d)
  <2>1. ~Owns(x, "returned", d)' BY <1>4 DEF Owns, Transmitting
  <2>. QED BY <1>6, <2>1 DEF StandOK, Located, Aimed
<1>8. UNCHANGED <<log, oldest, cursor, retaining, snapshot, busDone, seen, faults>> BY DEF AcquireFails
<1>9. ProcOK(p)' BY <1>0, <1>2, <1>3, <1>4, <1>5, <1>7, <1>8, OwnStep
<1>10. PositionsOK' /\ Within(p) BY <1>0, <1>8, LinkRests DEF PositionsOK
<1>. QED BY <1>9, <1>10 DEF OwnLink

\* A call without a mark of its own that is behind the same request.
LEMMA CallLike ==
  ASSUME NEW c, CallOK(c)
  PROVE  LET d == [c EXCEPT !.buf = <<>>] IN
         CallOK(d) /\ d.op = c.op /\ d.msg = c.msg /\ d.tx = c.tx /\ d.res = c.res
BY DEF CallOK

\* An operation of an owner that ends without a frame read.
LEMMA FinishUnread ==
  ASSUME TokenInv, AnswerInv, NEW p \in Procs, NEW c, NEW res \in Results, Finish(p, res, c),
         pc[p] \in Transmitting \union Receiving, CallOK(c), c.op = call[p].op, c.msg = call[p].msg, c.tx = call[p].tx,
         UNCHANGED <<wait, cursor, seen>>,
         UNCHANGED log \/ (pc[p] \in {"transmit", "block", "grant"} /\ \E f : Accept(LinkOf[p], f)),
         res # "range", res = "firsttimeout" => pc[p] = "first" /\ UNCHANGED log,
         c.op = "begin" /\ res = "ok" => pc[p] \in {"flow", "block"}
  PROVE  OwnLink(p)
<1>. DEFINE l == LinkOf[p]
            d == [c EXCEPT !.res = res]
<1>0. /\ l \in Links /\ PositionsOK /\ ProcOK(p) /\ PlaceOK(exchange[p], pc[p], call[p]) /\ FramesOK
      /\ Typed /\ StandOK(l, exchange[p], pc[p], call[p])
  BY Here
<1>1. Grown(l) BY <1>0, CaptureSame, CaptureSent
<1>2. /\ cursor' = [cursor EXCEPT ![l] = cursor[l]] /\ seen' = [seen EXCEPT ![l] = seen[l]]
      /\ cursor[l] \in 0 .. Len(log'[l]) /\ cursor[l] \in 0 .. Len(log[l]) /\ seen[l] \subseteq 1 .. Len(log[l])
  <2>1. cursor[l] \in 0 .. Len(log[l]) /\ seen[l] \subseteq 1 .. Len(log[l])
        /\ cursor' = [cursor EXCEPT ![l] = cursor[l]] /\ seen' = [seen EXCEPT ![l] = seen[l]]
    BY <1>0 DEF PositionsOK
  <2>2. cursor[l] \in 0 .. Len(log'[l])
    <3>1. Len(log[l]) \in Nat /\ Len(log'[l]) \in Nat /\ Len(log[l]) =< Len(log'[l]) BY <1>1 DEF Grown
    <3>. QED BY <2>1, <3>1
  <2>. QED BY <2>1, <2>2
<1>3. /\ PositionsOK' /\ Within(p) /\ cursor'[l] = cursor[l] /\ seen'[l] = seen[l] /\ faults'.clears = faults.clears
      /\ retaining'[l] = (retaining[l] /\ "receiving" \notin Released(c, res))
  <2>1. Reads(p, cursor[l], seen[l]) BY <1>2 DEF Reads, Recorded
  <2>. QED BY <2>1, FinishMoves
<1>4. CallOK(d) /\ d.tx = c.tx /\ d.op = c.op /\ d.res = res BY DEF CallOK
<1>5. ASSUME Owns(exchange[p], pc[p], call[p]), c.op = "next" \/ (c.op = "begin" /\ res = "ok")
      PROVE  Followed(l, "returned", d)'
  <2>1. Located(exchange[p], pc[p], call[p]) /\ pc[p] # "returned"
    BY <1>0, <1>5 DEF Located, PlaceOK, Transmitting, Receiving
  <2>2. Followed(l, pc[p], call[p]) BY <1>0, <1>5, <2>1 DEF StandOK
  <2>3. c.tx \in 1 .. cursor[l] /\ \A i \in c.tx .. cursor[l] : log[l][i].dir = "rx" => i \in seen[l]
    BY <2>1, <2>2 DEF Followed
  <2>4. \A i \in c.tx .. cursor[l] : log'[l][i] = log[l][i] BY <1>1, <1>2, <2>3 DEF Grown
  <2>. HIDE DEF d
  <2>. QED BY <1>3, <1>4, <2>3, <2>4 DEF Followed
<1>6. ASSUME c.op = "begin", res = "ok", p \in Clients PROVE Unanswered(l, c)'
  <2>1. Located(exchange[p], pc[p], call[p]) BY <1>6 DEF Located, Owns, Transmitting
  <2>2. Unanswered(l, call[p]) BY <1>0, <1>6, <2>1 DEF ProcOK, ClientOK
  <2>. QED BY <1>0, <1>1, <1>3, <2>2, UnansweredKept
<1>7. ProcOK(p)'
  <2>1. Owns(exchange[p], pc[p], call[p]) => cursor'[l] >= cursor[l] \/ faults.clears > 0 BY <1>2, <1>3
  <2>. QED BY <1>3, <1>5, <1>6, <2>1, FinishOwn
<1>. QED BY <1>3, <1>7 DEF OwnLink

LEMMA SendFailsOwn ==
  ASSUME TokenInv, AnswerInv, NEW p \in Procs, SendFails(p), UNCHANGED wait
  PROVE  OwnLink(p)
<1>. DEFINE c == [call[p] EXCEPT !.buf = <<>>]
<1>1. PICK res : res \in {"context", "bus", "closed", "queue"} /\ Finish(p, res, c)
  BY DEF SendFails, Causes
<1>2. CallOK(c) /\ c.op = call[p].op /\ c.msg = call[p].msg /\ c.tx = call[p].tx BY Here, CallLike
<1>3. /\ pc[p] \in Transmitting \union Receiving /\ UNCHANGED <<log, cursor, seen>> /\ res \in Results
      /\ res \notin {"range", "firsttimeout", "ok"}
  BY <1>1 DEF SendFails, Transmitting, Receiving, Results
<1>. HIDE DEF c
<1>. QED BY <1>1, <1>2, <1>3, FinishUnread

LEMMA NextFrameEndsOwn ==
  ASSUME TokenInv, AnswerInv, NEW p \in Procs, NextFrameCancelled(p) \/ NextFrameExpires(p), UNCHANGED wait
  PROVE  OwnLink(p)
<1>. DEFINE c == [call[p] EXCEPT !.buf = <<>>]
<1>1. PICK res : /\ res \in {"context", "bus", "closed", "flowtimeout", "firsttimeout", "followtimeout"}
                 /\ Finish(p, res, c) /\ (res = "firsttimeout" => pc[p] = "first")
  <2>1. CASE NextFrameCancelled(p) BY <2>1 DEF NextFrameCancelled, Causes
  <2>2. CASE NextFrameExpires(p)
    <3>1. /\ TimeoutOf(pc[p]) \in {"flowtimeout", "firsttimeout", "followtimeout"}
          /\ TimeoutOf(pc[p]) = "firsttimeout" => pc[p] = "first"
      BY <2>2 DEF NextFrameExpires, Reading, TimeoutOf
    <3>. QED BY <2>2, <3>1 DEF NextFrameExpires
  <2>. QED BY <2>1, <2>2
<1>2. CallOK(c) /\ c.op = call[p].op /\ c.msg = call[p].msg /\ c.tx = call[p].tx BY Here, CallLike
<1>3. /\ pc[p] \in Transmitting \union Receiving /\ UNCHANGED <<log, cursor, seen>> /\ res \in Results
      /\ res \notin {"range", "ok"}
  BY <1>1 DEF NextFrameCancelled, NextFrameExpires, Reading, Transmitting, Receiving, Results
<1>. HIDE DEF c
<1>. QED BY <1>1, <1>2, <1>3, FinishUnread

\* A call of an owner goes on without a frame read.
LEMMA GotoUnread ==
  ASSUME TokenInv, AnswerInv, NEW p \in Procs, NEW at, NEW d, Goto(p, at, d),
         \/ pc[p] \in {"flow", "block"} /\ at \in {"flow", "block"}
         \/ pc[p] \in Receiving /\ at \in {"grant", "follow"},
         CallOK(d), d.op = call[p].op, d.msg = call[p].msg, d.tx = call[p].tx, d.res = call[p].res,
         UNCHANGED <<wait, cursor, seen, oldest, retaining, snapshot, busDone, exchange, faults>>,
         UNCHANGED log \/ (pc[p] \in {"transmit", "block", "grant"} /\ \E f : Accept(LinkOf[p], f))
  PROVE  OwnLink(p)
<1>. PICK x, c : x = exchange[p] /\ c = call[p] OBVIOUS
<1>. DEFINE l == LinkOf[p]
<1>0. /\ l \in Links /\ PositionsOK /\ ProcOK(p) /\ PlaceOK(x, pc[p], c) /\ StandOK(l, x, pc[p], c)
  BY Here
<1>1. PositionsOK' /\ Within(p) /\ Grown(l) BY <1>0, LinkRests DEF PositionsOK
<1>2. Located(x, at, d) => Located(x, pc[p], c) /\ Owns(x, pc[p], c) /\ pc[p] # "returned"
  BY <1>0 DEF Owns, Located, Transmitting, Receiving
<1>3. ASSUME Located(x, at, d) PROVE Followed(l, at, d)'
  <2>1. c.tx \in 1 .. cursor[l] /\ \A i \in c.tx .. cursor[l] : log[l][i].dir = "rx" => i \in seen[l]
    BY <1>0, <1>2, <1>3 DEF StandOK, Followed
  <2>2. cursor[l] \in 0 .. Len(log[l]) BY <1>0 DEF PositionsOK
  <2>3. \A i \in c.tx .. cursor[l] : log'[l][i] = log[l][i] BY <1>0, <1>1, <2>1, <2>2 DEF Grown
  <2>. QED BY <2>1, <2>3 DEF Followed
<1>4. Owns(x, at, d) => Located(x, at, d) /\ Owns(x, pc[p], c)
  BY <1>0 DEF Owns, Located, Transmitting, Receiving
<1>5. StandOK(l, x, at, d)'
  <2>. SUFFICES ASSUME Owns(x, at, d) PROVE StandOK(l, x, at, d)' BY DEF StandOK, Owns
  <2>1. retaining'[l] /\ (faults'.clears = 0 => oldest'[l] =< cursor'[l] /\ snapshot'[l] =< cursor'[l])
    BY <1>0, <1>4 DEF StandOK
  <2>2. Followed(l, at, d)' BY <1>3, <1>4
  <2>3. at \notin {"transmit", "locate"} OBVIOUS
  <2>. QED BY <2>1, <2>2, <2>3 DEF StandOK
<1>6. ASSUME p \in Clients, d.op = "begin", Located(x, at, d) PROVE Unanswered(l, d)'
  <2>1. Unanswered(l, c) BY <1>0, <1>2, <1>6 DEF ProcOK, ClientOK
  <2>. QED BY <1>0, <1>1, <2>1, UnansweredKept
<1>7. Aimed(at, d) BY <1>0 DEF Aimed, ProcOK, Receiving
<1>8. ProcOK(p)' BY <1>5, <1>6, <1>7, GotoOwn
<1>. QED BY <1>1, <1>8 DEF OwnLink

LEMMA TransmitConsecutiveOwn ==
  ASSUME TokenInv, AnswerInv, NEW p \in Procs, TransmitConsecutive(p), UNCHANGED wait
  PROVE  OwnLink(p)
<1>. DEFINE c == call[p]
            next == [c EXCEPT !.off = @ + 1, !.seq = (@ + 1) % SequenceModulus, !.blk = @ + 1]
            l == LinkOf[p]
<1>0. CallOK(c) BY Here
<1>1. SequenceModulus \in Nat /\ SequenceModulus > 1 BY IsoTpAssumption
<1>2. c.off + 1 \in Nat /\ (c.seq + 1) % SequenceModulus \in 0 .. SequenceModulus - 1
  BY <1>0, <1>1 DEF CallOK
<1>3. /\ CallOK(next) /\ next.op = c.op /\ next.msg = c.msg /\ next.tx = c.tx /\ next.res = c.res
  BY <1>0, <1>2 DEF CallOK
<1>4. CallOK(EndOfBlock(next)) /\ EndOfBlock(next).op = c.op /\ EndOfBlock(next).msg = c.msg
      /\ EndOfBlock(next).tx = c.tx /\ EndOfBlock(next).res = c.res
  <2>. HIDE DEF next
  <2>. QED BY <1>3 DEF CallOK, EndOfBlock
<1>5. /\ pc[p] = "block" /\ (\E f : Accept(l, f)) /\ UNCHANGED <<cursor, seen>>
      /\ \/ Finish(p, "ok", next)
         \/ /\ Goto(p, "block", next) \/ Goto(p, "flow", EndOfBlock(next))
            /\ UNCHANGED <<oldest, tokens, retaining, snapshot, busDone, exchange, faults>>
  BY DEF TransmitConsecutive
<1>. HIDE DEF next
<1>6. CASE Finish(p, "ok", next)
  BY <1>3, <1>5, <1>6, FinishUnread DEF Transmitting, Results
<1>7. CASE /\ Goto(p, "block", next) \/ Goto(p, "flow", EndOfBlock(next))
           /\ UNCHANGED <<oldest, tokens, retaining, snapshot, busDone, exchange, faults>>
  BY <1>3, <1>4, <1>5, <1>7, GotoUnread
<1>. QED BY <1>5, <1>6, <1>7

LEMMA GrantOwn ==
  ASSUME TokenInv, AnswerInv, NEW p \in Procs, Grant(p), UNCHANGED wait
  PROVE  OwnLink(p)
<1>. DEFINE c == call[p]
            e == [c EXCEPT !.buf = <<>>]
            d == [c EXCEPT !.blk = 0, !.blocked = FALSE, !.seq = IF Len(c.buf) = 1 THEN 1 ELSE @]
            l == LinkOf[p]
<1>0. CallOK(c) BY Here
<1>1. SequenceModulus \in Nat /\ SequenceModulus > 1 BY IsoTpAssumption
<1>2. CallOK(e) /\ e.op = c.op /\ e.msg = c.msg /\ e.tx = c.tx BY <1>0, CallLike
<1>3. CallOK(d) /\ d.op = c.op /\ d.msg = c.msg /\ d.tx = c.tx /\ d.res = c.res BY <1>0, <1>1 DEF CallOK
<1>4. /\ pc[p] = "grant" /\ (\E f : Accept(l, f)) /\ UNCHANGED <<cursor, seen>>
      /\ \/ Finish(p, "toolarge", e)
         \/ Goto(p, "follow", d) /\ UNCHANGED <<oldest, tokens, retaining, snapshot, busDone, exchange, faults>>
  BY DEF Grant
<1>. HIDE DEF d, e
<1>5. CASE Finish(p, "toolarge", e)
  BY <1>2, <1>4, <1>5, FinishUnread DEF Receiving, Results
<1>6. CASE Goto(p, "follow", d) /\ UNCHANGED <<oldest, tokens, retaining, snapshot, busDone, exchange, faults>>
  BY <1>3, <1>4, <1>6, GotoUnread DEF Receiving
<1>. QED BY <1>4, <1>5, <1>6

LEMMA TransmitFirstOwn ==
  ASSUME TokenInv, AnswerInv, NEW p \in Procs, TransmitFirst(p), UNCHANGED wait
  PROVE  OwnLink(p)
<1>. DEFINE l == LinkOf[p]
<1>. PICK x, c, f : x = exchange[p] /\ c = call[p] /\ f = FirstFrameOf(c.msg) OBVIOUS
<1>. PICK d : d = [c EXCEPT !.off = 1, !.tx = Len(log[l]) + 1] OBVIOUS
<1>0. /\ l \in Links /\ PositionsOK /\ ProcOK(p) /\ PlaceOK(x, pc[p], c) /\ StandOK(l, x, pc[p], c) /\ FramesOK
      /\ CallOK(c)
  BY Here
<1>1. pc[p] = "transmit" /\ Accept(l, f) /\ UNCHANGED <<cursor, seen>> BY DEF TransmitFirst
<1>2. c.op \in {"send", "begin"} BY <1>0, <1>1 DEF PlaceOK, Transmitting
<1>3. CASE ~(c.op = "begin" \/ MultiFrame(c.msg))
  <2>1. Finish(p, "ok", c) BY <1>3 DEF TransmitFirst
  <2>. QED BY <1>0, <1>1, <1>3, <2>1, FinishUnread DEF Transmitting, Results
<1>4. CASE c.op = "begin" \/ MultiFrame(c.msg)
  <2>1. Goto(p, "locate", d) /\ UNCHANGED <<oldest, tokens, retaining, snapshot, busDone, exchange, faults>>
    BY <1>4 DEF TransmitFirst
  <2>2. PositionsOK' /\ Within(p) /\ Grown(l) BY <1>0, <1>1, <2>1, LinkRests DEF PositionsOK
  <2>3. /\ Len(log'[l]) = Len(log[l]) + 1 /\ log'[l][Len(log[l]) + 1].dir = "tx" /\ Len(log[l]) \in Nat
        /\ \A i \in 1..Len(log[l]) : log'[l][i] = log[l][i]
    <3>1. Len(log'[l]) = Len(log[l]) + 1 /\ log'[l][Len(log[l]) + 1] = [dir |-> "tx", frame |-> f]
      BY <1>0, <1>1, CaptureSent
    <3>. QED BY <2>2, <3>1 DEF Grown
  <2>4. CallOK(d) /\ d.op = c.op /\ d.msg = c.msg /\ d.res = c.res /\ d.tx = Len(log[l]) + 1
    BY <1>0, <2>3 DEF CallOK
  <2>5. Owns(x, "transmit", c) BY <1>2, <1>4 DEF Owns, Transmitting
  <2>6. /\ retaining[l] /\ (faults.clears = 0 => oldest[l] =< cursor[l] /\ snapshot[l] =< cursor[l])
        /\ (\A i \in Later(l) : log[l][i].dir # "tx") /\ \A i \in seen[l] : i =< cursor[l]
    BY <1>0, <1>1, <2>5 DEF StandOK
  <2>7. cursor[l] \in 0 .. Len(log[l]) BY <1>0 DEF PositionsOK
  <2>8. d.tx \in Later(l)' BY <1>1, <2>3, <2>4, <2>7 DEF Later
  <2>9. ASSUME NEW i \in Later(l)' PROVE log'[l][i].dir = "tx" <=> i = d.tx
    <3>1. i \in 1 .. Len(log[l]) + 1 /\ i > cursor[l] BY <1>1, <2>3 DEF Later
    <3>2. CASE i = Len(log[l]) + 1 BY <2>3, <2>4, <3>2
    <3>3. CASE i \in 1 .. Len(log[l]) BY <2>3, <2>4, <2>6, <3>1, <3>3 DEF Later
    <3>. QED BY <2>3, <3>1, <3>2, <3>3
  <2>10. StandOK(l, x, "locate", d)'
    <3>1. ~Located(x, "locate", d) BY DEF Located
    <3>. QED BY <1>1, <2>1, <2>6, <2>8, <2>9, <3>1 DEF StandOK
  <2>11. ~Located(x, "locate", d) /\ Aimed("locate", d) BY <1>4, <2>4 DEF Located, Aimed
  <2>12. ProcOK(p)' BY <2>1, <2>4, <2>10, <2>11, GotoOwn
  <2>. QED BY <2>2, <2>12 DEF OwnLink
<1>. QED BY <1>3, <1>4

\* SentCursor finds the request, or it has been cleared away.
LEMMA SentCursorFinds ==
  ASSUME PositionsOK, NEW l \in Links, NEW x, NEW c, StandOK(l, x, "locate", c), Owns(x, "locate", c), CallOK(c), FramesOK
  PROVE  /\ SentCursor(l) \in {0, c.tx} /\ c.tx \in 1 .. Len(log[l]) /\ log[l][c.tx].dir = "tx" /\ c.tx > cursor[l]
         /\ SentCursor(l) = 0 => faults.clears > 0
<1>. DEFINE R == Retained(l, "tx")
<1>1. /\ c.tx \in Later(l) /\ \A i \in Later(l) : log[l][i].dir = "tx" <=> i = c.tx BY DEF StandOK
<1>2. c.tx \in 1 .. Len(log[l]) /\ log[l][c.tx].dir = "tx" /\ c.tx > cursor[l] BY <1>1 DEF Later
<1>3. R \subseteq {c.tx} BY <1>1 DEF Retained, Later
<1>4. c.tx > oldest[l] => c.tx \in R BY <1>2 DEF Retained
<1>5. faults.clears = 0 => ValidCursor(l) /\ c.tx \in R
  <2>1. /\ oldest[l] \in Int /\ cursor[l] \in Int /\ c.tx \in Int BY <1>2 DEF PositionsOK, CallOK
  <2>2. faults.clears = 0 => oldest[l] =< cursor[l] BY DEF StandOK
  <2>. QED BY <1>2, <1>4, <2>1, <2>2 DEF ValidCursor
<1>. HIDE DEF R
<1>6. R # {} => Min(R) = c.tx
  <2>1. R # {} => R = {c.tx} /\ c.tx \in Nat BY <1>3 DEF CallOK
  <2>. QED BY <2>1, MinIsLeast
<1>7. SentCursor(l) = IF ValidCursor(l) /\ R # {} THEN Min(R) ELSE 0 BY DEF SentCursor, R
<1>8. faults.clears \in Nat BY DEF PositionsOK
<1>. QED BY <1>2, <1>5, <1>6, <1>7, <1>8 DEF CallOK

LEMMA LocateSentOwn ==
  ASSUME TokenInv, AnswerInv, NEW p \in Procs, LocateSent(p), UNCHANGED wait
  PROVE  OwnLink(p)
<1>. DEFINE l == LinkOf[p]
<1>. PICK x, c, n, d, S : /\ x = exchange[p] /\ c = call[p] /\ n = SentCursor(l) /\ d = [c EXCEPT !.seq = 1]
                          /\ S = seen[l]
  OBVIOUS
<1>0. /\ l \in Links /\ PositionsOK /\ ProcOK(p) /\ PlaceOK(x, pc[p], c) /\ StandOK(l, x, pc[p], c) /\ FramesOK
      /\ CallOK(c) /\ SequenceModulus \in Nat /\ SequenceModulus > 1
  BY Here, IsoTpAssumption
<1>1. /\ pc[p] = "locate" /\ cursor' = [cursor EXCEPT ![l] = n] /\ UNCHANGED <<log, wire, seen>>
      /\ \/ n = 0 /\ Finish(p, "range", c)
         \/ /\ n # 0 /\ MultiFrame(c.msg) /\ Goto(p, "flow", d)
            /\ UNCHANGED <<oldest, tokens, retaining, snapshot, busDone, exchange, faults>>
         \/ n # 0 /\ ~MultiFrame(c.msg) /\ Finish(p, "ok", c)
  BY DEF LocateSent
<1>2. c.op \in {"send", "begin"} /\ x = "none" /\ Owns(x, "locate", c)
  BY <1>0, <1>1 DEF PlaceOK, Transmitting, Receiving, ProcOK, Aimed, Owns
<1>3. /\ n \in {0, c.tx} /\ c.tx \in 1 .. Len(log[l]) /\ log[l][c.tx].dir = "tx" /\ c.tx > cursor[l]
      /\ n = 0 => faults.clears > 0
  BY <1>0, <1>1, <1>2, SentCursorFinds
<1>4. /\ seen' = [seen EXCEPT ![l] = S] /\ S \subseteq 1 .. Len(log[l]) /\ n \in 0 .. Len(log'[l])
  BY <1>0, <1>1, <1>3 DEF PositionsOK
<1>5. Holds(p, "receiving") BY <1>1, <1>2, OwnersHold
<1>6. CallOK(d) /\ d.op = c.op /\ d.msg = c.msg /\ d.tx = c.tx /\ d.res = c.res BY <1>0 DEF CallOK
<1>7. /\ retaining[l] /\ (\A i \in S : i =< cursor[l]) /\ (faults.clears = 0 => oldest[l] =< cursor[l] /\ snapshot[l] =< cursor[l])
      /\ oldest[l] \in Int /\ snapshot[l] \in Int /\ cursor[l] \in Int
  BY <1>0, <1>1, <1>2 DEF StandOK, PositionsOK
<1>8. \A y, e : e.tx = c.tx /\ n # 0 /\ cursor'[l] = n => Followed(l, y, e)' BY <1>1, <1>3 DEF Followed
<1>9. \A e : e.tx = c.tx /\ seen'[l] = S => Unanswered(l, e)' BY <1>3, <1>4, <1>7 DEF Unanswered
<1>10. ASSUME NEW res \in {"range", "ok"}, Finish(p, res, c), res = "range" <=> n = 0 PROVE OwnLink(p)
  <2>1. /\ PositionsOK' /\ Within(p) /\ cursor'[l] = n /\ seen'[l] = S /\ faults'.clears = faults.clears
        /\ retaining'[l] = (retaining[l] /\ "receiving" \notin Released(c, res))
    <3>1. Reads(p, n, S) BY <1>1, <1>4, <1>5 DEF Reads, Recorded
    <3>2. pc[p] \in Transmitting \union Receiving BY <1>1 DEF Transmitting
    <3>3. seen'[l] = S BY <1>0, <1>4 DEF PositionsOK
    <3>4. /\ PositionsOK' /\ Within(p) /\ cursor'[l] = n /\ faults'.clears = faults.clears
          /\ retaining'[l] = (retaining[l] /\ "receiving" \notin Released(c, res))
      BY <1>10, <3>1, <3>2, FinishMoves
    <3>. QED BY <3>3, <3>4
  <2>2. [c EXCEPT !.res = res].tx = c.tx BY <1>0 DEF CallOK
  <2>3. cursor'[l] >= cursor[l] \/ faults.clears > 0 BY <1>3, <1>7, <2>1
  <2>4. ProcOK(p)'
    BY <1>0, <1>1, <1>2, <1>3, <1>8, <1>9, <1>10, <2>1, <2>2, <2>3, FinishOwn DEF Transmitting, Results
  <2>. QED BY <2>1, <2>4 DEF OwnLink
<1>11. CASE /\ n # 0 /\ MultiFrame(c.msg) /\ Goto(p, "flow", d)
            /\ UNCHANGED <<oldest, tokens, retaining, snapshot, busDone, exchange, faults>>
  <2>1. /\ retaining' = [retaining EXCEPT ![l] = retaining[l]] /\ retaining[l] \in BOOLEAN
        /\ "clears" \in DOMAIN faults
    BY <1>0, <1>11 DEF PositionsOK
  <2>2. PositionsOK' /\ Within(p) /\ cursor'[l] = n /\ seen'[l] = S
    <3>1. LinkMove(p, n, S, retaining[l]) BY <1>1, <1>4, <1>5, <1>11, <2>1 DEF LinkMove, Recorded
    <3>. QED BY <3>1, LinkMoves
  <2>3. Followed(l, "flow", d)' /\ Unanswered(l, d)' BY <1>6, <1>8, <1>9, <1>11, <2>2
  <2>4. StandOK(l, x, "flow", d)'
    <3>1. faults'.clears = 0 => oldest'[l] =< cursor'[l] /\ snapshot'[l] =< cursor'[l]
      BY <1>3, <1>7, <1>11, <2>2
    <3>. QED BY <1>7, <1>11, <2>3, <3>1 DEF StandOK
  <2>5. Aimed("flow", d) BY <1>6, <1>11 DEF Aimed
  <2>6. ProcOK(p)' BY <1>1, <1>6, <1>11, <2>3, <2>4, <2>5, GotoOwn
  <2>. QED BY <2>2, <2>6 DEF OwnLink
<1>. QED BY <1>1, <1>10, <1>11

\* A mark on a call that stays where it is.
LEMMA NotedOwn ==
  ASSUME TokenInv, AnswerInv, NEW p \in Procs, NEW d, call' = [call EXCEPT ![p] = d],
         CallOK(d), d.op = call[p].op, d.msg = call[p].msg, d.tx = call[p].tx, d.res = call[p].res,
         UNCHANGED <<pc, wait, log, cursor, seen, oldest, retaining, snapshot, busDone, exchange>>,
         "clears" \in DOMAIN faults', faults'.clears = faults.clears
  PROVE  OwnLink(p)
<1>. DEFINE l == LinkOf[p]
<1>. PICK x, c, at : x = exchange[p] /\ c = call[p] /\ at = pc[p] OBVIOUS
<1>0. /\ l \in Links /\ PositionsOK /\ ProcOK(p) /\ StandOK(l, x, at, c) /\ FramesOK /\ CallOK(c) /\ Typed
  BY Here
<1>1. PositionsOK' /\ Within(p) /\ Grown(l) /\ SamePosition(l) BY <1>0, LinkRests
<1>2. Untransmitted(l) BY <1>0, CaptureSame
<1>3. call'[p] = d /\ pc'[p] = at /\ exchange'[p] = x BY <1>0 DEF Typed
<1>4. StandOK(l, x, at, c)' BY <1>0, <1>1, <1>2, StandKept
<1>5. StandOK(l, x, at, d)' BY <1>4 DEF StandOK, Owns, Located, Followed
<1>6. Unanswered(l, c) => Unanswered(l, d)' BY <1>0, <1>1, UnansweredKept
<1>7. Located(x, at, d) <=> Located(x, at, c) BY DEF Located, Owns
<1>8. Aimed(at, d) BY <1>0 DEF ProcOK, Aimed
<1>9. d.res = "firsttimeout" => d.op \in {"receive", "next"} BY <1>0 DEF ProcOK
<1>10. p \in Clients => ClientOK(l, x, at, c, wait[p]) BY <1>0 DEF ProcOK
<1>11. /\ p \in Clients /\ d.op = "begin" /\ Located(x, at, d) => Unanswered(l, d)'
       /\ p \in Clients /\ d.op = "next" /\ (at = "first" \/ (at = "returned" /\ d.res = "firsttimeout"))
           /\ wait[p].timer = "P2" => Unanswered(l, d)'
  BY <1>6, <1>7, <1>10 DEF ClientOK
<1>12. ProcOK(p)' BY <1>0, <1>3, <1>5, <1>8, <1>9, <1>11, OwnStep
<1>. QED BY <1>1, <1>12 DEF OwnLink

LEMMA NextFrameBlocksOwn ==
  ASSUME TokenInv, AnswerInv, NEW p \in Procs, NextFrameBlocks(p), UNCHANGED wait
  PROVE  OwnLink(p)
<1>. DEFINE c == call[p]
            d == [c EXCEPT !.blocked = TRUE]
<1>0. CallOK(c) /\ PositionsOK BY Here
<1>1. CallOK(d) /\ d.op = c.op /\ d.msg = c.msg /\ d.tx = c.tx /\ d.res = c.res BY <1>0 DEF CallOK
<1>2. /\ call' = [call EXCEPT ![p] = d]
      /\ UNCHANGED <<pc, log, cursor, seen, oldest, retaining, snapshot, busDone, exchange, faults>>
  BY DEF NextFrameBlocks
<1>. HIDE DEF d
<1>3. "clears" \in DOMAIN faults' /\ faults'.clears = faults.clears BY <1>0, <1>2 DEF PositionsOK
<1>. QED BY <1>1, <1>2, <1>3, NotedOwn

LEMMA CancelContextOwn ==
  ASSUME TokenInv, AnswerInv, NEW p \in Procs, CancelContext(p), UNCHANGED wait
  PROVE  OwnLink(p)
<1>. DEFINE c == call[p]
            d == [c EXCEPT !.ctx = TRUE]
<1>0. CallOK(c) /\ PositionsOK BY Here
<1>1. CallOK(d) /\ d.op = c.op /\ d.msg = c.msg /\ d.tx = c.tx /\ d.res = c.res BY <1>0 DEF CallOK
<1>2. /\ call' = [call EXCEPT ![p] = d] /\ faults' = [faults EXCEPT !.cancels = @ + 1]
      /\ UNCHANGED <<pc, log, cursor, seen, oldest, retaining, snapshot, busDone, exchange>>
  BY DEF CancelContext
<1>. HIDE DEF d
<1>3. "clears" \in DOMAIN faults' /\ faults'.clears = faults.clears BY <1>0, <1>2 DEF PositionsOK
<1>. QED BY <1>1, <1>2, <1>3, NotedOwn

LEMMA NextFrameOutOfRangeOwn ==
  ASSUME TokenInv, AnswerInv, NEW p \in Procs, NextFrameOutOfRange(p), UNCHANGED wait
  PROVE  OwnLink(p)
<1>. DEFINE l == LinkOf[p]
<1>. PICK c, x : c = [call[p] EXCEPT !.buf = <<>>] /\ x = exchange[p] OBVIOUS
<1>. DEFINE d == [c EXCEPT !.res = "range"]
<1>0. /\ l \in Links /\ PositionsOK /\ ProcOK(p) /\ PlaceOK(x, pc[p], call[p]) /\ StandOK(l, x, pc[p], call[p])
      /\ CallOK(call[p]) /\ FramesOK
  BY Here
<1>1. /\ pc[p] \in {"flow", "first", "follow"} /\ ~ValidCursor(l) /\ cursor' = [cursor EXCEPT ![l] = 0]
      /\ Finish(p, "range", c) /\ UNCHANGED <<log, wire, seen>>
  BY DEF NextFrameOutOfRange, Reading
<1>2. CallOK(c) /\ c.op = call[p].op /\ c.msg = call[p].msg /\ c.tx = call[p].tx BY <1>0, CallLike
<1>3. CallOK(d) /\ d.op = c.op /\ d.tx = c.tx /\ d.res = "range" BY <1>2 DEF CallOK, Results
<1>4. pc[p] \in Transmitting \union Receiving BY <1>1 DEF Transmitting, Receiving
<1>5. c.op = "receive" \/ Owns(x, pc[p], call[p])
  BY <1>0, <1>1, <1>2 DEF PlaceOK, Owns, ProcOK, Aimed, Transmitting, Receiving
<1>6. c.op # "receive" => faults.clears > 0
  <2>. SUFFICES ASSUME c.op # "receive", faults.clears = 0 PROVE FALSE BY <1>0 DEF PositionsOK
  <2>1. oldest[l] =< cursor[l] BY <1>0, <1>5 DEF StandOK
  <2>. QED BY <1>0, <1>1, <2>1 DEF ValidCursor, PositionsOK
<1>7. Holds(p, "receiving")
  BY <1>0, <1>1 DEF PlaceOK, Holds, ProcOK, Aimed, Transmitting, Receiving
<1>8. /\ seen' = [seen EXCEPT ![l] = seen[l]] /\ seen[l] \subseteq 1 .. Len(log[l]) /\ 0 \in 0 .. Len(log'[l])
  BY <1>0, <1>1 DEF PositionsOK
<1>9. /\ PositionsOK' /\ Within(p) /\ cursor'[l] = 0 /\ seen'[l] = seen[l] /\ faults'.clears = faults.clears
      /\ retaining'[l] = (retaining[l] /\ "receiving" \notin Released(c, "range"))
  <2>1. Reads(p, 0, seen[l]) BY <1>1, <1>7, <1>8 DEF Reads, Recorded
  <2>2. seen'[l] = seen[l] BY <1>1
  <2>3. PositionsOK' /\ Within(p) BY <1>1, <1>2, <1>4, <2>1, FinishMoves
  <2>4. cursor'[l] = 0 /\ faults'.clears = faults.clears BY <1>1, <1>2, <1>4, <2>1, FinishMoves
  <2>5. retaining'[l] = (retaining[l] /\ "receiving" \notin Released(c, "range"))
    BY <1>1, <1>2, <1>4, <2>1, FinishMoves, ZenonT(40)
  <2>. QED BY <2>2, <2>3, <2>4, <2>5
<1>10. c.op = "next" => Followed(l, "returned", d)' 
  <2>1. d.tx = c.tx /\ d.op = c.op /\ d.res = "range" BY <1>3
  <2>2. c.op = "next" => c.tx \in Nat \ {0}
    <3>1. c.op = "next" => Located(x, pc[p], call[p]) BY <1>1, <1>2, <1>5 DEF Located
    <3>2. c.op = "next" => Followed(l, pc[p], call[p]) BY <1>0, <3>1 DEF StandOK, Located
    <3>3. c.tx \in Nat BY <1>2 DEF CallOK
    <3>. QED BY <1>1, <1>2, <3>2, <3>3 DEF Followed
  <2>. HIDE DEF d
  <2>. QED BY <1>9, <2>1, <2>2 DEF Followed
<1>11. Owns(x, pc[p], call[p]) => faults.clears > 0
  <2>1. Owns(x, pc[p], call[p]) => c.op # "receive" BY <1>0, <1>1, <1>2 DEF Owns, PlaceOK, Receiving
  <2>. QED BY <1>6, <2>1
<1>12. ProcOK(p)'
  <2>1. "range" \in Results BY DEF Results
  <2>2. c.op = call[p].op /\ c.msg = call[p].msg /\ CallOK(c) BY <1>2
  <2>3. c.op # "begin" \/ ~("range" = "ok") OBVIOUS
  <2>. QED BY <1>0, <1>1, <1>4, <1>6, <1>9, <1>10, <1>11, <2>1, <2>2, FinishOwn
<1>. QED BY <1>9, <1>12 DEF OwnLink

\* nextFrame returns the first record received after its position.
LEMMA FrameRead ==
  ASSUME PositionsOK, NEW l \in Links, ValidCursor(l), Retained(l, "rx") # {}
  PROVE  LET i == Min(Retained(l, "rx")) IN
         /\ i \in 1 .. Len(log[l]) /\ i > cursor[l] /\ log[l][i].dir = "rx"
         /\ cursor[l] # 0 => \A j \in 1 .. Len(log[l]) : j > cursor[l] /\ j < i => log[l][j].dir # "rx"
<1>. DEFINE R == Retained(l, "rx")
            i == Min(R)
<1>1. R \subseteq Nat
  BY DEF Retained
<1>2. i \in R /\ \A j \in R : i =< j BY <1>1, MinIsLeast
<1>3. i \in 1 .. Len(log[l]) /\ i > cursor[l] /\ log[l][i].dir = "rx" BY <1>2 DEF Retained
<1>. HIDE DEF i
<1>4. ASSUME cursor[l] # 0, NEW j \in 1 .. Len(log[l]), j > cursor[l], j < i, log[l][j].dir = "rx" PROVE FALSE
  <2>1. oldest[l] \in Int /\ cursor[l] \in Int /\ cursor[l] >= oldest[l] BY <1>4 DEF PositionsOK, ValidCursor
  <2>2. j \in R BY <1>4, <2>1 DEF Retained
  <2>. QED BY <1>2, <1>3, <1>4, <2>2
<1>. QED BY <1>3, <1>4 DEF i

\* p reads frame i of link l.
ReadsFrame(p, l, i) ==
  /\ pc[p] \in {"flow", "first", "follow"} /\ l = LinkOf[p]
  /\ cursor' = [cursor EXCEPT ![l] = i] /\ seen' = [seen EXCEPT ![l] = seen[l] \union {i}] /\ UNCHANGED log
  /\ i \in 1 .. Len(log[l]) /\ i > cursor[l] /\ log[l][i].dir = "rx"
  /\ cursor[l] # 0 => \A j \in 1 .. Len(log[l]) : j > cursor[l] /\ j < i => log[l][j].dir # "rx"

LEMMA FollowedOn ==
  ASSUME PositionsOK, NEW l \in Links, NEW i, NEW p \in Procs, ReadsFrame(p, l, i), NEW c, NEW d, NEW at, d.tx = c.tx,
         Followed(l, pc[p], c)
  PROVE  Followed(l, at, d)'
<1>1. cursor'[l] = i /\ seen'[l] = seen[l] \union {i} /\ i \in Nat /\ cursor[l] \in Nat /\ i =< Len(log[l])
  BY DEF ReadsFrame, PositionsOK
<1>2. c.tx \in 1 .. cursor[l] /\ \A j \in c.tx .. cursor[l] : log[l][j].dir = "rx" => j \in seen[l]
  BY DEF Followed, ReadsFrame
<1>3. c.tx \in 1 .. i BY <1>1, <1>2 DEF ReadsFrame
<1>4. ASSUME NEW j \in c.tx .. i, log[l][j].dir = "rx" PROVE j \in seen[l] \union {i}
  <2>1. CASE j =< cursor[l] BY <1>1, <1>2, <1>4, <2>1
  <2>2. CASE j > cursor[l] /\ j < i
    <3>1. j \in 1 .. Len(log[l]) BY <1>1, <1>2, <2>2
    <3>. QED BY <1>1, <1>2, <1>4, <2>2, <3>1 DEF ReadsFrame
  <2>3. CASE j = i BY <2>3
  <2>. QED BY <1>1, <1>2, <1>4, <2>1, <2>2, <2>3
<1>. QED BY <1>1, <1>3, <1>4 DEF Followed, ReadsFrame

LEMMA ReaderHolds ==
  ASSUME TokenInv, AnswerInv, NEW p \in Procs, pc[p] \in {"flow", "first", "follow"}
  PROVE  /\ Holds(p, "receiving") /\ pc[p] \in Transmitting \union Receiving
         /\ call[p].op = "receive" \/ Owns(exchange[p], pc[p], call[p])
         /\ call[p].op = "begin" => pc[p] = "flow"
         /\ Owns(exchange[p], pc[p], call[p]) => Followed(LinkOf[p], pc[p], call[p])
<1>1. /\ ProcOK(p) /\ PlaceOK(exchange[p], pc[p], call[p]) /\ StandOK(LinkOf[p], exchange[p], pc[p], call[p])
  BY Here
<1>2. Owns(exchange[p], pc[p], call[p]) => Located(exchange[p], pc[p], call[p]) BY DEF Located
<1>. QED BY <1>1, <1>2 DEF PlaceOK, Holds, ProcOK, Aimed, Transmitting, Receiving, Owns, StandOK

LEMMA FinishRead ==
  ASSUME TokenInv, AnswerInv, NEW p \in Procs, NEW l, NEW i, ReadsFrame(p, l, i), NEW c, NEW res, Finish(p, res, c),
         res \in {"protocol", "waitlimit", "overflow", "toolarge", "ok"}, call[p].op = "begin" => res # "ok",
         CallOK(c), c.op = call[p].op, c.msg = call[p].msg, c.tx = call[p].tx, UNCHANGED wait
  PROVE  OwnLink(p)
<1>. DEFINE d == [c EXCEPT !.res = res]
<1>. PICK S : S = seen[l] \union {i} OBVIOUS
<1>0. l \in Links /\ PositionsOK /\ l = LinkOf[p] BY Here DEF ReadsFrame
<1>1. /\ Holds(p, "receiving") /\ pc[p] \in Transmitting \union Receiving
      /\ Owns(exchange[p], pc[p], call[p]) => Followed(l, pc[p], call[p])
  BY <1>0, ReaderHolds DEF ReadsFrame
<1>2. /\ i \in 0 .. Len(log'[l]) /\ S \subseteq 1 .. Len(log[l]) /\ seen' = [seen EXCEPT ![l] = S]
      /\ cursor' = [cursor EXCEPT ![l] = i] /\ i > cursor[l] /\ UNCHANGED log /\ i \in Int /\ cursor[l] \in Int
  BY <1>0 DEF PositionsOK, ReadsFrame
<1>3. d.tx = c.tx BY DEF CallOK
<1>4. /\ PositionsOK' /\ Within(p) /\ cursor'[l] = i /\ faults'.clears = faults.clears
      /\ retaining'[l] = (retaining[l] /\ "receiving" \notin Released(c, res))
  <2>1. Reads(p, i, S) BY <1>0, <1>1, <1>2 DEF Reads, Recorded
  <2>. QED BY <1>0, <1>1, <2>1, FinishMoves
<1>5. Owns(exchange[p], pc[p], call[p]) => Followed(l, "returned", d)'
  BY <1>0, <1>1, <1>3, FollowedOn
<1>6. ProcOK(p)'
  <2>1. cursor'[l] >= cursor[l] BY <1>2, <1>4
  <2>2. res \in Results /\ res \notin {"range", "firsttimeout"} /\ ~(c.op = "begin" /\ res = "ok") BY DEF Results
  <2>. QED BY <1>0, <1>1, <1>4, <1>5, <2>1, <2>2, FinishOwn
<1>. QED BY <1>4, <1>6 DEF OwnLink

LEMMA GotoRead ==
  ASSUME TokenInv, AnswerInv, NEW p \in Procs, NEW l, NEW i, ReadsFrame(p, l, i), NEW at, NEW d, Goto(p, at, d),
         \/ pc[p] = "flow" /\ at \in {"flow", "block"} /\ log[l][i].frame.kind = "flow"
         \/ pc[p] \in {"first", "follow"} /\ at \in {"grant", "follow"},
         CallOK(d), d.op = call[p].op, d.msg = call[p].msg, d.tx = call[p].tx, d.res = call[p].res,
         UNCHANGED <<wait, oldest, retaining, snapshot, busDone, exchange, faults>>
  PROVE  OwnLink(p)
<1>. PICK c, x, S : c = call[p] /\ x = exchange[p] /\ S = seen[l] \union {i} OBVIOUS
<1>0. /\ l \in Links /\ PositionsOK /\ l = LinkOf[p] /\ ProcOK(p) /\ PlaceOK(x, pc[p], c) /\ StandOK(l, x, pc[p], c)
  BY Here DEF ReadsFrame
<1>1. /\ Holds(p, "receiving") /\ pc[p] \in Transmitting \union Receiving /\ (c.op = "begin" => pc[p] = "flow")
      /\ Owns(x, pc[p], c) => Followed(l, pc[p], c)
  BY <1>0, ReaderHolds DEF ReadsFrame
<1>2. /\ i \in 0 .. Len(log'[l]) /\ S \subseteq 1 .. Len(log[l]) /\ seen' = [seen EXCEPT ![l] = S]
      /\ cursor' = [cursor EXCEPT ![l] = i] /\ i > cursor[l] /\ UNCHANGED log /\ i \in Int /\ cursor[l] \in Int
      /\ retaining' = [retaining EXCEPT ![l] = retaining[l]] /\ retaining[l] \in BOOLEAN /\ "clears" \in DOMAIN faults
      /\ oldest[l] \in Int /\ snapshot[l] \in Int
  BY <1>0 DEF PositionsOK, ReadsFrame
<1>3. PositionsOK' /\ Within(p) /\ cursor'[l] = i /\ seen'[l] = S
  <2>1. LinkMove(p, i, S, retaining[l]) BY <1>0, <1>1, <1>2 DEF LinkMove, Recorded
  <2>2. seen'[l] = S BY <1>0, <1>2 DEF PositionsOK
  <2>. QED BY <1>0, <2>1, <2>2, LinkMoves
<1>4. Owns(x, at, d) => Owns(x, pc[p], c)
  BY <1>0 DEF Owns, Transmitting, Receiving
<1>5. StandOK(l, x, at, d)'
  <2>. SUFFICES ASSUME Owns(x, at, d) PROVE StandOK(l, x, at, d)' BY DEF StandOK, Owns
  <2>1. retaining[l] /\ (faults.clears = 0 => oldest[l] =< cursor[l] /\ snapshot[l] =< cursor[l])
    BY <1>0, <1>4 DEF StandOK
  <2>2. retaining'[l] /\ (faults'.clears = 0 => oldest'[l] =< cursor'[l] /\ snapshot'[l] =< cursor'[l])
    BY <1>2, <1>3, <2>1
  <2>3. Followed(l, at, d)' BY <1>0, <1>1, <1>4, FollowedOn
  <2>4. at \notin {"transmit", "locate"} OBVIOUS
  <2>. QED BY <2>2, <2>3, <2>4 DEF StandOK
<1>6. ASSUME p \in Clients, d.op = "begin", Located(x, at, d) PROVE Unanswered(l, d)'
  <2>1. Located(x, pc[p], c) BY <1>1, <1>4, <1>6 DEF Located
  <2>2. Unanswered(l, c) BY <1>0, <1>6, <2>1 DEF ProcOK, ClientOK
  <2>3. log[l][i].frame.kind = "flow" BY <1>1, <1>6
  <2>. QED BY <1>2, <1>3, <2>2, <2>3 DEF Unanswered
<1>7. Aimed(at, d)
  BY <1>0 DEF Aimed, ProcOK
<1>8. ProcOK(p)' BY <1>0, <1>5, <1>6, <1>7, GotoOwn
<1>. QED BY <1>3, <1>8 DEF OwnLink

LEMMA OnFlowControlOwn ==
  ASSUME TokenInv, AnswerInv, NEW p \in Procs, NEW l, NEW i, ReadsFrame(p, l, i), pc[p] = "flow",
         NEW f, f = log[l][i].frame, Sound(f), OnFlowControl(p, f), UNCHANGED wait
  PROVE  OwnLink(p)
<1>. DEFINE c == call[p]
            d1 == [c EXCEPT !.blk = 0, !.bs = f.bs, !.blocked = FALSE]
            d2 == [c EXCEPT !.waits = @ + 1, !.blocked = FALSE]
<1>0. CallOK(c) BY Here
<1>1. CallOK(d1) /\ d1.op = c.op /\ d1.msg = c.msg /\ d1.tx = c.tx /\ d1.res = c.res BY <1>0 DEF CallOK
<1>2. CallOK(d2) /\ d2.op = c.op /\ d2.msg = c.msg /\ d2.tx = c.tx /\ d2.res = c.res BY <1>0 DEF CallOK
<1>3. \/ \E res \in {"protocol", "waitlimit", "overflow"} : Finish(p, res, c)
      \/ /\ f.kind = "flow" /\ (Goto(p, "block", d1) \/ Goto(p, "flow", d2))
         /\ UNCHANGED <<oldest, tokens, retaining, snapshot, busDone, exchange, faults>>
  <2>1. CASE f.kind # "flow" BY <2>1 DEF OnFlowControl
  <2>2. CASE f.kind = "flow"
    <3>1. f.status \in {"continue", "wait", "overflow"} BY <2>2 DEF Sound
    <3>2. CASE f.status = "continue" BY <2>2, <3>2 DEF OnFlowControl
    <3>3. CASE f.status = "overflow" BY <2>2, <3>3 DEF OnFlowControl
    <3>4. CASE f.status = "wait"
      <4>0. c.waits + 1 > WaitFrameLimit <=> ~(c.waits + 1 =< WaitFrameLimit)
        <5>1. Shaped(c) /\ WaitFrameLimit \in Nat BY CallShaped, IsoTpAssumption
        <5>. QED BY <5>1 DEF Shaped
      <4>1. CASE c.waits + 1 =< WaitFrameLimit BY <2>2, <3>4, <4>1 DEF OnFlowControl
      <4>2. CASE ~(c.waits + 1 =< WaitFrameLimit) BY <2>2, <3>4, <4>0, <4>2 DEF OnFlowControl
      <4>. QED BY <4>1, <4>2
    <3>. QED BY <3>1, <3>2, <3>3, <3>4
  <2>. QED BY <2>1, <2>2
<1>. HIDE DEF d1, d2
<1>4. CASE \E res \in {"protocol", "waitlimit", "overflow"} : Finish(p, res, c)
  <2>1. PICK res \in {"protocol", "waitlimit", "overflow"} : Finish(p, res, c) BY <1>4
  <2>. QED BY <1>0, <2>1, FinishRead
<1>5. CASE /\ f.kind = "flow" /\ (Goto(p, "block", d1) \/ Goto(p, "flow", d2))
           /\ UNCHANGED <<oldest, tokens, retaining, snapshot, busDone, exchange, faults>>
  <2>1. CASE Goto(p, "block", d1) BY <1>1, <1>5, <2>1, GotoRead
  <2>2. CASE Goto(p, "flow", d2) BY <1>2, <1>5, <2>2, GotoRead
  <2>. QED BY <1>5, <2>1, <2>2
<1>. QED BY <1>3, <1>4, <1>5

LEMMA OnFirstOwn ==
  ASSUME TokenInv, AnswerInv, NEW p \in Procs, NEW l, NEW i, ReadsFrame(p, l, i), pc[p] = "first",
         NEW f, OnFirst(p, f), UNCHANGED wait
  PROVE  OwnLink(p)
<1>. DEFINE c == call[p]
            d1 == [c EXCEPT !.buf = <<f.data>>]
            d2 == [c EXCEPT !.first = f, !.buf = <<f.data>>]
<1>0. CallOK(c) /\ c.op # "begin" BY Here, ReaderHolds
<1>1. CallOK(d1) /\ d1.op = c.op /\ d1.msg = c.msg /\ d1.tx = c.tx /\ d1.res = c.res BY <1>0 DEF CallOK
<1>2. CallOK(d2) /\ d2.op = c.op /\ d2.msg = c.msg /\ d2.tx = c.tx /\ d2.res = c.res BY <1>0 DEF CallOK
<1>3. \/ Finish(p, "toolarge", c) \/ Finish(p, "protocol", c) \/ Finish(p, "ok", d1)
      \/ Goto(p, "grant", d2) /\ UNCHANGED <<oldest, tokens, retaining, snapshot, busDone, exchange, faults>>
  <2>1. CASE f.kind = "single" BY <2>1 DEF OnFirst
  <2>2. CASE f.kind = "first" BY <2>2 DEF OnFirst
  <2>3. CASE f.kind \notin {"single", "first"} BY <2>3 DEF OnFirst
  <2>. QED BY <2>1, <2>2, <2>3
<1>. HIDE DEF d1, d2
<1>4. CASE Finish(p, "toolarge", c) \/ Finish(p, "protocol", c)
  <2>1. PICK res \in {"protocol", "toolarge"} : Finish(p, res, c) BY <1>4
  <2>. QED BY <1>0, <2>1, FinishRead
<1>5. CASE Finish(p, "ok", d1) BY <1>0, <1>1, <1>5, FinishRead
<1>6. CASE Goto(p, "grant", d2) /\ UNCHANGED <<oldest, tokens, retaining, snapshot, busDone, exchange, faults>>
  BY <1>2, <1>6, GotoRead
<1>. QED BY <1>3, <1>4, <1>5, <1>6

LEMMA OnConsecutiveOwn ==
  ASSUME TokenInv, AnswerInv, NEW p \in Procs, NEW l, NEW i, ReadsFrame(p, l, i), pc[p] = "follow",
         NEW f, OnConsecutive(p, f), UNCHANGED wait
  PROVE  OwnLink(p)
<1>. DEFINE c == call[p]
            e == [c EXCEPT !.buf = <<>>]
            next == [c EXCEPT !.buf = Append(@, f.data), !.seq = (@ + 1) % SequenceModulus,
                              !.blk = @ + 1, !.blocked = FALSE]
<1>0. CallOK(c) /\ c.op # "begin" BY Here, ReaderHolds
<1>1. CallOK(e) /\ e.op = c.op /\ e.msg = c.msg /\ e.tx = c.tx BY <1>0, CallLike
<1>2. (c.seq + 1) % SequenceModulus \in 0 .. SequenceModulus - 1
  <2>1. SequenceModulus \in Nat /\ SequenceModulus > 1 BY IsoTpAssumption
  <2>. QED BY <1>0, <2>1 DEF CallOK
<1>3. CallOK(next) /\ next.op = c.op /\ next.msg = c.msg /\ next.tx = c.tx /\ next.res = c.res
  BY <1>0, <1>2 DEF CallOK
<1>4. \/ Finish(p, "protocol", e) \/ Finish(p, "ok", next)
      \/ /\ Goto(p, "grant", next) \/ Goto(p, "follow", next)
         /\ UNCHANGED <<oldest, tokens, retaining, snapshot, busDone, exchange, faults>>
  BY DEF OnConsecutive
<1>. HIDE DEF e, next
<1>5. CASE Finish(p, "protocol", e) BY <1>0, <1>1, <1>5, FinishRead
<1>6. CASE Finish(p, "ok", next) BY <1>0, <1>3, <1>6, FinishRead
<1>7. CASE /\ Goto(p, "grant", next) \/ Goto(p, "follow", next)
           /\ UNCHANGED <<oldest, tokens, retaining, snapshot, busDone, exchange, faults>>
  BY <1>3, <1>7, GotoRead
<1>. QED BY <1>4, <1>5, <1>6, <1>7

LEMMA NextFrameOwn ==
  ASSUME TokenInv, AnswerInv, NEW p \in Procs, NextFrame(p), UNCHANGED wait
  PROVE  OwnLink(p)
<1>. DEFINE l == LinkOf[p]
            i == Min(Retained(l, "rx"))
            f == log[l][i].frame
<1>0. l \in Links /\ PositionsOK /\ FramesOK BY Here
<1>1. /\ pc[p] \in {"flow", "first", "follow"} /\ ValidCursor(l) /\ Retained(l, "rx") # {}
      /\ cursor' = [cursor EXCEPT ![l] = i] /\ seen' = [seen EXCEPT ![l] = seen[l] \union {i}] /\ UNCHANGED log
  BY <1>0 DEF NextFrame, Reading, PositionsOK
<1>2. ReadsFrame(p, l, i) BY <1>0, <1>1, FrameRead DEF ReadsFrame
<1>3. Sound(f) BY <1>0, <1>1, NextIsSound
<1>4. /\ pc[p] = "flow" => OnFlowControl(p, f)
      /\ pc[p] = "first" => OnFirst(p, f)
      /\ pc[p] = "follow" => OnConsecutive(p, f)
  BY DEF NextFrame
<1>5. f = log[l][i].frame OBVIOUS
<1>. HIDE DEF i, f
<1>6. CASE pc[p] = "flow" BY <1>2, <1>3, <1>4, <1>5, <1>6, OnFlowControlOwn
<1>7. CASE pc[p] = "first" BY <1>2, <1>4, <1>7, OnFirstOwn
<1>8. CASE pc[p] = "follow" BY <1>2, <1>4, <1>8, OnConsecutiveOwn
<1>. QED BY <1>1, <1>6, <1>7, <1>8

LEMMA LinkStepOwn ==
  ASSUME TokenInv, AnswerInv, NEW p \in Procs, LinkStep(p), UNCHANGED wait
  PROVE  OwnLink(p)
BY AcquireSendingOwn, AcquireReceivingOwn, AcquireFailsOwn, SendFailsOwn, TransmitFirstOwn, LocateSentOwn,
   TransmitConsecutiveOwn, GrantOwn, NextFrameOwn, NextFrameOutOfRangeOwn, NextFrameBlocksOwn, NextFrameEndsOwn
   DEF LinkStep

-----------------------------------------------------------------------------
(* Calls are entered and left.                                             *)

\* A client whose call is about no request.
LEMMA FreshOwn ==
  ASSUME NEW p \in Procs, NEW d, NEW at, pc'[p] = at, call'[p] = d, exchange'[p] = "none",
         CallOK(d), Aimed(at, d), d.res \notin {"range", "firsttimeout"}, d.op # "next", at \notin Transmitting,
         p \in Clients => /\ d.op \in {"none", "begin"} /\ wait'[p].timer \in {"P2", "P2*"}
                          /\ {"service", "timer", "recovering"} \subseteq DOMAIN wait'[p],
         p \in Servers => d.op \in {"none", "send", "receive"}
  PROVE  ProcOK(p)'
<1>1. ~Owns("none", at, d) /\ ~Located("none", at, d) BY DEF Owns, Located
<1>2. StandOK(LinkOf[p], exchange[p], pc[p], call[p])' BY <1>1 DEF StandOK, Owns
<1>3. p \in Clients => ClientOK(LinkOf[p], exchange[p], pc[p], call[p], wait[p])'
  BY <1>1 DEF ClientOK, Owns, Located
<1>4. CallOK(call[p])' /\ Aimed(pc[p], call[p])' BY DEF CallOK, Aimed
<1>. QED BY <1>2, <1>3, <1>4 DEF ProcOK

LEMMA IdleCallOK == CallOK(IdleCall) /\ IdleCall.op = "none" /\ IdleCall.res = "none"
<1>1. SequenceModulus \in Nat /\ SequenceModulus > 1 BY IsoTpAssumption
<1>. QED BY <1>1 DEF CallOK, IdleCall, Results

LEMMA CallOwn ==
  ASSUME TokenInv, AnswerInv, NEW p \in Procs, NEW op \in {"send", "begin", "receive", "reset"}, NEW m, Call(p, op, m),
         p \in Clients => /\ op = "begin" /\ wait'[p].timer \in {"P2", "P2*"}
                          /\ {"service", "timer", "recovering"} \subseteq DOMAIN wait'[p],
         p \in Servers => op \in {"send", "receive"}
  PROVE  OwnLink(p)
<1>. DEFINE c == [IdleCall EXCEPT !.op = op, !.msg = m]
            e == [c EXCEPT !.res = "toolarge"]
<1>0. PositionsOK /\ Typed BY Here
<1>1. /\ pc[p] = "idle" /\ exchange[p] = "none"
      /\ UNCHANGED <<log, oldest, wire, tokens, cursor, retaining, snapshot, busDone, exchange, seen, faults>>
      /\ Goto(p, "returned", e) \/ \E at \in {"sending", "receiving"} : Goto(p, at, c)
  BY DEF Call
<1>2. SequenceModulus \in Nat /\ SequenceModulus > 1 BY IsoTpAssumption
<1>3. CallOK(c) /\ c.op = op /\ c.res = "none" BY <1>2 DEF CallOK, IdleCall, Results
<1>. HIDE DEF c
<1>4. CallOK(e) /\ e.op = op /\ e.res = "toolarge" BY <1>3 DEF CallOK, Results
<1>. HIDE DEF e
<1>5. PICK at, d : /\ at \in {"returned", "sending", "receiving"} /\ d \in {c, e} /\ Goto(p, at, d)
  BY <1>1
<1>6. pc'[p] = at /\ call'[p] = d /\ exchange'[p] = "none" BY <1>0, <1>1, <1>5 DEF Goto, Typed
<1>7. Aimed(at, d) /\ at \notin Transmitting BY <1>5 DEF Aimed, Transmitting
<1>8. ProcOK(p)' BY <1>3, <1>4, <1>5, <1>6, <1>7, FreshOwn
<1>9. PositionsOK' /\ Within(p) BY <1>0, <1>1, LinkRests DEF PositionsOK
<1>. QED BY <1>8, <1>9 DEF OwnLink

\* A call that returned is left; an exchange that is ended frees the reception.
LEMMA LeftOwn ==
  ASSUME TokenInv, AnswerInv, NEW p \in Procs,
         pc' = [pc EXCEPT ![p] = "idle"], call' = [call EXCEPT ![p] = IdleCall],
         exchange' = [exchange EXCEPT ![p] = "none"],
         retaining' = [retaining EXCEPT ![LinkOf[p]] = @ /\ exchange[p] = "none"],
         UNCHANGED <<log, oldest, cursor, snapshot, busDone, seen, faults>>,
         p \in Clients => /\ wait'[p].timer \in {"P2", "P2*"}
                          /\ {"service", "timer", "recovering"} \subseteq DOMAIN wait'[p]
  PROVE  OwnLink(p)
<1>. DEFINE l == LinkOf[p]
            b == retaining[l] /\ exchange[p] = "none"
<1>0. l \in Links /\ PositionsOK /\ Typed BY Here
<1>1. pc'[p] = "idle" /\ call'[p] = IdleCall /\ exchange'[p] = "none" BY <1>0 DEF Typed
<1>2. Aimed("idle", IdleCall) /\ "idle" \notin Transmitting BY DEF Aimed, Transmitting
<1>3. ProcOK(p)' BY <1>1, <1>2, IdleCallOK, FreshOwn
<1>4. /\ cursor' = [cursor EXCEPT ![l] = cursor[l]] /\ seen' = [seen EXCEPT ![l] = seen[l]]
      /\ retaining' = [retaining EXCEPT ![l] = b] /\ b \in BOOLEAN /\ (exchange[p] = "none" => b = retaining[l])
      /\ cursor[l] \in 0 .. Len(log'[l]) /\ seen[l] \subseteq 1 .. Len(log[l]) /\ "clears" \in DOMAIN faults
  BY <1>0 DEF PositionsOK
<1>5. exchange[p] # "none" => Holds(p, "receiving") BY DEF Holds
<1>. HIDE DEF b
<1>6. PositionsOK' /\ Within(p)
  <2>1. LinkMove(p, cursor[l], seen[l], b) BY <1>4, <1>5 DEF LinkMove, Recorded
  <2>. QED BY <2>1, LinkMoves
<1>. QED BY <1>3, <1>6 DEF OwnLink

\* A further Next stays where the last one, or Begin, left the exchange.
LEMMA CallNextOwn ==
  ASSUME TokenInv, AnswerInv, NEW p \in Procs, NEW timed, CallNext(p, timed),
         ~(call[p].op = "next" /\ call[p].res = "range"),
         p \in Clients => /\ wait'[p].timer \in {"P2", "P2*"}
                          /\ {"service", "timer", "recovering"} \subseteq DOMAIN wait'[p]
                          /\ wait'[p].timer = "P2" => Unanswered(LinkOf[p], call[p])
  PROVE  OwnLink(p)
<1>. DEFINE l == LinkOf[p]
<1>. PICK c, x : c = call[p] /\ x = exchange[p] OBVIOUS
<1>. PICK d : d = [IdleCall EXCEPT !.op = "next", !.msg = c.msg, !.tx = c.tx, !.timed = timed, !.ctx = c.ctx]
  OBVIOUS
<1>0. /\ l \in Links /\ PositionsOK /\ ProcOK(p) /\ StandOK(l, x, pc[p], c) /\ CallOK(c) /\ Typed
      /\ SequenceModulus \in Nat /\ SequenceModulus > 1
  BY Here, IsoTpAssumption
<1>1. /\ pc[p] = "returned" /\ x # "none" /\ Goto(p, "first", d)
      /\ UNCHANGED <<log, oldest, wire, tokens, cursor, retaining, snapshot, busDone, exchange, seen, faults>>
  BY DEF CallNext
<1>2. CallOK(d) /\ d.op = "next" /\ d.tx = c.tx /\ d.res = "none" BY <1>0 DEF CallOK, IdleCall, Results
<1>3. pc'[p] = "first" /\ call'[p] = d /\ exchange'[p] = x BY <1>0, <1>1 DEF Goto, Typed
<1>4. Owns(x, "returned", c) /\ Located(x, "returned", c) BY <1>1 DEF Owns, Located
<1>5. Followed(l, "first", d)
  <2>1. Followed(l, "returned", c) BY <1>0, <1>1, <1>4 DEF StandOK
  <2>. QED BY <1>2, <2>1 DEF Followed
<1>6. StandOK(l, x, "first", d)
  BY <1>0, <1>1, <1>4, <1>5 DEF StandOK
<1>7. StandOK(l, exchange[p], pc[p], call[p])'
  BY <1>1, <1>3, <1>6 DEF StandOK, Owns, Located, Followed, Later
<1>8. ASSUME p \in Clients PROVE ClientOK(l, exchange[p], pc[p], call[p], wait[p])'
  <2>1. x \in {"none", "open"} BY <1>0, <1>8 DEF ProcOK, ClientOK
  <2>2. wait'[p].timer = "P2" => Unanswered(l, d)' BY <1>1, <1>2, <1>8 DEF Unanswered
  <2>3. d.op # "begin" /\ d.op = "next" /\ exchange'[p] = x /\ call'[p] = d BY <1>2, <1>3
  <2>4. call'[p].op = "next" /\ call'[p].op # "begin" BY <2>3
  <2>5. wait'[p].timer = "P2" => Unanswered(l, call[p])' BY <2>2, <2>3 DEF Unanswered
  <2>. QED BY <1>1, <1>8, <2>1, <2>3, <2>4, <2>5 DEF ClientOK
<1>9. CallOK(call[p])' /\ Aimed(pc[p], call[p])' BY <1>2, <1>3 DEF CallOK, Aimed
<1>10. p \notin Servers BY <1>0, <1>1 DEF ProcOK
<1>11. ProcOK(p)' BY <1>2, <1>3, <1>7, <1>8, <1>9, <1>10 DEF ProcOK
<1>12. PositionsOK' /\ Within(p) BY <1>0, <1>1, LinkRests DEF PositionsOK
<1>. QED BY <1>11, <1>12 DEF OwnLink

\* Close: the exchange is cancelled, and later its reception is freed.
LEMMA RawClosesOwn ==
  ASSUME TokenInv, AnswerInv, NEW p \in Raws, CloseCancels(p), UNCHANGED wait
  PROVE  OwnLink(p)
<1>. DEFINE l == LinkOf[p]
            c == call[p]
            at == pc[p]
            x == exchange[p]
<1>0. p \in Procs /\ p \notin Clients /\ p \notin Servers BY ProcsAssumption
<1>1. /\ l \in Links /\ PositionsOK /\ ProcOK(p) /\ StandOK(l, x, at, c) /\ CallOK(c) /\ Typed
      /\ PlaceOK(x, at, c)
  BY <1>0, Here
<1>2. /\ x = "open" /\ exchange' = [exchange EXCEPT ![p] = "cancelled"]
      /\ UNCHANGED <<log, oldest, wire, tokens, cursor, retaining, snapshot, busDone, pc, call, seen, faults>>
  BY DEF CloseCancels
<1>3. exchange'[p] = "cancelled" /\ pc'[p] = at /\ call'[p] = c BY <1>0, <1>1, <1>2 DEF Typed
<1>4. Owns(x, at, c) /\ Owns("cancelled", at, c) /\ (Located("cancelled", at, c) <=> Located(x, at, c))
  BY <1>2 DEF Owns, Located
<1>5. StandOK(l, "cancelled", at, c) BY <1>1, <1>4 DEF StandOK
<1>6. StandOK(l, exchange[p], pc[p], call[p])'
  BY <1>2, <1>3, <1>5 DEF StandOK, Owns, Located, Followed, Later
<1>7. CallOK(call[p])' /\ Aimed(pc[p], call[p])' BY <1>1, <1>2 DEF CallOK, Aimed, ProcOK
<1>8. ProcOK(p)' BY <1>0, <1>1, <1>2, <1>6, <1>7 DEF ProcOK
<1>9. PositionsOK' /\ Within(p) BY <1>0, <1>1, <1>2, LinkRests DEF PositionsOK
<1>. QED BY <1>8, <1>9 DEF OwnLink

LEMMA RawReleasesOwn ==
  ASSUME TokenInv, AnswerInv, NEW p \in Raws, CloseReleases(p), UNCHANGED wait
  PROVE  OwnLink(p)
<1>. DEFINE l == LinkOf[p]
            c == call[p]
            at == pc[p]
<1>0. p \in Procs /\ p \notin Clients /\ p \notin Servers BY ProcsAssumption
<1>1. /\ l \in Links /\ PositionsOK /\ ProcOK(p) /\ CallOK(c) /\ Typed /\ PlaceOK(exchange[p], at, c)
  BY <1>0, Here
<1>2. /\ exchange[p] = "cancelled" /\ at \notin Transmitting \union Receiving
      /\ exchange' = [exchange EXCEPT ![p] = "none"] /\ retaining' = [retaining EXCEPT ![l] = FALSE]
      /\ UNCHANGED <<log, oldest, wire, cursor, snapshot, busDone, pc, call, seen, faults>>
  BY <1>1 DEF CloseReleases, InNext, PlaceOK, Transmitting, Receiving
<1>3. exchange'[p] = "none" /\ pc'[p] = at /\ call'[p] = c BY <1>0, <1>1, <1>2 DEF Typed
<1>4. ~Owns("none", at, c) BY <1>2 DEF Owns
<1>5. StandOK(l, exchange[p], pc[p], call[p])' BY <1>3, <1>4 DEF StandOK, Owns
<1>6. CallOK(call[p])' /\ Aimed(pc[p], call[p])' BY <1>1, <1>2 DEF CallOK, Aimed, ProcOK
<1>7. ProcOK(p)' BY <1>0, <1>1, <1>2, <1>5, <1>6 DEF ProcOK
<1>8. /\ cursor' = [cursor EXCEPT ![l] = cursor[l]] /\ seen' = [seen EXCEPT ![l] = seen[l]]
      /\ cursor[l] \in 0 .. Len(log'[l]) /\ seen[l] \subseteq 1 .. Len(log[l]) /\ "clears" \in DOMAIN faults'
  BY <1>1, <1>2 DEF PositionsOK
<1>9. Holds(p, "receiving") BY <1>2 DEF Holds
<1>10. PositionsOK' /\ Within(p)
  <2>1. LinkMove(p, cursor[l], seen[l], FALSE) BY <1>2, <1>8, <1>9 DEF LinkMove, Recorded
  <2>. QED BY <1>0, <2>1, LinkMoves
<1>. QED BY <1>7, <1>10 DEF OwnLink

-----------------------------------------------------------------------------
(* Steps that are about requests.                                          *)

\* Nothing of a Do changes.
LEMMA RequestsSame ==
  ASSUME TokenInv, AnswerInv, NEW p \in Procs, Hands(p), OwnLink(p), UNCHANGED <<wait, outcome>>,
         used' \subseteq Services \union {"reset"}
  PROVE  AnswerInv'
<1>1. /\ wait' = [q \in Clients |-> wait'[q]] /\ outcome' = [q \in Clients |-> outcome'[q]]
      /\ \A q \in Clients : q # p => wait'[q] = wait[q] /\ outcome'[q] = outcome[q]
      /\ p \in Clients => OutcomeOK(outcome'[p])
  BY DEF AnswerInv
<1>. QED BY <1>1, ProcKeepsInv DEF OwnLink

LEMMA DoReturnsInv ==
  ASSUME TokenInv, AnswerInv, NEW p \in Clients, pc[p] = "returned", NEW err, NEW payload, DoReturns(p, err, payload),
         err \in {"positive", "negative"} => payload[1][1].id = wait[p].service /\ payload[1][1].kind = err,
         DoSuppressed(err) = "silent" => Unanswered(LinkOf[p], call[p])
  PROVE  AnswerInv'
<1>. DEFINE answered == \E i \in seen[LinkOf[p]] : i > call[p].tx /\ log[LinkOf[p]][i].frame.kind # "flow"
            o == [service |-> wait[p].service, err |-> err, payload |-> payload, answered |-> answered]
<1>0. p \in Procs /\ PositionsOK BY ProcsAssumption DEF AnswerInv
<1>1. wait = [q \in Clients |-> wait[q]] /\ outcome = [q \in Clients |-> outcome[q]] BY DEF AnswerInv
<1>2. outcome' = [outcome EXCEPT ![p] = o] /\ wait' = [wait EXCEPT ![p] = NoWait] /\ UNCHANGED used
  BY DEF DoReturns
<1>3. DoSuppressed(err) = "silent" => ~answered BY DEF Unanswered
<1>. HIDE DEF answered
<1>4. OutcomeOK(o) BY <1>3 DEF OutcomeOK
<1>. HIDE DEF o
<1>5. /\ outcome'[p] = o /\ wait'[p] = NoWait
      /\ \A q \in Clients : q # p => wait'[q] = wait[q] /\ outcome'[q] = outcome[q]
      /\ wait' = [q \in Clients |-> wait'[q]] /\ outcome' = [q \in Clients |-> outcome'[q]]
  BY <1>1, <1>2
<1>6. wait'[p].timer = "P2" /\ {"service", "timer", "recovering"} \subseteq DOMAIN wait'[p]
  BY <1>5 DEF NoWait
<1>7. OwnLink(p) BY <1>0, <1>6, LeftOwn DEF DoReturns
<1>8. Hands(p) BY <1>0, DoReturnsHands
<1>9. used' \subseteq Services \union {"reset"} BY <1>2 DEF AnswerInv
<1>. QED BY <1>0, <1>4, <1>5, <1>7, <1>8, <1>9, ProcKeepsInv DEF OwnLink

LEMMA DoWaitsInv ==
  ASSUME TokenInv, AnswerInv, NEW p \in Clients, NEW timer \in {"P2", "P2*"}, NEW recovering,
         DoWaits(p, timer, recovering), ~(call[p].op = "next" /\ call[p].res = "range"),
         timer = "P2" => Unanswered(LinkOf[p], call[p])
  PROVE  AnswerInv'
<1>0. p \in Procs /\ ProcOK(p) BY ProcsAssumption DEF AnswerInv
<1>1. wait = [q \in Clients |-> wait[q]] /\ {"service", "timer", "recovering"} \subseteq DOMAIN wait[p]
  BY <1>0 DEF AnswerInv, ProcOK, ClientOK
<1>. DEFINE w == [wait[p] EXCEPT !.timer = timer, !.recovering = recovering]
<1>2. /\ wait' = [wait EXCEPT ![p] = w]
      /\ CallNext(p, TRUE) /\ UNCHANGED <<used, outcome>>
  BY <1>1 DEF DoWaits
<1>3. w.timer = timer /\ {"service", "timer", "recovering"} \subseteq DOMAIN w BY <1>1
<1>. HIDE DEF w
<1>4. /\ wait'[p] = w /\ wait' = [q \in Clients |-> wait'[q]]
      /\ \A q \in Clients : q # p => wait'[q] = wait[q]
  BY <1>1, <1>2
<1>5. OwnLink(p) BY <1>0, <1>2, <1>3, <1>4, CallNextOwn
<1>6. Hands(p) BY <1>0, <1>2, CallNextHands
<1>7. outcome' = [q \in Clients |-> outcome'[q]] /\ OutcomeOK(outcome'[p]) BY <1>2 DEF AnswerInv
<1>8. used' \subseteq Services \union {"reset"} BY <1>2 DEF AnswerInv
<1>. QED BY <1>0, <1>2, <1>4, <1>5, <1>6, <1>7, <1>8, ProcKeepsInv DEF OwnLink

LEMMA DoContinuesInv ==
  ASSUME TokenInv, AnswerInv, NEW p \in Clients, DoContinues(p)
  PROVE  AnswerInv'
<1>. DEFINE l == LinkOf[p]
            c == call[p]
            w == wait[p]
            m == c.buf[1][1]
            parsed == ParseResponse(w.service, m)
<1>0. p \in Procs /\ ProcOK(p) /\ ClientOK(l, exchange[p], pc[p], c, w) /\ CallOK(c)
  BY ProcsAssumption DEF AnswerInv, ProcOK
<1>1. pc[p] = "returned" BY DEF DoContinues
<1>2. c.res = "firsttimeout" => c.op = "next" BY <1>0 DEF ProcOK, ClientOK
<1>3. c.op = "next" /\ c.res = "firsttimeout" /\ w.timer = "P2" => Unanswered(l, c) BY <1>0, <1>1 DEF ClientOK
<1>4. w.timer \in {"P2", "P2*"} BY <1>0 DEF ClientOK
<1>5. /\ parsed \in {"pending", "positive", "negative", "unexpected"}
      /\ parsed \in {"positive", "negative"} => m.id = w.service /\ m.kind = parsed
  BY DEF ParseResponse
<1>6. c.res \in Results BY <1>0 DEF CallOK
<1>7. \/ DoReturns(p, c.res, <<>>) \/ DoReturns(p, "context", <<>>)
      \/ c.op = "begin" /\ DoWaits(p, "P2", FALSE)
      \/ c.res = "firsttimeout" /\ (DoWaits(p, w.timer, TRUE) \/ DoReturns(p, w.timer, <<>>))
      \/ c.op = "next" /\ c.res = "ok" /\ DoWaits(p, "P2*", FALSE)
      \/ parsed # "pending" /\ DoReturns(p, parsed, c.buf)
  BY DEF DoContinues
<1>. HIDE DEF parsed, m
<1>8. CASE DoReturns(p, c.res, <<>>) \/ DoReturns(p, "context", <<>>)
  <2>1. PICK err \in Results : DoReturns(p, err, <<>>) BY <1>6, <1>8 DEF Results
  <2>2. err \notin {"positive", "negative"} /\ DoSuppressed(err) # "silent" BY DEF Results, DoSuppressed
  <2>. QED BY <1>1, <2>1, <2>2, DoReturnsInv
<1>9. CASE c.op = "begin" /\ DoWaits(p, "P2", FALSE)
  <2>1. exchange[p] # "none" BY <1>9 DEF DoWaits, CallNext
  <2>2. Located(exchange[p], pc[p], c) BY <1>1, <2>1 DEF Located, Owns
  <2>3. Unanswered(l, c) BY <1>0, <1>9, <2>2 DEF ClientOK
  <2>. QED BY <1>9, <2>3, DoWaitsInv
<1>10. CASE c.res = "firsttimeout" /\ DoWaits(p, w.timer, TRUE)
  BY <1>2, <1>3, <1>4, <1>10, DoWaitsInv
<1>11. CASE c.res = "firsttimeout" /\ DoReturns(p, w.timer, <<>>)
  <2>1. DoSuppressed(w.timer) = "silent" => w.timer = "P2" BY <1>4 DEF DoSuppressed
  <2>. QED BY <1>1, <1>2, <1>3, <1>4, <1>11, <2>1, DoReturnsInv
<1>12. CASE c.op = "next" /\ c.res = "ok" /\ DoWaits(p, "P2*", FALSE)
  BY <1>12, DoWaitsInv
<1>13. CASE parsed # "pending" /\ DoReturns(p, parsed, c.buf)
  <2>1. DoSuppressed(parsed) # "silent" BY <1>5 DEF DoSuppressed
  <2>. QED BY <1>1, <1>5, <1>13, <2>1, DoReturnsInv DEF m
<1>. QED BY <1>7, <1>8, <1>9, <1>10, <1>11, <1>12, <1>13

LEMMA DoInv ==
  ASSUME TokenInv, AnswerInv, NEW p \in Clients, NEW service \in Services, NEW len, Do(p, service, len)
  PROVE  AnswerInv'
<1>. DEFINE w == [NoWait EXCEPT !.service = service]
<1>0. p \in Procs /\ p \notin Servers BY ProcsAssumption
<1>1. wait = [q \in Clients |-> wait[q]] BY DEF AnswerInv
<1>2. /\ Call(p, "begin", Request(service, len)) /\ used' = used \union {service} /\ UNCHANGED outcome
      /\ wait' = [wait EXCEPT ![p] = w]
  BY DEF Do
<1>3. w.timer = "P2" /\ {"service", "timer", "recovering"} \subseteq DOMAIN w BY DEF NoWait
<1>. HIDE DEF w
<1>4. /\ wait'[p] = w /\ wait' = [q \in Clients |-> wait'[q]]
      /\ \A q \in Clients : q # p => wait'[q] = wait[q]
  BY <1>1, <1>2
<1>5. OwnLink(p) BY <1>0, <1>2, <1>3, <1>4, CallOwn
<1>6. Hands(p) BY <1>0, <1>2, CallHands
<1>7. outcome' = [q \in Clients |-> outcome'[q]] /\ OutcomeOK(outcome'[p]) BY <1>2 DEF AnswerInv
<1>8. used' \subseteq Services \union {"reset"} BY <1>2 DEF AnswerInv
<1>. QED BY <1>0, <1>2, <1>4, <1>5, <1>6, <1>7, <1>8, ProcKeepsInv DEF OwnLink

-----------------------------------------------------------------------------
(* The bus and the readers of the capture.                                 *)

\* A step that is no goroutine's leaves each of them what it had.
LEMMA EventKeeps ==
  ASSUME TokenInv, AnswerInv, PositionsOK', UNCHANGED <<pc, call, exchange, wait, outcome, used>>,
         \A k \in Links : Grown(k) /\ Untransmitted(k) /\ SamePosition(k)
  PROVE  AnswerInv'
<1>1. ASSUME NEW q \in Procs PROVE ProcOK(q)'
  <2>. PICK l, x, at, c, w : l = LinkOf[q] /\ x = exchange[q] /\ at = pc[q] /\ c = call[q] /\ w = wait[q]
    OBVIOUS
  <2>0. /\ l \in Links /\ PositionsOK /\ ProcOK(q) /\ CallOK(c) /\ StandOK(l, x, at, c) /\ Aimed(at, c)
        /\ q \in Clients => ClientOK(l, x, at, c, w)
    BY IsoTpAssumption DEF AnswerInv, ProcOK
  <2>1. exchange'[q] = x /\ pc'[q] = at /\ call'[q] = c /\ wait'[q] = w OBVIOUS
  <2>2. Grown(l) /\ Untransmitted(l) /\ SamePosition(l) BY <2>0
  <2>3. StandOK(l, x, at, c)' BY <2>0, <2>2, StandKept
  <2>4. ASSUME q \in Clients PROVE ClientOK(l, x, at, c, w)'
    <3>1. ClientOK(l, x, at, c, w) BY <2>0, <2>4
    <3>2. seen'[l] = seen[l] BY <2>2 DEF SamePosition
    <3>3. Unanswered(l, c) => Unanswered(l, c)' BY <2>0, <2>2, <3>2, UnansweredKept
    <3>. QED BY <3>1, <3>3 DEF ClientOK, Located, Owns
  <2>5. faults.clears \in Nat /\ faults'.clears \in Nat /\ faults'.clears >= faults.clears
    BY <2>2 DEF SamePosition
  <2>6. /\ CallOK(c) /\ (c.res = "range" /\ c.op # "receive" => faults'.clears > 0)
        /\ (c.res = "firsttimeout" => c.op \in {"receive", "next"})
        /\ (q \in Servers => x = "none" /\ c.op \in {"none", "send", "receive"})
    BY <2>0, <2>5 DEF ProcOK
  <2>7. StandOK(l, exchange[q], pc[q], call[q])' BY <2>1, <2>3 DEF StandOK, Owns, Located, Followed
  <2>8. q \in Clients => ClientOK(l, exchange[q], pc[q], call[q], wait[q])'
    BY <2>1, <2>4 DEF ClientOK, Owns, Located, Unanswered
  <2>9. CallOK(call[q])' /\ Aimed(pc[q], call[q])' BY <2>0, <2>1 DEF CallOK, Aimed
  <2>. QED BY <2>1, <2>6, <2>7, <2>8, <2>9 DEF ProcOK
<1>2. \A q \in Clients : OutcomeOK(outcome'[q]) BY DEF AnswerInv
<1>3. /\ used' \subseteq Services \union {"reset"}
      /\ wait' = [p \in Clients |-> wait'[p]] /\ outcome' = [p \in Clients |-> outcome'[p]]
  BY DEF AnswerInv
<1>. QED BY <1>1, <1>2, <1>3 DEF AnswerInv

\* A record that is not a transmission is appended.
LEMMA CaptureReceives ==
  ASSUME FramesOK, NEW l \in Links, NEW r, r.dir # "tx", log' = [log EXCEPT ![l] = Append(@, r)]
  PROVE  /\ \A k \in Links : Grown(k) /\ Untransmitted(k) /\ (k # l => log'[k] = log[k])
         /\ Len(log[l]) \in Nat /\ Len(log'[l]) = Len(log[l]) + 1
<1>1. log'[l] = Append(log[l], r) /\ \A k \in Links : k # l => log'[k] = log[k] BY DEF FramesOK
<1>2. \A k \in Links : IsSeq(log[k]) /\ Len(log[k]) \in Nat BY LenProperties DEF FramesOK, IsSeq
<1>3. /\ Len(log'[l]) = Len(log[l]) + 1 /\ log'[l][Len(log[l]) + 1] = r
      /\ \A i \in 1..Len(log[l]) : log'[l][i] = log[l][i]
  BY <1>1, <1>2, Appended
<1>4. Grown(l) /\ Untransmitted(l) BY <1>2, <1>3 DEF Grown, Untransmitted
<1>5. ASSUME NEW k \in Links, k # l PROVE Grown(k) /\ Untransmitted(k)
  BY <1>1, <1>2, <1>5 DEF Grown, Untransmitted
<1>. QED BY <1>1, <1>2, <1>3, <1>4, <1>5

LEMMA LinkEventAnswerInv ==
  ASSUME TokenInv, AnswerInv, NEW l \in Links, UNCHANGED <<wait, outcome, used>>,
         \/ Deliver(l) \/ Lose(l) \/ PeerWaits(l) \/ Clear(l)
         \/ BusEnds(l) \/ ReadRetention(l) \/ Prune(l)
  PROVE  AnswerInv'
<1>0. FramesOK /\ PositionsOK BY DEF TokenInv, AnswerInv
<1>1. UNCHANGED <<pc, call, exchange, cursor, seen, retaining>>
  BY DEF Deliver, Lose, PeerWaits, Clear, BusEnds, ReadRetention, Prune
<1>2. busDone' \in [Links -> BOOLEAN]
  <2>1. UNCHANGED busDone \/ busDone' = [busDone EXCEPT ![l] = TRUE]
    BY DEF Deliver, Lose, PeerWaits, Clear, BusEnds, ReadRetention, Prune
  <2>. QED BY <1>0, <2>1 DEF PositionsOK
<1>3. \A k \in Links : Grown(k) /\ Untransmitted(k)
  <2>1. CASE UNCHANGED log BY <1>0, <2>1, CaptureSame
  <2>2. CASE Deliver(l)
    <3>. DEFINE r == [dir |-> "rx", frame |-> Head(wire[l])]
    <3>1. log' = [log EXCEPT ![l] = Append(@, r)] /\ r.dir # "tx" BY <2>2 DEF Deliver
    <3>. HIDE DEF r
    <3>. QED BY <1>0, <3>1, CaptureReceives
  <2>3. CASE Clear(l)
    <3>. DEFINE r == [dir |-> "clear", frame |-> NoFrame]
    <3>1. log' = [log EXCEPT ![l] = Append(@, r)] /\ r.dir # "tx" BY <2>3 DEF Clear
    <3>. HIDE DEF r
    <3>. QED BY <1>0, <3>1, CaptureReceives
  <2>. QED BY <2>1, <2>2, <2>3 DEF Lose, PeerWaits, BusEnds, ReadRetention, Prune
<1>4. "clears" \in DOMAIN faults' /\ faults'.clears \in Nat /\ faults'.clears >= faults.clears
      /\ (faults'.clears = faults.clears \/ Clear(l))
  <2>1. faults.clears \in Nat /\ "clears" \in DOMAIN faults BY <1>0 DEF PositionsOK
  <2>2. CASE Clear(l) BY <2>1, <2>2 DEF Clear
  <2>3. CASE ~Clear(l)
    <3>1. \/ UNCHANGED faults \/ faults' = [faults EXCEPT !.lost = @ + 1]
          \/ faults' = [faults EXCEPT !.waits = @ + 1] \/ faults' = [faults EXCEPT !.cancels = @ + 1]
          \/ faults' = [faults EXCEPT !.prunes = @ + 1]
      BY <2>3 DEF Deliver, Lose, PeerWaits, BusEnds, ReadRetention, Prune
    <3>. QED BY <2>1, <3>1
  <2>. QED BY <2>2, <2>3
<1>5. ASSUME NEW k \in Links
      PROVE  /\ oldest[k] \in 0 .. Len(log[k]) /\ cursor[k] \in 0 .. Len(log[k])
             /\ snapshot[k] \in -1 .. Len(log[k]) /\ seen[k] \subseteq 1 .. Len(log[k])
             /\ Len(log[k]) \in Nat /\ Len(log'[k]) \in Nat /\ Len(log[k]) =< Len(log'[k])
  BY <1>0, <1>3 DEF PositionsOK, Grown
<1>6. /\ oldest' = [k \in Links |-> oldest'[k]] /\ snapshot' = [k \in Links |-> snapshot'[k]]
      /\ \A k \in Links : k # l => oldest'[k] = oldest[k] /\ snapshot'[k] = snapshot[k]
  <2>1. /\ UNCHANGED oldest \/ \E n : oldest' = [oldest EXCEPT ![l] = n]
        /\ UNCHANGED snapshot \/ \E n : snapshot' = [snapshot EXCEPT ![l] = n]
    <3>1. CASE Clear(l) BY <3>1 DEF Clear
    <3>2. CASE ReadRetention(l) BY <3>2 DEF ReadRetention
    <3>3. CASE Prune(l)
      <4>1. oldest' = [oldest EXCEPT ![l] = Max({oldest[l], snapshot[l]})] BY <1>0, <3>3 DEF Prune, PositionsOK
      <4>. QED BY <3>3, <4>1 DEF Prune
    <3>4. CASE Deliver(l) \/ Lose(l) \/ PeerWaits(l) \/ BusEnds(l)
      BY <3>4 DEF Deliver, Lose, PeerWaits, BusEnds
    <3>. QED BY <3>1, <3>2, <3>3, <3>4
  <2>. QED BY <1>0, <2>1 DEF PositionsOK
\* What becomes of the records that are retained and of a pruner's position.
<1>7. /\ oldest'[l] \in 0 .. Len(log'[l]) /\ snapshot'[l] \in -1 .. Len(log'[l])
      /\ \/ faults'.clears > 0
         \/ ~retaining[l]
         \/ oldest[l] =< cursor[l] /\ snapshot[l] =< cursor[l]
               => oldest'[l] =< cursor[l] /\ snapshot'[l] =< cursor[l]
  <2>0. oldest = [k \in Links |-> oldest[k]] /\ snapshot = [k \in Links |-> snapshot[k]] /\ faults.clears \in Nat
    BY <1>0 DEF PositionsOK
  <2>1. CASE Clear(l)
    <3>1. oldest'[l] = Len(log[l]) + 1 /\ snapshot' = snapshot BY <2>0, <2>1 DEF Clear
    <3>. DEFINE r == [dir |-> "clear", frame |-> NoFrame]
    <3>2. log' = [log EXCEPT ![l] = Append(@, r)] /\ r.dir # "tx" BY <2>1 DEF Clear
    <3>. HIDE DEF r
    <3>3. Len(log'[l]) = Len(log[l]) + 1 BY <1>0, <3>2, CaptureReceives
    <3>4. faults'.clears > 0 BY <1>0, <2>0, <2>1 DEF Clear, PositionsOK
    <3>. QED BY <1>5, <3>1, <3>3, <3>4
  <2>2. CASE ReadRetention(l)
    <3>1. oldest' = oldest /\ log' = log /\ snapshot'[l] = RetentionCursor(l) BY <2>0, <2>2 DEF ReadRetention
    <3>2. retaining[l] => snapshot'[l] = cursor[l] BY <3>1 DEF RetentionCursor
    <3>3. snapshot'[l] \in {cursor[l], Len(log[l])} BY <3>1 DEF RetentionCursor, End
    <3>. QED BY <1>5, <3>1, <3>2, <3>3
  <2>3. CASE Prune(l)
    <3>1. log' = log /\ snapshot'[l] = -1 /\ oldest'[l] = Max({oldest[l], snapshot[l]}) /\ snapshot[l] # -1
      BY <2>0, <2>3 DEF Prune
    <3>2. oldest[l] \in Int /\ snapshot[l] \in Int BY <1>5
    <3>3. oldest'[l] \in {oldest[l], snapshot[l]} BY <3>1, <3>2, MaxOfTwo
    <3>. QED BY <1>5, <3>1, <3>3
  <2>4. CASE Deliver(l) \/ Lose(l) \/ PeerWaits(l) \/ BusEnds(l)
    <3>1. UNCHANGED <<oldest, snapshot>> BY <2>4 DEF Deliver, Lose, PeerWaits, BusEnds
    <3>. QED BY <1>5, <3>1
  <2>. QED BY <2>1, <2>2, <2>3, <2>4
<1>8. ASSUME NEW k \in Links
      PROVE  /\ oldest'[k] \in 0 .. Len(log'[k]) /\ cursor'[k] \in 0 .. Len(log'[k])
             /\ snapshot'[k] \in -1 .. Len(log'[k]) /\ seen'[k] \subseteq 1 .. Len(log'[k])
  <2>1. oldest'[k] \in 0 .. Len(log'[k]) /\ snapshot'[k] \in -1 .. Len(log'[k])
    BY <1>5, <1>6, <1>7, SMTT(30)
  <2>2. cursor'[k] = cursor[k] /\ seen'[k] = seen[k] BY <1>1
  <2>3. cursor'[k] \in 0 .. Len(log'[k]) BY <1>5, <2>2
  <2>4. ASSUME NEW i \in seen[k] PROVE i \in 1 .. Len(log'[k]) BY <1>5
  <2>. QED BY <2>1, <2>2, <2>3, <2>4
<1>9. PositionsOK' BY <1>0, <1>1, <1>2, <1>4, <1>6, <1>8 DEF PositionsOK
<1>10. ASSUME NEW k \in Links PROVE SamePosition(k)
  <2>1. faults.clears \in Nat /\ cursor'[k] = cursor[k] /\ seen'[k] = seen[k] /\ retaining'[k] = retaining[k]
    BY <1>0, <1>1 DEF PositionsOK
  <2>2. CASE k = l
    <3>1. \/ faults'.clears > 0 \/ ~retaining[l]
          \/ oldest[l] =< cursor[l] /\ snapshot[l] =< cursor[l] => oldest'[l] =< cursor[l] /\ snapshot'[l] =< cursor[l]
      BY <1>7
    <3>. QED BY <1>4, <2>1, <2>2, <3>1 DEF SamePosition
  <2>3. CASE k # l BY <1>4, <1>6, <2>1, <2>3 DEF SamePosition
  <2>. QED BY <2>2, <2>3
<1>. QED BY <1>1, <1>3, <1>9, <1>10, EventKeeps

-----------------------------------------------------------------------------
(* The theorem about answers.                                              *)

\* Neither the links nor the requests change.
LEMMA NothingMoves ==
  ASSUME TokenInv, AnswerInv, UNCHANGED <<log, oldest, cursor, retaining, snapshot, busDone, pc, call, exchange, seen,
                                          faults, wait, outcome, used>>
  PROVE  AnswerInv'
<1>0. FramesOK /\ PositionsOK BY DEF TokenInv, AnswerInv
<1>1. \A k \in Links : Grown(k) /\ Untransmitted(k) BY <1>0, CaptureSame
<1>2. faults.clears \in Nat BY <1>0 DEF PositionsOK
<1>3. \A k \in Links : SamePosition(k) BY <1>2 DEF SamePosition
<1>4. PositionsOK' BY <1>0 DEF PositionsOK
<1>. QED BY <1>1, <1>3, <1>4, EventKeeps

\* A call that returned and is left, changes no request.
LEMMA IdleOwn ==
  ASSUME TokenInv, AnswerInv, NEW p \in Procs, p \notin Clients, pc[p] = "returned", exchange[p] = "none",
         pc' = [pc EXCEPT ![p] = "idle"], call' = [call EXCEPT ![p] = IdleCall],
         UNCHANGED <<log, oldest, wire, tokens, cursor, retaining, snapshot, busDone, exchange, seen, faults,
                     used, wait, outcome>>
  PROVE  AnswerInv'
<1>0. LinkOf[p] \in Links /\ PositionsOK /\ Typed BY Here
<1>1. exchange' = [exchange EXCEPT ![p] = "none"] BY <1>0 DEF Typed
<1>2. retaining' = [retaining EXCEPT ![LinkOf[p]] = @ /\ exchange[p] = "none"] BY <1>0 DEF PositionsOK
<1>3. OwnLink(p) BY <1>1, <1>2, LeftOwn
<1>4. Hands(p) BY IdleHands
<1>. QED BY <1>3, <1>4, RequestsSame DEF AnswerInv

LEMMA ServerAnswerInv ==
  ASSUME TokenInv, AnswerInv, NEW s \in Servers,
         ServerReceives(s) \/ ServerTakes(s) \/ ServerReplies(s) \/ ServerStaysSilent(s)
  PROVE  AnswerInv'
<1>0. s \in Procs /\ s \notin Clients BY ProcsAssumption
<1>1. ASSUME NEW op \in {"send", "receive"}, NEW m, Call(s, op, m), UNCHANGED <<used, wait, outcome>>
      PROVE  AnswerInv'
  <2>1. Hands(s) BY <1>0, <1>1, CallHands
  <2>2. OwnLink(s) BY <1>0, <1>1, CallOwn
  <2>. QED BY <1>0, <1>1, <2>1, <2>2, RequestsSame DEF AnswerInv
<1>2. CASE ServerReceives(s) BY <1>1, <1>2 DEF ServerReceives
<1>3. CASE ServerReplies(s)
  <2>1. \E m : Call(s, "send", m) BY <1>3 DEF ServerReplies
  <2>. QED BY <1>1, <1>3, <2>1 DEF ServerReplies
<1>4. CASE ServerTakes(s)
  <2>1. exchange[s] = "none" BY <1>0 DEF AnswerInv, ProcOK
  <2>. QED BY <1>0, <1>4, <2>1, IdleOwn DEF ServerTakes
<1>5. CASE ServerStaysSilent(s) BY <1>5, NothingMoves DEF ServerStaysSilent, isoVars
<1>. QED BY <1>2, <1>3, <1>4, <1>5

LEMMA RawAnswerInv ==
  ASSUME TokenInv, AnswerInv, NEW r \in Raws,
         \/ \E service \in Services, len \in scenario.lengths : RawBegins(r, service, len)
         \/ RawResets(r) \/ RawNext(r) \/ RawReturns(r) \/ RawCloses(r) \/ RawReleases(r)
  PROVE  AnswerInv'
<1>0. r \in Procs /\ r \notin Clients /\ r \notin Servers BY ProcsAssumption
<1>1. used \subseteq Services \union {"reset"} BY DEF AnswerInv
<1>2. CASE \E service \in Services, len \in scenario.lengths : RawBegins(r, service, len)
  <2>1. PICK service \in Services, len \in scenario.lengths : RawBegins(r, service, len) BY <1>2
  <2>2. /\ Call(r, "begin", Request(service, len)) /\ used' = used \union {service}
        /\ UNCHANGED <<wait, outcome>>
    BY <2>1 DEF RawBegins
  <2>3. Hands(r) BY <1>0, <2>2, CallHands
  <2>4. OwnLink(r) BY <1>0, <2>2, CallOwn
  <2>. QED BY <1>0, <1>1, <2>2, <2>3, <2>4, RequestsSame
<1>3. CASE RawResets(r)
  <2>1. Call(r, "reset", NoMsg) /\ used' = used \union {"reset"} /\ UNCHANGED <<wait, outcome>>
    BY <1>3 DEF RawResets
  <2>2. Hands(r) BY <1>0, <2>1, CallHands
  <2>3. OwnLink(r) BY <1>0, <2>1, CallOwn
  <2>. QED BY <1>0, <1>1, <2>1, <2>2, <2>3, RequestsSame
<1>4. CASE RawNext(r)
  <2>1. CallNext(r, FALSE) /\ call[r].op = "begin" /\ UNCHANGED <<used, wait, outcome>> BY <1>4 DEF RawNext
  <2>2. Hands(r) BY <1>0, <2>1, CallNextHands
  <2>3. OwnLink(r) BY <1>0, <2>1, CallNextOwn
  <2>. QED BY <1>0, <1>1, <2>1, <2>2, <2>3, RequestsSame
<1>5. CASE RawReturns(r) BY <1>0, <1>5, IdleOwn DEF RawReturns
<1>6. CASE RawCloses(r)
  <2>1. CloseCancels(r) /\ UNCHANGED <<used, wait, outcome>> BY <1>6 DEF RawCloses
  <2>2. Hands(r) /\ OwnLink(r) BY <1>0, <2>1, CloseCancelsHands, RawClosesOwn
  <2>. QED BY <1>0, <1>1, <2>1, <2>2, RequestsSame
<1>7. CASE RawReleases(r)
  <2>1. CloseReleases(r) /\ UNCHANGED <<used, wait, outcome>> BY <1>7 DEF RawReleases
  <2>2. Hands(r) /\ OwnLink(r) BY <1>0, <2>1, CloseReleasesHands, RawReleasesOwn
  <2>. QED BY <1>0, <1>1, <2>1, <2>2, RequestsSame
<1>. QED BY <1>2, <1>3, <1>4, <1>5, <1>6, <1>7

LEMMA NextAnswerInv ==
  ASSUME TokenInv, AnswerInv, [Next]_vars
  PROVE  AnswerInv'
<1>0. Clients \subseteq Procs /\ Raws \subseteq Procs /\ Servers \subseteq Procs BY ProcsAssumption
<1>1. used \subseteq Services \union {"reset"} BY DEF AnswerInv
<1>2. ASSUME NEW p \in Procs, LinkSteps(p) PROVE AnswerInv'
  <2>1. LinkStep(p) /\ UNCHANGED <<used, wait, outcome>> BY <1>2 DEF LinkSteps
  <2>2. Hands(p) /\ OwnLink(p) BY <2>1, LinkStepHands, LinkStepOwn
  <2>. QED BY <1>1, <2>1, <2>2, RequestsSame
<1>3. ASSUME NEW p \in Clients, NEW service \in Services, NEW len, Do(p, service, len) PROVE AnswerInv'
  BY <1>3, DoInv
<1>4. ASSUME NEW p \in Clients, DoContinues(p) PROVE AnswerInv' BY <1>4, DoContinuesInv
<1>5. ASSUME Environment PROVE AnswerInv'
  <2>1. UNCHANGED <<used, wait, outcome>> BY <1>5 DEF Environment
  <2>2. ASSUME NEW p \in Procs, CancelContext(p) PROVE AnswerInv'
    <3>1. Hands(p) /\ OwnLink(p) BY <2>1, <2>2, CancelContextHands, CancelContextOwn
    <3>. QED BY <1>1, <2>1, <3>1, RequestsSame
  <2>3. ASSUME NEW l \in Links,
               \/ Deliver(l) \/ Lose(l) \/ PeerWaits(l) \/ Clear(l)
               \/ BusEnds(l) \/ ReadRetention(l) \/ Prune(l)
        PROVE  AnswerInv'
    BY <2>1, <2>3, LinkEventAnswerInv
  <2>. QED BY <1>5, <2>2, <2>3 DEF Environment
<1>6. CASE UNCHANGED vars BY <1>6, NothingMoves DEF vars, isoVars
<1>7. ASSUME Next PROVE AnswerInv'
  BY <1>2, <1>3, <1>4, <1>5, <1>7, ServerAnswerInv, RawAnswerInv DEF Next
<1>. QED BY <1>6, <1>7

LEMMA InitAnswerInv == Init => AnswerInv
<1>. SUFFICES ASSUME Init PROVE AnswerInv OBVIOUS
<1>1. InitLinks BY DEF Init
<1>2. \A l \in Links : log[l] = <<>> /\ Len(log[l]) = 0 /\ oldest[l] = 0 /\ cursor[l] = 0 /\ snapshot[l] = -1 /\ seen[l] = {}
  BY <1>1 DEF InitLinks
<1>3. PositionsOK BY <1>1, <1>2 DEF InitLinks, PositionsOK
<1>4. /\ wait = [p \in Clients |-> NoWait] /\ used = {}
      /\ outcome = [p \in Clients |-> [service |-> "none", err |-> "none", payload |-> <<>>, answered |-> FALSE]]
  BY DEF Init
<1>5. \A p \in Clients : OutcomeOK(outcome[p]) BY <1>4 DEF OutcomeOK, DoSuppressed
<1>6. ASSUME NEW p \in Procs PROVE ProcOK(p)
  <2>1. exchange[p] = "none" /\ pc[p] = "idle" /\ call[p] = IdleCall BY <1>1 DEF InitLinks
  <2>2. CallOK(call[p]) /\ call[p].op = "none" /\ call[p].res = "none" BY <2>1, IdleCallOK
  <2>3. ~Owns(exchange[p], pc[p], call[p]) /\ ~Located(exchange[p], pc[p], call[p]) BY <2>1, <2>2 DEF Owns, Located
  <2>4. StandOK(LinkOf[p], exchange[p], pc[p], call[p]) BY <2>3 DEF StandOK
  <2>5. Aimed(pc[p], call[p]) BY <2>1 DEF Aimed
  <2>6. ASSUME p \in Clients PROVE ClientOK(LinkOf[p], exchange[p], pc[p], call[p], wait[p])
    <3>1. wait[p] = NoWait BY <1>4, <2>6
    <3>. QED BY <2>1, <2>2, <2>3, <3>1 DEF ClientOK, NoWait
  <2>. QED BY <2>1, <2>2, <2>4, <2>5, <2>6 DEF ProcOK
<1>. QED BY <1>3, <1>4, <1>5, <1>6 DEF AnswerInv

LEMMA AnswersFollow ==
  ASSUME TokenInv, AnswerInv
  PROVE  AnswersExact
<1>0. PositionsOK /\ Typed BY DEF TokenInv, AnswerInv
<1>1. TypeOK
  <2>1. ASSUME NEW p \in Procs PROVE call[p].off \in Nat /\ call[p].seq \in 0 .. SequenceModulus - 1
    BY DEF AnswerInv, ProcOK, CallOK
  <2>2. used \subseteq Services \cup {"reset"} BY DEF AnswerInv
  <2>3. exchange \in [Procs -> {"none", "open", "cancelled"}] BY <1>0 DEF Typed, ExchangeStates
  <2>4. \A l \in Links : tokens[l] \subseteq {"sending", "receiving"} BY <1>0 DEF Typed, Tokens
  <2>. QED BY <1>0, <2>1, <2>2, <2>3, <2>4 DEF TypeOK, PositionsOK
<1>2. NoReplySkipped
  <2>. SUFFICES ASSUME NEW p \in Procs, exchange[p] # "none"
       PROVE  LET l == LinkOf[p] IN
              /\ cursor[l] >= call[p].tx \/ cursor[l] = 0
              /\ \A i \in call[p].tx .. cursor[l] : log[l][i].dir = "rx" => i \in seen[l]
    BY DEF NoReplySkipped
  <2>. PICK l, at, c : l = LinkOf[p] /\ at = pc[p] /\ c = call[p] OBVIOUS
  <2>1. /\ l \in Links /\ CallOK(c) /\ StandOK(l, exchange[p], at, c) /\ PlaceOK(exchange[p], at, c)
    BY Here
  <2>2. Owns(exchange[p], at, c) /\ Located(exchange[p], at, c) BY <2>1 DEF Owns, Located, PlaceOK, Receiving
  <2>3. Followed(l, at, c) BY <2>1, <2>2 DEF StandOK
  <2>4. cursor[l] \in Nat BY <1>0, <2>1 DEF PositionsOK
  <2>. QED BY <2>3, <2>4 DEF Followed
<1>3. PruneSafe BY DEF PruneSafe, AnswerInv, ProcOK
<1>4. ReplyPaired /\ SilenceMeansSilence BY DEF ReplyPaired, SilenceMeansSilence, AnswerInv, OutcomeOK
<1>. QED BY <1>1, <1>2, <1>3, <1>4 DEF AnswersExact, HistoryKept

\* What Client.Do returns is about its request: a final response names the
\* requested service (parseResponse), silence means that no response was read,
\* the exchange reads every record received since the request that
\* transport.SentCursor found, and Prune to RetentionCursor takes none of them.
THEOREM AnswersAlwaysExact == Spec => []AnswersExact
<1>1. TokenInv /\ [Next]_vars => TokenInv' BY NextTokenInv
<1>2. TokenInv /\ AnswerInv /\ [Next]_vars => AnswerInv' BY NextAnswerInv
<1>3. TokenInv /\ AnswerInv => AnswersExact BY AnswersFollow
<1>. QED BY InitTokenInv, InitAnswerInv, <1>1, <1>2, <1>3, PTL DEF Spec

=============================================================================
