-------------------------------- MODULE Uds --------------------------------
(***************************************************************************)
(* UDS clients (uds.Client) that share one ISO-TP link, a diagnostic       *)
(* server at the other end, and an application that uses the client's link *)
(* directly (raw exchanges closed by another goroutine, Reset).            *)
(*                                                                         *)
(* The server is not part of the package: it alternates Receive and Send   *)
(* on its own link, as the package asks of one, and answers each request   *)
(* with silence or with any number of ResponsePending and a final response,*)
(* as late as it likes.                                                    *)
(***************************************************************************)
EXTENDS IsoTp

CONSTANTS
    Clients, Raws, Servers,   \* partition of Procs
    Services                  \* requests that a client may issue, each once

ASSUME ProcsAssumption ==
    /\ Clients \union Raws \union Servers \subseteq Procs
    /\ Clients \cap Raws = {} /\ Clients \cap Servers = {} /\ Raws \cap Servers = {}

VARIABLES
    used,     \* services requested so far (each once), and "reset"
    wait,     \* wait[p]: the response wait of a Do in progress
    job,      \* job[s]: the request that server s is working on
    outcome   \* outcome[p]: what the last Do of p returned

vars == <<isoVars, used, wait, job, outcome>>

NoWait == [service |-> "none", timer |-> "P2", recovering |-> FALSE]
NoJob == [msg |-> NoMsg, pending |-> 0]

Request(service, len) == [id |-> service, len |-> len, kind |-> "request"]
Reply(service, kind, len) == [id |-> service, len |-> len, kind |-> kind]

Init ==
    /\ InitLinks
    /\ used = {}
    /\ wait = [p \in Clients |-> NoWait]
    /\ job = [s \in Servers |-> NoJob]
    /\ outcome = [p \in Clients |-> [service |-> "none", err |-> "none", payload |-> <<>>,
                                  answered |-> FALSE]]

-----------------------------------------------------------------------------
(* uds.Client.Do                                                           *)

\* Do encodes the request and calls Begin.
Do(p, service, len) ==
    /\ service \notin used
    /\ Cardinality(used \cap Services) < scenario.requests
    /\ Call(p, "begin", Request(service, len))
    /\ used' = used \cup {service}
    /\ wait' = [wait EXCEPT ![p] = [NoWait EXCEPT !.service = service]]
    /\ UNCHANGED <<job, outcome, scenario>>

\* Do returns; its deferred Close ends the exchange if Begin returned one.
DoReturns(p, err, payload) ==
    LET l == LinkOf[p] IN
    /\ outcome' = [outcome EXCEPT ![p] =
           [service |-> wait[p].service, err |-> err, payload |-> payload,
            answered |-> \E i \in seen[l] : i > call[p].tx /\ log[l][i].frame.kind # "flow"]]
    /\ wait' = [wait EXCEPT ![p] = NoWait]
    /\ pc' = [pc EXCEPT ![p] = "idle"]
    /\ call' = [call EXCEPT ![p] = IdleCall]
    /\ exchange' = [exchange EXCEPT ![p] = "none"]
    /\ tokens' = [tokens EXCEPT ![l] = IF exchange[p] = "none" THEN @
                                       ELSE @ \cup {"sending", "receiving"}]
    /\ retaining' = [retaining EXCEPT ![l] = @ /\ exchange[p] = "none"]
    /\ UNCHANGED <<log, oldest, wire, cursor, snapshot, busDone, seen, faults, used, job, scenario>>

\* Another exchange.Next with the given timer.
DoWaits(p, timer, recovering) ==
    /\ CallNext(p, TRUE)
    /\ wait' = [wait EXCEPT ![p].timer = timer, ![p].recovering = recovering]
    /\ UNCHANGED <<used, job, outcome, scenario>>

\* parseResponse: a final response has to name the requested service, a
\* ResponsePending is taken for the sole outstanding request.
ParseResponse(service, m) ==
    CASE m.kind = "pending" -> "pending"
      [] m.kind \in {"positive", "negative"} /\ m.id = service -> m.kind
      [] OTHER -> "unexpected"

\* The loop of Do with nextWithTimeout, after Begin or Next returned.
DoContinues(p) ==
    LET c == call[p]  w == wait[p]
        expired == c.res = "firsttimeout"
        parsed == ParseResponse(w.service, c.buf[1][1])
    IN
    /\ pc[p] = "returned"
    /\ w.service # "none"
    /\ \/ c.op = "begin" /\ c.res # "ok" /\ DoReturns(p, c.res, <<>>)
       \/ c.op = "begin" /\ c.res = "ok" /\ ~c.ctx /\ DoWaits(p, "P2", FALSE)
       \/ c.op = "begin" /\ c.res = "ok" /\ c.ctx /\ DoReturns(p, "context", <<>>)
       \/ c.op = "next" /\ c.res \notin {"ok", "firsttimeout"} /\ DoReturns(p, c.res, <<>>)
       \/ c.op = "next" /\ c.res \in {"ok", "firsttimeout"} /\ c.ctx /\ DoReturns(p, "context", <<>>)
       \/ expired /\ ~c.ctx /\ scenario.recovery /\ ~w.recovering /\ DoWaits(p, w.timer, TRUE)
       \/ expired /\ ~c.ctx /\ (w.recovering \/ ~scenario.recovery) /\ DoReturns(p, w.timer, <<>>)
       \/ c.op = "next" /\ c.res = "ok" /\ ~c.ctx /\ parsed = "pending" /\ DoWaits(p, "P2*", FALSE)
       \/ c.op = "next" /\ c.res = "ok" /\ ~c.ctx /\ parsed # "pending" /\ DoReturns(p, parsed, c.buf)

\* DoSuppressed: silence through P2 is success.
DoSuppressed(err) == IF err = "P2" THEN "silent" ELSE err

-----------------------------------------------------------------------------
(* The server (external).                                                  *)

ServerReceives(s) ==
    /\ job[s] = NoJob
    /\ Call(s, "receive", NoMsg)
    /\ UNCHANGED <<used, wait, job, outcome, scenario>>

ServerTakes(s) ==
    /\ pc[s] = "returned"
    /\ pc' = [pc EXCEPT ![s] = "idle"]
    /\ call' = [call EXCEPT ![s] = IdleCall]
    /\ job' = [job EXCEPT ![s] = IF call[s].op = "receive" /\ call[s].res = "ok"
                                 THEN [msg |-> call[s].buf[1][1], pending |-> scenario.pending] ELSE @]
    /\ UNCHANGED <<log, oldest, wire, tokens, cursor, retaining, snapshot, busDone,
                   exchange, seen, faults, used, wait, outcome, scenario>>

ServerReplies(s) ==
    /\ job[s] # NoJob
    /\ \/ /\ job[s].pending > 0
          /\ Call(s, "send", Reply(job[s].msg.id, "pending", 1))
          /\ job' = [job EXCEPT ![s].pending = @ - 1]
       \/ /\ \E len \in scenario.replies :
                Call(s, "send", Reply(job[s].msg.id, IF len = 0 THEN "negative" ELSE "positive", Max({1, len})))
          /\ job' = [job EXCEPT ![s] = NoJob]
    /\ UNCHANGED <<used, wait, outcome, scenario>>

ServerStaysSilent(s) ==
    /\ job[s] # NoJob
    /\ pc[s] = "idle"
    /\ job' = [job EXCEPT ![s] = NoJob]
    /\ UNCHANGED <<isoVars, used, wait, outcome>>

-----------------------------------------------------------------------------
(* An application that drives the client's link itself.                    *)

RawBegins(r, service, len) ==
    /\ scenario.raw
    /\ service \notin used
    /\ Cardinality(used \cap Services) < scenario.requests
    /\ Call(r, "begin", Request(service, len))
    /\ used' = used \cup {service}
    /\ UNCHANGED <<wait, job, outcome, scenario>>

RawResets(r) ==
    /\ scenario.raw /\ "reset" \notin used
    /\ Call(r, "reset", NoMsg)
    /\ used' = used \cup {"reset"}
    /\ UNCHANGED <<wait, job, outcome, scenario>>

RawNext(r) ==
    /\ call[r].op = "begin"
    /\ CallNext(r, FALSE)
    /\ UNCHANGED <<used, wait, job, outcome, scenario>>

\* The call returned; an exchange that is still open belongs to the caller.
RawReturns(r) ==
    /\ pc[r] = "returned"
    /\ exchange[r] = "none"
    /\ pc' = [pc EXCEPT ![r] = "idle"]
    /\ call' = [call EXCEPT ![r] = IdleCall]
    /\ UNCHANGED <<log, oldest, wire, tokens, cursor, retaining, snapshot, busDone,
                   exchange, seen, faults, used, wait, job, outcome, scenario>>

RawCloses(r) == CloseCancels(r) /\ UNCHANGED <<used, wait, job, outcome, scenario>>
RawReleases(r) == CloseReleases(r) /\ UNCHANGED <<used, wait, job, outcome, scenario>>

LinkSteps(p) == LinkStep(p) /\ UNCHANGED <<used, wait, job, outcome, scenario>>

Environment ==
    /\ \/ \E p \in Procs \ Servers : CancelContext(p)
       \/ \E l \in Links : \/ Deliver(l) \/ Lose(l) \/ PeerWaits(l) \/ Clear(l)
                           \/ l = "client" /\ (BusEnds(l) \/ ReadRetention(l) \/ Prune(l))
    /\ UNCHANGED <<used, wait, job, outcome, scenario>>

Next ==
    \/ \E p \in Procs : LinkSteps(p)
    \/ \E p \in Clients, service \in Services, len \in scenario.lengths : Do(p, service, len)
    \/ \E p \in Clients : DoContinues(p)
    \/ \E s \in Servers : \/ ServerReceives(s) \/ ServerTakes(s)
                          \/ ServerReplies(s) \/ ServerStaysSilent(s)
    \/ \E r \in Raws : \/ \E service \in Services, len \in scenario.lengths : RawBegins(r, service, len)
                       \/ RawResets(r) \/ RawNext(r) \/ RawReturns(r)
                       \/ RawCloses(r) \/ RawReleases(r)
    \/ Environment

Spec == Init /\ [][Next]_vars

\* A goroutine inside a call keeps running, its timers expire, an exchange that
\* was begun is closed by its owner, and a frame on the bus arrives or is lost.
Fairness ==
    /\ \A p \in Procs : WF_vars(LinkSteps(p))
    /\ \A p \in Clients : WF_vars(DoContinues(p))
    /\ \A r \in Raws : WF_vars(RawReturns(r)) /\ WF_vars(RawCloses(r)) /\ WF_vars(RawReleases(r))
    /\ \A s \in Servers : WF_vars(ServerTakes(s))

FairSpec == Spec /\ Fairness

-----------------------------------------------------------------------------
TypeOK ==
    /\ \A l \in Links : /\ oldest[l] \in 0 .. Len(log[l])
                        /\ cursor[l] \in 0 .. Len(log[l])
                        /\ snapshot[l] \in -1 .. Len(log[l])
                        /\ tokens[l] \subseteq {"sending", "receiving"}
                        /\ seen[l] \subseteq 1 .. Len(log[l])
    /\ retaining \in [Links -> BOOLEAN] /\ busDone \in [Links -> BOOLEAN]
    /\ exchange \in [Procs -> {"none", "open", "cancelled"}]
    /\ used \subseteq Services \cup {"reset"}
    /\ \A p \in Procs : call[p].off \in Nat /\ call[p].seq \in 0 .. SequenceModulus - 1

\* Do returns a final response only if the server produced it for this very
\* request: a response to an earlier request that arrives late, in the exchange
\* of the next one, is reported as unexpected (each service is requested once).
ReplyPaired ==
    \A p \in Clients :
        outcome[p].err \in {"positive", "negative"} =>
            /\ outcome[p].payload[1][1].id = outcome[p].service
            /\ outcome[p].payload[1][1].kind = outcome[p].err

\* DoSuppressed reports silence only when the server did not answer at all, not
\* even with ResponsePending.
SilenceMeansSilence ==
    \A p \in Clients : DoSuppressed(outcome[p].err) = "silent" => ~outcome[p].answered

\* Every Do returns: each of its waits is bounded, and the token it waits for
\* comes back because the exchange that has it ends.
DoEnds == \A p \in Clients : wait[p].service # "none" ~> wait[p].service = "none"

\* Close returns and frees the link: it ends a Next in progress by cancelling it
\* instead of waiting for a frame that may never come.
CloseReturns == \A r \in Raws : exchange[r] = "cancelled" ~> exchange[r] = "none"

\* What a request returns is about that request.
AnswersExact == TypeOK /\ HistoryKept /\ ReplyPaired /\ SilenceMeansSilence

\* Nobody waits for ever.
AllEnd == DoEnds /\ CloseReturns
=============================================================================
