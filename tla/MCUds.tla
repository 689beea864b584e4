------------------------------- MODULE MCUds -------------------------------
(* Instances of Uds for TLC.                                               *)
EXTENDS Uds

CONSTANTS c1, c2, r1, s1

MCLinkOf == [p \in Procs |-> IF p \in Servers THEN "server" ELSE "client"]
MCBlockSize == [l \in Links |-> IF l = "server" THEN 1 ELSE 0]
MCMaximumPayloadLength == [l \in Links |-> IF l = "server" THEN 3 ELSE 4]

\* One record for each kind of disturbance: the state spaces add up.
Quiet == [lost |-> 0, waits |-> 0, clears |-> 0, cancels |-> 0, prunes |-> 0,
          requests |-> 1, lengths |-> {1}, replies |-> {1}, pending |-> 0,
          recovery |-> FALSE, raw |-> FALSE]
MCScenarios ==
    { [Quiet EXCEPT !.lost = 1, !.requests = 2, !.lengths = {3}],
      [Quiet EXCEPT !.waits = 2, !.lengths = {3, 4}],
      [Quiet EXCEPT !.clears = 1, !.prunes = 1, !.lengths = {2}],
      [Quiet EXCEPT !.cancels = 1, !.requests = 2, !.replies = {2}],
      [Quiet EXCEPT !.replies = {0, 2}, !.pending = 1, !.recovery = TRUE],
      [Quiet EXCEPT !.requests = 2, !.pending = 1],
      [Quiet EXCEPT !.replies = {2}, !.raw = TRUE] }
=============================================================================
