------------------------------- MODULE MCXcp -------------------------------
(* Instances of Xcp for TLC.                                               *)
EXTENDS Xcp

CONSTANTS p1, p2

\* One record for each kind of disturbance: the state spaces add up.
Quiet == [lost |-> 0, clears |-> 0, prunes |-> 0, ends |-> 0, events |-> 0, errs |-> 0,
          calls |-> 3, ops |-> {"connect", "synch", "status"}]
MCScenarios ==
    { [Quiet EXCEPT !.ops = @ \cup {"disconnect"}],
      [Quiet EXCEPT !.lost = 1],
      [Quiet EXCEPT !.clears = 1, !.prunes = 1, !.calls = 2, !.ops = {"connect", "synch"}],
      [Quiet EXCEPT !.prunes = 1, !.ops = {"connect", "synch"}],
      [Quiet EXCEPT !.ends = 1, !.ops = {"connect", "status"}],
      [Quiet EXCEPT !.events = 1, !.ops = {"connect"}],
      [Quiet EXCEPT !.errs = 1],
      [Quiet EXCEPT !.ops = {"connect", "read", "other", "synch"}] }
=============================================================================
