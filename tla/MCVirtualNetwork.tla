-------------------------- MODULE MCVirtualNetwork --------------------------
(* Small instances of VirtualNetwork for TLC. *)
EXTENDS VirtualNetwork, TLC

CONSTANTS b1, b2, b3, s1, s2, s3

\* b1 and b2 send to each other; b3 may reopen the ID of b1.
MCID == b1 :> 1 @@ b2 :> 2 @@ b3 :> 1
MCSendBus == s1 :> b2 @@ s2 :> b2 @@ s3 :> b1

\* b2 floods b1 and the bus that reopens its ID, which nobody closes; or b1 and
\* b2 send one frame each.
Bound ==
  \/ send[s3] = "new" /\ ~closing[b3]
  \/ send[s1] = "new" /\ loop[b3].step = "unopened"
BoundSpec == Init /\ [][Next /\ Bound']_vars /\ Fairness
=============================================================================
