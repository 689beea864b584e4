------------------------- MODULE MCNativeDrivers -------------------------
(***************************************************************************)
(* Scenarios of the native drivers: small budgets of packets, faults and   *)
(* removals per driver, so that the state spaces of the drivers add up.    *)
(***************************************************************************)
EXTENDS NativeDrivers

CONSTANTS b1, b2, s1, s2

F1 == Packet("frame", "f1")
F2 == Packet("frame", "f2")
F3 == Packet("frame", "f3")
Bad == Packet("bad", "x")
Invalid == Packet("invalid", None)
Error == Packet("error", "active")
Gone == Packet("gone", None)

Calm == [faults |-> 0, packets |-> <<>>, answers |-> {}, changes |-> <<>>,
         ticks |-> 0, removals |-> 0, discovers |-> 0]

Of(kind, buses, senders, budget) ==
    [kind |-> kind, buses |-> buses, closes |-> buses, senders |-> senders,
     budget |-> budget, capacity |-> 9, cancels |-> FALSE, concurrent |-> FALSE]

\* PCAN reports invalid wire data before the error frame that goes with it.
Skipped(kind) == IF kind = "pcan" THEN <<Invalid>> ELSE <<>>

\* One bus of each driver: a frame that cannot be decoded and a queue that
\* overruns; controller states; faults and cancellation; a full capture.
Traffic(kind) ==
    {Of(kind, {b1}, {s1}, [Calm EXCEPT !.packets = <<F1, Bad, F2, F3>>, !.answers = {s1}]),
     Of(kind, {b1}, {s1}, [Calm EXCEPT !.packets = <<Error>>,
                                       !.changes = <<"passive", "busoff">>, !.ticks = 1]),
     [Of(kind, {b1}, {s1, s2}, [Calm EXCEPT !.packets = Skipped(kind) \o <<Gone>>, !.faults = 1])
        EXCEPT !.cancels = TRUE],
     [Of(kind, {b1}, {s1, s2}, [Calm EXCEPT !.packets = <<Error>>, !.answers = {s1}])
        EXCEPT !.capacity = 2]}

\* Linux error packets that report several things at once, also to a capture
\* that has no room for all of them.
Combined ==
    LET packets == <<Error, Packet("error", None), Packet("error overflow", "busoff"), F1>>
        c == Of("socketcan", {b1}, {s1}, [Calm EXCEPT !.packets = packets])
    IN  {c} \union {[c EXCEPT !.capacity = n] : n \in 3 .. 5}
        \union {Of("socketcan", {b1}, {s1}, [Calm EXCEPT !.packets = <<Packet("overflow", of), F1>>]) :
                   of \in {None, "busoff"}}

\* A controller that integrates before it becomes active, and may fail; a
\* request for the chip state that fails.
Integrating ==
    {Of("nixnet", {b1}, {}, [Calm EXCEPT !.changes = <<"init", "passive">>, !.ticks = 2, !.faults = 1,
                                         !.packets = <<F1>>])}
Asking == {Of("vector", {b1}, {}, [Calm EXCEPT !.packets = <<Error>>, !.ticks = 1, !.faults = 1])}

Concurrent(scenarios) == {[c EXCEPT !.concurrent = TRUE] : c \in scenarios}

\* Two buses that share the monitor or the Vector driver.
Shared ==
    {Of("pcan", {b1, b2}, {}, [Calm EXCEPT !.removals = 2]),
     Of("pcan", {b1, b2}, {}, [Calm EXCEPT !.removals = 1, !.faults = 1]),
     Of("vector", {b1, b2}, {}, [Calm EXCEPT !.discovers = 1, !.faults = 2])}

MCScenarios ==
    Traffic("socketcan") \union Traffic("pcan") \union Traffic("vector")
      \union Traffic("nixnet") \union Concurrent(Traffic("nixnet"))
      \union Combined \union Integrating \union Concurrent(Integrating)
      \union Asking \union Shared
=============================================================================
