---------------------------- MODULE Lifecycle ----------------------------
(***************************************************************************)
(* The lifecycle every native driver shares (internal/driverstate): the    *)
(* stop signal, the done signal and the first background failure of each   *)
(* bus.  Stop is one step: sync.Once holds a second caller back until the  *)
(* first has closed the signal and woken the receive goroutine.            *)
(***************************************************************************)
EXTENDS Naturals

CONSTANTS Buses,    \* the native buses of the process
          None      \* no error, no owner

VARIABLE lifecycle  \* of each bus: the two signals and the kept error

NewLifecycle == [stop |-> FALSE, done |-> FALSE, err |-> None]

\* A nil error (a plain Close) stops the bus and leaves the kept error alone.
StoppedWith(l, e) == [l EXCEPT !.stop = TRUE, !.err = IF @ = None THEN e ELSE @]

Stop(b, e) == lifecycle' = [lifecycle EXCEPT ![b] = StoppedWith(@, e)]

MarkDone(b) == lifecycle' = [lifecycle EXCEPT ![b].done = TRUE]

OperationError(b) ==
    IF lifecycle[b].err = None THEN "closed" ELSE lifecycle[b].err
=============================================================================
