-------------------------- MODULE DeviceMonitor --------------------------
(***************************************************************************)
(* internal/devicechange: the process-wide monitor that stops every PCAN   *)
(* bus when Windows reports the removal of a PEAK device.  An open takes a *)
(* Hold before it initializes the channel and turns it into a subscription *)
(* with Bind; the Windows registration lives while a hold or subscription  *)
(* does.  Every operation under Monitor.mu is one step; the teardown that  *)
(* idleShutdownLocked returns runs outside the lock, in the caller, and    *)
(* waits there for the run goroutine, which may be about to take the lock. *)
(***************************************************************************)
EXTENDS Lifecycle, FiniteSets

CONSTANTS MaxWatchers,   \* bound: registrations in a run
          EventBuffer    \* size of the Events channel of a watcher

VARIABLES monitor,       \* Monitor: attached watcher, generation, holds, subscribers
          watchers       \* every Watcher ever registered, with its run goroutine

monitorVars == <<monitor, watchers>>

WatcherIds == 1..MaxWatchers

NewMonitor ==
    [watcher |-> 0, generation |-> 0, holds |-> 0, subscribers |-> {}]

\* todo: the subscribers stopAll copied and has not called yet.
NewWatcher ==
    [registered |-> FALSE, running |-> FALSE, stop |-> FALSE,
     events |-> 0, lost |-> FALSE, todo |-> {}]

Fresh(w) == watchers[w] = NewWatcher /\ \A v \in 1..(w - 1) : watchers[v] # NewWatcher

Register(w) ==
    watchers' = [watchers EXCEPT ![w].registered = TRUE, ![w].running = TRUE]

\* The callback: a matching removal enters the finite queue or sets the flag.
Notify(watcher) ==
    IF ~watcher.registered THEN watcher
    ELSE IF watcher.events < EventBuffer THEN [watcher EXCEPT !.events = @ + 1]
    ELSE [watcher EXCEPT !.lost = TRUE]

-----------------------------------------------------------------------------
(* Hold, Bind, Release and Cancel; the callers are in NativeDrivers.       *)

Hold ==
    \/ /\ monitor.watcher # 0
       /\ monitor' = [monitor EXCEPT !.holds = @ + 1]
       /\ UNCHANGED watchers
    \/ /\ monitor.watcher = 0
       /\ \E w \in WatcherIds :
            /\ Fresh(w)
            /\ Register(w)
            /\ monitor' = [monitor EXCEPT !.watcher = w, !.holds = @ + 1]

\* idleShutdownLocked detaches the watcher nothing refers to any more.
IdleShutdown(m) ==
    IF m.holds > 0 \/ m.subscribers # {} THEN m ELSE [m EXCEPT !.watcher = 0]

EndHold(m) == [m EXCEPT !.holds = @ - 1]

\* Bind refuses a device generation that has passed.
Bind(b, generation) ==
    monitor' = IF generation # monitor.generation
               THEN IdleShutdown(EndHold(monitor))
               ELSE [EndHold(monitor) EXCEPT !.subscribers = @ \union {b}]

Release == monitor' = IdleShutdown(EndHold(monitor))

Cancel(b) == monitor' = IdleShutdown([monitor EXCEPT !.subscribers = @ \ {b}])

\* The watcher the caller has to tear down after its step, 0 if none.
Detached == IF monitor'.watcher = monitor.watcher THEN 0 ELSE monitor.watcher

\* Mutant: the teardown waits for the goroutine before it tells it to stop.
StopAfterDone(w) ==
    /\ ~watchers[w].stop /\ ~watchers[w].running
    /\ watchers' = [watchers EXCEPT ![w].stop = TRUE]

\* The two ends of the returned teardown: close(stop), then <-done and Close.
CloseStop(w) ==
    /\ ~watchers[w].stop
    /\ watchers' = [watchers EXCEPT ![w].stop = TRUE]

CloseWatcher(w) ==
    /\ watchers[w].stop /\ ~watchers[w].running
    /\ watchers' = [watchers EXCEPT ![w].registered = FALSE]

-----------------------------------------------------------------------------
(* The run goroutine of a watcher.                                         *)

\* Mutant: a removal does not end the generation of the opens in progress.
StopAllSameGeneration(w) == UNCHANGED monitor

\* stopAll ignores a source that is no longer the attached one.
StopAll(w) ==
    IF monitor.watcher # w
    THEN UNCHANGED monitor
    ELSE monitor' = [monitor EXCEPT !.generation = @ + 1]

Copied(w) == IF monitor.watcher # w THEN {} ELSE monitor.subscribers

RunEvent(w) ==
    /\ watchers[w].running /\ watchers[w].todo = {} /\ watchers[w].events > 0
    /\ StopAll(w)
    /\ watchers' = [watchers EXCEPT ![w].events = @ - 1, ![w].todo = Copied(w)]
    /\ UNCHANGED lifecycle

\* The ticker finds the lost flag, which the swap clears.
RunLost(w) ==
    /\ watchers[w].running /\ watchers[w].todo = {} /\ watchers[w].lost
    /\ StopAll(w)
    /\ watchers' = [watchers EXCEPT ![w].lost = FALSE, ![w].todo = Copied(w)]
    /\ UNCHANGED lifecycle

\* The copied subscribers are called one by one, without the lock.
RunStopBus(w, b) ==
    /\ b \in watchers[w].todo
    /\ watchers' = [watchers EXCEPT ![w].todo = @ \ {b}]
    /\ Stop(b, "removed")
    /\ UNCHANGED monitor

RunEnd(w) ==
    /\ watchers[w].running /\ watchers[w].todo = {} /\ watchers[w].stop
    /\ watchers' = [watchers EXCEPT ![w].running = FALSE]
    /\ UNCHANGED <<monitor, lifecycle>>

Run(w) == RunEvent(w) \/ RunLost(w) \/ (\E b \in Buses : RunStopBus(w, b)) \/ RunEnd(w)
=============================================================================
