------------------------------- MODULE Cyclic -------------------------------
(***************************************************************************)
(* A cyclic transmission (cyclic/cyclic.go): the goroutine that sends a    *)
(* fixed or generated frame once per period through Send, against Update,  *)
(* Stop, the parent context, the end of the bus and a clock that may run   *)
(* far ahead of it.                                                        *)
(***************************************************************************)
EXTENDS SendRetry, Sequences

CONSTANTS
  Period,                 \* ticks of the clock between occurrences
  MaxConsecutiveMisses,
  MaxTime,                \* bound: ticks of the clock
  MaxUpdates              \* bound: calls of Update

ASSUME CyclicAssumption ==
  /\ Period \in Nat \ {0}
  /\ MaxConsecutiveMisses \in Nat /\ MaxTime \in Nat /\ MaxUpdates \in Nat

VARIABLES
  now,        \* the clock; the schedule's anchor is 0
  phase,      \* where run is
  deadline,   \* the timer, or the occurrence's deadline while it is sent
  task,       \* task.ctx
  stopping, misses, missed, frame,
  generates,  \* a task of StartFunc
  runErr,     \* runErr and then err, as the set of the errors joined
  picked,     \* the frame that send has read
  attempts,   \* history: the occurrence of each call of send
  outcomes,   \* history: accepted or missed, per finished send
  endedIn,    \* history: the phase in which task.ctx ended
  late        \* history: acceptances after that

schedule == <<now, deadline>>
content == <<frame, generates>>
taskVars == <<phase, task, stopping, misses, missed, content, runErr, picked>>
marks == <<attempts, outcomes, endedIn, late>>
vars == <<sendVars, busVars, schedule, taskVars, marks>>

Missed == "ErrOccurrenceMissed"
StopRequested == "errStopRequested"
Generated == "generate"          \* an error of the callback or of its frame
Parent == "parent"               \* the cause of the parent context

\* Mutant of NextDeadline: the occurrence that is running counts as the next.
CurrentDeadline(anchor, period, t) ==
  IF t < anchor THEN anchor ELSE anchor + ((t - anchor) \div period) * period

NextDeadline(anchor, period, t) ==
  IF t < anchor THEN anchor ELSE anchor + ((t - anchor) \div period + 1) * period

Init ==
  /\ SendInit
  /\ now = 0 /\ phase = "send" /\ deadline = 0 /\ task = Live /\ stopping = FALSE
  /\ misses = 0 /\ missed = 0 /\ frame = 0 /\ generates \in BOOLEAN /\ runErr = {} /\ picked = 0
  /\ attempts = <<>> /\ outcomes = <<>> /\ endedIn = "none" /\ late = 0

FinishWith(err) == phase' = "finish" /\ runErr' = err
Enter(p) == phase' = p /\ UNCHANGED runErr

-----------------------------------------------------------------------------
(* send.                                                                   *)

BeginOccurrence ==
  /\ phase = "send"
  /\ IF task = Live
     THEN /\ Enter(IF generates THEN "generate" ELSE "pick")
          /\ attempts' = Append(attempts, now \div Period)
     ELSE FinishWith({task.cause}) /\ UNCHANGED attempts
  /\ UNCHANGED <<sendVars, busVars, schedule, task, stopping, misses, missed, content, picked,
                 outcomes, endedIn, late>>

\* The callback returns a valid frame, or an error.
Generate ==
  /\ phase = "generate"
  /\ Enter("pick") \/ FinishWith({Generated})
  /\ UNCHANGED <<sendVars, busVars, schedule, task, stopping, misses, missed, content, picked, marks>>

\* The critical section that publishes a generated frame and reads the frame.
Pick ==
  /\ phase = "pick"
  /\ picked' = frame
  /\ Enter("launch")
  /\ UNCHANGED <<sendVars, busVars, schedule, task, stopping, misses, missed, content, marks>>

\* Mutant of Launch: what happened during the callback is not looked at.
LaunchUnchecked ==
  /\ phase = "launch"
  /\ deadline' = IF RetryTimeout THEN NextDeadline(0, Period, now) ELSE deadline
  /\ CallSend(Live)
  /\ Enter("sending")
  /\ UNCHANGED <<busVars, now, task, stopping, misses, missed, content, picked, marks>>

\* The second look at the context, the occurrence's deadline and the call.
Launch ==
  /\ phase = "launch"
  /\ IF task = Live
     THEN /\ deadline' = IF RetryTimeout THEN NextDeadline(0, Period, now) ELSE deadline
          /\ CallSend(task)
          /\ Enter("sending")
     ELSE FinishWith({task.cause}) /\ UNCHANGED <<sendVars, deadline>>
  /\ UNCHANGED <<busVars, now, task, stopping, misses, missed, content, picked, marks>>

Sending ==
  /\ phase = "sending" /\ Send
  /\ late' = IF task = Live THEN late ELSE late + (accepted' - accepted)
  /\ UNCHANGED <<schedule, taskVars, attempts, outcomes, endedIn>>

\* The deadline of the occurrence passes.
OccurrenceExpires ==
  /\ phase = "sending" /\ at # "returned" /\ RetryTimeout
  /\ now >= deadline /\ caller = Live
  /\ EndCaller(Context(DeadlineExceeded, Missed))
  /\ UNCHANGED <<at, timer, sendErr, accepted, busVars, schedule, taskVars, marks>>

\* Send has returned: an end of the context that task.ctx shares.
SendReturned ==
  /\ phase = "sending" /\ at = "returned"
  /\ at' = "idle"
  /\ IF task # Live /\ sendErr \cap {Canceled, DeadlineExceeded} # {}
     THEN FinishWith({task.cause}) ELSE Enter("judge")
  /\ UNCHANGED <<caller, retry, timer, sendErr, accepted, busVars, schedule,
                 task, stopping, misses, missed, content, picked, marks>>

\* Mutant of Accept: the count of consecutive misses is not reset.
AcceptKeepingMisses ==
  /\ phase = "judge" /\ sendErr = {}
  /\ outcomes' = Append(outcomes, "accepted")
  /\ Enter("arm")
  /\ UNCHANGED <<sendVars, busVars, schedule, task, stopping, misses, missed, content, picked,
                 attempts, endedIn, late>>

Accept ==
  /\ phase = "judge" /\ sendErr = {}
  /\ misses' = 0
  /\ outcomes' = Append(outcomes, "accepted")
  /\ Enter("arm")
  /\ UNCHANGED <<sendVars, busVars, schedule, task, stopping, missed, content, picked,
                 attempts, endedIn, late>>

\* A failed send: a miss while the task is not cancelled, or the end.
Judge ==
  /\ phase = "judge" /\ sendErr # {}
  /\ IF task = Live /\ sendErr \cap {Missed, Full} # {}
     THEN Enter("miss") ELSE FinishWith(sendErr)
  /\ UNCHANGED <<sendVars, busVars, schedule, task, stopping, misses, missed, content, picked, marks>>

\* A bus that is done ends the task; otherwise the miss counts, and is absorbed
\* or ends it.
CountMiss ==
  /\ phase = "miss"
  /\ IF busDone
     THEN FinishWith(sendErr \cup {BusCause}) /\ UNCHANGED <<misses, missed, outcomes>>
     ELSE /\ missed' = missed + 1
          /\ outcomes' = Append(outcomes, "missed")
          /\ IF misses < MaxConsecutiveMisses
             THEN misses' = misses + 1 /\ Enter("arm")
             ELSE FinishWith(sendErr) /\ UNCHANGED misses
  /\ UNCHANGED <<sendVars, busVars, schedule, task, stopping, content, picked,
                 attempts, endedIn, late>>

-----------------------------------------------------------------------------
(* run.                                                                    *)

\* The timer is set for the next occurrence.
Arm ==
  /\ phase = "arm"
  /\ deadline' = NextDeadline(0, Period, now)
  /\ Enter("select")
  /\ UNCHANGED <<sendVars, busVars, now, task, stopping, misses, missed, content, picked, marks>>

TimerFires ==
  /\ phase = "select" /\ now >= deadline
  /\ Enter("send")
  /\ UNCHANGED <<sendVars, busVars, schedule, task, stopping, misses, missed, content, picked, marks>>

ContextDone ==
  /\ phase = "select" /\ task # Live
  /\ FinishWith({task.cause})
  /\ UNCHANGED <<sendVars, busVars, schedule, task, stopping, misses, missed, content, picked, marks>>

BusIsDone ==
  /\ phase = "select" /\ busDone
  /\ FinishWith({BusCause})
  /\ UNCHANGED <<sendVars, busVars, schedule, task, stopping, misses, missed, content, picked, marks>>

Finish ==
  /\ phase = "finish" /\ phase' = "done" /\ stopping' = TRUE
  /\ runErr' = IF StopRequested \in runErr THEN {} ELSE runErr
  /\ task' = Inherit(task, Context(Canceled, Canceled))
  /\ UNCHANGED <<sendVars, busVars, schedule, misses, missed, content, picked, marks>>

-----------------------------------------------------------------------------
(* The task's users and its surroundings.                                  *)

\* task.ctx ends while the goroutine runs.
EndTask(ctx) ==
  /\ task = Live /\ phase # "done"
  /\ task' = ctx /\ EndCaller(ctx)
  /\ endedIn' = IF phase = "sending" /\ at = "returned" THEN "judge" ELSE phase
  /\ UNCHANGED <<at, timer, sendErr, accepted, busVars, schedule, phase, misses, missed,
                 content, runErr, picked, attempts, outcomes, late>>

Stop ==
  /\ ~stopping /\ stopping' = TRUE
  /\ \/ EndTask(Context(Canceled, StopRequested))
     \/ /\ task # Live
        /\ UNCHANGED <<sendVars, busVars, schedule, phase, task, misses, missed, content,
                       runErr, picked, marks>>

ParentEnds ==
  /\ \E ctx \in {Context(Canceled, Parent), Context(DeadlineExceeded, DeadlineExceeded)} :
       EndTask(ctx)
  /\ UNCHANGED stopping

\* Update of a task that operationErrorLocked does not refuse.
Update ==
  /\ ~generates /\ frame < MaxUpdates
  /\ ~stopping /\ task = Live
  /\ frame' = frame + 1
  /\ UNCHANGED <<sendVars, busVars, schedule, phase, task, stopping, misses, missed,
                 generates, runErr, picked, marks>>

Tick ==
  /\ now < MaxTime /\ now' = now + 1
  /\ UNCHANGED <<sendVars, busVars, deadline, taskVars, marks>>

Surroundings ==
  (RetryExpires \/ BusStops) /\ UNCHANGED <<schedule, taskVars, marks>>

Run == \/ BeginOccurrence \/ Generate \/ Pick \/ Launch \/ Sending \/ SendReturned
       \/ Accept \/ Judge \/ CountMiss \/ Arm \/ Finish

Next ==
  \/ Run \/ TimerFires \/ ContextDone \/ BusIsDone
  \/ OccurrenceExpires \/ Surroundings
  \/ Stop \/ ParentEnds \/ Update \/ Tick

Spec == Init /\ [][Next]_vars

\* The goroutine runs: callbacks and native sends return, and it notices a
\* done context where it waits for nothing else.  Nothing else is obliged to
\* happen.
FairSpec == Spec /\ WF_vars(Run) /\ WF_vars(ContextDone)

-----------------------------------------------------------------------------
TaskErrors == Errors \cup {Missed, StopRequested, Generated, Parent}
Contexts == [err : {"none", Canceled, DeadlineExceeded}, cause : {"none"} \cup TaskErrors]

\* Every variable has its type.
TypeOK ==
  /\ {caller, retry, task} \subseteq Contexts
  /\ at \in {"idle", "first", "wait", "again", "returned"}
  /\ timer \in BOOLEAN /\ busDone \in BOOLEAN /\ stopping \in BOOLEAN
  /\ busErr \in {"none", Fault}
  /\ sendErr \subseteq TaskErrors /\ runErr \subseteq TaskErrors
  /\ phase \in {"send", "generate", "pick", "launch", "sending", "judge", "miss", "arm",
                "select", "finish", "done"}
  /\ now \in 0..MaxTime /\ deadline \in 0..(MaxTime + Period)
  /\ misses \in 0..MaxConsecutiveMisses /\ missed \in Nat
  /\ frame \in 0..MaxUpdates /\ picked \in 0..MaxUpdates
  /\ attempts \in Seq(Nat) /\ outcomes \in Seq({"accepted", "missed"})

\* The misses since the last acceptance.
Trailing ==
  Cardinality({ i \in DOMAIN outcomes : \A j \in i..Len(outcomes) : outcomes[j] = "missed" })

\* A task that falls behind skips occurrences: it never sends twice in one
\* period, whatever the time its callbacks, sends and timer take.
NoBurst == \A i, j \in DOMAIN attempts : i < j => attempts[i] < attempts[j]

\* After Stop or the end of the parent context at most one more frame goes
\* out, and only one whose native send was in progress: none if the callback
\* was running.
LastSend == late <= 1 /\ (late = 1 => endedIn = "sending")

\* Misses are counted per run of failures: a task that goes on has absorbed
\* at most the permitted number since the last acceptance, one more ends it
\* with an error, and Missed counts them all.
MissesExact ==
  /\ missed = Cardinality({ i \in DOMAIN outcomes : outcomes[i] = "missed" })
  /\ phase \notin {"finish", "done"} => misses = Trailing
  /\ Trailing > MaxConsecutiveMisses => /\ phase \in {"finish", "done"}
                                       /\ runErr \cap {Full, Missed} # {}

\* A task that ends without an error was stopped by Stop, and one that ends
\* with the reason of its context has that reason.
NilOnlyAfterStop ==
  phase = "done" =>
    /\ runErr = {} => task.cause = StopRequested
    /\ StopRequested \notin runErr
    /\ Parent \in runErr => task.cause = Parent

\* What Missed and Err report is what happened.
ReportsExact == TypeOK /\ MissesExact /\ NilOnlyAfterStop

\* Err is nil when Stop ended the task: after Stop it reports an error of
\* its own, or more misses than permitted, but no miss that it may absorb.
StopReportsNil ==
  (phase = "done" /\ task.cause = StopRequested /\ runErr # {}) =>
    runErr \cap {Failed, Closed, Fault, Generated} # {} \/ Trailing > MaxConsecutiveMisses

\* Stop and the end of the parent context end the task, also in the middle
\* of retries of a queue that stays full.
TaskEnds == (task # Live) ~> (phase = "done")
=============================================================================
