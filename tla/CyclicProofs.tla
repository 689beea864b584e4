---------------------------- MODULE CyclicProofs ----------------------------
(***************************************************************************)
(* Proofs about the cyclic task: the arithmetic of its schedule, that it   *)
(* never sends twice in one period, and what Stop and Send promise.        *)
(***************************************************************************)
EXTENDS Cyclic, SequenceTheorems, FiniteSetTheorems, TLAPS

-----------------------------------------------------------------------------
(* Arithmetic of the schedule.                                             *)

\* Division with remainder.
LEMMA Division ==
  ASSUME NEW t \in Nat, NEW p \in Nat \ {0}
  PROVE  t \div p \in Nat /\ (t \div p) * p <= t /\ t < (t \div p + 1) * p
  OBVIOUS

\* A multiple of the period that is not after t is not after t's own period.
LEMMA Quotient ==
  ASSUME NEW t \in Nat, NEW p \in Nat \ {0}, NEW q \in Nat, q * p <= t
  PROVE  q <= t \div p
<1>1. t \div p \in Nat /\ t < (t \div p + 1) * p BY Division
<1>2. ASSUME NEW k \in Nat, t < (k + 1) * p, q > k PROVE FALSE
  <2>1. q >= k + 1 BY <1>2
  <2>2. PICK d \in Nat : q = k + 1 + d BY <2>1
  <2>3. q * p = (k + 1) * p + d * p BY <2>2
  <2>4. d * p >= 0 OBVIOUS
  <2>. QED BY <1>2, <2>3, <2>4
<1>. QED BY <1>1, <1>2

\* nextDeadline is after now, on the schedule's phase, and the first such
\* moment: no occurrence is skipped that need not be.
THEOREM NextDeadlineExact ==
  ASSUME NEW anchor \in Nat, NEW period \in Nat \ {0}, NEW t \in Nat, t >= anchor
  PROVE  /\ NextDeadline(anchor, period, t) \in Nat
         /\ t < NextDeadline(anchor, period, t)
         /\ NextDeadline(anchor, period, t) <= t + period
         /\ \E k \in Nat : NextDeadline(anchor, period, t) = anchor + k * period
<1>. DEFINE q == (t - anchor) \div period
<1>1. q \in Nat /\ q * period <= t - anchor /\ t - anchor < (q + 1) * period
  BY Division
<1>2. NextDeadline(anchor, period, t) = anchor + (q + 1) * period BY DEF NextDeadline
<1>. HIDE DEF q
<1>3. (q + 1) * period = q * period + period BY <1>1
<1>4. q * period \in Nat BY <1>1
<1>5. q + 1 \in Nat BY <1>1
<1>6. \E k \in Nat : NextDeadline(anchor, period, t) = anchor + k * period
  BY <1>2, <1>5
<1>. QED BY <1>1, <1>2, <1>3, <1>4, <1>6

-----------------------------------------------------------------------------
(* The invariants.                                                         *)

\* Every occurrence served so far began, and is over when the timer fires.
ScheduleInv ==
  /\ now \in Nat /\ deadline \in Nat /\ attempts \in Seq(Nat)
  /\ NoBurst
  /\ \A i \in DOMAIN attempts : attempts[i] * Period <= now
  /\ phase = "select" => \A i \in DOMAIN attempts : (attempts[i] + 1) * Period <= deadline
  /\ phase = "send" => \A i \in DOMAIN attempts : (attempts[i] + 1) * Period <= now

\* A call of Send is in progress exactly while the task is sending; a call that
\* waits has been rejected and was not accepted; and only a call that was in
\* progress when task.ctx ended can be accepted after that.
CallInv ==
  /\ at \in {"idle", "first", "wait", "again", "returned"}
  /\ accepted \in Nat /\ late \in Nat
  /\ SendDefinite
  /\ (phase = "sending") <=> (at # "idle")
  /\ at \in {"wait", "again"} => Full \in sendErr
  /\ late <= accepted
  /\ task = Live => late = 0
  /\ late # 0 => endedIn = "sending"
  /\ (task # Live /\ phase = "sending" /\ at # "returned") => endedIn = "sending"

\* A context that has ended has a reason.
Ended == [err : {Canceled, DeadlineExceeded}, cause : TaskErrors]

\* A task that finishes has an error to report, and a miss under judgement is
\* one; neither an absorbed miss nor one too many comes from Stop.
OutcomeInv ==
  /\ phase = "finish" => runErr # {}
  /\ phase = "done" => (runErr = {} => task.cause = StopRequested) /\ StopRequested \notin runErr
  /\ phase = "miss" => sendErr \cap {Full, Missed} # {} /\ StopRequested \notin sendErr
  /\ Trailing > MaxConsecutiveMisses => StopRequested \notin runErr

\* The reasons Stop and the parent context give come from task.ctx alone.
ReasonInv ==
  /\ {caller, retry, task} \subseteq {Live} \cup Ended
  /\ \A cause \in {StopRequested, Parent} :
       cause \in {caller.cause, retry.cause} \cup sendErr \cup runErr => task.cause = cause

ReportInv == TypeOK /\ MissesExact /\ ReasonInv /\ OutcomeInv

-----------------------------------------------------------------------------
(* One send per period.                                                    *)

\* The variables ScheduleInv speaks of, left alone.
LEMMA ScheduleStutter ==
  ASSUME ScheduleInv, UNCHANGED <<now, deadline, attempts>>, phase' \notin {"select", "send"} \/ phase' = phase
  PROVE  ScheduleInv'
  BY DEF ScheduleInv, NoBurst

\* The schedule's invariant holds at the start.
LEMMA ScheduleInitially == Init => ScheduleInv
  BY DEF Init, ScheduleInv, NoBurst

\* The occurrence that begins is later than all before it.
LEMMA ScheduleBegins == ScheduleInv /\ BeginOccurrence => ScheduleInv'
<1>. SUFFICES ASSUME ScheduleInv, BeginOccurrence PROVE ScheduleInv'
  OBVIOUS
<1>. USE CyclicAssumption
<1>1. CASE task # Live
  BY <1>1, ScheduleStutter DEF BeginOccurrence, FinishWith, schedule
<1>2. CASE task = Live
  <2>. DEFINE q == now \div Period
  <2>1. now \in Nat /\ attempts \in Seq(Nat) /\ deadline \in Nat BY DEF ScheduleInv
  <2>2. q \in Nat /\ q * Period <= now BY <2>1, Division
  <2>3. attempts' = Append(attempts, q) /\ now' = now /\ deadline' = deadline
        /\ phase' \in {"generate", "pick"}
    BY <1>2 DEF BeginOccurrence, Enter, schedule
  <2>4. \A i \in DOMAIN attempts : attempts[i] < q
    <3>. TAKE i \in DOMAIN attempts
    <3>1. attempts[i] \in Nat BY <2>1
    <3>2. (attempts[i] + 1) * Period <= now BY DEF ScheduleInv, BeginOccurrence
    <3>3. attempts[i] + 1 \in Nat BY <3>1
    <3>4. attempts[i] + 1 <= q BY <2>1, <3>2, <3>3, Quotient
    <3>. QED BY <2>2, <3>1, <3>4
  <2>. HIDE DEF q
  <2>5. /\ attempts' \in Seq(Nat) /\ DOMAIN attempts' = 1..(Len(attempts) + 1)
        /\ DOMAIN attempts = 1..Len(attempts) /\ Len(attempts) \in Nat
        /\ attempts'[Len(attempts) + 1] = q
        /\ \A i \in 1..Len(attempts) : attempts'[i] = attempts[i]
    BY <2>1, <2>2, <2>3, AppendProperties
  <2>6. NoBurst'
    <3>1. SUFFICES ASSUME NEW i \in DOMAIN attempts', NEW j \in DOMAIN attempts', i < j
                   PROVE  attempts'[i] < attempts'[j]
      BY DEF NoBurst
    <3>2. i \in 1..Len(attempts) /\ attempts'[i] = attempts[i] BY <2>5, <3>1
    <3>3. CASE j = Len(attempts) + 1 BY <2>4, <2>5, <3>2, <3>3
    <3>4. CASE j \in 1..Len(attempts)
      <4>1. attempts[i] < attempts[j] BY <2>5, <3>1, <3>2, <3>4 DEF ScheduleInv, NoBurst
      <4>. QED BY <2>5, <3>2, <3>4, <4>1
    <3>. QED BY <2>5, <3>3, <3>4
  <2>7. \A i \in DOMAIN attempts' : attempts'[i] * Period <= now
    <3>. TAKE i \in DOMAIN attempts'
    <3>1. CASE i = Len(attempts) + 1 BY <2>2, <2>5, <3>1
    <3>2. CASE i \in 1..Len(attempts)
      <4>1. attempts[i] * Period <= now BY <2>5, <3>2 DEF ScheduleInv
      <4>. QED BY <2>5, <3>2, <4>1
    <3>. QED BY <2>5, <3>1, <3>2
  <2>. QED BY <2>1, <2>3, <2>5, <2>6, <2>7 DEF ScheduleInv
<1>. QED BY <1>1, <1>2

\* The timer is set past every occurrence served.
LEMMA ScheduleArms == ScheduleInv /\ Arm => ScheduleInv'
<1>. SUFFICES ASSUME ScheduleInv, Arm PROVE ScheduleInv'
  OBVIOUS
<1>. USE CyclicAssumption
<1>. DEFINE q == now \div Period
<1>1. now \in Nat /\ attempts \in Seq(Nat) BY DEF ScheduleInv
<1>2. q \in Nat BY <1>1, Division
<1>3. deadline' = (q + 1) * Period /\ phase' = "select" /\ now' = now /\ attempts' = attempts
  BY <1>1 DEF Arm, NextDeadline, Enter, marks
<1>4. \A i \in DOMAIN attempts : attempts[i] \in Nat /\ attempts[i] <= q
  <2>. TAKE i \in DOMAIN attempts
  <2>1. attempts[i] \in Nat /\ attempts[i] * Period <= now BY <1>1 DEF ScheduleInv
  <2>. QED BY <1>1, <2>1, Quotient
<1>. HIDE DEF q
<1>5. \A i \in DOMAIN attempts : (attempts[i] + 1) * Period <= (q + 1) * Period
  <2>. TAKE i \in DOMAIN attempts
  <2>0. q - attempts[i] \in Nat /\ q = attempts[i] + (q - attempts[i]) BY <1>2, <1>4
  <2>1. PICK d \in Nat : q = attempts[i] + d BY <2>0
  <2>2. (q + 1) * Period = (attempts[i] + 1) * Period + d * Period BY <1>4, <2>1
  <2>3. d * Period >= 0 OBVIOUS
  <2>4. (attempts[i] + 1) * Period \in Nat /\ d * Period \in Nat BY <1>4
  <2>. QED BY <2>2, <2>3, <2>4
<1>6. (q + 1) * Period \in Nat BY <1>2
<1>. QED BY <1>1, <1>3, <1>5, <1>6 DEF ScheduleInv, NoBurst

\* The timer fires no sooner than it was set for.
LEMMA ScheduleFires == ScheduleInv /\ TimerFires => ScheduleInv'
<1>. SUFFICES ASSUME ScheduleInv, TimerFires PROVE ScheduleInv'
  OBVIOUS
<1>. USE CyclicAssumption
<1>1. /\ phase = "select" /\ now >= deadline /\ phase' = "send"
      /\ now' = now /\ deadline' = deadline /\ attempts' = attempts
  BY DEF TimerFires, Enter, schedule, marks
<1>2. \A i \in DOMAIN attempts : (attempts[i] + 1) * Period <= now
  <2>. TAKE i \in DOMAIN attempts
  <2>1. attempts[i] \in Nat BY DEF ScheduleInv
  <2>2. (attempts[i] + 1) * Period \in Nat BY <2>1
  <2>. QED BY <1>1, <2>2 DEF ScheduleInv
<1>. QED BY <1>1, <1>2 DEF ScheduleInv, NoBurst

\* Time passes.
LEMMA ScheduleTicks == ScheduleInv /\ Tick => ScheduleInv'
<1>. SUFFICES ASSUME ScheduleInv, Tick PROVE ScheduleInv'
  OBVIOUS
<1>. USE CyclicAssumption
<1>1. now' = now + 1 /\ deadline' = deadline /\ attempts' = attempts /\ phase' = phase
  BY DEF Tick, taskVars, marks
<1>2. now \in Nat /\ attempts \in Seq(Nat) BY DEF ScheduleInv
<1>3. \A i \in DOMAIN attempts : /\ attempts[i] * Period \in Nat
                                 /\ (attempts[i] + 1) * Period \in Nat
  BY <1>2
<1>. QED BY <1>1, <1>2, <1>3 DEF ScheduleInv, NoBurst

\* The deadline of the occurrence is that of no timer.
LEMMA ScheduleLaunches == ScheduleInv /\ Launch => ScheduleInv'
<1>. SUFFICES ASSUME ScheduleInv, Launch PROVE ScheduleInv'
  OBVIOUS
<1>. USE CyclicAssumption
<1>1. now' = now /\ attempts' = attempts /\ phase' \in {"sending", "finish"}
  BY DEF Launch, Enter, FinishWith, marks
<1>2. deadline' \in Nat
  <2>1. now \in Nat /\ deadline \in Nat BY DEF ScheduleInv
  <2>2. now >= 0 /\ NextDeadline(0, Period, now) \in Nat BY <2>1, NextDeadlineExact
  <2>. QED BY <2>1, <2>2 DEF Launch
<1>. QED BY <1>1, <1>2 DEF ScheduleInv, NoBurst

\* Every step of the task keeps the schedule's invariant.
LEMMA ScheduleStep == ScheduleInv /\ [Next]_vars => ScheduleInv'
<1>. SUFFICES ASSUME ScheduleInv, [Next]_vars PROVE ScheduleInv'
  OBVIOUS
<1>. USE DEF schedule, marks, taskVars, Enter, FinishWith
<1>1. CASE BeginOccurrence BY <1>1, ScheduleBegins
<1>2. CASE Launch BY <1>2, ScheduleLaunches
<1>3. CASE Arm BY <1>3, ScheduleArms
<1>4. CASE TimerFires BY <1>4, ScheduleFires
<1>5. CASE Tick BY <1>5, ScheduleTicks
<1>6. CASE Generate BY <1>6, ScheduleStutter DEF Generate
<1>7. CASE Pick BY <1>7, ScheduleStutter DEF Pick
<1>8. CASE Sending BY <1>8, ScheduleStutter DEF Sending
<1>9. CASE SendReturned BY <1>9, ScheduleStutter DEF SendReturned
<1>10. CASE Accept BY <1>10, ScheduleStutter DEF Accept
<1>11. CASE Judge BY <1>11, ScheduleStutter DEF Judge
<1>12. CASE CountMiss BY <1>12, ScheduleStutter DEF CountMiss
<1>13. CASE Finish BY <1>13, ScheduleStutter DEF Finish
<1>14. CASE ContextDone \/ BusIsDone BY <1>14, ScheduleStutter DEF ContextDone, BusIsDone
<1>15. CASE OccurrenceExpires BY <1>15, ScheduleStutter DEF OccurrenceExpires
<1>16. CASE Surroundings BY <1>16, ScheduleStutter DEF Surroundings
<1>17. CASE Stop BY <1>17, ScheduleStutter DEF Stop, EndTask
<1>18. CASE ParentEnds BY <1>18, ScheduleStutter DEF ParentEnds, EndTask
<1>19. CASE Update BY <1>19, ScheduleStutter DEF Update
<1>20. CASE UNCHANGED vars BY <1>20, ScheduleStutter DEF vars
<1>. QED
  BY <1>1, <1>2, <1>3, <1>4, <1>5, <1>6, <1>7, <1>8, <1>9, <1>10, <1>11, <1>12, <1>13,
     <1>14, <1>15, <1>16, <1>17, <1>18, <1>19, <1>20 DEF Next, Run

\* A task never sends twice in one period, for every period, clock and
\* duration of its callbacks and sends.
THEOREM OncePerPeriod == Spec => []NoBurst
<1>1. ScheduleInv => NoBurst BY DEF ScheduleInv
<1>. QED BY <1>1, ScheduleInitially, ScheduleStep, PTL DEF Spec

-----------------------------------------------------------------------------
(* Send's results, and the last send.                                      *)

\* The variables CallInv speaks of, left alone.
LEMMA CallStutter ==
  ASSUME CallInv, UNCHANGED <<at, sendErr, accepted, late, endedIn, task>>,
         (phase' = "sending") <=> (phase = "sending")
  PROVE  CallInv'
  BY DEF CallInv, SendDefinite

\* The invariant of the calls of Send holds at the start.
LEMMA CallInitially == Init => CallInv
  BY DEF Init, SendInit, CallInv, SendDefinite

\* What an ended context is not.
LEMMA EndedNotLive ==
  ASSUME NEW cause
  PROVE  Context(Canceled, cause) # Live /\ Context(DeadlineExceeded, cause) # Live
  BY DEF Context, Live, Canceled, DeadlineExceeded

\* A step of the call: it was not accepted before, and it returns nil exactly
\* if it is accepted now.
LEMMA SendStep ==
  ASSUME CallInv, Send
  PROVE  /\ at \in {"first", "wait", "again"} /\ accepted = 0
         /\ at' \in {"wait", "again", "returned"} /\ accepted' \in {0, 1}
         /\ at' = "returned" => (sendErr' = {} <=> accepted' = 1)
         /\ at' # "returned" => accepted' = 0 /\ Full \in sendErr'
<1>0. accepted = 0 /\ (at \in {"wait", "again"} => Full \in sendErr)
  BY DEF CallInv, SendDefinite, Send, FirstAttempt, WakeRetry, WakeBusDone, NextAttempt
<1>1. CASE FirstAttempt
  <2>1. PICK answer \in Answers(caller) :
          LET err == IF caller # Live /\ caller.err \in answer
                     THEN answer \cup {caller.cause} ELSE answer
          IN /\ accepted' = IF answer = {} THEN accepted + 1 ELSE accepted
             /\ IF RetryTimeout /\ RejectedOnly(answer)
                THEN at' = "wait" /\ timer' = TRUE /\ retry' = caller /\ sendErr' = err
                ELSE SendReturns(err) /\ UNCHANGED <<timer, retry>>
    BY <1>1 DEF FirstAttempt
  <2>2. CASE answer = {} BY <1>0, <1>1, <2>1, <2>2 DEF FirstAttempt, RejectedOnly, SendReturns
  <2>3. CASE answer # {} BY <1>0, <1>1, <2>1, <2>3 DEF FirstAttempt, RejectedOnly, SendReturns
  <2>. QED BY <2>2, <2>3
<1>2. CASE NextAttempt
  <2>1. PICK answer \in Answers(retry) :
          /\ accepted' = IF answer = {} THEN accepted + 1 ELSE accepted
          /\ IF retry # Live /\ retry.err \in answer
             THEN at' = "wait" /\ UNCHANGED <<timer, sendErr>>
             ELSE IF RejectedOnly(answer) THEN at' = "wait" /\ timer' = TRUE /\ sendErr' = answer
             ELSE SendReturns(answer) /\ UNCHANGED timer
    BY <1>2 DEF NextAttempt
  <2>2. CASE answer = {} BY <1>0, <1>2, <2>1, <2>2 DEF NextAttempt, RejectedOnly, SendReturns
  <2>3. CASE answer # {} BY <1>0, <1>2, <2>1, <2>3 DEF NextAttempt, RejectedOnly, SendReturns
  <2>. QED BY <2>2, <2>3
<1>3. CASE WakeRetry BY <1>0, <1>3 DEF WakeRetry, SendReturns
<1>4. CASE WakeBusDone BY <1>0, <1>4 DEF WakeBusDone, SendReturns
<1>. QED BY <1>1, <1>2, <1>3, <1>4 DEF Send

\* A step inside Send keeps the invariant of its calls.
LEMMA CallSending == CallInv /\ Sending => CallInv'
<1>. SUFFICES ASSUME CallInv, Sending PROVE CallInv'
  OBVIOUS
<1>1. /\ at \in {"first", "wait", "again"} /\ accepted = 0
      /\ at' \in {"wait", "again", "returned"} /\ accepted' \in {0, 1}
      /\ at' = "returned" => (sendErr' = {} <=> accepted' = 1)
      /\ at' # "returned" => accepted' = 0 /\ Full \in sendErr'
  BY SendStep DEF Sending
<1>2. /\ phase = "sending" /\ phase' = phase /\ task' = task /\ endedIn' = endedIn
      /\ late' = IF task = Live THEN late ELSE late + (accepted' - accepted)
  BY DEF Sending, taskVars
<1>3. late = 0 BY <1>1 DEF CallInv
<1>4. SendDefinite' BY <1>1 DEF SendDefinite
<1>5. CASE task = Live
  <2>1. late' = 0 BY <1>2, <1>3, <1>5
  <2>. QED BY <1>1, <1>2, <1>4, <1>5, <2>1 DEF CallInv
<1>6. CASE task # Live
  <2>1. endedIn = "sending" BY <1>1, <1>2, <1>6 DEF CallInv
  <2>2. late' = 0 + (accepted' - 0) BY <1>1, <1>2, <1>3, <1>6, Zenon
  <2>3. CASE accepted' = 0
    <3>1. late' = 0 BY <2>2, <2>3
    <3>. QED BY <1>1, <1>2, <1>4, <1>6, <2>1, <2>3, <3>1 DEF CallInv
  <2>4. CASE accepted' = 1
    <3>1. late' = 1 BY <2>2, <2>4
    <3>. QED BY <1>1, <1>2, <1>4, <1>6, <2>1, <2>4, <3>1 DEF CallInv
  <2>. QED BY <1>1, <2>3, <2>4
<1>. QED BY <1>5, <1>6

\* A new call has not been accepted, and is made only while task.ctx is live.
LEMMA CallLaunches == CallInv /\ Launch => CallInv'
  BY DEF CallInv, Launch, CallSend, Enter, FinishWith, SendDefinite, sendVars, marks

\* The task takes the result of a call that returned.
LEMMA CallReturned == CallInv /\ SendReturned => CallInv'
  BY DEF CallInv, SendReturned, Enter, FinishWith, SendDefinite, marks

\* task.ctx ends: only a call that is still in progress can be accepted later.
LEMMA CallTaskEnds ==
  ASSUME CallInv, NEW ctx, ctx # Live, EndTask(ctx)
  PROVE  CallInv'
  BY DEF CallInv, EndTask, SendDefinite

\* The task's end.
LEMMA CallFinishes == CallInv /\ Finish => CallInv'
  BY EndedNotLive DEF CallInv, Finish, SendDefinite, sendVars, marks, Inherit

\* Every step of the task keeps the invariant of the calls of Send.
LEMMA CallStep == CallInv /\ [Next]_vars => CallInv'
<1>. SUFFICES ASSUME CallInv, [Next]_vars PROVE CallInv'
  OBVIOUS
<1>. USE DEF sendVars, marks, taskVars, Enter, FinishWith
<1>1. CASE BeginOccurrence BY <1>1, CallStutter DEF BeginOccurrence
<1>2. CASE Launch BY <1>2, CallLaunches
<1>3. CASE Arm BY <1>3, CallStutter DEF Arm
<1>4. CASE TimerFires BY <1>4, CallStutter DEF TimerFires
<1>5. CASE Tick BY <1>5, CallStutter DEF Tick
<1>6. CASE Generate BY <1>6, CallStutter DEF Generate
<1>7. CASE Pick BY <1>7, CallStutter DEF Pick
<1>8. CASE Sending BY <1>8, CallSending
<1>9. CASE SendReturned BY <1>9, CallReturned
<1>10. CASE Accept BY <1>10, CallStutter DEF Accept
<1>11. CASE Judge BY <1>11, CallStutter DEF Judge
<1>12. CASE CountMiss BY <1>12, CallStutter DEF CountMiss
<1>13. CASE Finish BY <1>13, CallFinishes
<1>14. CASE ContextDone \/ BusIsDone BY <1>14, CallStutter DEF ContextDone, BusIsDone
<1>15. CASE OccurrenceExpires BY <1>15, CallStutter DEF OccurrenceExpires
<1>16. CASE Surroundings BY <1>16, CallStutter DEF Surroundings, RetryExpires, BusStops
<1>17. CASE Stop
  <2>1. CASE EndTask(Context(Canceled, StopRequested)) BY <2>1, CallTaskEnds, EndedNotLive
  <2>2. CASE ~EndTask(Context(Canceled, StopRequested)) BY <1>17, <2>2, CallStutter DEF Stop
  <2>. QED BY <2>1, <2>2
<1>18. CASE ParentEnds BY <1>18, CallTaskEnds, EndedNotLive DEF ParentEnds
<1>19. CASE Update BY <1>19, CallStutter DEF Update
<1>20. CASE UNCHANGED vars BY <1>20, CallStutter DEF vars
<1>. QED
  BY <1>1, <1>2, <1>3, <1>4, <1>5, <1>6, <1>7, <1>8, <1>9, <1>10, <1>11, <1>12, <1>13,
     <1>14, <1>15, <1>16, <1>17, <1>18, <1>19, <1>20 DEF Next, Run

\* A Send of the task returns nil exactly when its frame was accepted, once.
THEOREM SendsDefinite == Spec => []SendDefinite
<1>1. CallInv => SendDefinite BY DEF CallInv
<1>. QED BY <1>1, CallInitially, CallStep, PTL DEF Spec

\* After Stop or the end of the parent context at most the frame whose send
\* was in progress goes out.
THEOREM StopIsLast == Spec => []LastSend
<1>1. CallInv => LastSend BY DEF CallInv, LastSend, SendDefinite
<1>. QED BY <1>1, CallInitially, CallStep, PTL DEF Spec

-----------------------------------------------------------------------------
(* Reports.                                                                *)

\* The reasons of Stop and of the parent are no errors of a bus or a callback.
LEMMA ReasonsApart ==
  /\ {StopRequested, Parent} \cap (Errors \cup {Missed, Generated, "none"}) = {}
  /\ StopRequested # Parent
  BY DEF StopRequested, Parent, Errors, Full, Closed, Fault, Failed, Canceled, DeadlineExceeded,
         Missed, Generated

\* A bus answers with errors of its own, or with the end of a context.
LEMMA AnswerIs ==
  ASSUME ReasonInv, TypeOK, NEW ctx \in {Live} \cup Ended, NEW answer \in Answers(ctx)
  PROVE  answer \subseteq Errors
<1>1. BusCause \in Errors BY DEF BusCause, TypeOK, Errors
<1>2. ctx # Live => ctx.err \in Errors BY DEF Ended, Errors
<1>. QED BY <1>1, <1>2 DEF Answers, Errors

\* A step inside Send adds no reason to its error but those of its contexts.
LEMMA SendReasons ==
  ASSUME ReasonInv, TypeOK, Send
  PROVE  /\ caller' = caller /\ retry' \in {retry, caller} /\ UNCHANGED busVars
         /\ timer' \in BOOLEAN /\ at' \in {"idle", "first", "wait", "again", "returned"}
         /\ sendErr' \subseteq TaskErrors
         /\ \A cause \in {StopRequested, Parent} :
              cause \in sendErr' => cause \in {caller.cause, retry.cause} \cup sendErr
<1>0. /\ caller \in {Live} \cup Ended /\ retry \in {Live} \cup Ended
      /\ timer \in BOOLEAN /\ sendErr \subseteq TaskErrors /\ Errors \subseteq TaskErrors
  BY DEF ReasonInv, TypeOK, TaskErrors
<1>a. \A cause \in {StopRequested, Parent} : cause \notin Errors BY ReasonsApart
<1>b. \A ctx \in {Live} \cup Ended : ctx # Live => ctx.cause \in TaskErrors BY DEF Ended
<1>1. CASE FirstAttempt
  <2>1. PICK answer \in Answers(caller) :
          LET err == IF caller # Live /\ caller.err \in answer
                     THEN answer \cup {caller.cause} ELSE answer
          IN IF RetryTimeout /\ RejectedOnly(answer)
             THEN at' = "wait" /\ timer' = TRUE /\ retry' = caller /\ sendErr' = err
             ELSE SendReturns(err) /\ UNCHANGED <<timer, retry>>
    BY <1>1 DEF FirstAttempt
  <2>2. answer \subseteq Errors BY <1>0, AnswerIs
  <2>3. sendErr' = answer \/ (caller # Live /\ sendErr' = answer \cup {caller.cause})
    BY <2>1 DEF SendReturns
  <2>4. sendErr' \subseteq TaskErrors BY <1>0, <1>b, <2>2, <2>3
  <2>5. \A cause \in {StopRequested, Parent} : cause \in sendErr' => cause = caller.cause
    BY <1>a, <2>2, <2>3
  <2>6. /\ caller' = caller /\ retry' \in {retry, caller} /\ UNCHANGED busVars
        /\ timer' \in BOOLEAN /\ at' \in {"wait", "returned"}
    BY <1>0, <1>1, <2>1 DEF FirstAttempt, SendReturns
  <2>. QED BY <2>4, <2>5, <2>6
<1>2. CASE NextAttempt
  <2>1. PICK answer \in Answers(retry) :
          IF retry # Live /\ retry.err \in answer
          THEN at' = "wait" /\ UNCHANGED <<timer, sendErr>>
          ELSE IF RejectedOnly(answer) THEN at' = "wait" /\ timer' = TRUE /\ sendErr' = answer
          ELSE SendReturns(answer) /\ UNCHANGED timer
    BY <1>2 DEF NextAttempt
  <2>2. answer \subseteq Errors BY <1>0, AnswerIs
  <2>3. sendErr' \in {answer, sendErr} BY <2>1 DEF SendReturns
  <2>4. /\ caller' = caller /\ retry' = retry /\ UNCHANGED busVars
        /\ timer' \in BOOLEAN /\ at' \in {"wait", "returned"}
    BY <1>0, <1>2, <2>1 DEF NextAttempt, SendReturns
  <2>. QED BY <1>0, <1>a, <2>2, <2>3, <2>4
<1>3. CASE WakeRetry
  <2>1. \/ UNCHANGED sendErr \/ (retry # Live /\ sendErr' \in {sendErr, sendErr \cup {retry.cause}})
    BY <1>3 DEF WakeRetry, SendReturns
  <2>2. sendErr' \subseteq TaskErrors BY <1>0, <1>b, <2>1
  <2>. QED BY <1>0, <1>3, <2>1, <2>2 DEF WakeRetry, SendReturns
<1>4. CASE WakeBusDone
  <2>1. BusCause \in Errors BY DEF BusCause, TypeOK, Errors
  <2>2. sendErr' = sendErr \cup {BusCause} BY <1>4 DEF WakeBusDone, SendReturns
  <2>3. sendErr' \subseteq TaskErrors BY <1>0, <2>1, <2>2
  <2>. QED BY <1>0, <1>4, <1>a, <2>1, <2>2, <2>3 DEF WakeBusDone, SendReturns
<1>. QED BY <1>1, <1>2, <1>3, <1>4 DEF Send

\* An ended context or its heir has a reason, that of the one it inherits from.
LEMMA InheritIs ==
  ASSUME NEW ctx \in {Live} \cup Ended, NEW parent \in Ended
  PROVE  Inherit(ctx, parent) \in Ended /\ Inherit(ctx, parent).cause \in {ctx.cause, parent.cause}
  BY DEF Inherit, Ended, Live, Context, Canceled, DeadlineExceeded

LEMMA ContextsMade ==
  /\ Context(Canceled, StopRequested) \in Ended /\ Context(Canceled, Parent) \in Ended
  /\ Context(Canceled, Canceled) \in Ended /\ Context(DeadlineExceeded, Missed) \in Ended
  /\ Context(DeadlineExceeded, DeadlineExceeded) \in Ended
  /\ Context(DeadlineExceeded, Full) \in Ended
  /\ Live.cause = "none" /\ Live \notin Ended
  /\ \A err, cause : Context(err, cause).cause = cause
  BY DEF Context, Ended, TaskErrors, Errors, Live, Canceled, DeadlineExceeded

-----------------------------------------------------------------------------
(* Types.                                                                  *)

\* Every step keeps the types.
LEMMA TypeStep == ReportInv /\ [Next]_vars => TypeOK'
<1>. SUFFICES ASSUME ReportInv, [Next]_vars PROVE TypeOK'
  OBVIOUS
<1>0. TypeOK /\ ReasonInv BY DEF ReportInv
<1>. USE <1>0 DEF sendVars, busVars, schedule, content, marks, taskVars, Enter, FinishWith
<1>a. /\ {Live} \cup Ended \subseteq Contexts /\ Errors \subseteq TaskErrors
      /\ {Missed, StopRequested, Generated, Parent} \subseteq TaskErrors
  BY DEF Ended, Contexts, Live, Context, TaskErrors
<1>b. task # Live => task.cause \in TaskErrors BY DEF ReasonInv, Ended
<1>c. BusCause \in TaskErrors BY DEF BusCause, TypeOK, Errors, TaskErrors
<1>d. /\ MaxTime \in Nat /\ Period \in Nat /\ MaxConsecutiveMisses \in Nat /\ MaxUpdates \in Nat
  BY CyclicAssumption
<1>e. NextDeadline(0, Period, now) \in 0..(MaxTime + Period)
  <2>1. now \in Nat /\ now <= MaxTime BY <1>d DEF TypeOK
  <2>2. /\ NextDeadline(0, Period, now) \in Nat /\ NextDeadline(0, Period, now) <= now + Period
    BY <2>1, CyclicAssumption, NextDeadlineExact
  <2>. QED BY <1>d, <2>1, <2>2
<1>f. now \div Period \in Nat BY Division, CyclicAssumption DEF TypeOK
<1>1. CASE BeginOccurrence
  <2>. DEFINE occurrence == now \div Period
  <2>1. attempts' \in {attempts, Append(attempts, occurrence)} BY <1>1 DEF BeginOccurrence
  <2>2. attempts' \in Seq(Nat)
    <3>1. attempts \in Seq(Nat) BY DEF TypeOK
    <3>2. occurrence \in Nat BY <1>f
    <3>. HIDE DEF occurrence
    <3>. QED BY <2>1, <3>1, <3>2, AppendProperties
  <2>3. phase' \in {"generate", "pick", "finish"} /\ runErr' \subseteq TaskErrors
    BY <1>1, <1>b DEF BeginOccurrence, TypeOK
  <2>. QED BY <1>1, <2>2, <2>3 DEF BeginOccurrence, TypeOK
<1>2. CASE Launch BY <1>2, <1>a, <1>b, <1>e DEF Launch, CallSend, TypeOK, ReasonInv
<1>3. CASE Arm BY <1>3, <1>e DEF Arm, TypeOK
<1>4. CASE TimerFires BY <1>4 DEF TimerFires, TypeOK
<1>5. CASE Tick
  <2>1. now' \in 0..MaxTime BY <1>5, <1>d DEF Tick, TypeOK
  <2>. QED BY <1>5, <2>1 DEF Tick, TypeOK
<1>6. CASE Generate BY <1>6, <1>a DEF Generate, TypeOK
<1>7. CASE Pick BY <1>7 DEF Pick, TypeOK
<1>8. CASE Sending
  <2>1. Send /\ UNCHANGED <<schedule, taskVars, attempts, outcomes>> BY <1>8 DEF Sending
  <2>2. /\ caller' = caller /\ retry' \in {retry, caller} /\ UNCHANGED busVars
        /\ timer' \in BOOLEAN /\ at' \in {"idle", "first", "wait", "again", "returned"}
        /\ sendErr' \subseteq TaskErrors
    BY <2>1, SendReasons
  <2>. QED BY <2>1, <2>2 DEF TypeOK
<1>9. CASE SendReturned BY <1>9, <1>b DEF SendReturned, TypeOK
<1>10. CASE Accept BY <1>10, <1>d DEF Accept, TypeOK
<1>11. CASE Judge BY <1>11 DEF Judge, TypeOK
<1>12. CASE CountMiss
  <2>1. /\ UNCHANGED <<sendVars, busVars, schedule, task, stopping, content, picked, attempts>>
        /\ phase' \in {"finish", "arm"} /\ runErr' \subseteq TaskErrors
    BY <1>12, <1>c DEF CountMiss, TypeOK
  <2>2. misses' \in 0..MaxConsecutiveMisses /\ missed' \in Nat
    BY <1>12, <1>d DEF CountMiss, TypeOK
  <2>3. outcomes' \in Seq({"accepted", "missed"})
    <3>1. outcomes' \in {outcomes, Append(outcomes, "missed")} BY <1>12 DEF CountMiss
    <3>2. outcomes \in Seq({"accepted", "missed"}) BY DEF TypeOK
    <3>. QED BY <3>1, <3>2, AppendProperties
  <2>. QED BY <2>1, <2>2, <2>3 DEF TypeOK
<1>13. CASE Finish
  <2>1. task' \in Contexts BY <1>13, <1>a, InheritIs, ContextsMade DEF Finish, ReasonInv
  <2>. QED BY <1>13, <2>1 DEF Finish, TypeOK
<1>14. CASE ContextDone \/ BusIsDone BY <1>14, <1>b, <1>c DEF ContextDone, BusIsDone, TypeOK
<1>15. ASSUME NEW ctx \in Ended, EndCaller(ctx)
       PROVE  caller' \in {Live} \cup Ended /\ retry' \in {Live} \cup Ended
  BY <1>15, InheritIs DEF EndCaller, ReasonInv
<1>16. CASE OccurrenceExpires
  <2>1. caller' \in Contexts /\ retry' \in Contexts
    BY <1>16, <1>a, <1>15, ContextsMade DEF OccurrenceExpires
  <2>. QED BY <1>16, <2>1 DEF OccurrenceExpires, TypeOK
<1>17. CASE Surroundings
  <2>1. CASE RetryExpires
    <3>1. retry' \in Contexts BY <1>a, <2>1, ContextsMade DEF RetryExpires
    <3>. QED BY <1>17, <2>1, <3>1 DEF Surroundings, RetryExpires, TypeOK
  <2>2. CASE BusStops BY <1>17, <2>2 DEF Surroundings, BusStops, TypeOK
  <2>. QED BY <1>17, <2>1, <2>2 DEF Surroundings
<1>18. ASSUME NEW ctx \in Ended, EndTask(ctx), stopping' \in BOOLEAN PROVE TypeOK'
  <2>1. caller' \in Contexts /\ retry' \in Contexts /\ task' \in Contexts
    BY <1>18, <1>a, <1>15 DEF EndTask
  <2>. QED BY <1>18, <2>1 DEF EndTask, TypeOK
<1>19. CASE Stop
  <2>1. stopping' \in BOOLEAN BY <1>19 DEF Stop
  <2>2. CASE EndTask(Context(Canceled, StopRequested)) BY <1>18, <2>1, <2>2, ContextsMade
  <2>3. CASE ~EndTask(Context(Canceled, StopRequested)) BY <1>19, <2>1, <2>3 DEF Stop, TypeOK
  <2>. QED BY <2>2, <2>3
<1>20. CASE ParentEnds
  <2>1. stopping' \in BOOLEAN BY <1>20 DEF ParentEnds, TypeOK
  <2>. QED BY <1>18, <1>20, <2>1, ContextsMade DEF ParentEnds
<1>21. CASE Update
  <2>1. frame' \in 0..MaxUpdates BY <1>21, <1>d DEF Update, TypeOK
  <2>. QED BY <1>21, <2>1 DEF Update, TypeOK
<1>22. CASE UNCHANGED vars BY <1>22 DEF vars, TypeOK
<1>. QED
  BY <1>1, <1>2, <1>3, <1>4, <1>5, <1>6, <1>7, <1>8, <1>9, <1>10, <1>11, <1>12, <1>13,
     <1>14, <1>16, <1>17, <1>19, <1>20, <1>21, <1>22 DEF Next, Run

-----------------------------------------------------------------------------
(* Reasons and misses.                                                     *)

\* The contexts a step ends, and the errors that come with their reasons.
LEMMA ReasonStep ==
  ASSUME ReportInv, [Next]_vars
  PROVE  /\ {caller', retry', task'} \subseteq {Live} \cup Ended
         /\ \A cause \in {StopRequested, Parent} :
              cause \in {caller'.cause, retry'.cause} \cup sendErr' \cup runErr' => task'.cause = cause
<1>0. TypeOK /\ ReasonInv BY DEF ReportInv
<1>. USE <1>0 DEF sendVars, busVars, schedule, content, marks, taskVars, Enter, FinishWith
<1>. DEFINE Reasons == {caller.cause, retry.cause} \cup sendErr \cup runErr
            Kept == /\ {caller', retry', task'} \subseteq {Live} \cup Ended
                    /\ \A cause \in {StopRequested, Parent} :
                         cause \in {caller'.cause, retry'.cause} \cup sendErr' \cup runErr'
                         => task'.cause = cause
<1>a. /\ {caller, retry, task} \subseteq {Live} \cup Ended
      /\ \A cause \in {StopRequested, Parent} : cause \in Reasons => task.cause = cause
  BY DEF ReasonInv
<1>b. /\ \A cause \in {StopRequested, Parent} : cause \notin Errors \cup {Missed, Generated, "none"}
      /\ StopRequested # Parent
  BY ReasonsApart
<1>c. Live.cause = "none" /\ Live \notin Ended BY ContextsMade
<1>d. BusCause \in Errors BY DEF BusCause, TypeOK, Errors
<1>. SUFFICES Kept OBVIOUS
<1>1. ASSUME UNCHANGED <<caller, retry, task, sendErr>>, runErr' \subseteq runErr \cup sendErr \cup Errors \cup {task.cause, Generated}
      PROVE  Kept
  BY <1>1, <1>a, <1>b
<1>2. CASE BeginOccurrence BY <1>1, <1>2 DEF BeginOccurrence
<1>3. CASE Launch
  <2>1. CASE task = Live
    <3>1. caller' = Live /\ retry' = Live /\ sendErr' = {} /\ task' = task /\ runErr' = runErr
      BY <1>3, <2>1 DEF Launch, CallSend
    <3>. QED BY <1>a, <1>b, <1>c, <2>1, <3>1
  <2>2. CASE task # Live BY <1>1, <1>3, <2>2 DEF Launch
  <2>. QED BY <2>1, <2>2
<1>4. CASE Arm \/ TimerFires \/ Tick \/ Pick \/ Accept \/ Update
  BY <1>1, <1>4 DEF Arm, TimerFires, Tick, Pick, Accept, Update
<1>5. CASE Generate BY <1>1, <1>5 DEF Generate
<1>6. CASE Sending
  <2>1. Send /\ UNCHANGED <<task, runErr>> BY <1>6 DEF Sending
  <2>2. /\ caller' = caller /\ retry' \in {retry, caller}
        /\ \A cause \in {StopRequested, Parent} :
             cause \in sendErr' => cause \in {caller.cause, retry.cause} \cup sendErr
    BY <2>1, SendReasons
  <2>. QED BY <1>a, <2>1, <2>2
<1>7. CASE SendReturned BY <1>1, <1>7 DEF SendReturned
<1>8. CASE Judge BY <1>1, <1>8 DEF Judge
<1>9. CASE CountMiss
  <2>1. UNCHANGED <<caller, retry, task, sendErr>> BY <1>9 DEF CountMiss
  <2>2. runErr' \subseteq runErr \cup sendErr \cup Errors \cup {task.cause, Generated}
    BY <1>9, <1>d DEF CountMiss
  <2>. QED BY <1>1, <2>1, <2>2
<1>10. CASE ContextDone BY <1>1, <1>10 DEF ContextDone
<1>11. CASE BusIsDone BY <1>1, <1>11, <1>d DEF BusIsDone
<1>12. CASE Finish
  <2>1. /\ UNCHANGED <<caller, retry, sendErr>> /\ runErr' \subseteq runErr
        /\ task' = Inherit(task, Context(Canceled, Canceled))
    BY <1>12 DEF Finish
  <2>2. task' \in Ended /\ (task # Live => task' = task)
    BY <1>a, <2>1, InheritIs, ContextsMade DEF Inherit
  <2>. QED BY <1>a, <1>b, <1>c, <2>1, <2>2
<1>13. ASSUME NEW ctx \in Ended, EndCaller(ctx)
       PROVE  /\ caller' \in {Live} \cup Ended /\ caller'.cause \in {caller.cause, ctx.cause}
              /\ retry' \in {Live} \cup Ended /\ retry'.cause \in {retry.cause, ctx.cause}
  BY <1>13, <1>a, InheritIs DEF EndCaller
<1>14. CASE OccurrenceExpires
  <2>1. EndCaller(Context(DeadlineExceeded, Missed)) /\ UNCHANGED <<sendErr, runErr, task>>
    BY <1>14 DEF OccurrenceExpires
  <2>2. Context(DeadlineExceeded, Missed) \in Ended /\ Context(DeadlineExceeded, Missed).cause = Missed
    BY ContextsMade
  <2>. QED BY <1>13, <1>a, <1>b, <2>1, <2>2
<1>15. CASE Surroundings
  <2>1. CASE RetryExpires
    <3>1. retry' = Context(DeadlineExceeded, Full) /\ UNCHANGED <<caller, sendErr, runErr, task>>
      BY <1>15, <2>1 DEF Surroundings, RetryExpires
    <3>2. retry' \in Ended /\ retry'.cause = Full /\ Full \in Errors
      BY <3>1, ContextsMade DEF Errors
    <3>. QED BY <1>a, <1>b, <3>1, <3>2
  <2>2. CASE BusStops BY <1>1, <1>15, <2>2 DEF Surroundings, BusStops
  <2>. QED BY <1>15, <2>1, <2>2 DEF Surroundings
<1>16. ASSUME NEW ctx \in Ended, EndTask(ctx) PROVE Kept
  <2>1. task = Live /\ task' = ctx /\ EndCaller(ctx) /\ UNCHANGED <<sendErr, runErr>>
    BY <1>16 DEF EndTask
  <2>2. \A cause \in {StopRequested, Parent} : cause \notin Reasons BY <1>a, <1>b, <1>c, <2>1
  <2>. QED BY <1>13, <2>1, <2>2
<1>17. CASE Stop
  <2>1. CASE EndTask(Context(Canceled, StopRequested)) BY <1>16, <2>1, ContextsMade
  <2>2. CASE ~EndTask(Context(Canceled, StopRequested)) BY <1>1, <1>17, <2>2 DEF Stop
  <2>. QED BY <2>1, <2>2
<1>18. CASE ParentEnds BY <1>16, <1>18, ContextsMade DEF ParentEnds
<1>19. CASE UNCHANGED vars BY <1>1, <1>19 DEF vars
<1>. QED
  BY <1>2, <1>3, <1>4, <1>5, <1>6, <1>7, <1>8, <1>9, <1>10, <1>11, <1>12, <1>14, <1>15, <1>17,
     <1>18, <1>19 DEF Next, Run

-----------------------------------------------------------------------------
(* The misses since the last acceptance.                                   *)

TrailingIn(s) == { i \in DOMAIN s : \A j \in i..Len(s) : s[j] = "missed" }
MissesIn(s) == { i \in DOMAIN s : s[i] = "missed" }

\* The misses of a history are finitely many.
LEMMA MissesFinite ==
  ASSUME NEW s \in Seq({"accepted", "missed"})
  PROVE  /\ IsFiniteSet(TrailingIn(s)) /\ Cardinality(TrailingIn(s)) \in Nat
         /\ IsFiniteSet(MissesIn(s)) /\ Cardinality(MissesIn(s)) \in Nat
<1>1. DOMAIN s = 1..Len(s) /\ Len(s) \in Nat OBVIOUS
<1>2. IsFiniteSet(DOMAIN s) BY <1>1, FS_Interval
<1>3. TrailingIn(s) \subseteq DOMAIN s /\ MissesIn(s) \subseteq DOMAIN s BY DEF TrailingIn, MissesIn
<1>4. IsFiniteSet(TrailingIn(s)) /\ IsFiniteSet(MissesIn(s)) BY <1>2, <1>3, FS_Subset
<1>. QED BY <1>4, FS_CardinalityType

\* One more miss.
LEMMA OneMore ==
  ASSUME NEW s \in Seq({"accepted", "missed"})
  PROVE  /\ Cardinality(TrailingIn(Append(s, "missed"))) = Cardinality(TrailingIn(s)) + 1
         /\ Cardinality(MissesIn(Append(s, "missed"))) = Cardinality(MissesIn(s)) + 1
<1>. DEFINE t == Append(s, "missed")
            n == Len(s)
<1>1. n \in Nat /\ DOMAIN s = 1..n OBVIOUS
<1>2. /\ Len(t) = n + 1 /\ DOMAIN t = 1..(n + 1) /\ t[n + 1] = "missed"
      /\ \A i \in 1..n : t[i] = s[i]
  BY AppendProperties
<1>. HIDE DEF t, n
<1>3. TrailingIn(t) = TrailingIn(s) \cup {n + 1}
  <2>1. ASSUME NEW i \in 1..n
        PROVE  (\A j \in i..(n + 1) : t[j] = "missed") <=> (\A j \in i..n : s[j] = "missed")
    <3>1. \A j \in i..(n + 1) : j = n + 1 \/ j \in i..n BY <1>1
    <3>2. \A j \in i..n : j \in i..(n + 1) /\ j \in 1..n BY <1>1
    <3>. QED BY <1>2, <3>1, <3>2
  <2>2. \A j \in (n + 1)..(n + 1) : t[j] = "missed" BY <1>1, <1>2
  <2>3. 1..(n + 1) = 1..n \cup {n + 1} BY <1>1
  <2>4. TrailingIn(s) = { i \in 1..n : \A j \in i..n : s[j] = "missed" } BY <1>1 DEF TrailingIn, n
  <2>5. TrailingIn(t) = { i \in 1..(n + 1) : \A j \in i..(n + 1) : t[j] = "missed" }
    BY <1>2 DEF TrailingIn
  <2>. QED BY <2>1, <2>2, <2>3, <2>4, <2>5
<1>4. MissesIn(t) = MissesIn(s) \cup {n + 1}
  <2>1. 1..(n + 1) = 1..n \cup {n + 1} BY <1>1
  <2>. QED BY <1>1, <1>2, <2>1 DEF MissesIn
<1>5. n + 1 \notin TrailingIn(s) /\ n + 1 \notin MissesIn(s) BY <1>1 DEF TrailingIn, MissesIn
<1>6. IsFiniteSet(TrailingIn(s)) /\ IsFiniteSet(MissesIn(s)) BY MissesFinite
<1>. QED BY <1>3, <1>4, <1>5, <1>6, FS_AddElement DEF t

\* An acceptance ends the run of misses.
LEMMA NoneTrailing ==
  ASSUME NEW s \in Seq({"accepted", "missed"})
  PROVE  /\ Cardinality(TrailingIn(Append(s, "accepted"))) = 0
         /\ MissesIn(Append(s, "accepted")) = MissesIn(s)
<1>. DEFINE t == Append(s, "accepted")
            n == Len(s)
<1>1. n \in Nat /\ DOMAIN s = 1..n OBVIOUS
<1>2. /\ Len(t) = n + 1 /\ DOMAIN t = 1..(n + 1) /\ t[n + 1] = "accepted"
      /\ \A i \in 1..n : t[i] = s[i]
  BY AppendProperties
<1>. HIDE DEF t, n
<1>3. TrailingIn(t) = {}
  <2>1. \A i \in 1..(n + 1) : n + 1 \in i..(n + 1) BY <1>1
  <2>. QED BY <1>2, <2>1 DEF TrailingIn
<1>4. MissesIn(t) = MissesIn(s)
  <2>1. 1..(n + 1) = 1..n \cup {n + 1} BY <1>1
  <2>. QED BY <1>1, <1>2, <2>1 DEF MissesIn
<1>. QED BY <1>3, <1>4, FS_EmptySet DEF t

\* What MissesExact says, in these terms.
LEMMA MissesAre ==
  /\ Trailing = Cardinality(TrailingIn(outcomes))
  /\ TypeOK => Trailing \in Nat
  /\ MissesExact <=>
       /\ missed = Cardinality(MissesIn(outcomes))
       /\ phase \notin {"finish", "done"} => misses = Trailing
       /\ Trailing > MaxConsecutiveMisses => /\ phase \in {"finish", "done"}
                                            /\ runErr \cap {Full, Missed} # {}
  BY MissesFinite DEF Trailing, TrailingIn, MissesIn, MissesExact, TypeOK

\* While the task goes on, its misses are within the limit.
LEMMA WithinLimit ==
  ASSUME ReportInv, phase \notin {"finish", "done"}
  PROVE  Trailing \in Nat /\ Trailing <= MaxConsecutiveMisses /\ misses = Trailing
  BY MissesAre, CyclicAssumption DEF ReportInv, TypeOK

\* A step that counts nothing: the task goes on, begins to finish with an
\* error, or has ended.
LEMMA CountsNothing ==
  ASSUME ReportInv, UNCHANGED <<missed, outcomes, misses>>,
         \/ /\ phase \notin {"finish", "done"} /\ phase' \notin {"finish", "done"}
            /\ phase' = "miss" => sendErr' \cap {Full, Missed} # {} /\ StopRequested \notin sendErr'
         \/ phase \notin {"finish", "done"} /\ phase' = "finish" /\ runErr' # {}
         \/ /\ phase \in {"finish", "done"} /\ UNCHANGED <<phase, runErr>>
            /\ phase = "done" => task' = task
  PROVE  MissesExact' /\ OutcomeInv'
<1>0. MissesExact /\ OutcomeInv /\ Trailing \in Nat /\ MaxConsecutiveMisses \in Nat
  BY MissesAre, CyclicAssumption DEF ReportInv
<1>1. /\ Trailing' = Trailing
      /\ Cardinality({ i \in DOMAIN outcomes : outcomes[i] = "missed" })'
         = Cardinality({ i \in DOMAIN outcomes : outcomes[i] = "missed" })
  BY DEF Trailing
<1>2. CASE phase \notin {"finish", "done"}
  <2>1. ~(Trailing' > MaxConsecutiveMisses) /\ misses' = Trailing' BY <1>0, <1>1, <1>2, WithinLimit
  <2>2. MissesExact' BY <1>0, <1>1, <2>1 DEF MissesExact
  <2>. QED BY <1>2, <2>1, <2>2 DEF OutcomeInv
<1>3. CASE phase \in {"finish", "done"}
  <2>1. phase' = phase /\ runErr' = runErr /\ (phase = "done" => task' = task) BY <1>3
  <2>2. MissesExact' BY <1>0, <1>1, <1>3, <2>1 DEF MissesExact
  <2>3. OutcomeInv' BY <1>0, <1>1, <1>3, <2>1 DEF OutcomeInv
  <2>. QED BY <2>2, <2>3
<1>. QED BY <1>2, <1>3

\* An accepted send.
LEMMA AcceptCounts == ReportInv /\ Accept => MissesExact' /\ OutcomeInv'
<1>. SUFFICES ASSUME ReportInv, Accept PROVE MissesExact' /\ OutcomeInv'
  OBVIOUS
<1>1. outcomes \in Seq({"accepted", "missed"}) /\ phase = "judge" BY DEF ReportInv, TypeOK, Accept
<1>2. /\ outcomes' = Append(outcomes, "accepted") /\ misses' = 0 /\ missed' = missed
      /\ phase' = "arm"
  BY DEF Accept, Enter
<1>3. Trailing' = 0 /\ MissesIn(outcomes)' = MissesIn(outcomes)
  BY <1>1, <1>2, NoneTrailing DEF Trailing, TrailingIn, MissesIn
<1>4. missed = Cardinality(MissesIn(outcomes)) BY DEF ReportInv, MissesExact, MissesIn
<1>5. ~(Trailing' > MaxConsecutiveMisses) BY <1>3, CyclicAssumption
<1>6. MissesExact' BY <1>2, <1>3, <1>4, <1>5 DEF MissesExact, MissesIn
<1>. QED BY <1>2, <1>5, <1>6 DEF OutcomeInv

\* A miss is counted, and absorbed, or reported by the task that it ends.
LEMMA MissCounts == ReportInv /\ CountMiss => MissesExact' /\ OutcomeInv'
<1>. SUFFICES ASSUME ReportInv, CountMiss PROVE MissesExact' /\ OutcomeInv'
  OBVIOUS
<1>1. /\ outcomes \in Seq({"accepted", "missed"}) /\ phase = "miss"
      /\ missed = Cardinality(MissesIn(outcomes)) /\ missed \in Nat
      /\ sendErr \cap {Full, Missed} # {} /\ StopRequested \notin sendErr
  BY DEF ReportInv, TypeOK, CountMiss, MissesExact, MissesIn, OutcomeInv
<1>2. misses = Trailing /\ Trailing \in Nat /\ Trailing <= MaxConsecutiveMisses BY <1>1, WithinLimit
<1>3. CASE busDone
  <2>1. UNCHANGED <<misses, missed, outcomes>> /\ phase' = "finish" /\ runErr' # {}
    BY <1>3 DEF CountMiss, FinishWith
  <2>. QED BY <1>1, <2>1, CountsNothing
<1>4. CASE ~busDone
  <2>1. missed' = missed + 1 /\ outcomes' = Append(outcomes, "missed")
    BY <1>4 DEF CountMiss
  <2>2. Trailing' = Trailing + 1 /\ Cardinality(MissesIn(outcomes))' = missed + 1
    BY <1>1, <2>1, OneMore DEF Trailing, TrailingIn, MissesIn
  <2>3. CASE misses < MaxConsecutiveMisses
    <3>1. misses' = misses + 1 /\ phase' = "arm" BY <1>4, <2>3 DEF CountMiss, Enter
    <3>2. ~(Trailing' > MaxConsecutiveMisses) /\ misses' = Trailing'
      BY <1>2, <2>2, <2>3, <3>1, CyclicAssumption
    <3>3. MissesExact' BY <2>1, <2>2, <3>2 DEF MissesExact, MissesIn
    <3>. QED BY <3>1, <3>2, <3>3 DEF OutcomeInv
  <2>4. CASE ~(misses < MaxConsecutiveMisses)
    <3>1. phase' = "finish" /\ runErr' = sendErr BY <1>4, <2>4 DEF CountMiss, FinishWith
    <3>2. runErr' \cap {Full, Missed} # {} /\ StopRequested \notin runErr' BY <1>1, <3>1
    <3>3. MissesExact' BY <2>1, <2>2, <3>1, <3>2 DEF MissesExact, MissesIn
    <3>. QED BY <3>1, <3>2, <3>3 DEF OutcomeInv
  <2>. QED BY <2>3, <2>4
<1>. QED BY <1>3, <1>4

\* The end: a stop that was requested is no error, and excuses no misses.
LEMMA FinishCounts == ReportInv /\ Finish => MissesExact' /\ OutcomeInv'
<1>. SUFFICES ASSUME ReportInv, Finish PROVE MissesExact' /\ OutcomeInv'
  OBVIOUS
<1>1. /\ phase = "finish" /\ phase' = "done" /\ UNCHANGED <<outcomes, misses, missed>>
      /\ runErr' = IF StopRequested \in runErr THEN {} ELSE runErr
      /\ task' = Inherit(task, Context(Canceled, Canceled))
  BY DEF Finish, marks
<1>2. MissesExact /\ ReasonInv /\ OutcomeInv BY DEF ReportInv
<1>3. /\ Trailing' = Trailing
      /\ Cardinality({ i \in DOMAIN outcomes : outcomes[i] = "missed" })'
         = Cardinality({ i \in DOMAIN outcomes : outcomes[i] = "missed" })
  BY <1>1 DEF Trailing
<1>4. Trailing > MaxConsecutiveMisses => runErr' = runErr BY <1>1, <1>2 DEF OutcomeInv
<1>5. MissesExact' BY <1>1, <1>2, <1>3, <1>4 DEF MissesExact
<1>6. runErr' = {} => task'.cause = StopRequested
  <2>1. SUFFICES ASSUME StopRequested \in runErr PROVE task'.cause = StopRequested
    BY <1>1, <1>2 DEF OutcomeInv
  <2>2. task.cause = StopRequested BY <1>2, <2>1 DEF ReasonInv
  <2>3. task # Live BY <2>2, ContextsMade, ReasonsApart
  <2>. QED BY <1>1, <2>2, <2>3 DEF Inherit
<1>. QED BY <1>1, <1>5, <1>6 DEF OutcomeInv

\* Every step counts its misses and keeps its errors.
LEMMA OutcomeStep == ReportInv /\ [Next]_vars => MissesExact' /\ OutcomeInv'
<1>. SUFFICES ASSUME ReportInv, [Next]_vars PROVE MissesExact' /\ OutcomeInv'
  OBVIOUS
<1>. USE DEF sendVars, busVars, schedule, content, marks, taskVars, Enter, FinishWith
<1>1. CASE Accept BY <1>1, AcceptCounts
<1>2. CASE CountMiss BY <1>2, MissCounts
<1>3. CASE Finish BY <1>3, FinishCounts
<1>4. CASE BeginOccurrence \/ Generate \/ Pick \/ Launch
  BY <1>4, CountsNothing DEF BeginOccurrence, Generate, Pick, Launch
<1>5. CASE Sending BY <1>5, CountsNothing DEF Sending
<1>6. CASE SendReturned BY <1>6, CountsNothing DEF SendReturned
<1>7. CASE Judge
  <2>1. phase = "judge" /\ sendErr # {} /\ UNCHANGED <<missed, outcomes, misses, sendErr>>
    BY <1>7 DEF Judge
  <2>2. CASE task = Live /\ sendErr \cap {Missed, Full} # {}
    <3>1. StopRequested \notin sendErr
      BY <2>2, ContextsMade, ReasonsApart DEF ReportInv, ReasonInv
    <3>. QED BY <1>7, <2>1, <2>2, <3>1, CountsNothing DEF Judge
  <2>3. CASE ~(task = Live /\ sendErr \cap {Missed, Full} # {})
    BY <1>7, <2>1, <2>3, CountsNothing DEF Judge
  <2>. QED BY <2>2, <2>3
<1>8. CASE Arm \/ TimerFires \/ ContextDone \/ BusIsDone
  BY <1>8, CountsNothing DEF Arm, TimerFires, ContextDone, BusIsDone
<1>9. ASSUME UNCHANGED <<missed, outcomes, misses, phase, runErr, sendErr>>, phase = "done" => task' = task
      PROVE  MissesExact' /\ OutcomeInv'
  <2>1. phase = "miss" => sendErr' \cap {Full, Missed} # {} /\ StopRequested \notin sendErr'
    BY <1>9 DEF ReportInv, OutcomeInv
  <2>. QED BY <1>9, <2>1, CountsNothing
<1>10. CASE OccurrenceExpires \/ Surroundings
  BY <1>9, <1>10 DEF OccurrenceExpires, Surroundings, RetryExpires, BusStops
<1>11. CASE Stop BY <1>9, <1>11 DEF Stop, EndTask
<1>12. CASE ParentEnds BY <1>9, <1>12 DEF ParentEnds, EndTask
<1>13. CASE Update \/ Tick \/ UNCHANGED vars BY <1>9, <1>13 DEF Update, Tick, vars
<1>. QED
  BY <1>1, <1>2, <1>3, <1>4, <1>5, <1>6, <1>7, <1>8, <1>10, <1>11, <1>12, <1>13 DEF Next, Run

-----------------------------------------------------------------------------
(* What the task reports.                                                  *)

\* The invariant of the reports holds at the start.
LEMMA ReportInitially == Init => ReportInv
<1>. SUFFICES ASSUME Init PROVE ReportInv
  OBVIOUS
<1>1. TypeOK
  <2>1. Live \in Contexts BY DEF Live, Context, Contexts
  <2>2. {caller, retry, task} \subseteq Contexts BY <2>1 DEF Init, SendInit
  <2>3. /\ 0 \in 0..MaxTime /\ 0 \in 0..(MaxTime + Period)
        /\ 0 \in 0..MaxConsecutiveMisses /\ 0 \in 0..MaxUpdates
    BY CyclicAssumption
  <2>4. attempts \in Seq(Nat) /\ outcomes \in Seq({"accepted", "missed"}) BY DEF Init
  <2>5. /\ now \in 0..MaxTime /\ deadline \in 0..(MaxTime + Period)
        /\ misses \in 0..MaxConsecutiveMisses /\ missed \in Nat
        /\ frame \in 0..MaxUpdates /\ picked \in 0..MaxUpdates
    BY <2>3 DEF Init
  <2>6. /\ at = "idle" /\ timer = FALSE /\ busDone = FALSE /\ stopping = FALSE
        /\ busErr = "none" /\ sendErr = {} /\ runErr = {} /\ phase = "send"
    BY DEF Init, SendInit
  <2>. QED BY <2>2, <2>4, <2>5, <2>6 DEF TypeOK
<1>2. outcomes = <<>> /\ missed = 0 /\ misses = 0 /\ phase = "send" /\ runErr = {} /\ sendErr = {}
  BY DEF Init, SendInit
<1>3. Trailing = 0
  <2>1. { i \in DOMAIN outcomes : \A j \in i..Len(outcomes) : outcomes[j] = "missed" } = {} BY <1>2
  <2>. QED BY <2>1, FS_EmptySet DEF Trailing
<1>4. MissesExact
  <2>1. { i \in DOMAIN outcomes : outcomes[i] = "missed" } = {} BY <1>2
  <2>2. ~(Trailing > MaxConsecutiveMisses) BY <1>3, CyclicAssumption
  <2>. QED BY <1>2, <1>3, <2>1, <2>2, FS_EmptySet DEF MissesExact
<1>5. ReasonInv
  <2>1. caller = Live /\ retry = Live /\ task = Live BY DEF Init, SendInit
  <2>. QED BY <1>2, <2>1, ContextsMade, ReasonsApart DEF ReasonInv
<1>6. OutcomeInv
  <2>1. ~(Trailing > MaxConsecutiveMisses) BY <1>3, CyclicAssumption
  <2>. QED BY <1>2, <2>1 DEF OutcomeInv
<1>. QED BY <1>1, <1>4, <1>5, <1>6 DEF ReportInv

\* Every step keeps it.
LEMMA ReportStep == ReportInv /\ [Next]_vars => ReportInv'
<1>. SUFFICES ASSUME ReportInv, [Next]_vars PROVE ReportInv'
  OBVIOUS
<1>1. TypeOK' BY TypeStep
<1>2. MissesExact' /\ OutcomeInv' BY OutcomeStep
<1>3. ReasonInv' BY ReasonStep DEF ReasonInv
<1>. QED BY <1>1, <1>2, <1>3 DEF ReportInv

\* Missed counts every miss, a task that goes on has absorbed at most the
\* permitted number of consecutive ones and ends in error with the next, and
\* Err is nil only for a task that Stop ended: for every limit, period and
\* order of the sends, the retries and the ends of the contexts.
THEOREM ReportsTrue == Spec => []ReportsExact
<1>1. ReportInv => ReportsExact
  <2>. SUFFICES ASSUME ReportInv PROVE NilOnlyAfterStop
    BY DEF ReportsExact, ReportInv
  <2>. QED BY DEF ReportInv, ReasonInv, OutcomeInv, NilOnlyAfterStop
<1>. QED BY <1>1, ReportInitially, ReportStep, PTL DEF Spec

=============================================================================
