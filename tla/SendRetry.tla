----------------------------- MODULE SendRetry ------------------------------
(***************************************************************************)
(* The package-level Send (bus.go): one attempt, and retries of a frame    *)
(* that a full transmit queue rejected until the frame is accepted, the    *)
(* retry time is spent, the caller's context ends or the bus is done.      *)
(* Time is left to the contexts, which may end at any moment.  One call is *)
(* in progress at a time; the modules that extend this one make it.        *)
(***************************************************************************)
EXTENDS FiniteSets, Naturals

CONSTANT RetryTimeout   \* BOOLEAN: retryTimeout is positive, not zero

ASSUME RetryAssumption == RetryTimeout \in BOOLEAN

VARIABLES
  caller,     \* the context of the call
  retry,      \* the context of its retries, derived from caller
  at,         \* where the call is: idle, first, wait, again or returned
  timer,      \* the retry timer runs
  sendErr,    \* err, as the set of the errors joined in it
  busDone, busErr,   \* Done and Err of the bus
  accepted    \* history: the acceptances of the call's frame by the bus

sendVars == <<caller, retry, at, timer, sendErr, accepted>>
busVars == <<busDone, busErr>>

Full == "ErrTransmitQueueFull"
Closed == "ErrBusClosed"
Fault == "ErrHardwareDisconnected"  \* a background failure of the bus
Failed == "ErrBusOff"               \* another error of a native send
Canceled == "context.Canceled"
DeadlineExceeded == "context.DeadlineExceeded"

\* A context: its Err and its Cause.
Context(err, cause) == [err |-> err, cause |-> cause]
Live == Context("none", "none")
Inherit(ctx, parent) == IF ctx = Live THEN parent ELSE ctx

SendInit ==
  /\ caller = Live /\ retry = Live /\ at = "idle" /\ timer = FALSE
  /\ sendErr = {} /\ accepted = 0
  /\ busDone = FALSE /\ busErr = "none"

\* What a done bus is reported with.
BusCause == IF busErr = "none" THEN Closed ELSE busErr

\* The call is made with context ctx.
CallSend(ctx) ==
  /\ caller' = ctx /\ retry' = Live /\ at' = "first" /\ timer' = FALSE
  /\ sendErr' = {} /\ accepted' = 0

SendReturns(err) == at' = "returned" /\ sendErr' = err

\* What Bus.Send may answer under context ctx: nil, a rejection, an end of the
\* context or of the bus, or another failure.  A native send that is in
\* progress has a definite result even when the context has ended.
Answers(ctx) ==
  {{}, {Full}, {Failed}}
    \cup (IF ctx = Live THEN {} ELSE {{ctx.err}})
    \cup (IF busDone THEN {{BusCause}} ELSE {})

\* An attempt is repeated only if its frame was rejected.
RejectedOnly(answer) == Full \in answer

\* The first attempt returns; a rejection starts the retries.
FirstAttempt ==
  /\ at = "first"
  /\ \E answer \in Answers(caller) :
       LET err == IF caller # Live /\ caller.err \in answer
                  THEN answer \cup {caller.cause} ELSE answer
       IN /\ accepted' = IF answer = {} THEN accepted + 1 ELSE accepted
          /\ IF RetryTimeout /\ RejectedOnly(answer)
             THEN at' = "wait" /\ timer' = TRUE /\ retry' = caller /\ sendErr' = err
             ELSE SendReturns(err) /\ UNCHANGED <<timer, retry>>
  /\ UNCHANGED <<caller, busVars>>

\* The select wakes for its context or its timer, and looks at the cause.
WakeRetry ==
  /\ at = "wait" /\ (timer \/ retry # Live)
  /\ IF retry = Live THEN at' = "again" /\ timer' = FALSE /\ UNCHANGED sendErr
     ELSE SendReturns(IF retry.cause = Full THEN sendErr ELSE sendErr \cup {retry.cause})
          /\ UNCHANGED timer
  /\ UNCHANGED <<caller, retry, accepted, busVars>>

\* The select wakes because the bus is done.
WakeBusDone ==
  /\ at = "wait" /\ busDone
  /\ SendReturns(sendErr \cup {BusCause})
  /\ UNCHANGED <<caller, retry, timer, accepted, busVars>>

\* Mutant of NextAttempt: the call returns the rejection it had kept.
NextAttemptStale ==
  /\ at = "again"
  /\ \E answer \in Answers(retry) :
       /\ accepted' = IF answer = {} THEN accepted + 1 ELSE accepted
       /\ IF retry # Live /\ retry.err \in answer THEN at' = "wait" /\ UNCHANGED <<timer, sendErr>>
          ELSE IF RejectedOnly(answer) THEN at' = "wait" /\ timer' = TRUE /\ sendErr' = answer
          ELSE SendReturns(sendErr) /\ UNCHANGED timer
  /\ UNCHANGED <<caller, retry, busVars>>

\* A later attempt returns.  If the context ended it, the loop finds that out
\* by itself and keeps the last rejection.
NextAttempt ==
  /\ at = "again"
  /\ \E answer \in Answers(retry) :
       /\ accepted' = IF answer = {} THEN accepted + 1 ELSE accepted
       /\ IF retry # Live /\ retry.err \in answer THEN at' = "wait" /\ UNCHANGED <<timer, sendErr>>
          ELSE IF RejectedOnly(answer) THEN at' = "wait" /\ timer' = TRUE /\ sendErr' = answer
          ELSE SendReturns(answer) /\ UNCHANGED timer
  /\ UNCHANGED <<caller, retry, busVars>>

\* The retry time is spent.
RetryExpires ==
  /\ at \in {"wait", "again"} /\ retry = Live
  /\ retry' = Context(DeadlineExceeded, Full)
  /\ UNCHANGED <<caller, at, timer, sendErr, accepted, busVars>>

\* The bus stops, with a failure or after Close.
BusStops ==
  /\ ~busDone /\ busDone' = TRUE
  /\ busErr' \in {"none", Fault}
  /\ UNCHANGED sendVars

\* Mutant of EndCaller: the retries have a context of their own.
EndCallerOnly(ctx) ==
  /\ caller' = IF at \in {"idle", "returned"} THEN caller ELSE Inherit(caller, ctx)
  /\ UNCHANGED retry

\* A context above the call ends, and with it the ones derived from it.
EndCaller(ctx) ==
  /\ caller' = IF at \in {"idle", "returned"} THEN caller ELSE Inherit(caller, ctx)
  /\ retry' = IF at \in {"wait", "again"} THEN Inherit(retry, ctx) ELSE retry

Send == FirstAttempt \/ WakeRetry \/ WakeBusDone \/ NextAttempt

-----------------------------------------------------------------------------
Errors == {Full, Closed, Fault, Failed, Canceled, DeadlineExceeded}

\* Send's result is definite: it returns nil exactly when the bus accepted the
\* frame, once, however its retries raced the contexts and the bus; and an
\* accepted frame is never offered again.
SendDefinite ==
  /\ accepted <= 1
  /\ at = "returned" => (sendErr = {} <=> accepted = 1)
  /\ at \in {"first", "wait", "again"} => accepted = 0
=============================================================================
