------------------------------ MODULE Recorder ------------------------------
(***************************************************************************)
(* gocan's Recorder (recorder/recorder.go) over the promise of the Capture *)
(* it polls (CaptureLog): passes that write and flush what is new, the     *)
(* final pass of Stop or of a cancelled context, failures of the writer,   *)
(* and a capture that its owner prunes to Flushed while others may Clear   *)
(* or Prune it.                                                            *)
(***************************************************************************)
EXTENDS CaptureLog

CONSTANTS
  Rec,         \* the recorder, the one holder of CaptureLog here
  MaxAppends   \* bound: appends over the run

ASSUME RecorderAssumption ==
  /\ Holders = {Rec} /\ MaxAppends \in Nat
  /\ Eras \subseteq Nat /\ 1 \in Eras  \* the first epoch

VARIABLES
  phase,     \* new, select, pass, flush, finish, done: where the recorder is
  mode,      \* initial (in Start), loop or final: which call of pass is next
  flushed,
  cause,     \* context.Cause: none, stop (errStopRequested) or parent
  failure,   \* the errors met, which Err joins
  written,   \* history: the entries the writer accepted
  durable,   \* history: how many of them a Flush or Close delivered
  appends,   \* history: every append, as [entry, era, at]
  base,      \* history: how many appends precede the first pass; -1 before it
  stopMark,  \* history: how many appends preceded Stop
  others,    \* history: others than the recorder's owner Cleared or Pruned
  lost,      \* history: the kinds of cursor (zero, placed) that lost a record
  hidden     \* history: the kinds of cursor that placed again after a loss

recorderVars == <<phase, mode, flushed, cause, failure, written, durable>>
marks == <<appends, base, stopMark, others, lost, hidden>>
recordingVars == <<logVars, recorderVars, marks>>

accepted == position[Rec]

RecorderInit ==
  /\ LogInit
  /\ phase = "new" /\ mode = "initial" /\ flushed = Start
  /\ cause = "none" /\ failure = {} /\ written = <<>> /\ durable = 0
  /\ appends = <<>> /\ base = -1 /\ stopMark = 0 /\ others = FALSE /\ lost = {} /\ hidden = {}

-----------------------------------------------------------------------------
(* The capture's other users.                                              *)

\* The last append of this era that the recorder has read or is reading.
Reached == IF pending[Rec] = Nothing THEN Before(accepted)
           ELSE IF pending[Rec].era # era THEN 0
           ELSE pending[Rec].from + Len(pending[Rec].answer)

\* Discarding everything up to position keep of this era may lose a record.
MarkLoss(keep) ==
  lost' = IF base < 0 \/ keep <= Reached \/ (accepted # Start /\ accepted.era # era)
          THEN lost ELSE lost \cup {IF accepted = Start THEN "zero" ELSE "placed"}

AppendEntry(entry) ==
  /\ Len(appends) < MaxAppends
  /\ LogAppend(entry)
  /\ appends' = Append(appends, [entry |-> entry, era |-> era, at |-> Len(log) + 1])
  /\ UNCHANGED <<recorderVars, base, stopMark, others, lost, hidden>>

PruneUpTo(limit) ==
  /\ \E d \in (discarded + 1)..limit : d < Len(log) /\ discarded' = d
  /\ MarkLoss(discarded')
  /\ UNCHANGED <<era, log, position, pending, recorderVars, appends, base, stopMark, hidden>>

\* The owner prunes to Flushed, the use the documentation names.
PruneToFlushed ==
  /\ phase # "new" /\ Placed(flushed)
  /\ PruneUpTo(Before(flushed))
  /\ UNCHANGED others

PruneByOthers == PruneUpTo(Len(log)) /\ others' = TRUE

ClearByOthers ==
  /\ LogClear
  /\ others' = TRUE
  /\ MarkLoss(Len(log))
  /\ UNCHANGED <<recorderVars, appends, base, stopMark, hidden>>

-----------------------------------------------------------------------------
(* pass: WriteRecordsSince, then Flush when something was accepted.        *)

\* What Start and run do with the error of a pass.
PassReturns(err) ==
  /\ failure' = err \cup IF mode = "final" /\ err = {} /\ cause = "parent"
                         THEN {"cancelled"} ELSE {}
  /\ phase' = IF err # {} \/ mode = "final" THEN "finish" ELSE "select"
  /\ mode' = IF mode = "initial" /\ err = {} THEN "loop" ELSE mode

\* Start: from is the zero cursor, End, or any cursor that places.
StartRecorder ==
  /\ phase = "new"
  /\ \E from \in {Start, LogEnd} \cup { [era |-> era, at |-> n] : n \in (discarded + 1)..Len(log) } :
       /\ flushed' = from
       /\ position' = [position EXCEPT ![Rec] = from]
  /\ phase' = "pass"
  /\ UNCHANGED <<era, log, discarded, pending, mode, cause, failure, written, durable, marks>>

\* WriteRecordsSince takes its snapshot.
BeginPass ==
  /\ phase = "pass"
  /\ LogBeginRead(Rec)
  /\ base' = IF base < 0 THEN Len(appends) - Len(log) + Before(accepted) ELSE base
  /\ hidden' = lost
  /\ UNCHANGED <<recorderVars, appends, stopMark, others, lost>>

\* WriteRecordsSince cannot place the cursor: nothing is accepted or flushed.
PassLost ==
  /\ phase = "pass" /\ pending[Rec] = Nothing /\ ~Placed(accepted)
  /\ PassReturns({"range"})
  /\ UNCHANGED <<logVars, flushed, cause, written, durable, marks>>

\* Mutant of Advance: a failed window counts as accepted.
AdvancePastFailure(n) ==
  [era |-> pending[Rec].era, at |-> pending[Rec].from + Len(pending[Rec].answer)]

\* The cursor of the last record whose writer call succeeded.
Advance(n) ==
  IF n = 0 THEN accepted ELSE [era |-> pending[Rec].era, at |-> pending[Rec].from + n]

\* The writer accepts the whole window, or fails after its first n records.
EndWrite ==
  LET answer == pending[Rec].answer
  IN /\ phase = "pass" /\ pending[Rec].op = "read"
     /\ \E n \in 0..Len(answer) :
          LET err == IF n < Len(answer) THEN {"write"} ELSE {}
          IN /\ position' = [position EXCEPT ![Rec] = Advance(n)]
             /\ written' = written \o SubSeq(answer, 1, n)
             /\ IF n = 0 THEN PassReturns(err)
                ELSE phase' = "flush" /\ failure' = err /\ mode' = mode
     /\ pending' = [pending EXCEPT ![Rec] = Nothing]
     /\ UNCHANGED <<era, log, discarded, flushed, cause, durable, marks>>

\* Mutant of Flush: Flushed moves although Flush failed.
FlushUnchecked ==
  /\ phase = "flush"
  /\ \/ durable' = Len(written) /\ PassReturns(failure)
     \/ durable' = durable /\ PassReturns(failure \cup {"flush"})
  /\ flushed' = accepted
  /\ UNCHANGED <<logVars, cause, written, marks>>

Flush ==
  /\ phase = "flush"
  /\ \/ /\ flushed' = accepted /\ durable' = Len(written)
        /\ PassReturns(failure)
     \/ /\ PassReturns(failure \cup {"flush"})
        /\ UNCHANGED <<flushed, durable>>
  /\ UNCHANGED <<logVars, cause, written, marks>>

-----------------------------------------------------------------------------
(* run, Stop and finish.                                                   *)

Tick ==
  /\ phase = "select"
  /\ phase' = "pass"
  /\ UNCHANGED <<logVars, mode, flushed, cause, failure, written, durable, marks>>

\* Mutants of ContextDone: the final pass is left out, its return is forgotten,
\* or the context is not consulted.
ContextDoneFinishes ==
  /\ phase = "select" /\ cause # "none"
  /\ phase' = "finish" /\ mode' = "final"
  /\ UNCHANGED <<logVars, flushed, cause, failure, written, durable, marks>>

ContextDoneLoops ==
  /\ phase = "select" /\ cause # "none"
  /\ phase' = "pass" /\ mode' = mode
  /\ UNCHANGED <<logVars, flushed, cause, failure, written, durable, marks>>

\* The context is done: one more pass.
ContextDone ==
  /\ phase = "select" /\ cause # "none"
  /\ phase' = "pass" /\ mode' = "final"
  /\ UNCHANGED <<logVars, flushed, cause, failure, written, durable, marks>>

\* Stop, callable once Start has returned; its cause counts when it is first.
Stop ==
  /\ mode # "initial" /\ phase \notin {"finish", "done"} /\ cause = "none"
  /\ cause' = "stop" /\ stopMark' = Len(appends)
  /\ UNCHANGED <<logVars, phase, mode, flushed, failure, written, durable,
                 appends, base, others, lost, hidden>>

ParentCancelled ==
  /\ cause = "none" /\ phase \notin {"finish", "done"}
  /\ cause' = "parent"
  /\ UNCHANGED <<logVars, phase, mode, flushed, failure, written, durable, marks>>

Finish ==
  /\ phase = "finish"
  /\ \/ /\ flushed' = accepted /\ durable' = Len(written)
        /\ UNCHANGED failure
     \/ /\ failure' = failure \cup {"close"}
        /\ UNCHANGED <<flushed, durable>>
  /\ phase' = "done"
  /\ UNCHANGED <<logVars, mode, cause, written, marks>>

Step == StartRecorder \/ BeginPass \/ PassLost \/ EndWrite \/ Flush \/ Finish

RecorderNext ==
  \/ \E entry \in Entries : AppendEntry(entry)
  \/ PruneToFlushed \/ PruneByOthers \/ ClearByOthers
  \/ Step \/ Tick \/ ContextDone
  \/ Stop \/ ParentCancelled

RecorderSpec == RecorderInit /\ [][RecorderNext]_recordingVars

\* The recorder's goroutine runs and its writer's calls return.  select picks
\* at random among the ready cases, so a done context is not passed over for
\* the ticker for ever.
RecorderFairness ==
  WF_recordingVars(Step) /\ WF_recordingVars(Tick) /\ SF_recordingVars(ContextDone)

RecorderFairSpec == RecorderSpec /\ RecorderFairness

-----------------------------------------------------------------------------
Positions == [era : Eras \cup {0}, at : Nat]

\* Every variable of the recorder has its type, and it is in its final pass
\* only because its context is done.
RecorderTypeOK ==
  /\ phase \in {"new", "select", "pass", "flush", "finish", "done"}
  /\ mode \in {"initial", "loop", "final"}
  /\ accepted \in Positions /\ flushed \in Positions
  /\ cause \in {"none", "stop", "parent"} /\ (mode = "final" => cause # "none")
  /\ failure \subseteq {"range", "write", "flush", "close", "cancelled"}
  /\ written \in Seq(Entries) /\ durable \in 0..Len(written)
  /\ lost \subseteq {"zero", "placed"} /\ hidden \subseteq lost

\* Unless history was lost behind its back, the writer has received every
\* append from the first pass's position through Accepted exactly once and in
\* order, across failed passes, prunes and the final pass.
WrittenExact ==
  (base >= 0 /\ hidden = {}) =>
    /\ base + Len(written) <= Len(appends)
    /\ \A i \in DOMAIN written : written[i] = appends[base + i].entry
    /\ written # <<>> =>
         LET last == appends[base + Len(written)]
         IN accepted = [era |-> last.era, at |-> last.at]

\* A capture pruned only to Flushed never loses a record that is not out of
\* the writer: every discarded record after the start was flushed, and
\* Flushed never runs ahead of what Flush or Close delivered.
PruneToFlushedSafe ==
  (~others /\ base >= 0) =>
    /\ lost = {}
    /\ discarded <= base + durable
    /\ flushed # Start => flushed.at <= base + durable

\* A recorder that stops without an error was asked to, and has written and
\* flushed everything that was appended before Stop was called.
CleanStop ==
  (phase = "done" /\ failure = {} /\ hidden = {}) =>
    /\ cause = "stop"
    /\ base + Len(written) >= stopMark
    /\ durable = Len(written) /\ flushed = accepted

\* A recorder that holds a cursor of the capture never goes on after records
\* it had not read were cleared or pruned: the next pass fails.
LossStopsPlaced == "placed" \notin hidden

\* What the recorder's cursors say can be relied on: a loss after one stops it,
\* and what they release is out of the writer.
CursorsHonest == RecorderTypeOK /\ LossStopsPlaced /\ PruneToFlushedSafe

\* The same whatever cursor it holds, which is what the documentation says.
LossStops == hidden = {}

\* After Stop or cancellation the recorder closes its writer and ends, unless
\* Start had not returned.
RecordingEnds == (cause # "none" /\ mode # "initial") ~> phase = "done"
=============================================================================
