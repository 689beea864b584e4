---------------------------- MODULE MCRecording ----------------------------
(***************************************************************************)
(* What becomes of the records of a capture: the recorder, the two writers *)
(* it can have, and the forms that other programs read (MCCodecs).  A      *)
(* behaviour is about one of them, its subject, so that their states add   *)
(* and do not multiply: the recorder's writer fails whenever it likes, and *)
(* the writers are called in any order.                                    *)
(***************************************************************************)
EXTENDS MCRecorder, MCCodecs, Mf4Writer, AscWriter

SomeGroups == {<<1, FALSE>>, <<1, TRUE>>}

\* Three appends while others clear and prune, or four while they do not, of
\* which neighbours differ.
RecorderBound ==
    /\ Len(appends) <= 3 \/ (era = 1 /\ ~others)
    /\ \A i \in 2 .. Len(appends) : appends[i].entry # appends[i - 1].entry

\* Two records at any times, or more at one time.
Mf4Bound ==
    LET taken == history.frames \o history.events
    IN Len(taken) <= 2 \/ \A i \in DOMAIN taken : taken[i].time = taken[1].time

\* A recorder that takes no step: one that ended in Start.
EndedRecorder ==
    /\ LogInit
    /\ phase = "done" /\ mode = "initial" /\ flushed = Start
    /\ cause = "none" /\ failure = {"range"} /\ written = <<>> /\ durable = 0
    /\ appends = <<>> /\ base = -1 /\ stopMark = 0 /\ others = FALSE /\ lost = {} /\ hidden = {}

IdleMf4 ==
    /\ writer = [NewMf4Writer(FALSE) EXCEPT !.closed = TRUE] /\ file = NewFile
    /\ history = NoHistory

Init ==
    \/ subject = "recorder" /\ RecorderInit /\ IdleCodecs /\ IdleMf4 /\ AscInit
    \/ subject = "mf4" /\ EndedRecorder /\ IdleCodecs /\ Mf4Init /\ AscInit
    \/ subject = "asc" /\ EndedRecorder /\ IdleCodecs /\ IdleMf4 /\ AscInit
    \/ CodecsInit /\ EndedRecorder /\ IdleMf4 /\ AscInit

Next ==
    /\ UNCHANGED subject
    /\ \/ /\ subject = "recorder" /\ RecorderNext /\ RecorderBound'
          /\ UNCHANGED <<codecVars, mf4Vars, ascVars>>
       \/ subject = "mf4" /\ Mf4Next /\ Mf4Bound' /\ UNCHANGED <<recordingVars, codecVars, ascVars>>
       \/ subject = "asc" /\ AscNext /\ UNCHANGED <<recordingVars, codecVars, mf4Vars>>
       \/ CodecsNext /\ UNCHANGED <<recordingVars, mf4Vars, ascVars>>

Spec ==
    /\ Init /\ [][Next]_<<subject, recordingVars, codecVars, mf4Vars, ascVars>>
    /\ RecorderFairness

\* What a log writer leaves behind is true, of either format.
LogsExact == FileExact /\ TraceExact
=============================================================================
