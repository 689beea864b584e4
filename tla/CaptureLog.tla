----------------------------- MODULE CaptureLog -----------------------------
(***************************************************************************)
(* What a Capture promises, without chunks, indexes, views or waiters: a   *)
(* log that is appended to, cleared and trimmed at the front, and cursors  *)
(* that are positions in it.  A read answers with the log as it was when   *)
(* the read was called; a pending Next takes the first matching append.    *)
(***************************************************************************)
EXTENDS Integers, Sequences, FiniteSets

CONSTANTS
  Keys, Entries,      \* an entry has a kind; a frame entry has a key
  Holders,            \* the goroutines that hold a cursor
  Eras                \* generation numbers, shared with other captures

VARIABLES
  era,        \* the generation of the log
  log,        \* the appends of this era
  discarded,  \* how many of them Prune discarded
  position,   \* each holder's cursor
  pending     \* each holder's call

logVars == <<era, log, discarded, position, pending>>

Start == [era |-> 0, at |-> 0]     \* the zero Cursor
Nothing == [op |-> "idle"]
Matches(entry, key) == entry.kind = "frame" /\ entry.key = key

\* A position after which nothing was lost.
Placed(p) == p = Start \/ (p.era = era /\ p.at >= discarded /\ p.at > 0)

\* How many appends precede a placed position.
Before(p) == IF p = Start THEN discarded ELSE p.at

\* End of an empty log is the zero cursor.
LogEnd == IF log = <<>> THEN Start ELSE [era |-> era, at |-> Len(log)]

LogInit ==
  /\ era = 1 /\ log = <<>> /\ discarded = 0
  /\ position = [h \in Holders |-> Start]
  /\ pending = [h \in Holders |-> Nothing]

Answer(entry, at) == [entry |-> entry, era |-> era, at |-> at]

\* An append answers every pending Next on its key that has no answer yet.
LogAppend(entry) ==
  /\ log' = Append(log, entry)
  /\ pending' = [h \in Holders |->
       IF /\ pending[h].op = "next" /\ pending[h].answer = {}
          /\ Matches(entry, pending[h].key)
       THEN [pending[h] EXCEPT !.answer = {Answer(entry, Len(log) + 1)}]
       ELSE pending[h]]
  /\ UNCHANGED <<era, discarded, position>>

LogClear ==
  /\ \E g \in Eras : g > era /\ era' = g
  /\ log' = <<>> /\ discarded' = 0
  /\ UNCHANGED <<position, pending>>

\* Prune discards at most what precedes every cursor it is given, and never
\* the newest record.
LogPrune ==
  /\ discarded < discarded' /\ discarded' < Len(log)
  /\ \E S \in (SUBSET Holders) \ {{}} :
       /\ \A h \in S : Placed(position[h]) /\ discarded' <= Before(position[h])
  /\ UNCHANGED <<era, log, position, pending>>

\* A holder takes End, the zero cursor, or a cursor of another capture.
LogTake(h) ==
  /\ pending[h] = Nothing
  /\ \E p \in {Start, LogEnd} \cup [era : Eras \ {era}, at : {0}] :
       position' = [position EXCEPT ![h] = p]
  /\ UNCHANGED <<era, log, discarded, pending>>

LogBeginRead(h) ==
  /\ pending[h] = Nothing /\ Placed(position[h])
  /\ pending' = [pending EXCEPT ![h] =
       [op |-> "read", era |-> era, from |-> Before(position[h]),
        answer |-> SubSeq(log, Before(position[h]) + 1, Len(log))]]
  /\ UNCHANGED <<era, log, discarded, position>>

\* The reader goes on from any prefix of the answer; a writer may stop early.
LogEndRead(h) ==
  /\ pending[h].op = "read"
  /\ \E n \in 0..Len(pending[h].answer) :
       position' = [position EXCEPT ![h] =
         IF n = 0 THEN @ ELSE [era |-> pending[h].era, at |-> pending[h].from + n]]
  /\ pending' = [pending EXCEPT ![h] = Nothing]
  /\ UNCHANGED <<era, log, discarded>>

LogBeginNext(h, key) ==
  LET hits == { i \in (Before(position[h]) + 1)..Len(log) : Matches(log[i], key) }
      i    == CHOOSE i \in hits : \A j \in hits : i <= j
  IN /\ pending[h] = Nothing /\ Placed(position[h])
     /\ pending' = [pending EXCEPT ![h] =
          [op |-> "next", key |-> key,
           answer |-> IF hits = {} THEN {} ELSE {Answer(log[i], i)}]]
     /\ UNCHANGED <<era, log, discarded, position>>

LogEndNext(h) ==
  /\ pending[h].op = "next"
  /\ \E answer \in pending[h].answer :
       position' = [position EXCEPT ![h] = [era |-> answer.era, at |-> answer.at]]
  /\ pending' = [pending EXCEPT ![h] = Nothing]
  /\ UNCHANGED <<era, log, discarded>>

LogCancel(h) ==
  /\ pending[h].op = "next"
  /\ pending' = [pending EXCEPT ![h] = Nothing]
  /\ UNCHANGED <<era, log, discarded, position>>

LogNext ==
  \/ \E entry \in Entries : LogAppend(entry)
  \/ LogClear \/ LogPrune
  \/ \E h \in Holders :
       \/ LogTake(h) \/ LogBeginRead(h) \/ LogEndRead(h)
       \/ \E key \in Keys : LogBeginNext(h, key)
       \/ LogEndNext(h) \/ LogCancel(h)

LogSpec == LogInit /\ [][LogNext]_logVars
=============================================================================
