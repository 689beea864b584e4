--------------------------- MODULE RecorderProofs ---------------------------
(***************************************************************************)
(* Proofs about the recorder: its writer receives every append exactly     *)
(* once and in order, a loss after a placed cursor stops it, pruning to    *)
(* Flushed loses nothing, and Stop without an error leaves nothing behind. *)
(***************************************************************************)
EXTENDS Recorder, SequenceTheorems, TLAPS

-----------------------------------------------------------------------------
(* The inductive invariant.                                                *)

\* The read in progress.
Read == pending[Rec]
Reading == Read # Nothing

\* How many appends precede this era, and how many the writer has had.
Gone == Len(appends) - Len(log)
Out == base + Len(written)

Reads == [op : {"read"}, era : Eras, from : Nat, answer : Seq(Entries)]
Appends == [entry : Entries, era : Eras, at : Nat]

\* The variables of the log and of the history have their types, and the log
\* is the end of the history.
LogInv ==
  /\ era \in Eras /\ log \in Seq(Entries)
  /\ discarded \in Nat /\ discarded <= Len(log)
  /\ position \in [Holders -> Positions]
  /\ pending \in [Holders -> {Nothing} \cup Reads]
  /\ appends \in Seq(Appends)
  /\ base \in Int /\ stopMark \in Nat /\ stopMark <= Len(appends)
  /\ Len(log) <= Len(appends)
  /\ \A i \in 1..Len(log) : appends[Gone + i] = [entry |-> log[i], era |-> era, at |-> i]

\* Cursors are of this era or an earlier one, and not after the log's end.
CursorInv ==
  /\ accepted = Start \/ /\ accepted.at > 0 /\ accepted.era <= era
                         /\ accepted.era = era => accepted.at <= Len(log)
  /\ Reading => /\ phase = "pass" /\ base >= 0 /\ Read.era <= era
                /\ Read.era = era => Read.from + Len(Read.answer) <= Len(log)
                /\ accepted # Start => Read.era = accepted.era /\ Read.from = accepted.at
  /\ phase = "new" => base < 0
  /\ base < 0 => /\ phase \in {"new", "pass", "finish", "done"}
                 /\ lost = {} /\ written = <<>> /\ durable = 0 /\ flushed = accepted

\* As long as nothing was lost, the position is where the writer is.
SyncInv ==
  base >= 0 /\ lost = {} =>
    /\ ~Reading /\ accepted # Start /\ Placed(accepted) => Out = Gone + accepted.at
    /\ ~Reading /\ accepted = Start /\ phase \notin {"finish", "done"} => Out = Gone + discarded
    /\ Reading /\ Read.era = era => Out = Gone + Read.from
    /\ Reading /\ accepted = Start /\ Read.answer = <<>> => Out = Gone + discarded

\* What is being read comes next in the history, also if others clear it now.
AnswerInv ==
  base >= 0 /\ hidden = {} /\ Reading =>
    /\ Out + Len(Read.answer) <= Len(appends)
    /\ \A i \in 1..Len(Read.answer) :
         appends[Out + i] = [entry |-> Read.answer[i], era |-> Read.era, at |-> Read.from + i]

\* A cursor that lost a record does not place again.
LossInv ==
  /\ "placed" \in lost => /\ accepted # Start /\ ~Placed(accepted)
                          /\ Reading => \/ Read.era # era
                                        \/ discarded > Read.from + Len(Read.answer)
  /\ LossStopsPlaced

\* Without others, Flushed is behind the cursor and releases what was written.
OwnerInv ==
  ~others =>
    /\ Len(log) = Len(appends)
    /\ accepted # Start => accepted.era = era /\ discarded <= accepted.at
    /\ Reading => Read.era = era /\ discarded <= Read.from
    /\ flushed # Start => accepted # Start /\ flushed.at <= accepted.at
    /\ PruneToFlushedSafe

\* The final pass began after Stop, so what it reads includes all before it.
StopInv ==
  /\ mode = "final" /\ hidden = {} =>
       /\ Reading => Out + Len(Read.answer) >= stopMark
       /\ phase = "flush" /\ failure = {} => Out >= stopMark
  /\ phase \in {"finish", "done"} /\ failure = {} =>
       cause = "stop" /\ mode = "final" /\ (hidden = {} => Out >= stopMark)
  /\ phase = "done" /\ failure = {} => durable = Len(written) /\ flushed = accepted

IInv ==
  /\ RecorderTypeOK /\ LogInv /\ CursorInv /\ SyncInv /\ AnswerInv /\ WrittenExact
  /\ LossInv /\ OwnerInv /\ StopInv

-----------------------------------------------------------------------------
(* What each action does, in terms of positions and elements.              *)

\* The ranges of what the invariants speak about.
LEMMA Ranges ==
  ASSUME LogInv, RecorderTypeOK
  PROVE  /\ Rec \in Holders /\ era \in Nat /\ Len(log) \in Nat /\ Len(appends) \in Nat
         /\ Len(written) \in Nat /\ durable \in Nat /\ Gone \in Nat
         /\ accepted \in Positions /\ accepted.at \in Nat /\ accepted.era \in Nat
         /\ flushed \in Positions /\ flushed.at \in Nat /\ flushed.era \in Nat
         /\ Start \in Positions /\ Start.at = 0 /\ Start.era = 0
         /\ Reading => /\ Read \in Reads /\ Read.op = "read" /\ Read.era \in Nat
                       /\ Read.from \in Nat /\ Len(Read.answer) \in Nat
                       /\ Read.answer \in Seq(Entries)
         /\ Before(accepted) \in Nat
<1>1. Rec \in Holders /\ Eras \subseteq Nat BY RecorderAssumption
<1>2. era \in Nat /\ Len(log) \in Nat /\ Len(appends) \in Nat /\ Len(log) <= Len(appends)
  BY <1>1, LenProperties DEF LogInv
<1>3. written \in Seq(Entries) /\ durable \in 0..Len(written) BY DEF RecorderTypeOK
<1>4. Len(written) \in Nat /\ durable \in Nat BY <1>3, LenProperties
<1>5. accepted \in Positions /\ flushed \in Positions BY DEF RecorderTypeOK
<1>6. \A p \in Positions : p.at \in Nat /\ p.era \in Nat
  <2>1. Eras \cup {0} \subseteq Nat BY <1>1
  <2>2. \A p \in Positions : p.at \in Nat /\ p.era \in Eras \cup {0} BY DEF Positions
  <2>. QED BY <2>1, <2>2
<1>7. Start \in Positions /\ Start.at = 0 /\ Start.era = 0 BY DEF Start, Positions
<1>8. ASSUME Reading
      PROVE  /\ Read \in Reads /\ Read.op = "read" /\ Read.era \in Nat
             /\ Read.from \in Nat /\ Len(Read.answer) \in Nat /\ Read.answer \in Seq(Entries)
  <2>1. Read \in Reads BY <1>1, <1>8 DEF Reading, Read, LogInv
  <2>2. Read.op = "read" /\ Read.era \in Nat /\ Read.from \in Nat /\ Read.answer \in Seq(Entries)
    BY <1>1, <2>1 DEF Reads
  <2>. QED BY <2>1, <2>2, LenProperties
<1>9. Gone \in Nat BY <1>2 DEF Gone
<1>10. discarded \in Nat BY DEF LogInv
<1>11. Before(accepted) \in Nat BY <1>5, <1>6, <1>10 DEF Before
<1>. QED BY <1>1, <1>2, <1>4, <1>5, <1>6, <1>7, <1>8, <1>9, <1>11

\* An append is the last record of the log and of the history.
LEMMA AppendEffect ==
  ASSUME LogInv, RecorderTypeOK, NEW entry \in Entries, AppendEntry(entry)
  PROVE  /\ LogInv'
         /\ pending' = pending /\ position' = position
         /\ Len(log') = Len(log) + 1 /\ Len(appends') = Len(appends) + 1
         /\ \A i \in 1..Len(appends) : appends'[i] = appends[i]
<1>. DEFINE last == [entry |-> entry, era |-> era, at |-> Len(log) + 1]
<1>1. /\ era' = era /\ discarded' = discarded /\ position' = position
      /\ log' = Append(log, entry) /\ appends' = Append(appends, last)
      /\ base' = base /\ stopMark' = stopMark
  BY DEF AppendEntry, LogAppend
<1>2. pending' = pending
  <2>1. \A h \in Holders : pending[h].op # "next"
    BY DEF LogInv, Reads, Nothing
  <2>2. pending' = [h \in Holders |-> pending[h]] BY <2>1 DEF AppendEntry, LogAppend
  <2>3. pending = [h \in Holders |-> pending[h]] BY DEF LogInv
  <2>. QED BY <2>2, <2>3
<1>3. log \in Seq(Entries) /\ appends \in Seq(Appends) /\ era \in Eras BY DEF LogInv
<1>4. last \in Appends BY <1>3, Ranges DEF Appends
<1>. HIDE DEF last
<1>5. /\ log' \in Seq(Entries) /\ Len(log') = Len(log) + 1
      /\ \A i \in 1..Len(log) : log'[i] = log[i]
      /\ log'[Len(log) + 1] = entry
  BY <1>1, <1>3, AppendProperties
<1>6. /\ appends' \in Seq(Appends) /\ Len(appends') = Len(appends) + 1
      /\ \A i \in 1..Len(appends) : appends'[i] = appends[i]
      /\ appends'[Len(appends) + 1] = last
  BY <1>1, <1>3, <1>4, AppendProperties
<1>7. Len(log) \in Nat /\ Len(appends) \in Nat /\ Len(log) <= Len(appends)
  BY Ranges DEF LogInv
<1>8. Gone' = Gone BY <1>5, <1>6, <1>7 DEF Gone
<1>9. ASSUME NEW i \in 1..Len(log')
      PROVE  appends'[Gone' + i] = [entry |-> log'[i], era |-> era', at |-> i]
  <2>1. CASE i \in 1..Len(log)
    <3>1. Gone + i \in 1..Len(appends) BY <1>7, <2>1 DEF Gone
    <3>2. appends[Gone + i] = [entry |-> log[i], era |-> era, at |-> i] BY <2>1 DEF LogInv
    <3>. QED BY <1>1, <1>5, <1>6, <1>8, <2>1, <3>1, <3>2
  <2>2. CASE i = Len(log) + 1
    <3>1. Gone + i = Len(appends) + 1 BY <1>7, <2>2 DEF Gone
    <3>. QED BY <1>1, <1>5, <1>6, <1>8, <2>2, <3>1 DEF last
  <2>. QED BY <1>5, <1>7, <1>9, <2>1, <2>2
<1>10. discarded' <= Len(log') /\ stopMark' <= Len(appends')  /\ Len(log') <= Len(appends')
  BY <1>1, <1>5, <1>6, <1>7 DEF LogInv
<1>11. LogInv'
  BY <1>1, <1>2, <1>5, <1>6, <1>9, <1>10 DEF LogInv
<1>. QED BY <1>1, <1>2, <1>5, <1>6, <1>11

\* Pruning discards more, but not the newest record; it notes a loss.
LEMMA PruneEffect ==
  ASSUME LogInv, RecorderTypeOK, NEW limit \in Nat, PruneUpTo(limit)
  PROVE  /\ discarded' \in Nat /\ discarded < discarded' /\ discarded' <= limit
         /\ discarded' < Len(log) /\ MarkLoss(discarded')
<1>1. PICK d \in (discarded + 1)..limit : d < Len(log) /\ discarded' = d
  BY DEF PruneUpTo
<1>2. discarded \in Nat BY DEF LogInv
<1>3. MarkLoss(discarded') BY DEF PruneUpTo
<1>. QED BY <1>1, <1>2, <1>3

\* Clear begins an empty log of a later era.
LEMMA ClearEffect ==
  ASSUME LogInv, RecorderTypeOK, ClearByOthers
  PROVE  /\ LogInv' /\ era' > era /\ Len(log') = 0 /\ discarded' = 0 /\ log' = <<>>
         /\ Gone' = Len(appends) /\ pending' = pending /\ position' = position
         /\ MarkLoss(Len(log))
<1>1. PICK g \in Eras : g > era /\ era' = g BY DEF ClearByOthers, LogClear
<1>2. /\ log' = <<>> /\ discarded' = 0 /\ position' = position /\ pending' = pending
      /\ appends' = appends /\ base' = base /\ stopMark' = stopMark /\ MarkLoss(Len(log))
  BY DEF ClearByOthers, LogClear
<1>3. log' \in Seq(Entries) /\ Len(log') = 0 BY <1>2, EmptySeq
<1>4. Len(appends) \in Nat BY Ranges
<1>5. Gone' = Len(appends) BY <1>2, <1>3, <1>4 DEF Gone
<1>6. LogInv' BY <1>1, <1>2, <1>3, <1>4 DEF LogInv
<1>. QED BY <1>1, <1>2, <1>3, <1>5, <1>6

\* Start takes the zero cursor or a position of the log, and leaves the rest.
LEMMA StartEffect ==
  ASSUME LogInv, RecorderTypeOK, StartRecorder
  PROVE  /\ LogInv' /\ accepted' \in Positions /\ flushed' = accepted'
         /\ \/ accepted' = Start
            \/ /\ accepted' # Start /\ accepted'.era = era /\ accepted'.at > 0
               /\ discarded <= accepted'.at /\ accepted'.at <= Len(log)
<1>. USE Ranges
<1>1. PICK from \in {Start, LogEnd} \cup { [era |-> era, at |-> n] : n \in (discarded + 1)..Len(log) } :
        flushed' = from /\ position' = [position EXCEPT ![Rec] = from]
  BY DEF StartRecorder
<1>2. discarded \in Nat /\ discarded <= Len(log) /\ era \in Eras BY DEF LogInv
<1>3. \/ from = Start
      \/ \E n \in Nat : /\ from = [era |-> era, at |-> n] /\ n > 0
                        /\ discarded <= n /\ n <= Len(log)
  <2>1. CASE from = LogEnd
    <3>1. CASE log = <<>> BY <2>1, <3>1 DEF LogEnd
    <3>2. CASE log # <<>>
      <4>1. Len(log) > 0 BY <3>2, EmptySeq DEF LogInv
      <4>. QED BY <1>2, <2>1, <3>2, <4>1 DEF LogEnd
    <3>. QED BY <3>1, <3>2
  <2>2. CASE from \in { [era |-> era, at |-> n] : n \in (discarded + 1)..Len(log) }
    BY <1>2, <2>2
  <2>. QED BY <1>1, <2>1, <2>2
<1>4. from \in Positions BY <1>2, <1>3 DEF Positions
<1>5. accepted' = from BY <1>1 DEF accepted, LogInv
<1>6. position' \in [Holders -> Positions] BY <1>1, <1>4 DEF LogInv
<1>7. LogInv' BY <1>6 DEF LogInv, StartRecorder, marks, Gone
<1>8. \A n \in Nat : [era |-> era, at |-> n].at = n /\ [era |-> era, at |-> n].era = era
  OBVIOUS
<1>9. \A n \in Nat : n > 0 => [era |-> era, at |-> n] # Start BY DEF Start
<1>. QED BY <1>1, <1>3, <1>4, <1>5, <1>7, <1>8, <1>9

\* BeginPass: the read holds what follows the cursor in the log.
LEMMA BeginEffect ==
  ASSUME LogInv, RecorderTypeOK, CursorInv, BeginPass
  PROVE  /\ LogInv' /\ ~Reading /\ Reading' /\ Placed(accepted)
         /\ position' = position /\ discarded' = discarded /\ log' = log
         /\ era' = era /\ appends' = appends
         /\ Before(accepted) <= Len(log)
         /\ Read'.era = era /\ Read'.from = Before(accepted)
         /\ Len(Read'.answer) = Len(log) - Before(accepted)
         /\ \A i \in 1..Len(Read'.answer) : Read'.answer[i] = log[Before(accepted) + i]
         /\ base' = IF base < 0 THEN Gone + Before(accepted) ELSE base
<1>. USE Ranges
<1>. DEFINE b == Before(accepted)
            answer == SubSeq(log, b + 1, Len(log))
            read == [op |-> "read", era |-> era, from |-> b, answer |-> answer]
<1>1. /\ pending[Rec] = Nothing /\ Placed(accepted)
      /\ pending' = [pending EXCEPT ![Rec] = read]
      /\ era' = era /\ log' = log /\ discarded' = discarded /\ position' = position
      /\ base' = IF base < 0 THEN Len(appends) - Len(log) + b ELSE base
      /\ appends' = appends /\ stopMark' = stopMark
  BY DEF BeginPass, LogBeginRead, accepted
<1>2. b \in Nat /\ b <= Len(log)
  <2>1. discarded <= Len(log) /\ discarded \in Nat BY DEF LogInv
  <2>2. CASE accepted = Start BY <2>1, <2>2 DEF Before
  <2>3. CASE accepted # Start
    <3>1. accepted.era = era BY <1>1, <2>3 DEF Placed
    <3>. QED BY <2>3, <3>1 DEF CursorInv, Before
  <2>. QED BY <2>2, <2>3
<1>. HIDE DEF b
<1>3. /\ answer \in Seq(Entries)
      /\ Len(answer) = Len(log) - b
      /\ \A i \in 1..Len(answer) : answer[i] = log[b + i]
  <2>1. log \in Seq(Entries) BY DEF LogInv
  <2>2. \A i \in (b + 1)..Len(log) : log[i] \in Entries BY <1>2, <2>1, ElementOfSeq
  <2>3. /\ answer \in Seq(Entries)
        /\ Len(answer) = IF b + 1 <= Len(log) THEN Len(log) - (b + 1) + 1 ELSE 0
        /\ \A i \in 1..(Len(log) - (b + 1) + 1) : answer[i] = log[(b + 1) + i - 1]
    BY <1>2, <2>2, SubSeqProperties
  <2>4. Len(answer) = Len(log) - b BY <1>2, <2>3
  <2>5. ASSUME NEW i \in 1..Len(answer) PROVE answer[i] = log[b + i]
    <3>1. i \in 1..(Len(log) - (b + 1) + 1) /\ (b + 1) + i - 1 = b + i BY <1>2, <2>4, <2>5
    <3>. QED BY <2>3, <3>1
  <2>. QED BY <2>3, <2>4, <2>5
<1>. HIDE DEF answer
<1>4. era \in Eras /\ pending \in [Holders -> {Nothing} \cup Reads] BY DEF LogInv
<1>5. read \in Reads BY <1>2, <1>3, <1>4 DEF Reads
<1>6. Read' = read BY <1>1, <1>4 DEF Read
<1>7. read # Nothing BY <1>5 DEF Reads, Nothing
<1>8. pending' \in [Holders -> {Nothing} \cup Reads] BY <1>1, <1>4, <1>5
<1>9. base' \in Int BY <1>1, <1>2 DEF LogInv
<1>10. LogInv' BY <1>1, <1>8, <1>9 DEF LogInv, Gone
<1>11. ~Reading /\ Reading'
  <2>1. Read = Nothing BY <1>1 DEF Read
  <2>. QED BY ONLY <1>6, <1>7, <2>1 DEF Reading
<1>12. /\ Read'.era = era /\ Read'.from = b
       /\ Len(Read'.answer) = Len(log) - b
       /\ \A i \in 1..Len(Read'.answer) : Read'.answer[i] = log[b + i]
  <2>1. read.era = era /\ read.from = b /\ read.answer = answer OBVIOUS
  <2>. QED BY ONLY <1>3, <1>6, <2>1
<1>13. base' = IF base < 0 THEN Gone + b ELSE base BY <1>1 DEF Gone
<1>. QED BY ONLY <1>1, <1>2, <1>10, <1>11, <1>12, <1>13 DEF b

\* Writing: the writer accepts the first n records of what was read.
LEMMA WriteEffect ==
  ASSUME LogInv, RecorderTypeOK, CursorInv, EndWrite
  PROVE  /\ LogInv' /\ Reading /\ ~Reading'
         /\ \E n \in 0..Len(Read.answer) :
              /\ Len(written') = Len(written) + n /\ written' \in Seq(Entries)
              /\ \A i \in 1..Len(written) : written'[i] = written[i]
              /\ \A i \in 1..n : written'[Len(written) + i] = Read.answer[i]
              /\ n = 0 => /\ accepted' = accepted
                          /\ PassReturns(IF n < Len(Read.answer) THEN {"write"} ELSE {})
              /\ n > 0 => /\ accepted' = [era |-> Read.era, at |-> Read.from + n]
                          /\ accepted' # Start /\ accepted'.era = Read.era
                          /\ accepted'.at = Read.from + n
                          /\ phase' = "flush" /\ mode' = mode
                          /\ failure' = IF n < Len(Read.answer) THEN {"write"} ELSE {}
<1>. USE Ranges
<1>1. Read.op = "read" /\ phase = "pass" BY DEF EndWrite, Read
<1>2. Reading BY <1>1 DEF Reading, Nothing
<1>3. PICK n \in 0..Len(Read.answer) :
         /\ position' = [position EXCEPT ![Rec] = Advance(n)]
         /\ written' = written \o SubSeq(Read.answer, 1, n)
         /\ IF n = 0 THEN PassReturns(IF n < Len(Read.answer) THEN {"write"} ELSE {})
            ELSE phase' = "flush" /\ failure' = (IF n < Len(Read.answer) THEN {"write"} ELSE {})
                 /\ mode' = mode
  BY DEF EndWrite, Read
<1>4. /\ pending' = [pending EXCEPT ![Rec] = Nothing]
      /\ UNCHANGED <<era, log, discarded, flushed, cause, durable, marks>>
  BY DEF EndWrite
<1>5. n \in Nat /\ n <= Len(Read.answer) /\ Read.answer \in Seq(Entries) BY <1>2, <1>3
<1>6. /\ SubSeq(Read.answer, 1, n) \in Seq(Entries)
      /\ Len(SubSeq(Read.answer, 1, n)) = n
      /\ \A i \in 1..n : SubSeq(Read.answer, 1, n)[i] = Read.answer[i]
  <2>1. \A i \in 1..n : Read.answer[i] \in Entries BY <1>2, <1>5, ElementOfSeq
  <2>2. /\ SubSeq(Read.answer, 1, n) \in Seq(Entries)
        /\ Len(SubSeq(Read.answer, 1, n)) = IF 1 <= n THEN n - 1 + 1 ELSE 0
        /\ \A i \in 1..(n - 1 + 1) : SubSeq(Read.answer, 1, n)[i] = Read.answer[1 + i - 1]
    BY <1>5, <2>1, SubSeqProperties
  <2>. QED BY <1>5, <2>2
<1>7. written \in Seq(Entries) BY DEF RecorderTypeOK
<1>8. /\ written' \in Seq(Entries) /\ Len(written') = Len(written) + n
      /\ \A i \in 1..Len(written) : written'[i] = written[i]
      /\ \A i \in 1..n : written'[Len(written) + i] = Read.answer[i]
  <2>. DEFINE tail == SubSeq(Read.answer, 1, n)
  <2>1. written' = written \o tail BY <1>3
  <2>2. tail \in Seq(Entries) /\ Len(tail) = n /\ \A i \in 1..n : tail[i] = Read.answer[i]
    BY <1>6
  <2>. HIDE DEF tail
  <2>3. /\ written' \in Seq(Entries) /\ Len(written') = Len(written) + n
        /\ \A i \in 1..(Len(written) + n) :
             written'[i] = IF i <= Len(written) THEN written[i] ELSE tail[i - Len(written)]
    BY <1>7, <2>1, <2>2, ConcatProperties, SMTT(30)
  <2>4. ASSUME NEW i \in 1..Len(written) PROVE written'[i] = written[i]
    <3>1. Len(written) \in Nat BY ONLY <1>7, LenProperties
    <3>2. i \in 1..(Len(written) + n) /\ i <= Len(written) BY ONLY <1>5, <2>4, <3>1
    <3>. QED BY ONLY <2>3, <3>2
  <2>5. ASSUME NEW i \in 1..n PROVE written'[Len(written) + i] = Read.answer[i]
    <3>1. Len(written) + i \in 1..(Len(written) + n) /\ ~(Len(written) + i <= Len(written))
          /\ Len(written) + i - Len(written) = i
      BY <1>5, <2>5
    <3>2. written'[Len(written) + i] = tail[Len(written) + i - Len(written)] BY <2>3, <3>1, SMTT(30)
    <3>3. tail[i] = Read.answer[i] BY <2>2, <2>5
    <3>. QED BY <3>1, <3>2, <3>3
  <2>. QED BY <2>3, <2>4, <2>5
<1>9. position \in [Holders -> Positions] /\ pending \in [Holders -> {Nothing} \cup Reads] BY DEF LogInv
<1>10. Advance(n) \in Positions
  BY <1>2, <1>5, Ranges, SMTT(30) DEF Advance, Positions, Read, Reads
<1>11. position' \in [Holders -> Positions] /\ accepted' = Advance(n)
  BY <1>3, <1>9, <1>10 DEF accepted
<1>12. pending' \in [Holders -> {Nothing} \cup Reads] /\ Read' = Nothing
  BY <1>4, <1>9 DEF Read
<1>13. LogInv' BY <1>4, <1>11, <1>12 DEF LogInv, marks, Gone
<1>14. ASSUME n > 0
       PROVE  /\ accepted' = [era |-> Read.era, at |-> Read.from + n]
              /\ accepted' # Start /\ accepted'.era = Read.era /\ accepted'.at = Read.from + n
  <2>1. accepted' = [era |-> Read.era, at |-> Read.from + n] BY <1>11, <1>14 DEF Advance, Read
  <2>2. accepted'.era = Read.era /\ accepted'.at = Read.from + n BY <2>1
  <2>3. accepted'.at # 0 BY <1>2, <1>5, <1>14, <2>2
  <2>. QED BY <2>1, <2>2, <2>3 DEF Start
<1>15. n = 0 => accepted' = accepted BY <1>11 DEF Advance
<1>16. ~Reading' BY <1>12 DEF Reading
<1>17. CASE n = 0
  <2>1. accepted' = accepted /\ PassReturns(IF n < Len(Read.answer) THEN {"write"} ELSE {}) /\ ~(n > 0)
    BY <1>3, <1>15, <1>17
  <2>. QED BY <1>2, <1>3, <1>8, <1>13, <1>16, <2>1
<1>18. CASE n # 0
  <2>1. n > 0 BY <1>5, <1>18
  <2>2. phase' = "flush" /\ mode' = mode
        /\ failure' = IF n < Len(Read.answer) THEN {"write"} ELSE {}
    BY <1>3, <1>18
  <2>. QED BY <1>2, <1>3, <1>8, <1>13, <1>14, <1>16, <1>18, <2>1, <2>2
<1>. QED BY <1>17, <1>18

-----------------------------------------------------------------------------
(* Types and cursors.                                                      *)

\* The steps of the recorder that leave the log and the cursor alone.
LEMMA LogStutter ==
  ASSUME LogInv, UNCHANGED <<logVars, appends, base>>, stopMark' \in {stopMark, Len(appends)},
         RecorderTypeOK
  PROVE  LogInv' /\ accepted' = accepted /\ Read' = Read /\ Gone' = Gone /\ Reading' = Reading
<1>1. Len(appends) \in Nat BY Ranges
<1>. QED BY <1>1 DEF LogInv, logVars, accepted, Read, Gone, Reading

\* What a pass returns with keeps the recorder's control well typed.
LEMMA PassReturnsEffect ==
  ASSUME RecorderTypeOK, NEW err, err \subseteq {"range", "write", "flush", "close"},
         PassReturns(err)
  PROVE  /\ phase' \in {"select", "finish"}
         /\ phase' = "select" => err = {}
         /\ mode' \in {"initial", "loop", "final"} /\ (mode' = "final" => mode = "final")
         /\ failure' \subseteq {"range", "write", "flush", "close", "cancelled"}
         /\ failure' = {} => err = {} /\ (phase' = "finish" => mode' = "final" /\ cause # "parent")
  BY DEF PassReturns, RecorderTypeOK

\* Every step keeps the log, the history and the cursors well formed.
LEMMA LogStep ==
  ASSUME LogInv, RecorderTypeOK, CursorInv, RecorderNext
  PROVE  LogInv'
<1>1. ASSUME NEW entry \in Entries, AppendEntry(entry) PROVE LogInv'
  BY <1>1, AppendEffect
<1>2. ASSUME NEW limit \in Nat, PruneUpTo(limit) PROVE LogInv'
  BY <1>2, PruneEffect DEF LogInv, PruneUpTo, Gone
<1>3. CASE PruneToFlushed
  <2>1. Before(flushed) \in Nat BY Ranges DEF Before, LogInv
  <2>. QED BY <1>2, <1>3, <2>1 DEF PruneToFlushed
<1>4. CASE PruneByOthers BY <1>2, <1>4, Ranges DEF PruneByOthers
<1>5. CASE ClearByOthers BY <1>5, ClearEffect
<1>6. CASE StartRecorder BY <1>6, StartEffect
<1>7. CASE BeginPass BY <1>7, BeginEffect
<1>8. CASE PassLost BY <1>8, LogStutter DEF PassLost, marks
<1>9. CASE EndWrite BY <1>9, WriteEffect
<1>10. CASE Flush BY <1>10, LogStutter DEF Flush, marks
<1>11. CASE Finish BY <1>11, LogStutter DEF Finish, marks
<1>12. CASE Tick BY <1>12, LogStutter DEF Tick, marks
<1>13. CASE ContextDone BY <1>13, LogStutter DEF ContextDone, marks
<1>14. CASE Stop BY <1>14, LogStutter DEF Stop
<1>15. CASE ParentCancelled BY <1>15, LogStutter DEF ParentCancelled, marks
<1>. QED BY <1>1, <1>3, <1>4, <1>5, <1>6, <1>7, <1>8, <1>9, <1>10, <1>11, <1>12, <1>13, <1>14,
            <1>15 DEF RecorderNext, Step

\* A loss is noted by the kind of the cursor.
LEMMA LossTyped ==
  ASSUME RecorderTypeOK, NEW keep, MarkLoss(keep), hidden' = hidden
  PROVE  lost' \subseteq {"zero", "placed"} /\ lost \subseteq lost' /\ hidden' \subseteq lost'
  BY DEF RecorderTypeOK, MarkLoss

\* The variables of RecorderTypeOK that an action of the capture leaves alone.
LEMMA TypeStutter ==
  ASSUME RecorderTypeOK, UNCHANGED recorderVars, accepted' \in Positions,
         lost' \subseteq {"zero", "placed"}, hidden' \subseteq lost'
  PROVE  RecorderTypeOK'
  BY DEF RecorderTypeOK, recorderVars, Positions

LEMMA TypeStep ==
  ASSUME LogInv, RecorderTypeOK, CursorInv, RecorderNext
  PROVE  RecorderTypeOK'
<1>0. accepted \in Positions /\ (position' = position => accepted' \in Positions)
      /\ lost \subseteq {"zero", "placed"} /\ hidden \subseteq lost
  BY DEF RecorderTypeOK, accepted, Positions
<1>1. ASSUME NEW entry \in Entries, AppendEntry(entry) PROVE RecorderTypeOK'
  BY <1>0, <1>1, AppendEffect, TypeStutter DEF AppendEntry
<1>2. ASSUME NEW limit, PruneUpTo(limit) PROVE RecorderTypeOK'
  BY <1>0, <1>2, LossTyped, TypeStutter DEF PruneUpTo
<1>3. CASE PruneToFlushed BY <1>2, <1>3 DEF PruneToFlushed
<1>4. CASE PruneByOthers BY <1>2, <1>4 DEF PruneByOthers
<1>5. CASE ClearByOthers
  BY <1>0, <1>5, ClearEffect, LossTyped, TypeStutter DEF ClearByOthers
<1>6. CASE StartRecorder
  <2>1. accepted' \in Positions /\ flushed' \in Positions BY <1>6, StartEffect
  <2>. QED BY <1>6, <2>1 DEF StartRecorder, RecorderTypeOK, marks, Positions
<1>7. CASE BeginPass
  <2>1. position' = position BY <1>7, BeginEffect
  <2>. QED BY <1>0, <1>7, <2>1, TypeStutter DEF BeginPass
<1>8. CASE PassLost
  <2>1. PassReturns({"range"}) BY <1>8 DEF PassLost
  <2>2. UNCHANGED <<position, flushed, cause, written, durable, lost, hidden>>
    BY <1>8 DEF PassLost, logVars, marks
  <2>. QED BY <2>1, <2>2, PassReturnsEffect DEF RecorderTypeOK, accepted, Positions
<1>9. CASE EndWrite
  <2>1. PICK n \in 0..Len(Read.answer) :
          /\ Len(written') = Len(written) + n /\ written' \in Seq(Entries)
          /\ n = 0 => PassReturns(IF n < Len(Read.answer) THEN {"write"} ELSE {})
          /\ n > 0 => phase' = "flush" /\ mode' = mode
                      /\ failure' = IF n < Len(Read.answer) THEN {"write"} ELSE {}
    BY <1>9, WriteEffect
  <2>2. UNCHANGED <<flushed, cause, durable, lost, hidden, era>> BY <1>9 DEF EndWrite, marks
  <2>3. accepted' \in Positions
    <3>1. LogInv' /\ Rec \in Holders BY <1>9, WriteEffect, RecorderAssumption
    <3>. QED BY <3>1 DEF LogInv, accepted, Positions
  <2>4. durable' \in 0..Len(written')
    <3>1. durable \in 0..Len(written) /\ Len(written) \in Nat BY Ranges DEF RecorderTypeOK
    <3>. QED BY <2>1, <2>2, <3>1
  <2>5. CASE n = 0
    <3>1. PassReturns(IF n < Len(Read.answer) THEN {"write"} ELSE {}) BY <2>1, <2>5
    <3>. QED BY <2>1, <2>2, <2>3, <2>4, <3>1, PassReturnsEffect DEF RecorderTypeOK, Positions
  <2>6. CASE n # 0
    <3>1. n > 0 BY <2>6
    <3>. QED BY <2>1, <2>2, <2>3, <2>4, <3>1 DEF RecorderTypeOK, Positions
  <2>. QED BY <2>5, <2>6
<1>10. CASE Flush
  <2>1. UNCHANGED <<position, cause, written, lost, hidden>> BY <1>10 DEF Flush, logVars, marks
  <2>2. /\ flushed' \in {flushed, accepted} /\ durable' \in {durable, Len(written)}
        /\ \E err \in {failure, failure \cup {"flush"}} : PassReturns(err)
    BY <1>10 DEF Flush
  <2>3. PICK err \in {failure, failure \cup {"flush"}} : PassReturns(err) BY <2>2
  <2>4. /\ phase' \in {"select", "finish"} /\ mode' \in {"initial", "loop", "final"}
        /\ (mode' = "final" => mode = "final")
        /\ failure' \subseteq {"range", "write", "flush", "close", "cancelled"}
    BY <2>3 DEF PassReturns, RecorderTypeOK
  <2>5. durable' \in 0..Len(written') BY <2>1, <2>2, Ranges DEF RecorderTypeOK
  <2>. QED BY <2>1, <2>2, <2>4, <2>5 DEF RecorderTypeOK, accepted, Positions
<1>11. CASE Finish
  <2>1. UNCHANGED <<position, mode, cause, written, lost, hidden>>
    BY <1>11 DEF Finish, logVars, marks
  <2>2. durable' \in 0..Len(written') BY <1>11, <2>1, Ranges DEF Finish, RecorderTypeOK
  <2>. QED BY <1>11, <2>1, <2>2 DEF Finish, RecorderTypeOK, accepted, Positions
<1>12. CASE Tick
  BY <1>12 DEF Tick, logVars, marks, RecorderTypeOK, accepted, Positions
<1>13. CASE ContextDone
  BY <1>13 DEF ContextDone, logVars, marks, RecorderTypeOK, accepted, Positions
<1>14. CASE Stop
  BY <1>14 DEF Stop, logVars, RecorderTypeOK, accepted, Positions
<1>15. CASE ParentCancelled
  BY <1>15 DEF ParentCancelled, logVars, marks, RecorderTypeOK, accepted, Positions
<1>. QED BY <1>1, <1>3, <1>4, <1>5, <1>6, <1>7, <1>8, <1>9, <1>10, <1>11, <1>12, <1>13, <1>14,
            <1>15 DEF RecorderNext, Step

\* The steps that neither the capture nor the writer's records see.
Control == PassLost \/ Flush \/ Finish \/ Tick \/ ContextDone \/ Stop \/ ParentCancelled

LEMMA ControlEffect ==
  ASSUME LogInv, RecorderTypeOK, CursorInv, Control
  PROVE  /\ UNCHANGED <<era, log, discarded, position, pending, written, appends, base, others,
                        lost, hidden>>
         /\ phase' = "new" => phase = "new"
         /\ Reading => phase' = phase
         /\ phase \in {"finish", "done"} => phase' \in {"finish", "done"}
         /\ base < 0 => phase' \in {"new", "pass", "finish", "done"} /\ UNCHANGED <<flushed, durable>>
<1>0. phase \in {"new", "select", "pass", "flush", "finish", "done"} BY DEF RecorderTypeOK
<1>1. CASE PassLost
  BY <1>0, <1>1 DEF PassLost, PassReturns, logVars, marks, Reading, Read
<1>2. CASE Flush
  BY <1>0, <1>2 DEF Flush, PassReturns, logVars, marks, CursorInv
<1>3. CASE Finish
  <2>1. base < 0 => flushed = accepted /\ durable = 0 /\ Len(written) = 0
    BY EmptySeq DEF CursorInv
  <2>. QED BY <1>0, <1>3, <2>1 DEF Finish, logVars, marks, CursorInv
<1>4. CASE Tick BY <1>0, <1>4 DEF Tick, logVars, marks, CursorInv
<1>5. CASE ContextDone BY <1>0, <1>5 DEF ContextDone, logVars, marks, CursorInv
<1>6. CASE Stop BY <1>0, <1>6 DEF Stop, logVars, CursorInv
<1>7. CASE ParentCancelled BY <1>0, <1>7 DEF ParentCancelled, logVars, marks, CursorInv
<1>. QED BY <1>1, <1>2, <1>3, <1>4, <1>5, <1>6, <1>7 DEF Control

LEMMA NextSplit ==
  ASSUME RecorderNext
  PROVE  \/ \E entry \in Entries : AppendEntry(entry)
         \/ PruneToFlushed \/ PruneByOthers \/ ClearByOthers
         \/ StartRecorder \/ BeginPass \/ EndWrite \/ Control
  BY DEF RecorderNext, Step, Control

\* Before the first pass nothing counts as lost.
LEMMA NoLossBefore ==
  ASSUME NEW keep, MarkLoss(keep), base < 0
  PROVE  lost' = lost
  BY DEF MarkLoss

LEMMA CursorStep ==
  ASSUME LogInv, RecorderTypeOK, CursorInv, RecorderNext
  PROVE  CursorInv'
<1>. USE Ranges
<1>1. ASSUME NEW entry \in Entries, AppendEntry(entry) PROVE CursorInv'
  <2>1. /\ pending' = pending /\ position' = position /\ Len(log') = Len(log) + 1
    BY <1>1, AppendEffect
  <2>2. UNCHANGED <<era, recorderVars, base, lost>> BY <1>1 DEF AppendEntry, LogAppend
  <2>3. accepted' = accepted /\ Read' = Read /\ (Reading' <=> Reading)
    BY <2>1 DEF accepted, Read, Reading
  <2>4. accepted.at <= Len(log) => accepted.at <= Len(log') BY <2>1
  <2>5. Reading => (Read.from + Len(Read.answer) <= Len(log) => Read.from + Len(Read.answer) <= Len(log'))
    BY <2>1
  <2>. QED BY <2>2, <2>3, <2>4, <2>5 DEF CursorInv, recorderVars
<1>2. ASSUME NEW limit, PruneUpTo(limit) PROVE CursorInv'
  <2>1. UNCHANGED <<era, log, position, pending, recorderVars, base>> BY <1>2 DEF PruneUpTo
  <2>2. base < 0 => lost' = lost BY <1>2, NoLossBefore DEF PruneUpTo
  <2>. QED BY <2>1, <2>2 DEF CursorInv, accepted, Read, Reading, recorderVars
<1>3. CASE PruneToFlushed BY <1>2, <1>3 DEF PruneToFlushed
<1>4. CASE PruneByOthers BY <1>2, <1>4 DEF PruneByOthers
<1>5. CASE ClearByOthers
  <2>1. /\ era' > era /\ era' \in Nat /\ pending' = pending /\ position' = position
    BY <1>5, ClearEffect, RecorderAssumption DEF LogInv
  <2>2. UNCHANGED <<recorderVars, base>> BY <1>5 DEF ClearByOthers
  <2>3. base < 0 => lost' = lost BY <1>5, ClearEffect, NoLossBefore
  <2>4. accepted' = accepted /\ Read' = Read /\ (Reading' <=> Reading)
    BY <2>1 DEF accepted, Read, Reading
  <2>5. accepted = Start \/ accepted.era < era' BY <2>1 DEF CursorInv
  <2>6. Reading => Read.era < era' BY <2>1 DEF CursorInv
  <2>. QED BY <2>1, <2>2, <2>3, <2>4, <2>5, <2>6 DEF CursorInv, recorderVars
<1>6. CASE StartRecorder
  <2>1. UNCHANGED <<era, log, pending, base, lost, written, durable>> /\ phase = "new" /\ phase' = "pass"
    BY <1>6 DEF StartRecorder, marks
  <2>2. base < 0 BY <2>1 DEF CursorInv
  <2>3. ~Reading /\ ~Reading' BY <2>1, <2>2 DEF CursorInv, Reading, Read
  <2>4. /\ flushed' = accepted'
        /\ \/ accepted' = Start
           \/ accepted'.era = era /\ accepted'.at > 0 /\ accepted'.at <= Len(log)
    BY <1>6, StartEffect
  <2>. QED BY <2>1, <2>2, <2>3, <2>4 DEF CursorInv
<1>7. CASE BeginPass
  <2>1. /\ ~Reading /\ Reading' /\ Placed(accepted) /\ position' = position /\ log' = log
        /\ era' = era /\ Before(accepted) <= Len(log)
        /\ Read'.era = era /\ Read'.from = Before(accepted)
        /\ Len(Read'.answer) = Len(log) - Before(accepted)
        /\ base' = IF base < 0 THEN Gone + Before(accepted) ELSE base
    BY <1>7, BeginEffect
  <2>2. UNCHANGED recorderVars /\ phase = "pass" BY <1>7 DEF BeginPass
  <2>3. base' >= 0 BY <2>1 DEF LogInv
  <2>4. accepted' = accepted BY <2>1 DEF accepted
  <2>5. accepted # Start => accepted.era = era /\ Before(accepted) = accepted.at
    BY <2>1 DEF Placed, Before
  <2>6. Read'.from + Len(Read'.answer) <= Len(log) BY <2>1
  <2>7. /\ accepted' = Start \/ /\ accepted'.at > 0 /\ accepted'.era <= era'
                                /\ accepted'.era = era' => accepted'.at <= Len(log')
    BY <2>1, <2>4 DEF CursorInv
  <2>8. phase' = "pass" /\ ~(base' < 0) /\ base \in Int
    <3>1. base \in Int BY DEF LogInv
    <3>2. base' \in Int BY <2>1, <3>1
    <3>. QED BY <2>2, <2>3, <3>1, <3>2 DEF recorderVars
  <2>. QED BY <2>1, <2>3, <2>4, <2>5, <2>6, <2>7, <2>8 DEF CursorInv
<1>8. CASE EndWrite
  <2>1. Reading /\ ~Reading' BY <1>8, WriteEffect
  <2>2. UNCHANGED <<era, log, base>> BY <1>8 DEF EndWrite, marks
  <2>3. base >= 0 /\ phase' # "new"
    BY <1>8, <2>1 DEF CursorInv, EndWrite, PassReturns
  <2>4. accepted' = Start \/ /\ accepted'.at > 0 /\ accepted'.era <= era
                             /\ accepted'.era = era => accepted'.at <= Len(log)
    <3>1. PICK n \in 0..Len(Read.answer) :
             /\ n = 0 => accepted' = accepted
             /\ n > 0 => accepted'.era = Read.era /\ accepted'.at = Read.from + n
      BY <1>8, WriteEffect
    <3>2. CASE n = 0 BY <3>1, <3>2 DEF CursorInv
    <3>3. CASE n > 0
      <4>1. /\ Read.from \in Nat /\ Len(Read.answer) \in Nat /\ n \in Nat /\ n <= Len(Read.answer)
            /\ Read.era <= era /\ (Read.era = era => Read.from + Len(Read.answer) <= Len(log))
        BY <2>1, <3>1 DEF CursorInv
      <4>2. accepted'.era = Read.era /\ accepted'.at = Read.from + n BY <3>1, <3>3
      <4>3. Read.from + n > 0 BY <3>3, <4>1
      <4>4. Read.era = era => Read.from + n <= Len(log) BY <4>1
      <4>. QED BY <4>1, <4>2, <4>3, <4>4
    <3>4. n \in Nat BY <2>1
    <3>. QED BY <3>2, <3>3, <3>4
  <2>5. base \in Int BY DEF LogInv
  <2>. QED BY <2>1, <2>2, <2>3, <2>4, <2>5 DEF CursorInv
<1>9. CASE Control
  <2>1. /\ UNCHANGED <<era, log, position, pending, written, base, lost>>
        /\ phase' = "new" => phase = "new"
        /\ Reading => phase' = phase
        /\ base < 0 => phase' \in {"new", "pass", "finish", "done"} /\ UNCHANGED <<flushed, durable>>
    BY <1>9, ControlEffect
  <2>. QED BY <2>1 DEF CursorInv, accepted, Read, Reading
<1>. QED BY NextSplit, <1>1, <1>3, <1>4, <1>5, <1>6, <1>7, <1>8, <1>9

-----------------------------------------------------------------------------
(* Where the writer is.                                                    *)

\* A discard that is not noted did not reach past the recorder.
LEMMA Unnoted ==
  ASSUME NEW keep, MarkLoss(keep), lost' = {}, base >= 0, base \in Int
  PROVE  lost = {} /\ (keep <= Reached \/ (accepted # Start /\ accepted.era # era))
  BY DEF MarkLoss

LEMMA SyncStep ==
  ASSUME LogInv, RecorderTypeOK, CursorInv, SyncInv, RecorderNext
  PROVE  SyncInv'
<1>. USE Ranges
<1>0. base \in Int /\ discarded \in Nat /\ discarded <= Len(log) BY DEF LogInv
<1>1. ASSUME NEW entry \in Entries, AppendEntry(entry) PROVE SyncInv'
  <2>1. /\ pending' = pending /\ position' = position
        /\ Len(log') = Len(log) + 1 /\ Len(appends') = Len(appends) + 1
    BY <1>1, AppendEffect
  <2>2. UNCHANGED <<era, discarded, recorderVars, base, lost>> BY <1>1 DEF AppendEntry, LogAppend
  <2>3. Gone' = Gone /\ Out' = Out BY <2>1, <2>2 DEF Gone, Out, recorderVars
  <2>. QED BY <2>1, <2>2, <2>3 DEF SyncInv, accepted, Read, Reading, Placed, recorderVars
<1>2. ASSUME NEW limit \in Nat, PruneUpTo(limit) PROVE SyncInv'
  <2>1. UNCHANGED <<era, log, position, pending, recorderVars, base, appends>> BY <1>2 DEF PruneUpTo
  <2>2. discarded' \in Nat /\ discarded < discarded' /\ MarkLoss(discarded') BY <1>2, PruneEffect
  <2>3. Gone' = Gone /\ Out' = Out /\ accepted' = accepted /\ Read' = Read /\ (Reading' <=> Reading)
    BY <2>1 DEF Gone, Out, recorderVars, accepted, Read, Reading
  <2>4. SUFFICES ASSUME base >= 0, lost' = {}
                 PROVE  /\ ~Reading /\ accepted # Start /\ Placed(accepted)' => Out = Gone + accepted.at
                        /\ ~Reading /\ accepted = Start /\ phase \notin {"finish", "done"} => Out = Gone + discarded'
                        /\ Reading /\ Read.era = era => Out = Gone + Read.from
                        /\ Reading /\ accepted = Start /\ Read.answer = <<>> => Out = Gone + discarded'
    BY <2>1, <2>3 DEF SyncInv, recorderVars
  <2>5. lost = {} /\ (discarded' <= Reached \/ (accepted # Start /\ accepted.era # era))
    BY <1>0, <2>2, <2>4, Unnoted
  <2>6. Placed(accepted)' /\ accepted # Start => Placed(accepted)
    BY <1>0, <2>1, <2>2, <2>3 DEF Placed
  <2>7. ~Reading => accepted # Start
    BY <1>0, <2>2, <2>5 DEF Reached, Before, Reading, Read
  <2>8. ASSUME Reading, accepted = Start, Read.answer = <<>> PROVE FALSE
    <3>1. Len(Read.answer) = 0 BY <2>8
    <3>2. CASE Read.era = era
      <4>1. Out = Gone + Read.from /\ Out = Gone + discarded
        BY <2>4, <2>5, <2>8, <3>2 DEF SyncInv
      <4>2. Out \in Int BY <1>0 DEF Out
      <4>3. Read.from = discarded BY <1>0, <2>8, <4>1, <4>2
      <4>4. Reached = Read.from BY <2>8, <3>1, <3>2 DEF Reached, Reading, Read
      <4>. QED BY <1>0, <2>2, <2>5, <2>8, <4>3, <4>4
    <3>3. CASE Read.era # era
      <4>1. Reached = 0 BY <2>8, <3>3 DEF Reached, Reading, Read
      <4>. QED BY <1>0, <2>2, <2>5, <2>8, <4>1
    <3>. QED BY <3>2, <3>3
  <2>. QED BY <2>4, <2>5, <2>6, <2>7, <2>8 DEF SyncInv
<1>3. CASE PruneToFlushed
  <2>1. Before(flushed) \in Nat BY <1>0 DEF Before
  <2>. QED BY <1>2, <1>3, <2>1 DEF PruneToFlushed
<1>4. CASE PruneByOthers BY <1>2, <1>4 DEF PruneByOthers
<1>5. CASE ClearByOthers
  <2>1. /\ era' > era /\ era' \in Nat /\ Len(log') = 0 /\ discarded' = 0 /\ Gone' = Len(appends)
        /\ pending' = pending /\ position' = position /\ MarkLoss(Len(log))
    BY <1>5, ClearEffect, RecorderAssumption DEF LogInv
  <2>2. UNCHANGED <<recorderVars, base>> BY <1>5 DEF ClearByOthers
  <2>3. Out' = Out /\ accepted' = accepted /\ Read' = Read /\ (Reading' <=> Reading)
    BY <2>1, <2>2 DEF Out, recorderVars, accepted, Read, Reading
  <2>4. SUFFICES ASSUME base >= 0, lost' = {}
                 PROVE  /\ ~Reading /\ accepted # Start => ~Placed(accepted)'
                        /\ ~Reading /\ accepted = Start /\ phase \notin {"finish", "done"} => Out = Len(appends)
                        /\ Reading => Read.era # era'
                        /\ Reading /\ accepted = Start /\ Read.answer = <<>> => Out = Len(appends)
    BY <2>1, <2>2, <2>3 DEF SyncInv, recorderVars
  <2>5. lost = {} /\ (Len(log) <= Reached \/ (accepted # Start /\ accepted.era # era))
    BY <1>0, <2>1, <2>4, Unnoted
  <2>6. accepted # Start => accepted.era # era' BY <2>1 DEF CursorInv
  <2>7. Reading => Read.era # era' BY <2>1 DEF CursorInv
  <2>8. ASSUME ~Reading, accepted = Start, phase \notin {"finish", "done"} PROVE Out = Len(appends)
    <3>1. Reached = discarded BY <2>8 DEF Reached, Before, Reading, Read
    <3>2. Len(log) = discarded BY <1>0, <2>5, <2>8, <3>1
    <3>3. Out = Gone + discarded BY <2>4, <2>5, <2>8 DEF SyncInv
    <3>. QED BY <1>0, <3>2, <3>3 DEF Gone
  <2>9. ASSUME Reading, accepted = Start, Read.answer = <<>> PROVE Out = Len(appends)
    <3>1. Out = Gone + discarded BY <2>4, <2>5, <2>9 DEF SyncInv
    <3>2. Len(Read.answer) = 0 BY <2>9
    <3>3. Len(log) = discarded
      <4>1. CASE Read.era = era
        <5>1. Out = Gone + Read.from BY <2>4, <2>5, <2>9, <4>1 DEF SyncInv
        <5>2. Read.from = discarded BY <1>0, <2>9, <3>1, <5>1
        <5>3. Reached = Read.from BY <2>9, <3>2, <4>1 DEF Reached, Reading, Read
        <5>. QED BY <1>0, <2>5, <2>9, <5>2, <5>3
      <4>2. CASE Read.era # era
        <5>1. Reached = 0 BY <2>9, <4>2 DEF Reached, Reading, Read
        <5>. QED BY <1>0, <2>5, <2>9, <5>1
      <4>. QED BY <4>1, <4>2
    <3>. QED BY <1>0, <3>1, <3>3 DEF Gone
  <2>10. accepted # Start => ~Placed(accepted)' BY <2>3, <2>6 DEF Placed
  <2>. QED BY <2>7, <2>8, <2>9, <2>10
<1>6. CASE StartRecorder
  <2>1. base' < 0 BY <1>6 DEF StartRecorder, CursorInv, marks
  <2>. QED BY <1>0, <1>6, <2>1 DEF SyncInv, StartRecorder, marks
<1>7. CASE BeginPass
  <2>1. /\ ~Reading /\ Reading' /\ Placed(accepted) /\ position' = position
        /\ discarded' = discarded /\ log' = log /\ era' = era /\ appends' = appends
        /\ Read'.era = era /\ Read'.from = Before(accepted)
        /\ base' = IF base < 0 THEN Gone + Before(accepted) ELSE base
    BY <1>7, BeginEffect
  <2>2. UNCHANGED recorderVars /\ lost' = lost /\ phase = "pass" BY <1>7 DEF BeginPass
  <2>3. accepted' = accepted /\ Gone' = Gone BY <2>1 DEF accepted, Gone
  <2>4. lost = {} => Out' = Gone + Before(accepted)
    <3>1. CASE base < 0
      <4>1. Len(written) = 0 BY <3>1, EmptySeq DEF CursorInv
      <4>. QED BY <2>1, <2>2, <3>1, <4>1 DEF Out, recorderVars
    <3>2. CASE base >= 0
      <4>1. Out' = Out BY <1>0, <2>1, <2>2, <3>2 DEF Out, recorderVars
      <4>. QED BY <2>1, <2>2, <3>2, <4>1 DEF SyncInv, Before
    <3>. QED BY <1>0, <3>1, <3>2
  <2>5. accepted = Start => Before(accepted) = discarded BY DEF Before
  <2>. QED BY <2>1, <2>2, <2>3, <2>4, <2>5 DEF SyncInv
<1>8. CASE EndWrite
  <2>1. Reading /\ ~Reading' BY <1>8, WriteEffect
  <2>2. UNCHANGED <<era, log, discarded, appends, base, lost>> BY <1>8 DEF EndWrite, marks
  <2>3. Gone' = Gone BY <2>2 DEF Gone
  <2>4. PICK n \in 0..Len(Read.answer) :
             /\ Len(written') = Len(written) + n
             /\ n = 0 => /\ accepted' = accepted
                         /\ PassReturns(IF n < Len(Read.answer) THEN {"write"} ELSE {})
             /\ n > 0 => /\ accepted' # Start /\ accepted'.era = Read.era
                         /\ accepted'.at = Read.from + n
      BY <1>8, WriteEffect
  <2>5. Out' = Out + n BY <1>0, <2>1, <2>2, <2>4 DEF Out
  <2>6. SUFFICES ASSUME base >= 0, lost = {}
                 PROVE  /\ accepted' # Start /\ Placed(accepted)' => Out' = Gone + accepted'.at
                        /\ accepted' = Start /\ phase' \notin {"finish", "done"} => Out' = Gone + discarded
    BY <2>1, <2>2, <2>3 DEF SyncInv
  <2>7. CASE n > 0
    <3>1. Placed(accepted)' => Read.era = era BY <2>2, <2>4, <2>7 DEF Placed
    <3>2. Read.era = era => Out = Gone + Read.from BY <2>1, <2>6 DEF SyncInv
    <3>. QED BY <1>0, <2>1, <2>4, <2>5, <2>7, <3>1, <3>2
  <2>8. CASE n = 0
    <3>1. accepted' = accepted /\ Out' = Out BY <1>0, <2>4, <2>5, <2>8 DEF Out
    <3>2. ASSUME accepted # Start, Placed(accepted)' PROVE Out = Gone + accepted.at
      <4>1. accepted.era = era BY <2>2, <3>1, <3>2 DEF Placed
      <4>. QED BY <2>1, <2>6, <3>2, <4>1 DEF SyncInv, CursorInv
    <3>3. ASSUME accepted = Start, phase' \notin {"finish", "done"} PROVE Out = Gone + discarded
      <4>1. PassReturns(IF n < Len(Read.answer) THEN {"write"} ELSE {}) BY <2>4, <2>8
      <4>2. Len(Read.answer) = 0 BY <2>1, <2>8, <3>3, <4>1 DEF PassReturns
      <4>3. Read.answer = <<>> BY <2>1, <4>2, EmptySeq
      <4>. QED BY <2>1, <2>6, <3>3, <4>3 DEF SyncInv
    <3>. QED BY <3>1, <3>2, <3>3
  <2>. QED BY <2>1, <2>4, <2>7, <2>8
<1>9. CASE Control
  <2>1. /\ UNCHANGED <<era, log, discarded, position, pending, written, appends, base, lost>>
        /\ phase \in {"finish", "done"} => phase' \in {"finish", "done"}
    BY <1>9, ControlEffect
  <2>. QED BY <2>1 DEF SyncInv, accepted, Read, Reading, Placed, Gone, Out
<1>. QED BY NextSplit, <1>1, <1>3, <1>4, <1>5, <1>6, <1>7, <1>8, <1>9

-----------------------------------------------------------------------------
(* What the writer has received.                                           *)

LEMMA Within ==
  ASSUME NEW a \in Nat, NEW m \in Nat, NEW n \in Nat, a + m <= n, NEW i \in 1..m
  PROVE  a + i \in 1..n
  OBVIOUS

LEMMA Fewer ==
  ASSUME NEW a \in Nat, NEW b \in Nat, NEW m \in Nat, NEW n \in Nat, a + b + m <= n,
         NEW k \in 0..m
  PROVE  a + (b + k) <= n
  OBVIOUS

\* Neither invariant notices an append or the loss of a record.
LEMMA DataStutter ==
  ASSUME RecorderTypeOK, LogInv, CursorInv, AnswerInv, WrittenExact,
         pending' = pending, position' = position, UNCHANGED <<written, base, hidden>>,
         Len(appends') >= Len(appends), Len(appends') \in Nat,
         \A i \in 1..Len(appends) : appends'[i] = appends[i]
  PROVE  AnswerInv' /\ WrittenExact'
<1>0. /\ Len(written) \in Nat /\ Len(appends) \in Nat /\ Len(log) \in Nat /\ Gone \in Nat
      /\ Before(accepted) \in Nat /\ (Reading => Len(Read.answer) \in Nat /\ Read.from \in Nat)
  BY Ranges
<1>. USE <1>0
<1>1. accepted' = accepted /\ Read' = Read /\ (Reading' <=> Reading) /\ Out' = Out
  BY DEF accepted, Read, Reading, Out
<1>2. base \in Int BY DEF LogInv
<1>3. written \in Seq(Entries) /\ DOMAIN written = 1..Len(written)
  BY LenProperties DEF RecorderTypeOK
<1>4. AnswerInv'
  <2>1. SUFFICES ASSUME base >= 0, hidden = {}, Reading
                 PROVE  /\ Out + Len(Read.answer) <= Len(appends')
                        /\ \A i \in 1..Len(Read.answer) :
                             appends'[Out + i] = [entry |-> Read.answer[i], era |-> Read.era, at |-> Read.from + i]
    BY <1>1 DEF AnswerInv
  <2>2. Out + Len(Read.answer) <= Len(appends) BY <2>1 DEF AnswerInv
  <2>3. ASSUME NEW i \in 1..Len(Read.answer)
        PROVE  appends'[Out + i] = [entry |-> Read.answer[i], era |-> Read.era, at |-> Read.from + i]
    <3>1. Out \in Nat /\ Len(Read.answer) \in Nat /\ Len(appends) \in Nat BY <1>2, <2>1 DEF Out
    <3>2. Out + i \in 1..Len(appends) BY <2>2, <2>3, <3>1, Within
    <3>3. appends'[Out + i] = appends[Out + i] BY <3>2
    <3>4. appends[Out + i] = [entry |-> Read.answer[i], era |-> Read.era, at |-> Read.from + i]
      BY <2>1, <2>3 DEF AnswerInv
    <3>. QED BY <3>3, <3>4
  <2>4. Out + Len(Read.answer) <= Len(appends')
    <3>1. Out + Len(Read.answer) \in Int /\ Len(appends) \in Nat BY <1>2, <2>1 DEF Out
    <3>. QED BY <2>2, <3>1
  <2>. QED BY <2>1, <2>3, <2>4
<1>5. WrittenExact'
  <2>1. SUFFICES ASSUME base >= 0, hidden = {}
                 PROVE  /\ base + Len(written) <= Len(appends')
                        /\ \A i \in 1..Len(written) : written[i] = appends'[base + i].entry
                        /\ written # <<>> =>
                             LET last == appends'[base + Len(written)]
                             IN accepted = [era |-> last.era, at |-> last.at]
    BY <1>1, <1>3 DEF WrittenExact
  <2>2. base + Len(written) <= Len(appends) BY <2>1 DEF WrittenExact
  <2>3. ASSUME NEW i \in 1..Len(written) PROVE appends'[base + i] = appends[base + i]
    <3>1. base + i \in 1..Len(appends) BY <1>2, <2>1, <2>2
    <3>. QED BY <3>1
  <2>4. \A i \in 1..Len(written) : written[i] = appends'[base + i].entry
    BY <1>3, <2>1, <2>3 DEF WrittenExact
  <2>5. ASSUME written # <<>>
        PROVE  LET last == appends'[base + Len(written)]
               IN accepted = [era |-> last.era, at |-> last.at]
    <3>1. Len(written) \in 1..Len(written) BY <1>3, <2>5, EmptySeq
    <3>. QED BY <2>1, <2>3, <2>5, <3>1 DEF WrittenExact
  <2>6. base + Len(written) <= Len(appends') BY <1>2, <2>2
  <2>. QED BY <2>4, <2>5, <2>6
<1>. QED BY <1>4, <1>5

\* As long as nothing was lost, a pass begins where the writer is.
LEMMA BeginOut ==
  ASSUME RecorderTypeOK, LogInv, CursorInv, SyncInv, BeginPass, lost = {}
  PROVE  Out' = Gone + Before(accepted)
<1>1. /\ Placed(accepted) /\ ~Reading
      /\ base' = IF base < 0 THEN Gone + Before(accepted) ELSE base
  BY BeginEffect
<1>2. written' = written /\ phase = "pass" BY DEF BeginPass, recorderVars
<1>3. base \in Int /\ Gone \in Nat /\ Before(accepted) \in Nat /\ Len(written) \in Nat
  BY Ranges DEF LogInv
<1>4. CASE base < 0
  <2>1. Len(written) = 0 BY <1>4, EmptySeq DEF CursorInv
  <2>. QED BY <1>1, <1>2, <1>3, <1>4, <2>1 DEF Out
<1>5. CASE base >= 0
  <2>1. Out' = Out BY <1>1, <1>2, <1>3, <1>5 DEF Out
  <2>. QED BY <1>1, <1>2, <1>5, <2>1 DEF SyncInv, Before
<1>. QED BY <1>3, <1>4, <1>5

\* A pass reads what comes next in the history.
LEMMA DataBegin ==
  ASSUME RecorderTypeOK, LogInv, CursorInv, SyncInv, AnswerInv, WrittenExact, BeginPass
  PROVE  AnswerInv' /\ WrittenExact'
<1>0. /\ Len(written) \in Nat /\ Len(appends) \in Nat /\ Len(log) \in Nat /\ Gone \in Nat
      /\ Before(accepted) \in Nat /\ (Reading => Len(Read.answer) \in Nat /\ Read.from \in Nat)
  BY Ranges
<1>. USE <1>0
<1>1. /\ ~Reading /\ Reading' /\ Placed(accepted) /\ position' = position
      /\ log' = log /\ era' = era /\ appends' = appends
      /\ Before(accepted) <= Len(log)
      /\ Read'.era = era /\ Read'.from = Before(accepted)
      /\ Len(Read'.answer) = Len(log) - Before(accepted)
      /\ \A i \in 1..Len(Read'.answer) : Read'.answer[i] = log[Before(accepted) + i]
      /\ base' = IF base < 0 THEN Gone + Before(accepted) ELSE base
  BY BeginEffect
<1>2. UNCHANGED recorderVars /\ hidden' = lost /\ phase = "pass" BY DEF BeginPass
<1>3. accepted' = accepted /\ written' = written BY <1>1, <1>2 DEF accepted, recorderVars
<1>4. base \in Int /\ hidden \subseteq lost BY DEF LogInv, RecorderTypeOK
<1>5. SUFFICES ASSUME lost = {} PROVE AnswerInv' /\ WrittenExact'
  BY <1>2 DEF AnswerInv, WrittenExact
<1>6. Out' = Gone + Before(accepted) BY <1>5, BeginOut
<1>7. AnswerInv'
  <2>1. Out' + Len(Read'.answer) = Len(appends) BY <1>1, <1>6 DEF Gone
  <2>2. ASSUME NEW i \in 1..Len(Read'.answer)
        PROVE  appends'[Out' + i] = [entry |-> Read'.answer[i], era |-> Read'.era, at |-> Read'.from + i]
    <3>. DEFINE k == Before(accepted) + i
    <3>1. k \in 1..Len(log) /\ Out' + i = Gone + k
      <4>1. Before(accepted) \in Nat /\ Len(log) \in Nat /\ Gone \in Nat
            /\ Before(accepted) + (Len(log) - Before(accepted)) <= Len(log)
            /\ Len(log) - Before(accepted) \in Nat
        BY <1>1
      <4>2. i \in 1..(Len(log) - Before(accepted)) BY <1>1, <2>2
      <4>3. Before(accepted) + i \in 1..Len(log) BY <4>1, <4>2, Within
      <4>4. Gone + Before(accepted) + i = Gone + (Before(accepted) + i) BY <4>1, <4>2
      <4>. QED BY <1>6, <4>3, <4>4
    <3>2. appends[Gone + k] = [entry |-> log[k], era |-> era, at |-> k] BY <3>1 DEF LogInv
    <3>. QED BY <1>1, <2>2, <3>1, <3>2
  <2>3. Out' + Len(Read'.answer) <= Len(appends') BY <1>1, <2>1
  <2>. QED BY <2>2, <2>3 DEF AnswerInv
<1>8. WrittenExact'
  <2>1. CASE base < 0
    <3>1. written = <<>> /\ Len(written) = 0 /\ DOMAIN written = {} BY <2>1, EmptySeq DEF CursorInv
    <3>2. base' + Len(written) <= Len(appends') BY <1>1, <2>1, <3>1 DEF Gone
    <3>. QED BY <1>3, <3>1, <3>2 DEF WrittenExact
  <2>2. CASE base >= 0
    <3>1. base' = base /\ hidden = {} BY <1>1, <1>4, <1>5, <2>2
    <3>. QED BY <1>1, <1>3, <2>2, <3>1 DEF WrittenExact
  <2>. QED BY <1>4, <2>1, <2>2
<1>. QED BY <1>7, <1>8

\* The records the writer accepts are those that come next.
LEMMA DataWrite ==
  ASSUME RecorderTypeOK, LogInv, CursorInv, AnswerInv, WrittenExact, EndWrite
  PROVE  AnswerInv' /\ WrittenExact'
<1>0. /\ Len(written) \in Nat /\ Len(appends) \in Nat /\ Len(log) \in Nat /\ Gone \in Nat
      /\ Before(accepted) \in Nat /\ (Reading => Len(Read.answer) \in Nat /\ Read.from \in Nat)
  BY Ranges
<1>. USE <1>0
<1>1. Reading /\ ~Reading' BY WriteEffect
<1>2. UNCHANGED <<appends, base, hidden>> BY DEF EndWrite, marks
<1>3. base \in Int /\ base >= 0 BY <1>1 DEF LogInv, CursorInv
<1>4. PICK n \in 0..Len(Read.answer) :
         /\ Len(written') = Len(written) + n /\ written' \in Seq(Entries)
         /\ \A i \in 1..Len(written) : written'[i] = written[i]
         /\ \A i \in 1..n : written'[Len(written) + i] = Read.answer[i]
         /\ n = 0 => accepted' = accepted
         /\ n > 0 => accepted' = [era |-> Read.era, at |-> Read.from + n]
  BY WriteEffect
<1>5. n \in Nat /\ n <= Len(Read.answer) /\ Len(Read.answer) \in Nat BY <1>1, <1>4
<1>6. SUFFICES ASSUME hidden = {} PROVE WrittenExact'
  BY <1>1, <1>2 DEF AnswerInv, WrittenExact
<1>7. /\ Out + Len(Read.answer) <= Len(appends)
      /\ \A i \in 1..Len(Read.answer) :
           appends[Out + i] = [entry |-> Read.answer[i], era |-> Read.era, at |-> Read.from + i]
  BY <1>1, <1>3, <1>6 DEF AnswerInv
<1>8. /\ \A i \in 1..Len(written) : written[i] = appends[base + i].entry
      /\ written # <<>> => LET last == appends[base + Len(written)]
                           IN accepted = [era |-> last.era, at |-> last.at]
  <2>1. DOMAIN written = 1..Len(written) BY LenProperties DEF RecorderTypeOK
  <2>. QED BY <1>3, <1>6, <2>1 DEF WrittenExact
<1>9. DOMAIN written' = 1..(Len(written) + n) BY <1>4, LenProperties
<1>10. base + Len(written') <= Len(appends)
  <2>1. base + Len(written) + Len(Read.answer) <= Len(appends) BY <1>7 DEF Out
  <2>2. base \in Nat /\ Len(Read.answer) \in Nat BY <1>3, <1>5
  <2>3. base + (Len(written) + n) <= Len(appends) BY <2>1, <2>2, Fewer
  <2>. QED BY <1>4, <2>3
<1>11. ASSUME NEW i \in 1..(Len(written) + n) PROVE written'[i] = appends[base + i].entry
  <2>1. CASE i <= Len(written) BY <1>4, <1>8, <1>11, <2>1
  <2>2. CASE ~(i <= Len(written))
    <3>. DEFINE k == i - Len(written)
    <3>1. k \in 1..n /\ k \in 1..Len(Read.answer) /\ i = Len(written) + k /\ base + i = Out + k
      BY <1>3, <1>5, <1>11, <2>2 DEF Out
    <3>2. written'[Len(written) + k] = Read.answer[k] BY <1>4, <3>1
    <3>3. appends[Out + k] = [entry |-> Read.answer[k], era |-> Read.era, at |-> Read.from + k]
      BY <1>7, <3>1
    <3>. QED BY <3>1, <3>2, <3>3
  <2>. QED BY <2>1, <2>2
<1>12. ASSUME written' # <<>>
       PROVE  LET last == appends[base + Len(written')]
              IN accepted' = [era |-> last.era, at |-> last.at]
  <2>1. CASE n = 0
    <3>1. Len(written') = Len(written) /\ accepted' = accepted BY <1>4, <2>1
    <3>2. Len(written') # 0 BY <1>4, <1>12, EmptySeq
    <3>3. written # <<>> BY <3>1, <3>2, EmptySeq
    <3>. QED BY <1>8, <3>1, <3>3
  <2>2. CASE n > 0
    <3>1. n \in 1..Len(Read.answer) /\ base + Len(written') = Out + n
      BY <1>3, <1>4, <1>5, <2>2 DEF Out
    <3>2. appends[Out + n] = [entry |-> Read.answer[n], era |-> Read.era, at |-> Read.from + n]
      BY <1>7, <3>1
    <3>3. appends[Out + n].era = Read.era /\ appends[Out + n].at = Read.from + n BY <3>2
    <3>. QED BY <1>4, <2>2, <3>1, <3>3
  <2>. QED BY <1>5, <2>1, <2>2
<1>. QED BY <1>2, <1>4, <1>9, <1>10, <1>11, <1>12 DEF WrittenExact

LEMMA DataStep ==
  ASSUME RecorderTypeOK, LogInv, CursorInv, SyncInv, AnswerInv, WrittenExact, RecorderNext
  PROVE  AnswerInv' /\ WrittenExact'
<1>. USE Ranges
<1>1. ASSUME NEW entry \in Entries, AppendEntry(entry) PROVE AnswerInv' /\ WrittenExact'
  <2>1. UNCHANGED <<written, base, hidden>> BY <1>1 DEF AppendEntry, recorderVars
  <2>. QED BY <1>1, <2>1, AppendEffect, DataStutter
<1>2. ASSUME NEW limit, PruneUpTo(limit) PROVE AnswerInv' /\ WrittenExact'
  <2>1. UNCHANGED <<pending, position, written, base, hidden, appends>>
    BY <1>2 DEF PruneUpTo, recorderVars
  <2>. QED BY <2>1, DataStutter
<1>3. CASE PruneToFlushed BY <1>2, <1>3 DEF PruneToFlushed
<1>4. CASE PruneByOthers BY <1>2, <1>4 DEF PruneByOthers
<1>5. CASE ClearByOthers
  <2>1. UNCHANGED <<pending, position, written, base, hidden, appends>>
    BY <1>5 DEF ClearByOthers, LogClear, recorderVars
  <2>. QED BY <2>1, DataStutter
<1>6. CASE StartRecorder
  <2>1. base' < 0 BY <1>6 DEF StartRecorder, CursorInv, marks
  <2>2. base' \in Int BY <1>6, StartEffect DEF LogInv
  <2>. QED BY <2>1, <2>2 DEF AnswerInv, WrittenExact
<1>7. CASE BeginPass BY <1>7, DataBegin
<1>8. CASE EndWrite BY <1>8, DataWrite
<1>9. CASE Control
  <2>1. UNCHANGED <<pending, position, written, base, hidden, appends>> BY <1>9, ControlEffect
  <2>. QED BY <2>1, DataStutter
<1>. QED BY NextSplit, <1>1, <1>3, <1>4, <1>5, <1>6, <1>7, <1>8, <1>9

-----------------------------------------------------------------------------
(* A loss after a placed cursor.                                           *)

\* A new loss of a placed cursor is noted when the discard passes it.
LEMMA Noted ==
  ASSUME NEW keep \in Int, MarkLoss(keep), "placed" \in lost', Reached \in Int
  PROVE  "placed" \in lost \/ (base >= 0 /\ keep > Reached /\ accepted # Start /\ accepted.era = era)
         \/ base \notin Int
  BY DEF MarkLoss

LEMMA ReachedTyped ==
  ASSUME LogInv, RecorderTypeOK
  PROVE  Reached \in Nat
<1>1. CASE pending[Rec] = Nothing BY <1>1, Ranges DEF Reached
<1>2. CASE pending[Rec] # Nothing
  <2>1. Read.from \in Nat /\ Len(Read.answer) \in Nat BY <1>2, Ranges DEF Reading, Read
  <2>. QED BY <1>2, <2>1 DEF Reached, Read
<1>. QED BY <1>1, <1>2

LEMMA LossStep ==
  ASSUME LogInv, RecorderTypeOK, CursorInv, LossInv, RecorderNext
  PROVE  LossInv'
<1>0. /\ base \in Int /\ discarded \in Nat /\ era \in Nat /\ accepted.at \in Nat /\ Reached \in Nat
      /\ (Reading => Len(Read.answer) \in Nat /\ Read.from \in Nat /\ Read.era \in Nat)
      /\ accepted.era \in Nat
  BY Ranges, ReachedTyped DEF LogInv
<1>. USE <1>0
<1>1. ASSUME NEW entry \in Entries, AppendEntry(entry) PROVE LossInv'
  <2>1. pending' = pending /\ position' = position BY <1>1, AppendEffect
  <2>2. UNCHANGED <<era, discarded, lost, hidden>> BY <1>1 DEF AppendEntry, LogAppend
  <2>. QED BY <2>1, <2>2 DEF LossInv, LossStopsPlaced, accepted, Read, Reading, Placed
<1>2. ASSUME NEW limit \in Nat, PruneUpTo(limit) PROVE LossInv'
  <2>1. UNCHANGED <<era, position, pending, hidden>> BY <1>2 DEF PruneUpTo
  <2>2. discarded' \in Nat /\ discarded < discarded' /\ MarkLoss(discarded')
    BY <1>2, PruneEffect
  <2>3. accepted' = accepted /\ Read' = Read /\ (Reading' <=> Reading)
    BY <2>1 DEF accepted, Read, Reading
  <2>4. SUFFICES ASSUME "placed" \in lost'
                 PROVE  /\ accepted # Start /\ ~Placed(accepted)'
                        /\ Reading => Read.era # era \/ discarded' > Read.from + Len(Read.answer)
    BY <2>1, <2>3 DEF LossInv, LossStopsPlaced
  <2>5. CASE "placed" \in lost
    <3>1. ~Placed(accepted)' BY <2>1, <2>2, <2>3, <2>5 DEF LossInv, Placed
    <3>. QED BY <2>2, <2>5, <3>1 DEF LossInv
  <2>6. CASE discarded' > Reached /\ accepted # Start /\ accepted.era = era
    <3>1. CASE Reading
      <4>1. Read.era = era /\ Read.from = accepted.at BY <2>6, <3>1 DEF CursorInv
      <4>2. Reached = Read.from + Len(Read.answer) BY <3>1, <4>1 DEF Reached, Reading, Read
      <4>. QED BY <2>1, <2>2, <2>3, <2>6, <3>1, <4>1, <4>2 DEF Placed
    <3>2. CASE ~Reading
      <4>1. Reached = accepted.at BY <2>6, <3>2 DEF Reached, Reading, Read, Before
      <4>. QED BY <2>1, <2>2, <2>3, <2>6, <3>2, <4>1 DEF Placed
    <3>. QED BY <3>1, <3>2
  <2>. QED BY <2>2, <2>4, <2>5, <2>6, Noted
<1>3. CASE PruneToFlushed
  <2>1. Before(flushed) \in Nat BY Ranges DEF Before
  <2>. QED BY <1>2, <1>3, <2>1 DEF PruneToFlushed
<1>4. CASE PruneByOthers BY <1>2, <1>4, Ranges DEF PruneByOthers
<1>5. CASE ClearByOthers
  <2>1. /\ era' > era /\ era' \in Nat
        /\ pending' = pending /\ position' = position /\ MarkLoss(Len(log))
    BY <1>5, ClearEffect, RecorderAssumption DEF LogInv
  <2>2. hidden' = hidden /\ Len(log) \in Int BY <1>5, Ranges DEF ClearByOthers
  <2>3. accepted' = accepted /\ Read' = Read /\ (Reading' <=> Reading)
    BY <2>1 DEF accepted, Read, Reading
  <2>4. accepted # Start => ~Placed(accepted)'
    <3>1. accepted # Start => accepted.era # era' BY <2>1 DEF CursorInv
    <3>. QED BY <2>3, <3>1 DEF Placed
  <2>5. Reading => Read.era # era' BY <2>1 DEF CursorInv
  <2>6. "placed" \in lost' => accepted # Start BY <2>1, <2>2, Noted DEF LossInv
  <2>. QED BY <2>2, <2>3, <2>4, <2>5, <2>6 DEF LossInv, LossStopsPlaced
<1>6. CASE StartRecorder
  <2>1. lost' = {} /\ hidden' = hidden BY <1>6 DEF StartRecorder, CursorInv, marks
  <2>. QED BY <2>1 DEF LossInv, LossStopsPlaced
<1>7. CASE BeginPass
  <2>1. Placed(accepted) BY <1>7, BeginEffect
  <2>2. "placed" \notin lost BY <2>1 DEF LossInv
  <2>3. lost' = lost /\ hidden' = lost BY <1>7 DEF BeginPass
  <2>. QED BY <2>2, <2>3 DEF LossInv, LossStopsPlaced
<1>8. CASE EndWrite
  <2>1. Reading /\ ~Reading' BY <1>8, WriteEffect
  <2>2. UNCHANGED <<era, discarded, lost, hidden>> BY <1>8 DEF EndWrite, marks
  <2>3. PICK n \in 0..Len(Read.answer) :
             /\ n = 0 => accepted' = accepted
             /\ n > 0 => /\ accepted' # Start /\ accepted'.era = Read.era
                         /\ accepted'.at = Read.from + n
    BY <1>8, WriteEffect
  <2>4. ASSUME "placed" \in lost PROVE accepted' # Start /\ ~Placed(accepted)'
    <3>1. CASE n = 0 BY <2>2, <2>3, <2>4, <3>1 DEF LossInv, Placed
    <3>2. CASE n > 0
      <4>1. Read.era # era \/ discarded > Read.from + n
        BY <2>1, <2>4 DEF LossInv
      <4>. QED BY <2>1, <2>2, <2>3, <3>2, <4>1 DEF Placed
    <3>. QED BY <2>1, <2>3, <3>1, <3>2
  <2>. QED BY <2>1, <2>2, <2>4 DEF LossInv, LossStopsPlaced
<1>9. CASE Control
  <2>1. UNCHANGED <<era, discarded, position, pending, lost, hidden>> BY <1>9, ControlEffect
  <2>. QED BY <2>1 DEF LossInv, LossStopsPlaced, accepted, Read, Reading, Placed
<1>. QED BY NextSplit, <1>1, <1>3, <1>4, <1>5, <1>6, <1>7, <1>8, <1>9

-----------------------------------------------------------------------------
(* Pruning to Flushed.                                                     *)

\* What OwnerInv says in a state with others being FALSE.
Owned ==
    /\ Len(log) = Len(appends)
    /\ accepted # Start => accepted.era = era /\ discarded <= accepted.at
    /\ Reading => Read.era = era /\ discarded <= Read.from
    /\ flushed # Start => accepted # Start /\ flushed.at <= accepted.at
    /\ base >= 0 => /\ lost = {} /\ discarded <= base + durable
                    /\ flushed # Start => flushed.at <= base + durable

LEMMA OwnedIs == OwnerInv <=> (~others => Owned)
  BY DEF OwnerInv, Owned, PruneToFlushedSafe

\* The cursor is where the writer is.
LEMMA OwnedSync ==
  ASSUME LogInv, RecorderTypeOK, CursorInv, SyncInv, Owned, base >= 0, ~Reading, accepted # Start
  PROVE  accepted.at = base + Len(written)
<1>1. Len(log) \in Nat /\ Len(appends) \in Nat /\ Len(written) \in Nat /\ accepted.at \in Nat
      /\ base \in Int /\ discarded \in Nat
  BY Ranges DEF LogInv
<1>2. Gone = 0 BY <1>1 DEF Gone, Owned
<1>3. Placed(accepted) BY DEF Placed, Owned, CursorInv
<1>4. Out = Gone + accepted.at BY <1>3 DEF SyncInv, Owned
<1>. QED BY <1>1, <1>2, <1>4 DEF Out

\* Flushed and what is durable move together, between two reads.
LEMMA DeliverEffect ==
  ASSUME LogInv, RecorderTypeOK, CursorInv, Control
  PROVE  \/ flushed' = flushed /\ durable' = durable
         \/ flushed' = accepted /\ durable' = Len(written) /\ ~Reading
<1>1. CASE PassLost BY <1>1 DEF PassLost
<1>2. CASE Flush BY <1>2 DEF Flush, CursorInv
<1>3. CASE Finish BY <1>3 DEF Finish, CursorInv
<1>4. CASE Tick BY <1>4 DEF Tick
<1>5. CASE ContextDone BY <1>5 DEF ContextDone
<1>6. CASE Stop BY <1>6 DEF Stop
<1>7. CASE ParentCancelled BY <1>7 DEF ParentCancelled
<1>. QED BY <1>1, <1>2, <1>3, <1>4, <1>5, <1>6, <1>7 DEF Control

\* The owner's prune releases only what was flushed.
LEMMA OwnedPrune ==
  ASSUME LogInv, RecorderTypeOK, CursorInv, Owned, PruneToFlushed
  PROVE  Owned'
<1>0. /\ base \in Int /\ discarded \in Nat /\ accepted.at \in Nat /\ flushed.at \in Nat
      /\ durable \in Nat
      /\ (Reading => Len(Read.answer) \in Nat /\ Read.from \in Nat)
  BY Ranges DEF LogInv
<1>. USE <1>0
<1>1. PruneUpTo(Before(flushed)) BY DEF PruneToFlushed
<1>2. /\ UNCHANGED <<era, log, position, pending, base, appends, flushed, durable>>
      /\ MarkLoss(discarded')
  BY <1>1 DEF PruneUpTo, recorderVars
<1>3. Before(flushed) \in Nat BY DEF Before
<1>4. discarded' \in Nat /\ discarded < discarded' /\ discarded' <= Before(flushed)
  BY <1>1, <1>3, PruneEffect
<1>5. flushed # Start /\ Before(flushed) = flushed.at BY <1>3, <1>4 DEF Before
<1>6. accepted # Start /\ discarded' <= flushed.at /\ discarded' <= accepted.at
  BY <1>4, <1>5 DEF Owned
<1>7. Reading => Read.era = era /\ Read.from = accepted.at BY <1>6 DEF CursorInv, Owned
<1>8. base >= 0 => lost' = {} /\ discarded' <= base + durable
  <2>1. CASE Reading
    <3>1. Reached = Read.from + Len(Read.answer)
      BY <1>7, <2>1 DEF Reached, Reading, Read
    <3>2. discarded' <= Reached BY <1>4, <1>6, <1>7, <2>1, <3>1
    <3>. QED BY <1>2, <1>4, <1>5, <3>2 DEF MarkLoss, Owned
  <2>2. CASE ~Reading
    <3>1. Reached = accepted.at BY <1>6, <2>2 DEF Reached, Reading, Read, Before
    <3>2. discarded' <= Reached BY <1>6, <3>1
    <3>. QED BY <1>2, <1>4, <1>5, <3>2 DEF MarkLoss, Owned
  <2>. QED BY <2>1, <2>2
<1>9. accepted' = accepted /\ Read' = Read /\ (Reading' <=> Reading)
  BY <1>2 DEF accepted, Read, Reading
<1>. QED BY <1>2, <1>4, <1>6, <1>7, <1>8, <1>9 DEF Owned

LEMMA OwnerStep ==
  ASSUME LogInv, RecorderTypeOK, CursorInv, SyncInv, OwnerInv, RecorderNext
  PROVE  OwnerInv'
<1>0. /\ base \in Int /\ discarded \in Nat /\ accepted.at \in Nat /\ flushed.at \in Nat
      /\ durable \in Nat /\ Len(written) \in Nat /\ Len(log) \in Nat /\ Len(appends) \in Nat
      /\ durable <= Len(written)
      /\ (Reading => Len(Read.answer) \in Nat /\ Read.from \in Nat)
  BY Ranges DEF LogInv, RecorderTypeOK
<1>. USE <1>0
<1>1. ASSUME others' = others, ~others => Owned' PROVE OwnerInv'
  BY <1>1 DEF OwnerInv, Owned, PruneToFlushedSafe
<1>2. ~others => Owned BY OwnedIs
<1>3. ASSUME NEW entry \in Entries, AppendEntry(entry) PROVE OwnerInv'
  <2>1. /\ pending' = pending /\ position' = position
        /\ Len(log') = Len(log) + 1 /\ Len(appends') = Len(appends) + 1
    BY <1>3, AppendEffect
  <2>2. UNCHANGED <<era, discarded, flushed, durable, base, lost, others>>
    BY <1>3 DEF AppendEntry, LogAppend, recorderVars
  <2>3. accepted' = accepted /\ Read' = Read /\ (Reading' <=> Reading)
    BY <2>1 DEF accepted, Read, Reading
  <2>4. Owned => Owned' BY <2>1, <2>2, <2>3 DEF Owned
  <2>. QED BY <1>1, <1>2, <2>2, <2>4
<1>4. CASE PruneToFlushed
  <2>1. others' = others BY <1>4 DEF PruneToFlushed
  <2>. QED BY <1>1, <1>2, <1>4, <2>1, OwnedPrune
<1>5. CASE PruneByOthers BY <1>5 DEF PruneByOthers, OwnerInv
<1>6. CASE ClearByOthers BY <1>6 DEF ClearByOthers, OwnerInv
<1>7. CASE StartRecorder
  <2>1. /\ flushed' = accepted'
        /\ \/ accepted' = Start
           \/ /\ accepted' # Start /\ accepted'.era = era /\ discarded <= accepted'.at
    BY <1>7, StartEffect
  <2>2. accepted'.at \in Nat
    <3>1. LogInv' /\ accepted' \in Positions BY <1>7, StartEffect
    <3>. QED BY <3>1, RecorderAssumption DEF Positions
  <2>3. UNCHANGED <<era, log, discarded, pending, appends, base, others>> /\ base < 0
    BY <1>7 DEF StartRecorder, marks, CursorInv
  <2>4. ~Reading /\ ~Reading' BY <2>3 DEF Reading, Read, CursorInv
  <2>5. Owned => Owned' BY <2>1, <2>2, <2>3, <2>4 DEF Owned
  <2>. QED BY <1>1, <1>2, <2>3, <2>5
<1>8. CASE BeginPass
  <2>1. /\ ~Reading /\ Reading' /\ position' = position /\ discarded' = discarded
        /\ log' = log /\ era' = era /\ appends' = appends /\ Before(accepted) <= Len(log)
        /\ Read'.era = era /\ Read'.from = Before(accepted)
        /\ base' = IF base < 0 THEN Gone + Before(accepted) ELSE base
    BY <1>8, BeginEffect
  <2>2. UNCHANGED <<flushed, durable, lost, others>> BY <1>8 DEF BeginPass, recorderVars
  <2>3. accepted' = accepted BY <2>1 DEF accepted
  <2>4. Owned => Gone = 0 BY DEF Gone, Owned
  <2>5. accepted # Start => Before(accepted) = accepted.at BY DEF Before
  <2>6. accepted = Start => Before(accepted) = discarded BY DEF Before
  <2>7. CASE base < 0
    <3>1. flushed = accepted /\ durable = 0 /\ lost = {} BY <2>7, EmptySeq DEF CursorInv
    <3>2. Owned => discarded <= Before(accepted) BY <2>5, <2>6 DEF Owned
    <3>3. Owned => base' = Before(accepted) BY <2>1, <2>4, <2>5, <2>6, <2>7
    <3>4. Owned => Owned'
      BY <2>1, <2>2, <2>3, <2>5, <2>6, <3>1, <3>2, <3>3 DEF Owned
    <3>. QED BY <1>1, <1>2, <2>2, <3>4
  <2>8. CASE base >= 0
    <3>1. Owned => Owned' BY <2>1, <2>2, <2>3, <2>5, <2>6, <2>8 DEF Owned
    <3>. QED BY <1>1, <1>2, <2>2, <3>1
  <2>. QED BY <2>7, <2>8
<1>9. CASE EndWrite
  <2>1. Reading /\ ~Reading' BY <1>9, WriteEffect
  <2>2. PICK n \in 0..Len(Read.answer) :
             /\ n = 0 => accepted' = accepted
             /\ n > 0 => /\ accepted' # Start /\ accepted'.era = Read.era
                         /\ accepted'.at = Read.from + n
    BY <1>9, WriteEffect
  <2>3. UNCHANGED <<era, log, discarded, flushed, durable, appends, base, lost, others>>
    BY <1>9 DEF EndWrite, marks
  <2>4. CASE n = 0
    <3>1. Owned => Owned' BY <2>1, <2>2, <2>3, <2>4 DEF Owned
    <3>. QED BY <1>1, <1>2, <2>3, <3>1
  <2>5. CASE n > 0
    <3>1. accepted # Start => Read.from = accepted.at BY <2>1 DEF CursorInv
    <3>2. accepted # Start => (flushed.at <= accepted.at => flushed.at <= accepted'.at)
      BY <2>1, <2>2, <2>5, <3>1
    <3>3. Owned => discarded <= accepted'.at BY <2>1, <2>2, <2>5 DEF Owned
    <3>4. Owned => Owned' BY <2>1, <2>2, <2>3, <2>5, <3>2, <3>3 DEF Owned
    <3>. QED BY <1>1, <1>2, <2>3, <3>4
  <2>. QED BY <2>1, <2>4, <2>5
<1>10. CASE Control
  <2>1. UNCHANGED <<era, log, discarded, position, pending, written, appends, base, others, lost>>
    BY <1>10, ControlEffect
  <2>2. accepted' = accepted /\ Read' = Read /\ (Reading' <=> Reading)
    BY <2>1 DEF accepted, Read, Reading
  <2>3. CASE flushed' = flushed /\ durable' = durable
    <3>1. Owned => Owned' BY <2>1, <2>2, <2>3 DEF Owned
    <3>. QED BY <1>1, <1>2, <2>1, <3>1
  <2>4. CASE flushed' = accepted /\ durable' = Len(written) /\ ~Reading
    <3>1. Owned /\ base >= 0 /\ accepted # Start => accepted.at = base + Len(written)
      BY <2>4, OwnedSync
    <3>2. Owned /\ base >= 0 => discarded <= base + Len(written) BY DEF Owned
    <3>3. Owned => Owned' BY <2>1, <2>2, <2>4, <3>1, <3>2 DEF Owned
    <3>. QED BY <1>1, <1>2, <2>1, <3>3
  <2>. QED BY <1>10, <2>3, <2>4, DeliverEffect
<1>. QED BY NextSplit, <1>3, <1>4, <1>5, <1>6, <1>7, <1>8, <1>9, <1>10

-----------------------------------------------------------------------------
(* Stopping.                                                               *)

\* The steps of the capture's other users leave what StopInv says alone.
LEMMA StopStutter ==
  ASSUME StopInv, UNCHANGED <<mode, hidden, pending, position, phase, failure, base, written, stopMark,
                              cause, durable, flushed>>
  PROVE  StopInv'
  BY DEF StopInv, Reading, Read, Out, accepted

\* A pass that begins now reads all that Stop waits for.
LEMMA StopBegin ==
  ASSUME RecorderTypeOK, LogInv, CursorInv, SyncInv, BeginPass
  PROVE  StopInv'
<1>1. UNCHANGED recorderVars /\ stopMark' = stopMark /\ hidden' = lost /\ phase = "pass"
  BY DEF BeginPass
<1>2. ASSUME lost = {} PROVE Out' + Len(Read'.answer) >= stopMark
  <2>1. Out' = Gone + Before(accepted) BY <1>2, BeginOut
  <2>2. Len(Read'.answer) = Len(log) - Before(accepted) BY BeginEffect
  <2>3. Gone \in Nat /\ Before(accepted) \in Nat /\ Len(log) \in Nat /\ Len(appends) \in Nat
        /\ stopMark \in Nat /\ stopMark <= Len(appends)
    BY Ranges DEF LogInv
  <2>4. Gone + Before(accepted) + (Len(log) - Before(accepted)) = Len(appends)
    BY <2>3 DEF Gone
  <2>. QED BY <2>1, <2>2, <2>3, <2>4
<1>. QED BY <1>1, <1>2 DEF StopInv, recorderVars

LEMMA StopWrite ==
  ASSUME RecorderTypeOK, LogInv, CursorInv, StopInv, EndWrite
  PROVE  StopInv'
<1>0. Len(written) \in Nat /\ base \in Int /\ stopMark \in Nat
  BY Ranges DEF LogInv
<1>1. Reading /\ ~Reading' BY WriteEffect
<1>2. Len(Read.answer) \in Nat BY <1>1, Ranges
<1>3. UNCHANGED <<cause, durable, flushed, base, hidden, stopMark>> BY DEF EndWrite, marks
<1>4. PICK n \in 0..Len(Read.answer) :
         /\ Len(written') = Len(written) + n
         /\ n = 0 => PassReturns(IF n < Len(Read.answer) THEN {"write"} ELSE {})
         /\ n > 0 => /\ phase' = "flush" /\ mode' = mode
                     /\ failure' = IF n < Len(Read.answer) THEN {"write"} ELSE {}
  BY WriteEffect
<1>5. Out' = Out + n BY <1>0, <1>2, <1>3, <1>4 DEF Out
<1>6. mode = "final" /\ hidden = {} /\ n = Len(Read.answer) => Out' >= stopMark
  BY <1>1, <1>5 DEF StopInv
<1>7. CASE n = 0
  <2>. DEFINE err == IF n < Len(Read.answer) THEN {"write"} ELSE {}
  <2>1. PassReturns(err) /\ err \subseteq {"range", "write", "flush", "close"} BY <1>4, <1>7
  <2>2. err = {} => n = Len(Read.answer) BY <1>2, <1>4
  <2>. HIDE DEF err
  <2>3. /\ phase' \in {"select", "finish"} /\ (mode' = "final" => mode = "final")
        /\ failure' = {} => err = {} /\ (phase' = "finish" => mode' = "final" /\ cause # "parent")
    BY <2>1, PassReturnsEffect
  <2>4. mode = "final" => cause \in {"stop", "parent"} BY DEF RecorderTypeOK
  <2>. QED BY <1>1, <1>3, <1>6, <2>2, <2>3, <2>4 DEF StopInv
<1>8. CASE n > 0
  <2>1. phase' = "flush" /\ mode' = mode /\ (failure' = {} => n = Len(Read.answer))
    BY <1>2, <1>4, <1>8
  <2>. QED BY <1>1, <1>3, <1>6, <2>1 DEF StopInv
<1>. QED BY <1>2, <1>4, <1>7, <1>8

LEMMA StopControl ==
  ASSUME RecorderTypeOK, LogInv, CursorInv, StopInv, Control
  PROVE  StopInv'
<1>1. UNCHANGED <<pending, position, written, base, hidden>> BY ControlEffect
<1>2. Reading' = Reading /\ Read' = Read /\ Out' = Out /\ accepted' = accepted
  BY <1>1 DEF Reading, Read, Out, accepted
<1>3. Reading => phase = "pass" BY DEF CursorInv
<1>4. mode = "final" => cause \in {"stop", "parent"} BY DEF RecorderTypeOK
<1>5. CASE PassLost
  <2>1. PassReturns({"range"}) /\ ~Reading BY <1>5 DEF PassLost, Reading, Read
  <2>. QED BY <1>2, <2>1 DEF PassReturns, StopInv
<1>6. CASE Flush
  <2>1. ~Reading BY <1>3, <1>6 DEF Flush
  <2>2. UNCHANGED <<cause, stopMark>> /\ phase = "flush" BY <1>6 DEF Flush, marks
  <2>3. CASE PassReturns(failure) BY <1>1, <1>2, <1>4, <2>1, <2>2, <2>3 DEF PassReturns, StopInv
  <2>4. CASE PassReturns(failure \cup {"flush"})
    BY <1>2, <2>1, <2>4 DEF PassReturns, StopInv
  <2>. QED BY <1>6, <2>3, <2>4 DEF Flush
<1>7. CASE Finish
  <2>1. ~Reading BY <1>3, <1>7 DEF Finish
  <2>2. UNCHANGED <<cause, stopMark, mode>> /\ phase = "finish" /\ phase' = "done"
    BY <1>7 DEF Finish, marks
  <2>3. failure' = {} => failure = {} /\ durable' = Len(written) /\ flushed' = accepted
    BY <1>7 DEF Finish
  <2>. QED BY <1>1, <1>2, <2>1, <2>2, <2>3 DEF StopInv
<1>8. CASE Tick BY <1>2, <1>3, <1>8 DEF Tick, StopInv
<1>9. CASE ContextDone BY <1>2, <1>3, <1>9 DEF ContextDone, StopInv
<1>10. CASE Stop BY <1>4, <1>10 DEF Stop, StopInv
<1>11. CASE ParentCancelled BY <1>4, <1>11 DEF ParentCancelled, StopInv
<1>. QED BY <1>5, <1>6, <1>7, <1>8, <1>9, <1>10, <1>11 DEF Control

LEMMA StopStep ==
  ASSUME RecorderTypeOK, LogInv, CursorInv, SyncInv, StopInv, RecorderNext
  PROVE  StopInv'
<1>1. ASSUME NEW entry \in Entries, AppendEntry(entry) PROVE StopInv'
  BY <1>1, AppendEffect, StopStutter DEF AppendEntry, recorderVars
<1>2. ASSUME NEW limit, PruneUpTo(limit) PROVE StopInv'
  BY <1>2, StopStutter DEF PruneUpTo, recorderVars
<1>3. CASE PruneToFlushed BY <1>2, <1>3 DEF PruneToFlushed
<1>4. CASE PruneByOthers BY <1>2, <1>4 DEF PruneByOthers
<1>5. CASE ClearByOthers BY <1>5, StopStutter DEF ClearByOthers, LogClear, recorderVars
<1>6. CASE StartRecorder
  <2>1. pending' = pending /\ phase = "new" /\ phase' = "pass" BY <1>6 DEF StartRecorder
  <2>2. ~Reading' BY <2>1 DEF Reading, Read, CursorInv
  <2>. QED BY <2>1, <2>2 DEF StopInv
<1>7. CASE BeginPass BY <1>7, StopBegin
<1>8. CASE EndWrite BY <1>8, StopWrite
<1>9. CASE Control BY <1>9, StopControl
<1>. QED BY NextSplit, <1>1, <1>3, <1>4, <1>5, <1>6, <1>7, <1>8, <1>9

-----------------------------------------------------------------------------
(* The theorems.                                                           *)

LEMMA InitInv ==
  ASSUME RecorderInit
  PROVE  IInv
<1>1. /\ era = 1 /\ log = <<>> /\ discarded = 0 /\ appends = <<>> /\ written = <<>>
      /\ position = [h \in Holders |-> Start] /\ pending = [h \in Holders |-> Nothing]
      /\ phase = "new" /\ mode = "initial" /\ flushed = Start /\ cause = "none" /\ failure = {}
      /\ durable = 0 /\ base = -1 /\ stopMark = 0 /\ others = FALSE /\ lost = {} /\ hidden = {}
  BY DEF RecorderInit, LogInit
<1>2. Rec \in Holders /\ 1 \in Eras BY RecorderAssumption
<1>3. accepted = Start /\ ~Reading BY <1>1, <1>2 DEF accepted, Reading, Read
<1>4. Start \in Positions BY DEF Start, Positions
<1>5. /\ log \in Seq(Entries) /\ Len(log) = 0 /\ appends \in Seq(Appends) /\ Len(appends) = 0
      /\ written \in Seq(Entries) /\ Len(written) = 0
  BY <1>1, EmptySeq
<1>6. RecorderTypeOK BY <1>1, <1>3, <1>4, <1>5 DEF RecorderTypeOK
<1>7. LogInv BY <1>1, <1>2, <1>4, <1>5 DEF LogInv
<1>8. CursorInv BY <1>1, <1>3 DEF CursorInv
<1>9. SyncInv /\ AnswerInv /\ WrittenExact BY <1>1 DEF SyncInv, AnswerInv, WrittenExact
<1>10. LossInv BY <1>1 DEF LossInv, LossStopsPlaced
<1>11. OwnerInv BY <1>1, <1>3, <1>5 DEF OwnerInv, PruneToFlushedSafe
<1>12. StopInv BY <1>1, <1>3 DEF StopInv
<1>. QED BY <1>6, <1>7, <1>8, <1>9, <1>10, <1>11, <1>12 DEF IInv

LEMMA StepInv ==
  ASSUME IInv, RecorderNext
  PROVE  IInv'
<1>1. LogInv' /\ RecorderTypeOK' /\ CursorInv'
  BY LogStep, TypeStep, CursorStep DEF IInv
<1>2. SyncInv' /\ AnswerInv' /\ WrittenExact' BY SyncStep, DataStep DEF IInv
<1>3. LossInv' /\ OwnerInv' /\ StopInv' BY LossStep, OwnerStep, StopStep DEF IInv
<1>. QED BY <1>1, <1>2, <1>3 DEF IInv

LEMMA StutterInv ==
  ASSUME IInv, UNCHANGED recordingVars
  PROVE  IInv'
<1>1. UNCHANGED <<era, log, discarded, position, pending, phase, mode, flushed, cause, failure,
                  written, durable, appends, base, stopMark, others, lost, hidden>>
  BY DEF recordingVars, logVars, recorderVars, marks
<1>2. /\ accepted' = accepted /\ Read' = Read /\ (Reading' <=> Reading) /\ Gone' = Gone
      /\ Out' = Out /\ (Placed(accepted)' <=> Placed(accepted))
  BY <1>1 DEF accepted, Read, Reading, Gone, Out, Placed
<1>3. RecorderTypeOK' BY <1>1, <1>2 DEF IInv, RecorderTypeOK, Positions
<1>4. LogInv' BY <1>1, <1>2 DEF IInv, LogInv
<1>5. CursorInv' BY <1>1, <1>2 DEF IInv, CursorInv
<1>6. SyncInv' BY <1>1, <1>2 DEF IInv, SyncInv
<1>7. AnswerInv' BY <1>1, <1>2 DEF IInv, AnswerInv
<1>8. WrittenExact' BY <1>1, <1>2 DEF IInv, WrittenExact
<1>9. LossInv' BY <1>1, <1>2 DEF IInv, LossInv, LossStopsPlaced
<1>10. OwnerInv' BY <1>1, <1>2 DEF IInv, OwnerInv, PruneToFlushedSafe
<1>11. StopInv' BY <1>1, <1>2 DEF IInv, StopInv
<1>. QED BY <1>3, <1>4, <1>5, <1>6, <1>7, <1>8, <1>9, <1>10, <1>11 DEF IInv

\* The inductive invariant holds in every state a recorder and its capture
\* reach, whatever the entries, the epochs and the number of appends.
THEOREM RecorderInvariant == RecorderSpec => []IInv
<1>1. RecorderInit => IInv BY InitInv
<1>2. IInv /\ [RecorderNext]_recordingVars => IInv' BY StepInv, StutterInv
<1>. QED BY <1>1, <1>2, PTL DEF RecorderSpec

\* recorder.go pass and WriteRecordsSince: unless history was lost behind its
\* back, the writer has every append from the first pass's position through
\* Accepted exactly once and in order, also after failed writes and flushes.
THEOREM WritesExact == RecorderSpec => []WrittenExact
<1>1. IInv => WrittenExact BY DEF IInv
<1>. QED BY <1>1, RecorderInvariant, PTL

\* recorder.go Stop, run and finish: a recorder that ends without an error was
\* stopped, and what was appended before Stop is written and flushed.
THEOREM StopClean == RecorderSpec => []CleanStop
<1>1. IInv => CleanStop BY DEF IInv, StopInv, CleanStop, Out
<1>. QED BY <1>1, RecorderInvariant, PTL

\* recorder.go Accepted and Flushed: the pass after the loss of records behind
\* a placed cursor fails, and pruning to Flushed discards nothing that is not
\* out of the writer.
THEOREM CursorsSafe == RecorderSpec => []CursorsHonest
<1>1. IInv => CursorsHonest
  <2>1. ASSUME OwnerInv PROVE PruneToFlushedSafe BY <2>1 DEF OwnerInv, PruneToFlushedSafe
  <2>. QED BY <2>1 DEF IInv, CursorsHonest, LossInv
<1>. QED BY <1>1, RecorderInvariant, PTL

=============================================================================
