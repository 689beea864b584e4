----------------------------- MODULE MCCapture ------------------------------
(* Small instances of Capture for TLC. *)
EXTENDS Capture

\* DLC 0..2 as lengths; payloads of at most two bytes.
MCDLCLength == [dlc \in 0..2 |-> dlc]

F1 == [kind |-> "frame", key |-> "k1", dlc |-> 2, remote |-> FALSE, data |-> <<8, 9>>]
F2 == [kind |-> "frame", key |-> "k2", dlc |-> 1, remote |-> FALSE, data |-> <<7>>]
R2 == [kind |-> "frame", key |-> "k2", dlc |-> 2, remote |-> TRUE, data |-> <<>>]
E1 == [kind |-> "event", bus |-> 1, event |-> 1, state |-> 4]
E2 == [kind |-> "event", bus |-> 2, event |-> 2, state |-> 0]

\* Frames of two keys, one remote; a state and an error event of two buses.
MixedFrames == {F1, R2}
MixedEvents == {E1, E2}

TwoFrames == {F1, F2}
OneEvent == {E1}

\* Goroutines are interchangeable.
HolderSymmetry == Permutations(Readers) \cup Permutations(Callers)

Touched(h) == cursor[h] # ZeroCursor \/ call[h] # Idle
Entries == UNION { Range(history[g]) : g \in DOMAIN history }

\* One reader over three appends of any kind, or both over three of a frame and
\* an event, or four of a frame.
ReadsBound ==
  \/ Appended <= 3 /\ \E r \in Readers : \A other \in Readers \ {r} : ~Touched(other)
  \/ Entries \subseteq {F1, E1} /\ Appended <= 3
  \/ Entries \subseteq {F1}

\* Two callers over two frames; or the first beside a reader, over three frames
\* of a key, or two appends with an event.  The first waits for one key only.
Second == CHOOSE c \in Callers : TRUE
NextBound ==
  /\ \A c \in Callers \ {Second} : call[c] = Idle \/ call[c].key = F1.key
  /\ \/ Appended <= 2 /\ Entries \subseteq TwoFrames /\ \A r \in Readers : ~Touched(r)
     \/ ~Touched(Second) /\ Entries \subseteq {F1}
     \/ ~Touched(Second) /\ Entries \subseteq {F1, E1} /\ Appended <= 2

\* The steps that stay within a bound.
ReadsSpec == Init /\ [][Next /\ ReadsBound']_vars
NextSpec == Init /\ [][Next /\ NextBound']_vars /\ Fairness
=============================================================================
