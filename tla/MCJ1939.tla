------------------------------ MODULE MCJ1939 ------------------------------
EXTENDS J1939, TLC

CONSTANTS a, b

Quiescent == [window |-> 1, holds |-> 0, again |-> 0, selective |-> FALSE, sends |-> <<>>]

Base == [address |-> (a :> 1 @@ b :> 2), name |-> (a :> 2 @@ b :> 4), opens |-> <<a>>,
         messages |-> <<>>, inturn |-> TRUE, ecu |-> Quiescent, rival |-> <<>>,
         requests |-> 0, lost |-> 0, full |-> 0, early |-> 0, late |-> 0,
         cancels |-> 0, closes |-> 0, ends |-> 0, blocks |-> FALSE, live |-> FALSE]

Message(src, dst, packets) ==
    [kind |-> "data", src |-> src, dst |-> dst, pgn |-> 10 + packets, packets |-> packets]
\* A client asks all controllers, itself included, for their claims.
Request == [kind |-> "request", src |-> a, dst |-> GlobalAddress, pgn |-> 0, packets |-> 0]
EcuMessage(id, packets, window) ==
    [id |-> id, dst |-> 1, pgn |-> 20 + packets, packets |-> packets, window |-> window]

\* Both clients want address 1.
Contention == [Base EXCEPT !.address = (a :> 1 @@ b :> 1), !.opens = <<a, b>>,
                !.inturn = FALSE, !.live = TRUE]
\* One client sends two packets to the other.
Pair == [Base EXCEPT !.opens = <<a, b>>, !.messages = <<Message(a, 2, 2)>>]
\* The same, when one capture misses a frame.
Lossy == [Pair EXCEPT !.lost = 1]
\* A client sends three packets to an ECU that grants as it likes.
ToEcu == [Base EXCEPT !.messages = <<Message(a, Ecu, 3)>>,
            !.ecu = [Quiescent EXCEPT !.window = 3, !.again = 1, !.holds = 1]]
\* A transfer and every way to end it from this side.
Ends == [Base EXCEPT !.messages = <<Request, Message(a, Ecu, 2)>>, !.cancels = 1, !.closes = 1,
            !.ends = 1, !.full = 1, !.early = 1, !.ecu = [Quiescent EXCEPT !.window = 2], !.live = TRUE]
\* The bus takes no frames for a while, which may outlast a deadline.
Backpressure == [Base EXCEPT !.messages = <<Message(a, Ecu, 2)>>, !.blocks = TRUE,
                   !.ecu = [Quiescent EXCEPT !.window = 2], !.closes = 1, !.live = TRUE]
\* A stronger NAME takes the address during transfers in both directions.
Takeover == [Base EXCEPT !.rival = <<[src |-> 1, name |-> 1]>>, !.inturn = FALSE,
            !.messages = <<Message(a, Ecu, 2)>>, !.ecu.sends = <<EcuMessage(11, 2, 2)>>]
\* The ECU sends, and starts again; somebody asks for claims.
FromEcu == [Base EXCEPT !.ecu.sends = <<EcuMessage(11, 3, 2), EcuMessage(12, 2, 1)>>,
            !.requests = 1]
\* Broadcast transfers, which the bus may refuse or which may be late.
Bam == [Base EXCEPT !.opens = <<a, b>>, !.messages = <<Message(a, GlobalAddress, 2)>>,
            !.full = 1, !.early = 1]
\* The same, to a Decoder that may run out of time.
LateBam == [Bam EXCEPT !.full = 0, !.early = 0, !.late = 1]
\* Both directions at once, and a single frame while a transfer is under way.
Both == [Base EXCEPT !.messages = <<Message(a, Ecu, 2), Message(a, GlobalAddress, 0)>>,
            !.inturn = FALSE, !.ecu.sends = <<EcuMessage(11, 2, 2)>>]
\* A broadcast during a reception, and next to a directed transfer.
BamAndReceive == [Both EXCEPT !.messages = <<Message(a, GlobalAddress, 2)>>]
Busy == [Both EXCEPT !.messages = <<Message(a, Ecu, 2), Message(a, GlobalAddress, 2)>>, !.ecu.sends = <<>>]
\* The ECU's address gets another owner.
Rivals == [Base EXCEPT !.messages = <<Message(a, Ecu, 2)>>, !.ecu = [Quiescent EXCEPT !.holds = 1],
            !.rival = <<[src |-> Ecu, name |-> 6], [src |-> Ecu, name |-> 5]>>]

MCScenarios == {Contention, Pair, Lossy, ToEcu, Ends, Backpressure, Takeover, FromEcu, Bam, LateBam,
                Both, BamAndReceive, Busy, Rivals}
=============================================================================
