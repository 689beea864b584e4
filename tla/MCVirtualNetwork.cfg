\* Two buses flood each other, one hears itself, and the ID of the other is
\* reopened while frames of the old bus are under way, under fair scheduling.
CONSTANTS
  b1 = b1
  b2 = b2
  b3 = b3
  s1 = s1
  s2 = s2
  s3 = s3
  Buses = {b1, b2, b3}
  ID <- MCID
  ReceiveOwnMessages = {b1}
  Sends = {s1, s2, s3}
  SendBus <- MCSendBus
  ReceiveQueueCapacity = 1
SPECIFICATION BoundSpec
CHECK_DEADLOCK FALSE
INVARIANTS
  AcceptanceDefinite
  TransmitFirst
  ReceptionExact
PROPERTIES
  AllEnd
