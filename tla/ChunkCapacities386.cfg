\* The 386 build, all sizes scaled down: a payload of 2^8 for 2^23, 2^6 records
\* for 2^17, an int of 10 bits for 32.
CONSTANTS
  Width = 10
  InitialRecords = 64
  InitialPayload = 256
  MinRecords = 4
  MinPayload = 16
  Lengths = {0, 1, 4}
SPECIFICATION Spec
INVARIANT RatioPreserved
