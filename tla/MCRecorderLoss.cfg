\* The documented claim about lost records, for every cursor.
CONSTANTS
  Keys = {}
  Entries <- MCEntries
  Holders = {rec}
  Rec = rec
  Eras = {1, 2}
  MaxAppends = 4
SPECIFICATION RecorderSpec
INVARIANT LossStops
CHECK_DEADLOCK FALSE
