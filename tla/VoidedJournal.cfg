CONSTANTS
  NPeriods = 2
  Today = 2
  OpenedAs = {"OPEN"}
  Advances = {a1}
  Requests = {r1, r2}
  Amounts = {1}
  Settlements = {1, 2}
  Corrections = {2}
  AdvanceSum = 2
  MaxEntries = 3
  MaxDrafts = 1
  MaxMoves = 1
  MaxTouched = 0
SPECIFICATION JournalSpec
INVARIANTS
  ReversalOffsets
CHECK_DEADLOCK FALSE
SYMMETRY MCSymmetry
