CONSTANTS
  p1 = p1
  p2 = p2
  Procs = {p1}
  MaxCommands = 1
  Machines <- MCFlag
  Files <- MCFiles
  Size <- MCSize
  InitContents <- MCInit
  translation_db <- MCDb
  Fold <- MCFold
  Trim <- MCTrim
  Number <- MCNumber
  Decimal <- MCDecimal
SPECIFICATION Spec
INVARIANTS ModifiedMeansWritten
CHECK_DEADLOCK FALSE
