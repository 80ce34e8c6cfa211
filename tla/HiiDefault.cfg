CONSTANTS
  p1 = p1
  p2 = p2
  Procs = {p1}
  MaxCommands = 1
  Machines <- MCTranslations
  Files <- MCFiles
  Size <- MCTailSize
  InitContents <- MCTailInit
  translation_db <- MCDb
  Fold <- MCFold
  Trim <- MCTrim
  Number <- MCNumber
  Decimal <- MCDecimal
SPECIFICATION Spec
INVARIANTS DefaultShown
CHECK_DEADLOCK FALSE
