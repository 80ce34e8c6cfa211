CONSTANTS
  p1 = p1
  p2 = p2
  Procs = {p1, p2}
  MaxCommands = 2
  Machines <- MCMachines
  Files <- MCFiles
  Size <- MCSize
  InitContents <- MCInit
  translation_db <- MCDb
  Fold <- MCFold
  Trim <- MCTrim
  Number <- MCNumber
  Decimal <- MCDecimal
SPECIFICATION Spec
INVARIANTS TypeOK StoreLegal FieldsFollowLog RoundTrip ShownCanBeSet
CHECK_DEADLOCK FALSE
PROPERTIES UsesAtomicStore
