CONSTANTS
  p1 = p1
  p2 = p2
  Procs = {p1, p2}
  Commands <- MCCommands
  MaxCommands = 1
  MaxBoots = 1
  Settings <- MCSettings
  StringAttrs <- MCStrings
  translation_db <- MCDb
  Fold <- MCFold
  Faulty = {"lost", "late", "refused"}
SPECIFICATION Spec
INVARIANTS
  TypeOK
  OnlySettingsChange
  PendingWasAsked
  GetAnswersOrigin
  ModifiedMeansAccepted
  PatchedInOrder
CHECK_DEADLOCK FALSE
