CONSTANTS
  Opcodes <- MCOpcodes
  Strings <- MCStrings
  NoText = ""
  MaxOps = 6
  Faulty = {"short", "data"}
SPECIFICATION Spec
INVARIANTS TypeOK NestingMatches FirstInOrder StoreOfOwnFormSet
CHECK_DEADLOCK FALSE
