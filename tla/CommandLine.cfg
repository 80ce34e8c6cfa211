CONSTANTS
  p1 = p1
  p2 = p2
  Procs = {p1, p2}
  MaxCommands = 2
  GuidLen = 2
  ListLengthLen = 1
  PackageLengthLen = 1
  StringHeaderLen = 2
  FormOf <- MCFormOf
  Cuts <- MCCuts
  OldDb <- MCOldDb
  MAX_ALLOWED_FILESIZE <- MCMaxFile
  Machines <- MCMachines
SPECIFICATION FairSpec
INVARIANTS TypeOK ListingMeansDatabase DumpListedWhole DumpIsBeginning
  WrittenMeansComplete
PROPERTIES GetAnswersSetInForce CommandsReturn
CHECK_DEADLOCK FALSE
