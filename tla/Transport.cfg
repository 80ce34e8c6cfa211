\* A request of one packet or of three fragments, a response of one or two, two attempts; everything may go wrong.
SPECIFICATION FairSpec
CHECK_DEADLOCK FALSE
CONSTANTS
  Requests <- MCRequests
  RespLens = {3, 5}
  Modes = {0, 1, 2}
  MaxWrite = 4
  WriteHdr = 2
  ImmHdr = 1
  MaxRead = 4
  ReadHdr = 2
  FixedSize = 2
  MaxBuffer = 8
  MAX_ALLOWED_REQUEST_ATTEMPTS = 0
  Faulty <- MCAllFaults
INVARIANTS
  TypeOK
  NeverTorn
  ResultOfThisAttempt
  FragmentsFit
PROPERTIES
  ImplementsCall
  ExecReturns
