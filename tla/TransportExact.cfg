\* An immediate response and what is returned for it.
SPECIFICATION Spec
CHECK_DEADLOCK FALSE
CONSTANTS
  Requests <- MCShort
  RespLens = {1}
  Modes = {0, 1, 2}
  MaxWrite = 4
  WriteHdr = 2
  ImmHdr = 1
  MaxRead = 4
  ReadHdr = 2
  FixedSize = 2
  MaxBuffer = 8
  MAX_ALLOWED_REQUEST_ATTEMPTS = 0
  Faulty = {}
INVARIANT ResponseExact
