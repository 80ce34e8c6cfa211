\* Two processes, overlapping fields of one immutable variable, everything may fail or crash.
SPECIFICATION FairSpec
CONSTANTS
  p1 = p1
  p2 = p2
  p3 = p3
  f1 = f1
  f2 = f2
  Procs = {p1, p2}
  Files = {f1}
  Writes <- MCWidths
  MsFlags = {"ro", "nosuid"}
  FsAttrs = {"immutable", "nodump"}
  BootMount <- MCMountRo
  BootAttrs <- MCAttrs
  InitContents <- MCContents
  FdLimit = 1
  Faulty <- MCFaults
INVARIANTS
  TypeOK
  MutualExclusion
  BufferFresh
  WritableOnlyInWindow
  OtherFlagsKept
  CreateNotRefused
PROPERTIES
  ImplementsAtomicStore
  WriteReturns
  WindowCloses
