\* Three processes, two variables; only reading a variable may fail.
SPECIFICATION Spec
CONSTANTS
  p1 = p1
  p2 = p2
  p3 = p3
  f1 = f1
  f2 = f2
  Procs = {p1, p2, p3}
  Files = {f1, f2}
  Writes <- MCTwoFiles
  MsFlags = {"ro", "nosuid"}
  FsAttrs = {"immutable", "nodump"}
  BootMount <- MCMountRo
  BootAttrs <- MCAttrs
  InitContents <- MCContents
  FdLimit = 2
  Faulty <- MCRead
INVARIANT LockReleased
PROPERTY FailsOnlyContended
