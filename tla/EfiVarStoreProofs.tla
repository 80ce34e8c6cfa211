-------------------------- MODULE EfiVarStoreProofs --------------------------
(***************************************************************************)
(* Safety of write_at_offset for any number of processes, files, calls and *)
(* descriptors, and whatever fails or crashes.                             *)
(*                                                                         *)
(* MutualExclusion is inductive once the descriptors that hold the lock    *)
(* are known to be among those their process has opened (DescriptorsOpen): *)
(* a refused contender's fresh descriptor is then not one of them.         *)
(* BufferFresh follows: only a process in its section changes contents.    *)
(* So does GuardsKnown: what a guard has read is still so when it is       *)
(* dropped, which is what closes the mount and the file again              *)
(* (WritableOnlyInWindow) and lets File::create through (CreateNotRefused).*)
(***************************************************************************)
EXTENDS EfiVarStore, BytesProofs

(* A lock is held through a descriptor that its process has opened.        *)
DescriptorsOpen == \A h \in held : h[2] <= leaked[h[1]]

LockInv == TypeOK /\ DescriptorsOpen /\ MutualExclusion

(* What a call knows about the mount and about its file while it is in its *)
(* section: the guards say what to put back, and the last attributes read  *)
(* are still the current ones.                                             *)
MountKnown(p) ==
  /\ pc[p] = "remountRw" => "ro" \in mountGuard[p] /\ ToMsFlags(mountFlags) = mountGuard[p]
  /\ pc[p] \in {"getAttrs", "clearGet", "clearSet", "create", "write",
                "restoreGet", "restoreSet", "remountRo"}
       => ToMsFlags(mountFlags) = mountGuard[p] \ {"ro"}
  /\ pc[p] = "remountRo" => "ro" \in mountGuard[p]

AttrsKnown(p) ==
  LET now == attrs[job[p].file]
  IN  /\ pc[p] \in {"clearGet", "clearSet"}
           => "immutable" \in attrGuard[p] /\ now = attrGuard[p]
      /\ pc[p] \in {"create", "write", "restoreGet", "restoreSet"}
           => now = attrGuard[p] \ {"immutable"}
      /\ pc[p] \in {"restoreGet", "restoreSet"} => "immutable" \in attrGuard[p]
      /\ pc[p] \in {"clearSet", "restoreSet"} => seenAttrs[p] = now

GuardsKnown == \A p \in Procs : MountKnown(p) /\ AttrsKnown(p)

(* The flags a guard puts back are those of the boot that it knows, but    *)
(* for "ro" and "immutable".                                               *)
GuardsFromBoot ==
  \A p \in Procs :
    /\ pc[p] \in {"remountRw", "getAttrs", "clearGet", "clearSet", "create",
                  "write", "restoreGet", "restoreSet", "remountRo"}
         => mountGuard[p] \in {ToMsFlags(BootMount), ToMsFlags(BootMount) \ {"ro"}}
    /\ pc[p] \in {"clearGet", "clearSet", "create", "write", "restoreGet",
                  "restoreSet"}
         => attrGuard[p] \in {BootAttrs[job[p].file],
                              BootAttrs[job[p].file] \ {"immutable"}}

FlagsInv == OtherFlagsKept /\ GuardsFromBoot

-----------------------------------------------------------------------------
(* A call's arguments are a file, an offset and bytes.                     *)
LEMMA JobType ==
  ASSUME NEW w \in Writes
  PROVE  w.file \in Files /\ w.offset \in Nat /\ w.data \in Seq(Byte)
  BY WritesAssumption

LEMMA PatchedType ==
  ASSUME NEW bytes \in Seq(Byte), NEW w \in Writes
  PROVE  Patched(bytes, w) \in Seq(Byte)
  BY PatchType, JobType DEF Patched, HeaderLen

-----------------------------------------------------------------------------
(* A function stays one when it changes at a point.                        *)
LEMMA Updated ==
  ASSUME NEW S, NEW T, NEW f \in [S -> T], NEW x \in S, NEW y \in T
  PROVE  [f EXCEPT ![x] = y] \in [S -> T]
OBVIOUS

Labels == {"down", "idle", "lock", "read", "mounts", "remountRw", "getAttrs", "clearGet",
           "clearSet", "create", "write", "restoreGet", "restoreSet", "remountRo", "unlock"}

LEMMA InitType == Init => TypeOK
  BY AttrsAssumption, MountAssumption, ContentsAssumption, FdAssumption
  DEF Init, TypeOK, InCall, NoJob

(* Type correctness: every step keeps each variable in its set, and a call *)
(* under way has arguments.                                                *)
LEMMA NextType == TypeOK /\ [Next]_vars => TypeOK'
<1> SUFFICES ASSUME TypeOK, [Next]_vars PROVE TypeOK'
  OBVIOUS
<1> USE DEF TypeOK, InCall, kernelVars, localVars, Goto, Result, FailTo,
            AfterAttrGuard, AfterWrite
<1>1. ASSUME NEW p \in Procs, Launch(p) PROVE TypeOK'
  BY <1>1 DEF Launch
<1>2. ASSUME NEW p \in Procs, StartWrite(p) PROVE TypeOK'
  BY <1>2 DEF StartWrite
<1>3. ASSUME NEW p \in Procs, LockOpenFails(p) PROVE TypeOK'
  BY <1>3 DEF LockOpenFails, NoJob
<1>4. ASSUME NEW p \in Procs, Lock(p) PROVE TypeOK'
  <2>1. leaked[p] + 1 \in 1..FdLimit
    BY <1>4, FdAssumption DEF Lock, CanOpen
  <2>2. held' \subseteq Procs \X (1..FdLimit)
    BY <1>4, <2>1 DEF Lock
  <2>3. leaked' \in [Procs -> 0..FdLimit] /\ fd' \in [Procs -> 0..FdLimit]
    BY <1>4, <2>1 DEF Lock
  <2>4. pc' \in [Procs -> Labels] /\ outcome' \in [Procs -> {"none", "ok", "err"}]
    BY <1>4 DEF Lock, Labels
  <2>5. \A q \in Procs : InCall(q)' => job'[q] \in Writes
    BY <1>4 DEF Lock
  <2>6. QED
    BY <1>4, <2>2, <2>3, <2>4, <2>5 DEF Lock, Labels
<1>5. ASSUME NEW p \in Procs, ReadAndPatch(p) PROVE TypeOK'
  <2>1. job[p] \in Writes
    BY <1>5 DEF ReadAndPatch
  <2>2. Patched(contents[job[p].file], job[p]) \in Seq(Byte)
    BY <2>1, PatchedType, JobType
  <2>3. buf' \in [Procs -> Seq(Byte)]
    <3>1. PICK bytes \in Seq(Byte) : bytes = Patched(contents[job[p].file], job[p])
      BY <2>2
    <3>2. buf' = [buf EXCEPT ![p] = bytes] \/ buf' = buf
      BY <1>5, <3>1 DEF ReadAndPatch
    <3>3. buf \in [Procs -> Seq(Byte)]
      OBVIOUS
    <3>4. [buf EXCEPT ![p] = bytes] \in [Procs -> Seq(Byte)]
      BY <3>3, Updated
    <3>5. QED
      BY <3>2, <3>3, <3>4
  <2>4. pc'[p] \in {"mounts", "unlock"} /\ \A q \in Procs \ {p} : pc'[q] = pc[q]
    BY <1>5 DEF ReadAndPatch
  <2>5. QED
    BY <1>5, <2>1, <2>3, <2>4 DEF ReadAndPatch
<1>6. ASSUME NEW p \in Procs, GetMountFlags(p) PROVE TypeOK'
  <2>1. ToMsFlags(mountFlags) \subseteq MsFlags
    BY DEF ToMsFlags
  <2>2. mountGuard' \in [Procs -> SUBSET MsFlags]
    <3>1. PICK flags \in SUBSET MsFlags : flags = ToMsFlags(mountFlags)
      BY <2>1
    <3>2. mountGuard' = [mountGuard EXCEPT ![p] = flags] \/ mountGuard' = mountGuard
      BY <1>6, <3>1 DEF GetMountFlags
    <3>3. mountGuard \in [Procs -> SUBSET MsFlags]
      OBVIOUS
    <3>4. QED
      BY <3>2, <3>3, Updated
  <2>3. pc'[p] \in {"getAttrs", "unlock", "remountRw"} /\ \A q \in Procs \ {p} : pc'[q] = pc[q]
    BY <1>6 DEF GetMountFlags
  <2>4. QED
    BY <1>6, <2>2, <2>3 DEF GetMountFlags
<1>7. ASSUME NEW p \in Procs, RemountRw(p) PROVE TypeOK'
  BY <1>7 DEF RemountRw
<1>8. ASSUME NEW p \in Procs, GetAttrs(p) PROVE TypeOK'
  BY <1>8, JobType DEF GetAttrs
<1>9. ASSUME NEW p \in Procs, ClearGet(p) PROVE TypeOK'
  BY <1>9, JobType DEF ClearGet
<1>10. ASSUME NEW p \in Procs, ClearSet(p) PROVE TypeOK'
  <2> DEFINE cleared == seenAttrs[p] \ {"immutable"}
  <2>0. job[p].file \in Files /\ cleared \in SUBSET FsAttrs
    BY <1>10, JobType DEF ClearSet
  <2>01. \/ attrs' = [attrs EXCEPT ![job[p].file] = cleared]
         \/ attrs' = attrs
    BY <1>10 DEF ClearSet
  <2> HIDE DEF cleared
  <2>1. attrs' \in [Files -> SUBSET FsAttrs]
    BY <2>0, <2>01
  <2>2. attrGuard' \in [Procs -> SUBSET FsAttrs]
    BY <1>10 DEF ClearSet
  <2>3. QED
    BY <1>10, <2>1, <2>2 DEF ClearSet
<1>11. ASSUME NEW p \in Procs, Create(p) PROVE TypeOK'
  BY <1>11 DEF Create
<1>12. ASSUME NEW p \in Procs, WriteAll(p) PROVE TypeOK'
  BY <1>12, JobType DEF WriteAll
<1>13. ASSUME NEW p \in Procs, RestoreGet(p) PROVE TypeOK'
  <2>1. job[p].file \in Files
    BY <1>13, JobType DEF RestoreGet
  <2>2. seenAttrs' \in [Procs -> SUBSET FsAttrs]
    <3>1. seenAttrs' = [seenAttrs EXCEPT ![p] = attrs[job[p].file]] \/ seenAttrs' = seenAttrs
      BY <1>13 DEF RestoreGet
    <3>2. seenAttrs \in [Procs -> SUBSET FsAttrs] /\ attrs[job[p].file] \in SUBSET FsAttrs
      BY <2>1
    <3>3. QED
      BY <3>1, <3>2, Updated
  <2>3. leftover' \subseteq Files \cup {"mount"}
    BY <1>13, <2>1 DEF RestoreGet
  <2>4. QED
    BY <1>13, <2>2, <2>3 DEF RestoreGet
<1>14. ASSUME NEW p \in Procs, RestoreSet(p) PROVE TypeOK'
  <2>1. job[p].file \in Files
    BY <1>14, JobType DEF RestoreSet
  <2> DEFINE restored == seenAttrs[p] \cup {"immutable"}
  <2>01. restored \in SUBSET FsAttrs
    BY AttrsAssumption
  <2>02. \/ attrs' = [attrs EXCEPT ![job[p].file] = restored]
         \/ attrs' = attrs
    BY <1>14 DEF RestoreSet, Restored
  <2> HIDE DEF restored
  <2>2. attrs' \in [Files -> SUBSET FsAttrs]
    BY <2>1, <2>01, <2>02
  <2>3. leftover' \subseteq Files \cup {"mount"}
    BY <1>14, <2>1 DEF RestoreSet
  <2>4. QED
    BY <1>14, <2>2, <2>3 DEF RestoreSet
<1>15. ASSUME NEW p \in Procs, RemountRo(p) PROVE TypeOK'
  BY <1>15 DEF RemountRo
<1>16. ASSUME NEW p \in Procs, Unlock(p) PROVE TypeOK'
  <2>1. held' \subseteq held
    BY <1>16 DEF Unlock, Released
  <2>2. job' \in [Procs -> Writes \cup {NoJob}] /\ job' = [job EXCEPT ![p] = NoJob]
    BY <1>16 DEF Unlock
  <2>3. fd' \in [Procs -> 0..FdLimit]
    BY <1>16, FdAssumption DEF Unlock
  <2>4. buf' \in [Procs -> Seq(Byte)]
    BY <1>16, EmptySeq DEF Unlock
  <2>5. mountGuard' \in [Procs -> SUBSET MsFlags]
        /\ attrGuard' \in [Procs -> SUBSET FsAttrs]
        /\ seenAttrs' \in [Procs -> SUBSET FsAttrs]
    BY <1>16 DEF Unlock
  <2>6. QED
    BY <1>16, <2>1, <2>2, <2>3, <2>4, <2>5 DEF Unlock
<1>17. ASSUME NEW p \in Procs, Exit(p) PROVE TypeOK'
  <2>1. AttrWindow(p) => job[p].file \in Files
    BY JobType DEF AttrWindow
  <2>2. held' \subseteq held /\ leftover' \subseteq Files \cup {"mount"}
    BY <1>17, <2>1 DEF Exit
  <2>3. job' \in [Procs -> Writes \cup {NoJob}] /\ job' = [job EXCEPT ![p] = NoJob]
    BY <1>17 DEF Exit
  <2>4. fd' \in [Procs -> 0..FdLimit] /\ leaked' \in [Procs -> 0..FdLimit]
    BY <1>17, FdAssumption DEF Exit
  <2>5. buf' \in [Procs -> Seq(Byte)]
    BY <1>17, EmptySeq DEF Exit
  <2>6. mountGuard' \in [Procs -> SUBSET MsFlags]
        /\ attrGuard' \in [Procs -> SUBSET FsAttrs]
        /\ seenAttrs' \in [Procs -> SUBSET FsAttrs]
    BY <1>17 DEF Exit
  <2>7. QED
    BY <1>17, <2>2, <2>3, <2>4, <2>5, <2>6 DEF Exit
<1>18. CASE Reboot
  BY <1>18, AttrsAssumption, MountAssumption, FdAssumption DEF Reboot, NoJob
<1>19. CASE UNCHANGED vars
  BY <1>19 DEF vars
<1>20. QED
  BY <1>1, <1>2, <1>3, <1>4, <1>5, <1>6, <1>7, <1>8, <1>9, <1>10, <1>11,
     <1>12, <1>13, <1>14, <1>15, <1>16, <1>17, <1>18, <1>19 DEF Next, Step

(* Type correctness of every reachable state.                              *)
THEOREM TypeCorrect == Spec => []TypeOK
  BY InitType, NextType, PTL DEF Spec

-----------------------------------------------------------------------------
Section ==
  {"read", "mounts", "remountRw", "getAttrs", "clearGet", "clearSet", "create",
   "write", "restoreGet", "restoreSet", "remountRo"}

(* The steps of a call between its flock and the drop of its FileLock.     *)
SectionStep(p) ==
  \/ ReadAndPatch(p) \/ GetMountFlags(p) \/ RemountRw(p)
  \/ GetAttrs(p) \/ ClearGet(p) \/ ClearSet(p) \/ Create(p) \/ WriteAll(p)
  \/ RestoreGet(p) \/ RestoreSet(p) \/ RemountRo(p)

(* Such a step leaves the lock and the descriptors alone, and the call in  *)
(* its section until its FileLock is due.                                  *)
LEMMA SectionStepShape ==
  ASSUME TypeOK, NEW p \in Procs, SectionStep(p)
  PROVE  /\ UNCHANGED <<held, fd, leaked, job>>
         /\ pc[p] \in Section
         /\ pc'[p] \in Section \cup {"unlock"}
         /\ \A q \in Procs \ {p} : pc'[q] = pc[q]
<1> USE DEF TypeOK, kernelVars, localVars, Goto, FailTo, AfterAttrGuard,
            AfterWrite, Section
<1>1. CASE ReadAndPatch(p) BY <1>1 DEF ReadAndPatch
<1>2. CASE GetMountFlags(p) BY <1>2 DEF GetMountFlags
<1>3. CASE RemountRw(p) BY <1>3 DEF RemountRw
<1>4. CASE GetAttrs(p) BY <1>4 DEF GetAttrs
<1>5. CASE ClearGet(p) BY <1>5 DEF ClearGet
<1>6. CASE ClearSet(p) BY <1>6 DEF ClearSet
<1>7. CASE Create(p) BY <1>7 DEF Create
<1>8. CASE WriteAll(p) BY <1>8 DEF WriteAll
<1>9. CASE RestoreGet(p) BY <1>9 DEF RestoreGet
<1>10. CASE RestoreSet(p) BY <1>10 DEF RestoreSet
<1>11. CASE RemountRo(p) BY <1>11 DEF RemountRo
<1>12. QED
  BY <1>1, <1>2, <1>3, <1>4, <1>5, <1>6, <1>7, <1>8, <1>9, <1>10, <1>11
  DEF SectionStep

LEMMA InitLock == Init => LockInv
  BY InitType DEF Init, LockInv, DescriptorsOpen, MutualExclusion, InSection

(* The lock invariant is kept: the flock grants a free lock only, and a    *)
(* release or a process's end takes away its own descriptors only.         *)
LEMMA NextLock == LockInv /\ [Next]_vars => LockInv'
<1> SUFFICES ASSUME LockInv, [Next]_vars PROVE LockInv'
  OBVIOUS
<1>0. TypeOK /\ TypeOK'
  BY NextType DEF LockInv
<1> SUFFICES DescriptorsOpen' /\ MutualExclusion'
  BY <1>0 DEF LockInv
<1>a. /\ \A h \in held : h \in Procs \X (1..FdLimit) /\ h[2] <= leaked[h[1]]
      /\ \A q \in Procs : InSection(q) => held = {<<q, fd[q]>>}
  BY DEF LockInv, TypeOK, DescriptorsOpen, MutualExclusion
<1>1. ASSUME NEW p \in Procs, Launch(p) PROVE DescriptorsOpen' /\ MutualExclusion'
  BY <1>1, <1>0, <1>a DEF Launch, Goto, TypeOK, kernelVars, localVars, InSection,
     DescriptorsOpen, MutualExclusion
<1>2. ASSUME NEW p \in Procs, StartWrite(p) PROVE DescriptorsOpen' /\ MutualExclusion'
  BY <1>2, <1>0, <1>a DEF StartWrite, Goto, TypeOK, kernelVars, InSection,
     DescriptorsOpen, MutualExclusion
<1>3. ASSUME NEW p \in Procs, LockOpenFails(p) PROVE DescriptorsOpen' /\ MutualExclusion'
  BY <1>3, <1>0, <1>a DEF LockOpenFails, FailTo, Goto, TypeOK, kernelVars,
     InSection, DescriptorsOpen, MutualExclusion
<1>4. ASSUME NEW p \in Procs, Lock(p) PROVE DescriptorsOpen' /\ MutualExclusion'
  <2> DEFINE new == leaked[p] + 1
  <2>1. /\ pc[p] = "lock"
        /\ leaked' = [leaked EXCEPT ![p] = new]
        /\ fd' = [fd EXCEPT ![p] = new]
    BY <1>4 DEF Lock
  <2>2. new \in Nat /\ <<p, new>> \notin held
    BY <1>0, <1>a DEF TypeOK
  <2>3. CASE FlockGranted /\ held' = held \cup {<<p, new>>} /\ Goto(p, "read")
    <3>1. held' = {<<p, new>>} /\ held = {}
      BY <2>3 DEF FlockGranted
    <3>2. \A q \in Procs \ {p} : ~InSection(q)
      BY <3>1, <1>a
    <3>3. \A q \in Procs \ {p} : ~InSection(q)'
      BY <3>1, <3>2, <2>1, <2>3, <1>0 DEF InSection, Goto, TypeOK
    <3>4. fd'[p] = new /\ leaked'[p] = new
      BY <2>1, <1>0 DEF TypeOK
    <3>5. QED
      BY <3>1, <3>3, <3>4, <2>2 DEF DescriptorsOpen, MutualExclusion
  <2>4. CASE UNCHANGED held /\ Goto(p, "unlock")
    <3>1. fd'[p] = new /\ pc'[p] = "unlock"
      BY <2>1, <2>4, <1>0 DEF TypeOK, Goto
    <3>2. ~InSection(p)'
      BY <3>1, <2>2, <2>4 DEF InSection
    <3>3. \A q \in Procs \ {p} : InSection(q)' => InSection(q) /\ fd'[q] = fd[q]
      BY <2>1, <2>4, <1>0 DEF InSection, Goto, TypeOK
    <3>4. \A h \in held : leaked'[h[1]] >= leaked[h[1]] /\ leaked[h[1]] \in Nat
                          /\ leaked'[h[1]] \in Nat /\ h[2] \in Nat
      BY <2>1, <1>0, <1>a DEF TypeOK
    <3>5. QED
      BY <3>2, <3>3, <3>4, <1>a, <2>4 DEF DescriptorsOpen, MutualExclusion
  <2>5. QED
    BY <1>4, <2>3, <2>4 DEF Lock, FailTo
<1>5. ASSUME NEW p \in Procs, SectionStep(p) PROVE DescriptorsOpen' /\ MutualExclusion'
  <2>1. \A q \in Procs : InSection(q)' => InSection(q)
    BY <1>5, <1>0, <1>a, SectionStepShape DEF InSection, Section
  <2>2. QED
    BY <1>5, <1>0, <1>a, <2>1, SectionStepShape DEF DescriptorsOpen, MutualExclusion
<1>6. ASSUME NEW p \in Procs, Unlock(p) PROVE DescriptorsOpen' /\ MutualExclusion'
  <2>1. held' \subseteq held /\ held \ held' \subseteq {<<p, fd[p]>>}
    BY <1>6 DEF Unlock, Released
  <2>2. ~InSection(p)'
    BY <1>6, <1>0 DEF Unlock, Goto, InSection, TypeOK
  <2>3. \A q \in Procs \ {p} : InSection(q)' => InSection(q) /\ fd'[q] = fd[q]
    BY <1>6, <1>0, <2>1 DEF Unlock, Goto, InSection, TypeOK
  <2>4. \A q \in Procs \ {p} : InSection(q)' => held' = {<<q, fd'[q]>>}
    BY <2>1, <2>3, <1>a
  <2>5. QED
    BY <1>6, <2>1, <2>2, <2>4, <1>a DEF Unlock, DescriptorsOpen, MutualExclusion
<1>7. ASSUME NEW p \in Procs, Exit(p) PROVE DescriptorsOpen' /\ MutualExclusion'
  <2>1. held' = {h \in held : h[1] # p} /\ leaked' = [leaked EXCEPT ![p] = 0]
    BY <1>7 DEF Exit
  <2>2. ~InSection(p)'
    BY <1>7, <1>0 DEF Exit, Goto, InSection, TypeOK
  <2>3. \A q \in Procs \ {p} : InSection(q)' => InSection(q) /\ fd'[q] = fd[q]
    BY <1>7, <1>0, <2>1 DEF Exit, Goto, InSection, TypeOK
  <2>4. \A q \in Procs \ {p} : InSection(q)' => held' = {<<q, fd'[q]>>}
    BY <2>1, <2>3, <1>a
  <2>5. \A h \in held' : h[2] <= leaked'[h[1]]
    BY <2>1, <1>0, <1>a DEF TypeOK
  <2>6. QED
    BY <2>2, <2>4, <2>5 DEF DescriptorsOpen, MutualExclusion
<1>8. CASE Reboot
  BY <1>8 DEF Reboot, DescriptorsOpen, MutualExclusion, InSection
<1>9. CASE UNCHANGED vars
  BY <1>9, <1>a DEF vars, kernelVars, localVars, DescriptorsOpen,
     MutualExclusion, InSection
<1>10. QED
  BY <1>1, <1>2, <1>3, <1>4, <1>5, <1>6, <1>7, <1>8, <1>9
  DEF Next, Step, SectionStep

(* At most one process is in its section, and it holds the lock.           *)
THEOREM SectionsExclude == Spec => []MutualExclusion
<1>1. LockInv => MutualExclusion
  BY DEF LockInv
<1>2. QED
  BY <1>1, InitLock, NextLock, PTL DEF Spec

-----------------------------------------------------------------------------
(* While a call is in its section nobody else is, and the steps of calls   *)
(* outside their sections touch neither the variables nor the mount nor    *)
(* the attributes.                                                         *)
LEMMA AloneInSection ==
  ASSUME LockInv, NEW p \in Procs, pc[p] \in Section,
         NEW q \in Procs, pc[q] \in Section
  PROVE  p = q
<1>1. held = {<<p, fd[p]>>} /\ held = {<<q, fd[q]>>}
  BY DEF LockInv, MutualExclusion, InSection, Section
<1>2. <<p, fd[p]>> = <<q, fd[q]>>
  BY <1>1, Zenon
<1>3. QED
  BY <1>2

(* Every step is one of a section, one that ends with the process or the   *)
(* machine, or one of a call outside its section.                          *)
OutsideStep(p) ==
  /\ UNCHANGED <<mountFlags, attrs, contents, leftover>>
  /\ pc'[p] \notin Section \ {"read"}
  /\ pc[p] \notin Section
  /\ \A q \in Procs \ {p} :
       /\ pc'[q] = pc[q]
       /\ job'[q] = job[q]
       /\ buf'[q] = buf[q]
       /\ mountGuard'[q] = mountGuard[q]
       /\ attrGuard'[q] = attrGuard[q]
       /\ seenAttrs'[q] = seenAttrs[q]

LEMMA StepKinds ==
  ASSUME TypeOK, [Next]_vars
  PROVE  \/ \E p \in Procs : SectionStep(p) \/ OutsideStep(p) \/ Exit(p)
         \/ Reboot
         \/ UNCHANGED vars
<1> USE DEF TypeOK, kernelVars, localVars, Goto, FailTo, Section
<1>1. ASSUME NEW p \in Procs, Launch(p) PROVE OutsideStep(p)
  BY <1>1 DEF Launch, OutsideStep
<1>2. ASSUME NEW p \in Procs, StartWrite(p) PROVE OutsideStep(p)
  BY <1>2 DEF StartWrite, OutsideStep
<1>3. ASSUME NEW p \in Procs, LockOpenFails(p) PROVE OutsideStep(p)
  BY <1>3 DEF LockOpenFails, OutsideStep
<1>4. ASSUME NEW p \in Procs, Lock(p) PROVE OutsideStep(p)
  BY <1>4 DEF Lock, OutsideStep
<1>5. ASSUME NEW p \in Procs, Unlock(p) PROVE OutsideStep(p)
  BY <1>5 DEF Unlock, OutsideStep
<1>6. QED
  BY <1>1, <1>2, <1>3, <1>4, <1>5 DEF Next, Step, SectionStep

-----------------------------------------------------------------------------
LEMMA InitBuffer == Init => BufferFresh
  BY DEF Init, BufferFresh

(* The buffer stays fresh: the only step that changes contents belongs to  *)
(* the one call in its section, and takes it past its write.               *)
LEMMA NextBuffer == LockInv /\ BufferFresh /\ [Next]_vars => BufferFresh'
<1> SUFFICES ASSUME LockInv, BufferFresh, [Next]_vars PROVE BufferFresh'
  OBVIOUS
<1>0. TypeOK
  BY DEF LockInv
<1> DEFINE Fresh(p) == pc[p] \in Section \ {"read", "restoreGet", "restoreSet", "remountRo"}
                         => buf[p] = Patched(contents[job[p].file], job[p])
<1>1. (\A p \in Procs : Fresh(p)) /\ (BufferFresh' <=> \A p \in Procs : Fresh(p)')
  BY DEF BufferFresh, Section
<1>2. ASSUME NEW p \in Procs, SectionStep(p) PROVE \A q \in Procs : Fresh(q)'
  <2>1. ASSUME NEW q \in Procs \ {p} PROVE Fresh(q)'
    <3>1. pc[q] \notin Section
      BY <1>2, <1>0, <2>1, SectionStepShape, AloneInSection
    <3>2. QED
      BY <1>2, <1>0, <2>1, <3>1, SectionStepShape
  <2>2. Fresh(p)'
    <3>1. CASE ReadAndPatch(p)
      <4>1. job'[p] = job[p] /\ contents' = contents
        BY <3>1 DEF ReadAndPatch, kernelVars
      <4>2. CASE buf' = [buf EXCEPT ![p] = Patched(contents[job[p].file], job[p])]
        BY <1>0, <4>1, <4>2 DEF TypeOK
      <4>3. CASE Goto(p, "unlock")
        BY <1>0, <4>3 DEF TypeOK, Goto, Section
      <4>4. QED
        BY <3>1, <4>2, <4>3 DEF ReadAndPatch, FailTo
    <3>2. CASE WriteAll(p)
      BY <3>2, <1>0 DEF WriteAll, Goto, FailTo, AfterWrite, AfterAttrGuard,
         TypeOK, Section
    <3>3. CASE /\ UNCHANGED <<contents, buf, job>>
               /\ pc[p] \in Section \ {"read", "restoreGet", "restoreSet", "remountRo"}
      BY <3>3, <1>1
    <3>4. CASE pc'[p] \notin Section \ {"read", "restoreGet", "restoreSet", "remountRo"}
      BY <3>4
    <3>5. CASE GetMountFlags(p) BY <3>5, <3>3 DEF GetMountFlags, kernelVars, Section
    <3>6. CASE RemountRw(p) BY <3>6, <3>3 DEF RemountRw, Section
    <3>7. CASE GetAttrs(p) BY <3>7, <3>3 DEF GetAttrs, kernelVars, Section
    <3>8. CASE ClearGet(p) BY <3>8, <3>3 DEF ClearGet, kernelVars, Section
    <3>9. CASE ClearSet(p) BY <3>9, <3>3 DEF ClearSet, Section
    <3>10. CASE Create(p) BY <3>10, <3>3 DEF Create, kernelVars, localVars, Section
    <3>11. CASE RestoreGet(p) \/ RestoreSet(p) \/ RemountRo(p)
      BY <3>11, <3>4, <1>0 DEF RestoreGet, RestoreSet, RemountRo, Goto,
         AfterAttrGuard, TypeOK, Section
    <3>12. QED
      BY <1>2, <3>1, <3>2, <3>5, <3>6, <3>7, <3>8, <3>9, <3>10, <3>11 DEF SectionStep
  <2>3. QED
    BY <2>1, <2>2
<1>3. ASSUME NEW p \in Procs, OutsideStep(p) PROVE \A q \in Procs : Fresh(q)'
  BY <1>1, <1>3 DEF OutsideStep, Section
<1>4. ASSUME NEW p \in Procs, Exit(p) PROVE \A q \in Procs : Fresh(q)'
  BY <1>0, <1>1, <1>4 DEF Exit, Goto, TypeOK, Section
<1>5. CASE Reboot
  BY <1>1, <1>5 DEF Reboot, Section
<1>6. CASE UNCHANGED vars
  BY <1>1, <1>6 DEF vars, kernelVars, localVars
<1>7. QED
  BY <1>0, <1>1, <1>2, <1>3, <1>4, <1>5, <1>6, StepKinds

(* No update is lost: what a call is about to write is the current         *)
(* contents with its own field patched in.                                 *)
THEOREM NoLostUpdate == Spec => []BufferFresh
<1>1. Init => LockInv /\ BufferFresh
  BY InitLock, InitBuffer
<1>2. LockInv /\ BufferFresh /\ [Next]_vars => (LockInv /\ BufferFresh)'
  BY NextLock, NextBuffer
<1>3. QED
  BY <1>1, <1>2, PTL DEF Spec

-----------------------------------------------------------------------------
LEMMA InitGuards == Init => GuardsKnown
  BY DEF Init, GuardsKnown, MountKnown, AttrsKnown

(* What a call in its section knows about the mount and its file stays     *)
(* true: its own steps keep it, and nobody else is in a section.           *)
LEMMA NextGuards == LockInv /\ GuardsKnown /\ [Next]_vars => GuardsKnown'
<1> SUFFICES ASSUME LockInv, GuardsKnown, [Next]_vars PROVE GuardsKnown'
  OBVIOUS
<1>0. TypeOK
  BY DEF LockInv
<1> DEFINE Known(p) == MountKnown(p) /\ AttrsKnown(p)
<1>1. \A p \in Procs : Known(p)
  BY DEF GuardsKnown
<1>2. ASSUME NEW p \in Procs, SectionStep(p) PROVE \A q \in Procs : Known(q)'
  <2>1. ASSUME NEW q \in Procs \ {p} PROVE Known(q)'
    <3>1. pc[q] \notin Section
      BY <1>2, <1>0, <2>1, SectionStepShape, AloneInSection
    <3>2. pc'[q] \notin Section
      BY <1>2, <1>0, <2>1, <3>1, SectionStepShape
    <3>3. QED
      BY <3>2 DEF Section, MountKnown, AttrsKnown
  <2>2. /\ job'[p] = job[p]
        /\ job[p].file \in Files
        /\ pc[p] \in Section
    BY <1>0, <1>2, SectionStepShape, JobType DEF TypeOK, InCall, Section
  <2> DEFINE f == job[p].file
  <2>k. Known(p) /\ \A r : pc' = [pc EXCEPT ![p] = r] => pc'[p] = r
    BY <1>0, <1>1 DEF TypeOK
  <2> USE <2>2 DEF Goto, FailTo
  <2>3. ASSUME ReadAndPatch(p) PROVE Known(p)'
    <3>1. pc'[p] \in {"mounts", "unlock"}
      BY <2>3, <2>k DEF ReadAndPatch
    <3>2. QED
      BY <3>1 DEF MountKnown, AttrsKnown
  <2>4. ASSUME GetMountFlags(p) PROVE Known(p)'
    <3>1. /\ UNCHANGED mountFlags
          /\ \/ pc'[p] = "unlock"
             \/ /\ mountGuard'[p] = ToMsFlags(mountFlags)
                /\ \/ pc'[p] = "remountRw" /\ "ro" \in mountFlags
                   \/ pc'[p] = "getAttrs" /\ "ro" \notin mountFlags
      BY <2>4, <2>k, <1>0 DEF GetMountFlags, kernelVars, TypeOK
    <3>2. QED
      BY <3>1, MountAssumption DEF MountKnown, AttrsKnown, ToMsFlags
  <2>5. ASSUME RemountRw(p) PROVE Known(p)'
    <3>1. \/ pc'[p] = "unlock"
          \/ /\ pc'[p] = "getAttrs" /\ UNCHANGED mountGuard
             /\ mountFlags' = mountGuard[p] \ {"ro"}
      BY <2>5, <2>k DEF RemountRw
    <3>2. mountGuard[p] \subseteq MsFlags
      BY <1>0 DEF TypeOK
    <3>3. QED
      BY <3>1, <3>2 DEF MountKnown, AttrsKnown, ToMsFlags
  <2>6. ASSUME GetAttrs(p) PROVE Known(p)'
    <3>1. UNCHANGED <<mountFlags, attrs, mountGuard>>
      BY <2>6 DEF GetAttrs, kernelVars
    <3>2. \/ pc'[p] = AfterAttrGuard(p)
          \/ /\ attrGuard'[p] = attrs[f]
             /\ \/ pc'[p] = "clearGet" /\ "immutable" \in attrs[f]
                \/ pc'[p] = "create" /\ "immutable" \notin attrs[f]
      BY <2>6, <2>k, <1>0 DEF GetAttrs, TypeOK
    <3>3. ToMsFlags(mountFlags) = mountGuard[p] \ {"ro"}
      BY <2>6, <2>k DEF GetAttrs, MountKnown
    <3>4. QED
      BY <3>1, <3>2, <3>3 DEF MountKnown, AttrsKnown, AfterAttrGuard
  <2>7. ASSUME ClearGet(p) PROVE Known(p)'
    <3>1. UNCHANGED <<mountFlags, attrs, mountGuard>>
      BY <2>7 DEF ClearGet, kernelVars
    <3>2. \/ pc'[p] = AfterAttrGuard(p)
          \/ /\ pc'[p] = "clearSet"
             /\ seenAttrs'[p] = attrs[f]
             /\ UNCHANGED attrGuard
      BY <2>7, <2>k, <1>0 DEF ClearGet, TypeOK
    <3>3. /\ ToMsFlags(mountFlags) = mountGuard[p] \ {"ro"}
          /\ "immutable" \in attrGuard[p] /\ attrs[f] = attrGuard[p]
      BY <2>7, <2>k DEF ClearGet, MountKnown, AttrsKnown
    <3>4. QED
      BY <3>1, <3>2, <3>3 DEF MountKnown, AttrsKnown, AfterAttrGuard
  <2>8. ASSUME ClearSet(p) PROVE Known(p)'
    <3>1. UNCHANGED <<mountFlags, mountGuard>>
      BY <2>8 DEF ClearSet
    <3>2. \/ pc'[p] = AfterAttrGuard(p)
          \/ /\ pc'[p] = "create"
             /\ attrs'[f] = seenAttrs[p] \ {"immutable"}
             /\ UNCHANGED attrGuard
      BY <2>8, <2>k, <1>0 DEF ClearSet, TypeOK
    <3>3. /\ ToMsFlags(mountFlags) = mountGuard[p] \ {"ro"}
          /\ attrs[f] = attrGuard[p] /\ seenAttrs[p] = attrs[f]
      BY <2>8, <2>k DEF ClearSet, MountKnown, AttrsKnown
    <3>4. QED
      BY <3>1, <3>2, <3>3 DEF MountKnown, AttrsKnown, AfterAttrGuard
  <2>w. ASSUME UNCHANGED <<mountFlags, attrs, mountGuard, attrGuard>>,
               pc[p] \in {"create", "write"},
               pc'[p] \in {"write", AfterWrite(p)}
        PROVE  Known(p)'
    BY <2>k, <2>w DEF MountKnown, AttrsKnown, AfterWrite, AfterAttrGuard
  <2>9. ASSUME Create(p) PROVE Known(p)'
    BY <2>9, <2>k, <2>w DEF Create, kernelVars, localVars
  <2>10. ASSUME WriteAll(p) PROVE Known(p)'
    BY <2>10, <2>k, <2>w DEF WriteAll, localVars
  <2>11. ASSUME RestoreGet(p) PROVE Known(p)'
    <3>1. UNCHANGED <<mountFlags, attrs, mountGuard, attrGuard>>
      BY <2>11 DEF RestoreGet, kernelVars
    <3>2. \/ pc'[p] = AfterAttrGuard(p)
          \/ pc'[p] = "restoreSet" /\ seenAttrs'[p] = attrs[f]
      BY <2>11, <2>k, <1>0 DEF RestoreGet, TypeOK
    <3>3. /\ ToMsFlags(mountFlags) = mountGuard[p] \ {"ro"}
          /\ "immutable" \in attrGuard[p] /\ attrs[f] = attrGuard[p] \ {"immutable"}
      BY <2>11, <2>k DEF RestoreGet, MountKnown, AttrsKnown
    <3>4. QED
      BY <3>1, <3>2, <3>3 DEF MountKnown, AttrsKnown, AfterAttrGuard
  <2>12. ASSUME RestoreSet(p) PROVE Known(p)'
    <3>1. UNCHANGED <<mountFlags, mountGuard>> /\ pc'[p] = AfterAttrGuard(p)
      BY <2>12, <2>k DEF RestoreSet, localVars
    <3>2. ToMsFlags(mountFlags) = mountGuard[p] \ {"ro"}
      BY <2>12, <2>k DEF RestoreSet, MountKnown
    <3>3. QED
      BY <3>1, <3>2 DEF MountKnown, AttrsKnown, AfterAttrGuard
  <2>13. ASSUME RemountRo(p) PROVE Known(p)'
    <3>1. pc'[p] = "unlock"
      BY <2>13, <2>k DEF RemountRo
    <3>2. QED
      BY <3>1 DEF MountKnown, AttrsKnown
  <2>14. Known(p)'
    BY <1>2, <2>3, <2>4, <2>5, <2>6, <2>7, <2>8, <2>9, <2>10, <2>11, <2>12,
       <2>13 DEF SectionStep
  <2>15. QED
    BY <2>1, <2>14
<1>3. ASSUME NEW p \in Procs, OutsideStep(p) PROVE \A q \in Procs : Known(q)'
  <2>1. Known(p)'
    BY <1>3 DEF OutsideStep, Section, MountKnown, AttrsKnown
  <2>2. ASSUME NEW q \in Procs \ {p} PROVE Known(q)'
    BY <1>1, <1>3, <2>2 DEF OutsideStep, MountKnown, AttrsKnown
  <2>3. QED
    BY <2>1, <2>2
<1>4. ASSUME NEW p \in Procs, Exit(p) PROVE \A q \in Procs : Known(q)'
  <2>1. Known(p)'
    BY <1>0, <1>4 DEF Exit, Goto, TypeOK, MountKnown, AttrsKnown
  <2>2. ASSUME NEW q \in Procs \ {p} PROVE Known(q)'
    BY <1>0, <1>1, <1>4, <2>2 DEF Exit, Goto, TypeOK, MountKnown, AttrsKnown
  <2>3. QED
    BY <2>1, <2>2
<1>5. CASE Reboot
  BY <1>5 DEF Reboot, GuardsKnown, MountKnown, AttrsKnown
<1>6. CASE UNCHANGED vars
  BY <1>6, <1>1 DEF vars, kernelVars, localVars, GuardsKnown, MountKnown, AttrsKnown
<1>7. QED
  BY <1>0, <1>2, <1>3, <1>4, <1>5, <1>6, StepKinds DEF GuardsKnown

(* File::create is not refused: the call that reaches it has the mount     *)
(* and the file open, and nobody has closed them again.                    *)
THEOREM CreateGoesThrough == Spec => []CreateNotRefused
<1>1. Init => LockInv /\ GuardsKnown
  BY InitLock, InitGuards
<1>2. LockInv /\ GuardsKnown /\ [Next]_vars => (LockInv /\ GuardsKnown)'
  BY NextLock, NextGuards
<1>3. GuardsKnown => CreateNotRefused
  BY MountAssumption
  DEF GuardsKnown, MountKnown, AttrsKnown, CreateNotRefused, Refused, ToMsFlags
<1>4. QED
  BY <1>1, <1>2, <1>3, PTL DEF Spec

-----------------------------------------------------------------------------
Windowed ==
  {"remountRw", "getAttrs", "clearGet", "clearSet", "create", "write",
   "restoreGet", "restoreSet", "remountRo"}

FromBoot(p) ==
  /\ pc[p] \in Windowed => mountGuard[p] \in {ToMsFlags(BootMount), ToMsFlags(BootMount) \ {"ro"}}
  /\ pc[p] \in {"clearGet", "clearSet", "create", "write", "restoreGet",
                "restoreSet"}
       => attrGuard[p] \in {BootAttrs[job[p].file],
                            BootAttrs[job[p].file] \ {"immutable"}}

LEMMA InitFlags == Init => FlagsInv
  BY DEF Init, FlagsInv, OtherFlagsKept, ToMsFlags, GuardsFromBoot

(* The guards put back what the boot had, "ro" and "immutable" aside.      *)
LEMMA NextFlags ==
  LockInv /\ GuardsKnown /\ FlagsInv /\ [Next]_vars => FlagsInv'
<1> SUFFICES ASSUME LockInv, GuardsKnown, FlagsInv, [Next]_vars PROVE FlagsInv'
  OBVIOUS
<1>0. TypeOK /\ OtherFlagsKept
  BY DEF LockInv, FlagsInv
<1>1. (\A p \in Procs : FromBoot(p))
      /\ (GuardsFromBoot' <=> \A p \in Procs : FromBoot(p)')
  BY DEF FlagsInv, GuardsFromBoot, FromBoot, Windowed
<1>2. ASSUME NEW p \in Procs, SectionStep(p)
      PROVE  OtherFlagsKept' /\ \A q \in Procs : FromBoot(q)'
  <2>1. ASSUME NEW q \in Procs \ {p} PROVE FromBoot(q)'
    <3>1. pc[q] \notin Section
      BY <1>2, <1>0, <2>1, SectionStepShape, AloneInSection
    <3>2. pc'[q] \notin Section
      BY <1>2, <1>0, <2>1, <3>1, SectionStepShape
    <3>3. QED
      BY <3>2 DEF Section, FromBoot, Windowed
  <2> DEFINE f == job[p].file
             B == BootAttrs[f]
  <2>2. UNCHANGED job /\ f \in Files
    BY <1>0, <1>2, SectionStepShape, JobType DEF TypeOK, InCall, Section
  <2>k. FromBoot(p) /\ \A r : pc' = [pc EXCEPT ![p] = r] => pc'[p] = r
    BY <1>0, <1>1 DEF TypeOK
  <2>m. mountFlags \in {BootMount, ToMsFlags(BootMount), ToMsFlags(BootMount) \ {"ro"}}
        /\ ("ro" \notin BootMount => mountFlags = BootMount)
        /\ \A g \in Files : attrs[g] \in {BootAttrs[g], BootAttrs[g] \ {"immutable"}}
    BY <1>0 DEF OtherFlagsKept, ToMsFlags
  <2>s. ASSUME UNCHANGED <<mountFlags, attrs>> PROVE OtherFlagsKept'
    BY <2>m, <2>s DEF OtherFlagsKept, ToMsFlags
  <2>u. ASSUME UNCHANGED <<mountGuard, attrGuard>>,
               pc[p] \in Windowed, pc'[p] \in Windowed \cup {"unlock"},
               pc'[p] \in {"clearGet", "clearSet", "create", "write",
                           "restoreGet", "restoreSet"}
                 => pc[p] \in {"clearGet", "clearSet", "create", "write",
                               "restoreGet", "restoreSet"}
        PROVE  FromBoot(p)'
    BY <2>k, <2>u, <2>2 DEF FromBoot, Windowed
  <2> USE <2>2 DEF Goto, FailTo
  <2>3. ASSUME ReadAndPatch(p) PROVE OtherFlagsKept' /\ FromBoot(p)'
    <3>1. UNCHANGED <<mountFlags, attrs>> /\ pc'[p] \in {"mounts", "unlock"}
      BY <2>3, <2>k DEF ReadAndPatch, kernelVars
    <3>2. QED
      BY <3>1, <2>s DEF FromBoot, Windowed
  <2>4. ASSUME GetMountFlags(p) PROVE OtherFlagsKept' /\ FromBoot(p)'
    <3>1. /\ UNCHANGED <<mountFlags, attrs>>
          /\ \/ pc'[p] = "unlock"
             \/ /\ mountGuard'[p] = ToMsFlags(mountFlags)
                /\ pc'[p] \in {"remountRw", "getAttrs"}
      BY <2>4, <2>k, <1>0 DEF GetMountFlags, kernelVars, TypeOK
    <3>2. ToMsFlags(mountFlags) \in {ToMsFlags(BootMount), ToMsFlags(BootMount) \ {"ro"}}
      BY <2>m DEF ToMsFlags
    <3>3. QED
      BY <3>1, <3>2, <2>s DEF FromBoot, Windowed
  <2>5. ASSUME RemountRw(p) PROVE OtherFlagsKept' /\ FromBoot(p)'
    <3>1. /\ UNCHANGED attrs
          /\ mountFlags' \in {mountFlags, mountGuard[p] \ {"ro"}}
          /\ \/ pc'[p] = "unlock"
             \/ pc'[p] = "getAttrs" /\ UNCHANGED mountGuard
      BY <2>5, <2>k DEF RemountRw
    <3>2. mountGuard[p] \in {ToMsFlags(BootMount), ToMsFlags(BootMount) \ {"ro"}}
      BY <2>5, <2>k DEF RemountRw, FromBoot, Windowed
    <3>3. "ro" \in BootMount
      BY <2>5, <3>2 DEF RemountRw, GuardsKnown, MountKnown, ToMsFlags
    <3>4. mountGuard[p] \ {"ro"} = ToMsFlags(BootMount) \ {"ro"}
      BY <3>2
    <3>5. OtherFlagsKept'
      BY <3>1, <3>3, <3>4, <2>m DEF OtherFlagsKept, ToMsFlags
    <3>6. QED
      BY <3>1, <3>2, <3>5 DEF FromBoot, Windowed
  <2>6. ASSUME GetAttrs(p) PROVE OtherFlagsKept' /\ FromBoot(p)'
    <3>1. /\ UNCHANGED <<mountFlags, attrs, mountGuard>>
          /\ pc[p] = "getAttrs"
          /\ \/ pc'[p] \in {"remountRo", "unlock"}
             \/ attrGuard'[p] = attrs[f] /\ pc'[p] \in {"clearGet", "create"}
      BY <2>6, <2>k, <1>0 DEF GetAttrs, kernelVars, TypeOK, AfterAttrGuard
    <3>2. QED
      BY <3>1, <2>s, <2>m, <2>k DEF FromBoot, Windowed
  <2>7. ASSUME ClearGet(p) PROVE OtherFlagsKept' /\ FromBoot(p)'
    <3>1. /\ UNCHANGED <<mountFlags, attrs, mountGuard>>
          /\ pc[p] = "clearGet"
          /\ \/ pc'[p] \in {"remountRo", "unlock"}
             \/ UNCHANGED attrGuard /\ pc'[p] = "clearSet"
      BY <2>7, <2>k DEF ClearGet, kernelVars, AfterAttrGuard
    <3>2. QED
      BY <3>1, <2>s, <2>k DEF FromBoot, Windowed
  <2>8. ASSUME ClearSet(p) PROVE OtherFlagsKept' /\ FromBoot(p)'
    <3>1. /\ UNCHANGED <<mountFlags, mountGuard>>
          /\ pc[p] = "clearSet"
          /\ \/ pc'[p] \in {"remountRo", "unlock"} /\ UNCHANGED attrs
             \/ /\ UNCHANGED attrGuard /\ pc'[p] = "create"
                /\ attrs' = [attrs EXCEPT ![f] = seenAttrs[p] \ {"immutable"}]
      BY <2>8, <2>k DEF ClearSet, AfterAttrGuard
    <3>2. FromBoot(p)'
      BY <3>1, <2>k DEF FromBoot, Windowed
    <3>3. seenAttrs[p] = attrs[f]
      BY <3>1 DEF GuardsKnown, AttrsKnown
    <3>4. attrs[f] \ {"immutable"} \in {B, B \ {"immutable"}}
      BY <2>m
    <3>5. OtherFlagsKept'
      BY <3>1, <3>3, <3>4, <2>m, <1>0 DEF OtherFlagsKept, ToMsFlags, TypeOK
    <3>6. QED
      BY <3>2, <3>5
  <2>9. ASSUME Create(p) PROVE OtherFlagsKept' /\ FromBoot(p)'
    BY <2>9, <2>k, <2>s, <2>u DEF Create, kernelVars, localVars, AfterWrite,
       AfterAttrGuard, Windowed
  <2>10. ASSUME WriteAll(p) PROVE OtherFlagsKept' /\ FromBoot(p)'
    BY <2>10, <2>k, <2>s, <2>u DEF WriteAll, localVars, AfterWrite,
       AfterAttrGuard, Windowed
  <2>11. ASSUME RestoreGet(p) PROVE OtherFlagsKept' /\ FromBoot(p)'
    BY <2>11, <2>k, <2>s, <2>u DEF RestoreGet, kernelVars, AfterAttrGuard, Windowed
  <2>12. ASSUME RestoreSet(p) PROVE OtherFlagsKept' /\ FromBoot(p)'
    <3>1. /\ UNCHANGED <<mountFlags, mountGuard, attrGuard>>
          /\ pc[p] = "restoreSet" /\ pc'[p] \in {"remountRo", "unlock"}
          /\ attrs' \in {attrs, [attrs EXCEPT ![f] = seenAttrs[p] \cup {"immutable"}]}
      BY <2>12, <2>k DEF RestoreSet, Restored, AfterAttrGuard, localVars
    <3>2. seenAttrs[p] \cup {"immutable"} = attrGuard[p]
      BY <3>1 DEF GuardsKnown, AttrsKnown
    <3>3. attrGuard[p] \in {B, B \ {"immutable"}}
      BY <3>1, <2>k DEF FromBoot
    <3>4. OtherFlagsKept'
      BY <3>1, <3>2, <3>3, <2>m, <1>0 DEF OtherFlagsKept, ToMsFlags, TypeOK
    <3>5. QED
      BY <3>1, <3>4, <2>u DEF Windowed
  <2>13. ASSUME RemountRo(p) PROVE OtherFlagsKept' /\ FromBoot(p)'
    <3>1. /\ UNCHANGED <<attrs, mountGuard>>
          /\ pc[p] = "remountRo" /\ pc'[p] = "unlock"
          /\ mountFlags' \in {mountFlags, mountGuard[p]}
      BY <2>13, <2>k DEF RemountRo, localVars
    <3>2. mountGuard[p] \in {ToMsFlags(BootMount), ToMsFlags(BootMount) \ {"ro"}}
      BY <3>1, <2>k DEF FromBoot, Windowed
    <3>3. "ro" \in BootMount
      BY <3>1, <3>2 DEF GuardsKnown, MountKnown, ToMsFlags
    <3>4. QED
      BY <3>1, <3>2, <3>3, <2>m DEF OtherFlagsKept, ToMsFlags, FromBoot, Windowed
  <2>14. OtherFlagsKept' /\ FromBoot(p)'
    BY <1>2, <2>3, <2>4, <2>5, <2>6, <2>7, <2>8, <2>9, <2>10, <2>11, <2>12,
       <2>13 DEF SectionStep
  <2>15. QED
    BY <2>1, <2>14
<1>3. ASSUME NEW p \in Procs, OutsideStep(p)
      PROVE  OtherFlagsKept' /\ \A q \in Procs : FromBoot(q)'
  <2>1. FromBoot(p)'
    BY <1>3 DEF OutsideStep, Section, FromBoot, Windowed
  <2>2. ASSUME NEW q \in Procs \ {p} PROVE FromBoot(q)'
    BY <1>1, <1>3, <2>2 DEF OutsideStep, FromBoot
  <2>3. OtherFlagsKept'
    BY <1>0, <1>3 DEF OutsideStep, OtherFlagsKept, ToMsFlags
  <2>4. QED
    BY <2>1, <2>2, <2>3
<1>4. ASSUME NEW p \in Procs, Exit(p)
      PROVE  OtherFlagsKept' /\ \A q \in Procs : FromBoot(q)'
  <2>1. FromBoot(p)'
    BY <1>0, <1>4 DEF Exit, Goto, TypeOK, FromBoot, Windowed
  <2>2. ASSUME NEW q \in Procs \ {p} PROVE FromBoot(q)'
    BY <1>0, <1>1, <1>4, <2>2 DEF Exit, Goto, TypeOK, FromBoot
  <2>3. OtherFlagsKept'
    BY <1>0, <1>4 DEF Exit, OtherFlagsKept, ToMsFlags
  <2>4. QED
    BY <2>1, <2>2, <2>3
<1>5. CASE Reboot
  BY <1>5 DEF Reboot, FlagsInv, OtherFlagsKept, ToMsFlags, GuardsFromBoot
<1>6. CASE UNCHANGED vars
  BY <1>6, <1>0, <1>1 DEF vars, kernelVars, localVars, FlagsInv,
     OtherFlagsKept, ToMsFlags, FromBoot
<1>7. QED
  BY <1>0, <1>1, <1>2, <1>3, <1>4, <1>5, <1>6, StepKinds DEF FlagsInv

(* Whatever fails or crashes, the guards leave every attribute but         *)
(* "immutable" as it was, and every mount option but "ro" that to_ms_flags *)
(* knows; the others can only be lost, all at once, by the remount of a    *)
(* mount that booted read-only (efivarfs.rs:129-132).                      *)
THEOREM GuardsPreserveOthers == Spec => []OtherFlagsKept
<1>1. Init => LockInv /\ GuardsKnown /\ FlagsInv
  BY InitLock, InitGuards, InitFlags
<1>2. LockInv /\ GuardsKnown /\ FlagsInv /\ [Next]_vars
        => (LockInv /\ GuardsKnown /\ FlagsInv)'
  BY NextLock, NextGuards, NextFlags
<1>3. FlagsInv => OtherFlagsKept
  BY DEF FlagsInv
<1>4. QED
  BY <1>1, <1>2, <1>3, PTL DEF Spec

-----------------------------------------------------------------------------
MountClosed ==
  "ro" \in BootMount \ mountFlags
    => "mount" \in leftover \/ \E p \in Procs : MountWindow(p)

FileClosed(f) ==
  "immutable" \in BootAttrs[f] \ attrs[f]
    => f \in leftover \/ \E p \in Procs : AttrWindow(p) /\ job[p].file = f

(* What a step of the call in its section does to the mount: nothing, with *)
(* the window still open; or it closes it; or it opens its window.         *)
MountKept(p) ==
  \/ /\ UNCHANGED mountFlags
     /\ MountWindow(p) => MountWindow(p)' \/ "mount" \in leftover'
  \/ "ro" \in mountFlags'
  \/ MountWindow(p)'

FileKept(p) ==
  LET f == job[p].file
  IN  /\ \A g \in Files \ {f} : attrs'[g] = attrs[g]
      /\ \/ /\ attrs'[f] = attrs[f]
            /\ AttrWindow(p) => AttrWindow(p)' \/ f \in leftover'
         \/ "immutable" \in attrs'[f]
         \/ AttrWindow(p)'

LEMMA SectionStepCloses ==
  ASSUME LockInv, GuardsKnown, NEW p \in Procs, SectionStep(p)
  PROVE  MountKept(p) /\ FileKept(p) /\ leftover \subseteq leftover'
<1>0. TypeOK
  BY DEF LockInv
<1> DEFINE f == job[p].file
<1>1. UNCHANGED job /\ f \in Files
  BY <1>0, SectionStepShape, JobType DEF TypeOK, InCall, Section
<1>k. MountKnown(p) /\ AttrsKnown(p)
      /\ \A r : pc' = [pc EXCEPT ![p] = r] => pc'[p] = r
  BY <1>0 DEF GuardsKnown, TypeOK
<1> USE <1>1, <1>k DEF MountKept, FileKept, MountWindow, AttrWindow, Goto,
        FailTo, kernelVars, localVars
<1>2. ASSUME ReadAndPatch(p) PROVE MountKept(p) /\ FileKept(p) /\ UNCHANGED leftover
  BY <1>2 DEF ReadAndPatch
<1>3. ASSUME GetMountFlags(p) PROVE MountKept(p) /\ FileKept(p) /\ UNCHANGED leftover
  BY <1>3 DEF GetMountFlags
<1>4. ASSUME RemountRw(p) PROVE MountKept(p) /\ FileKept(p) /\ UNCHANGED leftover
  BY <1>4 DEF RemountRw, MountKnown
<1>5. ASSUME GetAttrs(p) PROVE MountKept(p) /\ FileKept(p) /\ UNCHANGED leftover
  BY <1>5 DEF GetAttrs, AfterAttrGuard
<1>6. ASSUME ClearGet(p) PROVE MountKept(p) /\ FileKept(p) /\ UNCHANGED leftover
  BY <1>6 DEF ClearGet, AfterAttrGuard
<1>7. ASSUME ClearSet(p) PROVE MountKept(p) /\ FileKept(p) /\ UNCHANGED leftover
  <2>1. \A g \in Files \ {f} : attrs'[g] = attrs[g]
    BY <1>7, <1>0 DEF ClearSet, TypeOK
  <2>2. MountKept(p) /\ UNCHANGED leftover
    BY <1>7 DEF ClearSet, AfterAttrGuard
  <2>3. pc[p] = "clearSet" /\ "immutable" \in attrGuard[p]
    BY <1>7 DEF ClearSet, AttrsKnown
  <2>4. \/ UNCHANGED attrs
        \/ pc'[p] = "create" /\ UNCHANGED attrGuard
    BY <1>7 DEF ClearSet
  <2>5. QED
    BY <2>1, <2>2, <2>3, <2>4
<1>8. ASSUME Create(p) PROVE MountKept(p) /\ FileKept(p) /\ UNCHANGED leftover
  BY <1>8 DEF Create, AfterWrite, AfterAttrGuard
<1>9. ASSUME WriteAll(p) PROVE MountKept(p) /\ FileKept(p) /\ UNCHANGED leftover
  BY <1>9 DEF WriteAll, AfterWrite, AfterAttrGuard
<1>10. ASSUME RestoreGet(p)
       PROVE  MountKept(p) /\ FileKept(p) /\ leftover \subseteq leftover'
  BY <1>10 DEF RestoreGet, AfterAttrGuard
<1>11. ASSUME RestoreSet(p)
       PROVE  MountKept(p) /\ FileKept(p) /\ leftover \subseteq leftover'
  <2>1. \A g \in Files \ {f} : attrs'[g] = attrs[g]
    BY <1>11, <1>0 DEF RestoreSet, TypeOK
  <2>2. "immutable" \in attrs'[f] \/ (UNCHANGED attrs /\ f \in leftover')
    BY <1>11, <1>0 DEF RestoreSet, Restored, TypeOK
  <2>3. MountKept(p) /\ leftover \subseteq leftover'
    BY <1>11 DEF RestoreSet, AfterAttrGuard
  <2>4. QED
    BY <2>1, <2>2, <2>3
<1>12. ASSUME RemountRo(p)
       PROVE  MountKept(p) /\ FileKept(p) /\ leftover \subseteq leftover'
  BY <1>12 DEF RemountRo, MountKnown
<1>13. QED
  BY <1>2, <1>3, <1>4, <1>5, <1>6, <1>7, <1>8, <1>9, <1>10, <1>11, <1>12
  DEF SectionStep

LEMMA NextClosed ==
  LockInv /\ GuardsKnown /\ WritableOnlyInWindow /\ [Next]_vars
    => WritableOnlyInWindow'
<1> SUFFICES ASSUME LockInv, GuardsKnown, WritableOnlyInWindow, [Next]_vars
             PROVE  WritableOnlyInWindow'
  OBVIOUS
<1>0. TypeOK
  BY DEF LockInv
<1>1. /\ MountClosed /\ \A f \in Files : FileClosed(f)
      /\ MountClosed' /\ (\A f \in Files : FileClosed(f)') => WritableOnlyInWindow'
  BY DEF WritableOnlyInWindow, MountClosed, FileClosed
<1>2. ASSUME NEW p \in Procs, SectionStep(p)
      PROVE  MountClosed' /\ \A f \in Files : FileClosed(f)'
  <2>1. \A q \in Procs \ {p} : pc[q] \notin Section
    BY <1>2, <1>0, SectionStepShape, AloneInSection
  <2>2. \A q \in Procs \ {p} : ~MountWindow(q) /\ ~AttrWindow(q)
    BY <2>1 DEF MountWindow, AttrWindow, Section
  <2>3. /\ MountKept(p) /\ FileKept(p) /\ leftover \subseteq leftover'
        /\ UNCHANGED job
    BY <1>0, <1>2, SectionStepCloses, SectionStepShape
  <2>4. MountClosed'
    BY <1>1, <2>2, <2>3 DEF MountClosed, MountKept
  <2>5. ASSUME NEW f \in Files PROVE FileClosed(f)'
    BY <1>1, <2>2, <2>3 DEF FileClosed, FileKept
  <2>6. QED
    BY <2>4, <2>5
<1>3. ASSUME NEW p \in Procs, OutsideStep(p)
      PROVE  MountClosed' /\ \A f \in Files : FileClosed(f)'
  <2>1. \A q \in Procs : MountWindow(q) => MountWindow(q)'
    BY <1>3 DEF OutsideStep, MountWindow, Section
  <2>2. \A q \in Procs : AttrWindow(q) => AttrWindow(q)' /\ job'[q] = job[q]
    BY <1>3 DEF OutsideStep, AttrWindow, Section
  <2>3. QED
    BY <1>1, <1>3, <2>1, <2>2 DEF OutsideStep, MountClosed, FileClosed
<1>4. ASSUME NEW p \in Procs, Exit(p)
      PROVE  MountClosed' /\ \A f \in Files : FileClosed(f)'
  <2>1. /\ UNCHANGED <<mountFlags, attrs>>
        /\ leftover \subseteq leftover'
        /\ MountWindow(p) => "mount" \in leftover'
        /\ AttrWindow(p) => job[p].file \in leftover'
    BY <1>4 DEF Exit
  <2>2. \A q \in Procs \ {p} :
          /\ MountWindow(q) => MountWindow(q)'
          /\ AttrWindow(q) => AttrWindow(q)' /\ job'[q] = job[q]
    BY <1>0, <1>4 DEF Exit, Goto, TypeOK, MountWindow, AttrWindow
  <2>3. QED
    BY <1>1, <2>1, <2>2 DEF MountClosed, FileClosed
<1>5. CASE Reboot
  BY <1>5 DEF Reboot, WritableOnlyInWindow
<1>6. CASE UNCHANGED vars
  BY <1>6, <1>1 DEF vars, kernelVars, localVars, WritableOnlyInWindow,
     MountClosed, FileClosed, MountWindow, AttrWindow
<1>7. QED
  BY <1>0, <1>1, <1>2, <1>3, <1>4, <1>5, <1>6, StepKinds

(* efivarfs, and an immutable file, are open for writing only while a call *)
(* that will close them is under way, or after a crash or a failed drop.   *)
THEOREM WritableOnlyWhileGuarded == Spec => []WritableOnlyInWindow
<1>1. Init => LockInv /\ GuardsKnown /\ WritableOnlyInWindow
  BY InitLock, InitGuards DEF Init, WritableOnlyInWindow
<1>2. LockInv /\ GuardsKnown /\ WritableOnlyInWindow /\ [Next]_vars
        => (LockInv /\ GuardsKnown /\ WritableOnlyInWindow)'
  BY NextLock, NextGuards, NextClosed
<1>3. QED
  BY <1>1, <1>2, PTL DEF Spec

-----------------------------------------------------------------------------
LEMMA InitReleased == Init => LockReleased
  BY DEF Init, LockReleased

(* A lock outlives its call only when the unlock has failed, and never its *)
(* process: what is locked outside a section stays locked only because of  *)
(* such a failure.                                                         *)
LEMMA NextReleased == LockInv /\ LockReleased /\ [Next]_vars => LockReleased'
<1> SUFFICES ASSUME LockInv, LockReleased, [Next]_vars PROVE LockReleased'
  OBVIOUS
<1>0. TypeOK /\ \A q \in Procs : InSection(q) => held = {<<q, fd[q]>>}
  BY DEF LockInv, MutualExclusion
<1>1. \A h \in held :
        /\ h \in Procs \X (1..FdLimit)
        /\ pc[h[1]] # "down"
        /\ InSection(h[1]) \/ MayFail("unlock")
  BY <1>0 DEF TypeOK, LockReleased
<1>2. ASSUME NEW p \in Procs,
             UNCHANGED <<held, fd>>, \A q \in Procs \ {p} : pc'[q] = pc[q],
             pc[p] # "down" => pc'[p] # "down",
             InSection(p) => InSection(p)'
      PROVE  LockReleased'
  <2>1. \A q \in Procs : InSection(q) => InSection(q)'
    BY <1>2 DEF InSection
  <2>2. \A q \in Procs : pc[q] # "down" => pc'[q] # "down"
    BY <1>2
  <2>3. QED
    BY <1>1, <1>2, <2>1, <2>2 DEF LockReleased, MayFail
<1>3. ASSUME NEW p \in Procs, Launch(p) \/ StartWrite(p) \/ LockOpenFails(p)
      PROVE  LockReleased'
  BY <1>0, <1>2, <1>3 DEF Launch, StartWrite, LockOpenFails, FailTo, Goto,
     kernelVars, localVars, TypeOK, InSection
<1>4. ASSUME NEW p \in Procs, Lock(p) PROVE LockReleased'
  <2> DEFINE new == leaked[p] + 1
  <2>1. /\ pc[p] = "lock" /\ fd' = [fd EXCEPT ![p] = new]
        /\ \/ held' = held \cup {<<p, new>>} /\ held = {} /\ Goto(p, "read")
           \/ UNCHANGED held /\ Goto(p, "unlock")
    BY <1>4 DEF Lock, FlockGranted, FailTo
  <2> HIDE DEF new
  <2>2. CASE held' = held \cup {<<p, new>>} /\ held = {} /\ Goto(p, "read")
    BY <1>0, <2>2 DEF Goto, TypeOK, LockReleased, InSection
  <2>3. CASE UNCHANGED held /\ Goto(p, "unlock")
    <3>1. \A q \in Procs \ {p} : pc'[q] = pc[q] /\ fd'[q] = fd[q]
      BY <1>0, <2>1, <2>3 DEF Goto, TypeOK
    <3>2. pc'[p] = "unlock" /\ ~InSection(p)
      BY <1>0, <2>1, <2>3 DEF Goto, TypeOK, InSection
    <3>3. \A q \in Procs \ {p} : InSection(q) => InSection(q)'
      BY <2>3, <3>1 DEF InSection
    <3>4. QED
      BY <1>1, <2>3, <3>1, <3>2, <3>3 DEF LockReleased, MayFail
  <2>4. QED
    BY <2>1, <2>2, <2>3
<1>5. ASSUME NEW p \in Procs, SectionStep(p) PROVE LockReleased'
  <2>1. InSection(p) /\ pc[p] # "down"
    BY <1>0, <1>5, SectionStepShape DEF InSection, Section
  <2>2. InSection(p)' /\ pc'[p] # "down"
    BY <1>0, <1>5, <2>1, SectionStepShape DEF InSection, Section
  <2>3. QED
    BY <1>0, <1>2, <1>5, <2>2, SectionStepShape
<1>6. ASSUME NEW p \in Procs, Unlock(p) PROVE LockReleased'
  <2>1. /\ pc[p] = "unlock" /\ pc'[p] = "idle"
        /\ \A q \in Procs \ {p} : pc'[q] = pc[q] /\ fd'[q] = fd[q]
        /\ held' \subseteq held
        /\ held' = held \ {<<p, fd[p]>>} \/ MayFail("unlock")
        /\ \A q \in Procs \ {p} : <<q, fd[q]>> \in held => <<q, fd[q]>> \in held'
    BY <1>0, <1>6 DEF Unlock, Goto, TypeOK, Released
  <2>2. \A q \in Procs \ {p} : InSection(q) => InSection(q)'
    BY <2>1 DEF InSection
  <2>3. ASSUME NEW h \in held', h[1] = p PROVE MayFail("unlock")
    <3>1. h \in held
      BY <2>1
    <3>2. CASE InSection(p)
      BY <1>0, <2>1, <2>3, <3>2
    <3>3. QED
      BY <1>1, <2>3, <3>1, <3>2
  <2>4. QED
    BY <1>1, <2>1, <2>2, <2>3 DEF LockReleased, MayFail
<1>7. ASSUME NEW p \in Procs, Exit(p) PROVE LockReleased'
  <2>1. /\ held' = {h \in held : h[1] # p}
        /\ \A q \in Procs \ {p} : pc'[q] = pc[q] /\ fd'[q] = fd[q]
    BY <1>0, <1>7 DEF Exit, Goto, TypeOK
  <2>2. \A q \in Procs \ {p} : InSection(q) => InSection(q)'
    BY <2>1 DEF InSection
  <2>3. QED
    BY <1>1, <2>1, <2>2 DEF LockReleased, MayFail
<1>8. CASE Reboot
  BY <1>8 DEF Reboot, LockReleased
<1>9. CASE UNCHANGED vars
  <2>1. UNCHANGED <<held, fd, pc>>
    BY <1>9 DEF vars, kernelVars, localVars
  <2>2. QED
    BY <1>1, <2>1 DEF LockReleased, InSection, MayFail
<1>10. QED
  BY <1>3, <1>4, <1>5, <1>6, <1>7, <1>8, <1>9 DEF Next, Step, SectionStep

(* The lock is freed by the call that took it, unless its unlock fails,    *)
(* and at the latest when its process ends.                                *)
THEOREM LockEndsWithCall == Spec => []LockReleased
<1>1. Init => LockInv /\ LockReleased
  BY InitLock, InitReleased
<1>2. LockInv /\ LockReleased /\ [Next]_vars => (LockInv /\ LockReleased)'
  BY NextLock, NextReleased
<1>3. QED
  BY <1>1, <1>2, PTL DEF Spec

-----------------------------------------------------------------------------
(* Where only the reading of a variable may fail, a call's step turns its  *)
(* outcome into an error only at the lock, or where its variable is read.  *)
LEMMA ContendedStep ==
  ASSUME LockInv, LockReleased, CreateNotRefused, [Next]_vars,
         Faulty \subseteq {"read"}, NEW p \in Procs,
         outcome[p] # "err", outcome'[p] = "err", pc[p] # "read"
  PROVE  leaked[p] = FdLimit \/ \E q \in Procs \ {p} : InSection(q)
<1>0. TypeOK
  BY DEF LockInv
<1>1. \A call \in Calls \ {"read"} : ~MayFail(call)
  BY DEF MayFail
<1>2. \A q \in Procs : \A r : Result(q, r) /\ q # p => outcome'[p] = outcome[p]
  BY <1>0 DEF Result, TypeOK
<1> USE DEF Calls, FailTo
<1>3. ASSUME NEW q \in Procs, LockOpenFails(q)
      PROVE  leaked[p] = FdLimit \/ \E r \in Procs \ {p} : InSection(r)
  BY <1>1, <1>2, <1>3 DEF LockOpenFails
<1>4. ASSUME NEW q \in Procs, Lock(q) PROVE \E r \in Procs \ {p} : InSection(r)
  <2>1. q = p /\ FlockRefused /\ pc[p] = "lock"
    BY <1>2, <1>4 DEF Lock
  <2>2. PICK h \in held : TRUE
    BY <1>1, <2>1 DEF FlockRefused
  <2>3. h[1] \in Procs /\ InSection(h[1])
    BY <1>0, <1>1 DEF TypeOK, LockReleased
  <2>4. h[1] # p
    BY <2>1, <2>3 DEF InSection
  <2>5. QED
    BY <2>3, <2>4
<1>5. ASSUME NEW q \in Procs, ReadAndPatch(q) PROVE FALSE
  BY <1>2, <1>5 DEF ReadAndPatch
<1>6. ASSUME NEW q \in Procs, Create(q) PROVE FALSE
  <2>1. ~Refused(job[q].file)
    BY <1>6 DEF Create, CreateNotRefused
  <2>2. QED
    BY <1>1, <1>6, <2>1 DEF Create
<1>7. ASSUME NEW q \in Procs, WriteAll(q) PROVE FALSE
  <2>1. Result(q, "ok")
    BY <1>1, <1>7 DEF WriteAll
  <2>2. outcome'[q] = "ok"
    BY <1>0, <2>1 DEF Result, TypeOK
  <2>3. QED
    BY <1>2, <2>1, <2>2
<1>8. ASSUME NEW q \in Procs, StartWrite(q) \/ Exit(q) PROVE FALSE
  <2>1. Result(q, "none")
    BY <1>8 DEF StartWrite, Exit
  <2>2. outcome'[q] = "none"
    BY <1>0, <2>1 DEF Result, TypeOK
  <2>3. QED
    BY <1>2, <2>1, <2>2
<1>9. ASSUME NEW q \in Procs, GetMountFlags(q) \/ RemountRw(q) PROVE FALSE
  BY <1>1, <1>9 DEF GetMountFlags, RemountRw
<1>10. ASSUME NEW q \in Procs, GetAttrs(q) \/ ClearGet(q) \/ ClearSet(q) PROVE FALSE
  BY <1>1, <1>10 DEF GetAttrs, ClearGet, ClearSet
<1>11. ASSUME NEW q \in Procs,
              \/ Launch(q) \/ RestoreGet(q) \/ RestoreSet(q) \/ RemountRo(q)
              \/ Unlock(q)
       PROVE  FALSE
  BY <1>11 DEF Launch, RestoreGet, RestoreSet, RemountRo, Unlock
<1>12. CASE Reboot
  BY <1>12 DEF Reboot
<1>13. CASE UNCHANGED vars
  BY <1>13 DEF vars
<1>14. QED
  BY <1>3, <1>4, <1>5, <1>6, <1>7, <1>8, <1>9, <1>10, <1>11, <1>12, <1>13
  DEF Next, Step

(* A call never gets into its own way, nor into that of a later one: where *)
(* nothing but the reading of a variable fails, it fails elsewhere only    *)
(* for another process's lock, or for want of descriptors.                 *)
THEOREM CallsFailContended == Spec => FailsOnlyContended
<1>1. Init => LockInv /\ LockReleased /\ GuardsKnown
  BY InitLock, InitReleased, InitGuards
<1>2. LockInv /\ LockReleased /\ GuardsKnown /\ [Next]_vars
        => (LockInv /\ LockReleased /\ GuardsKnown)'
  BY NextLock, NextReleased, NextGuards
<1>3. GuardsKnown => CreateNotRefused
  BY MountAssumption
  DEF GuardsKnown, MountKnown, AttrsKnown, CreateNotRefused, Refused, ToMsFlags
<1>4. LockInv /\ LockReleased /\ CreateNotRefused /\ [Next]_vars
        => [Faulty \subseteq {"read"} =>
              \A p \in Procs :
                outcome[p] # "err" /\ outcome'[p] = "err" /\ pc[p] # "read"
                  => leaked[p] = FdLimit \/ \E q \in Procs \ {p} : InSection(q)]_vars
  BY ContendedStep
<1>5. QED
  BY <1>1, <1>2, <1>3, <1>4, PTL DEF Spec, FailsOnlyContended

-----------------------------------------------------------------------------
(* write_at_offset implements AtomicVarStore, for any number of processes, *)
(* files and calls, and whatever fails or crashes.                         *)
(*                                                                         *)
(* StartWrite is the abstract Begin, a successful WriteAll is Commit,      *)
(* Unlock and LockOpenFails are Return, Exit and Reboot are Die, and all   *)
(* other steps change nothing a caller can see.  What makes WriteAll a     *)
(* Commit is that the buffer is fresh (BufferFresh), that patching behind  *)
(* the header changes the field and nothing else (PatchedField), and that  *)
(* the outcome of a call is not known before (OutcomeKnown).               *)

(* What is behind the header of a file that has one.                       *)
LEMMA BodyBytes ==
  ASSUME NEW bytes \in Seq(Byte), Len(bytes) >= HeaderLen
  PROVE  /\ Len(Body(bytes)) = Len(bytes) - HeaderLen
         /\ \A i \in 1..Len(bytes) - HeaderLen : Body(bytes)[i] = bytes[i + HeaderLen]
<1> DEFINE n == Len(bytes)
<1>1. n \in Nat /\ n >= 4 /\ \A i \in 5..n : bytes[i] \in Byte
  BY LenProperties, ElementOfSeq DEF HeaderLen
<1>2. Len(SubSeq(bytes, 5, n)) = n - 4
      /\ \A i \in 1..n - 4 : SubSeq(bytes, 5, n)[i] = bytes[i + 4]
  <2> HIDE DEF n
  <2>1. /\ Len(SubSeq(bytes, 5, n)) = IF 5 <= n THEN n - 5 + 1 ELSE 0
        /\ \A i \in 1..n - 5 + 1 : SubSeq(bytes, 5, n)[i] = bytes[5 + i - 1]
    BY <1>1, SubSeqProperties
  <2>2. n - 5 + 1 = n - 4 /\ \A i \in 1..n - 4 : 5 + i - 1 = i + 4
    BY <1>1
  <2>3. QED
    BY <1>1, <2>1, <2>2
<1>3. QED
  BY <1>1, <1>2 DEF Body, HeaderLen

(* Patching the file at its varstore's offset writes the field, keeps the  *)
(* header, and shortens nothing.                                           *)
LEMMA PatchedField ==
  ASSUME NEW bytes \in Seq(Byte), Len(bytes) >= HeaderLen, NEW w \in Writes
  PROVE  /\ Len(Patched(bytes, w)) >= HeaderLen
         /\ SubSeq(Patched(bytes, w), 1, HeaderLen) = SubSeq(bytes, 1, HeaderLen)
         /\ Abstract!FieldWritten(Body(bytes), Body(Patched(bytes, w)), w)
<1> DEFINE new == Patched(bytes, w)
           m == Len(bytes)
           n == Len(new)
           off == w.offset
           data == w.data
           k == Len(data)
<1>1. /\ off \in Nat /\ data \in Seq(Byte) /\ k \in Nat
      /\ m \in Nat /\ m >= 4
      /\ new \in Seq(Byte) /\ n \in Nat
  BY JobType, PatchedType, LenProperties DEF HeaderLen
<1>2. CASE data = <<>>
  <2>1. new = bytes
    BY <1>2 DEF Patched, Patch
  <2>2. k = 0
    BY <1>2
  <2>3. (off + 1)..(off + k) = {}
    BY <1>1, <2>2
  <2>4. QED
    BY <2>1, <2>3 DEF Abstract!FieldWritten
<1>3. CASE data # <<>>
  <2>1. k > 0
    BY <1>1, <1>3, EmptySeq
  <2>2. /\ n = IF 4 + off + k > m THEN 4 + off + k ELSE m
        /\ \A i \in 1..n :
             new[i] = IF i \in (4 + off + 1)..(4 + off + k) THEN data[i - (4 + off)]
                      ELSE IF i <= m THEN bytes[i] ELSE 0
    <3>0. data \in Seq(Byte) /\ bytes \in Seq(Byte)
      BY <1>1
    <3>1. new = Patch(bytes, 4 + off, data) /\ 4 + off \in Nat
      BY <1>1 DEF Patched, HeaderLen
    <3> HIDE DEF new, m, off, data
    <3>2. LET nw  == Patch(bytes, 4 + off, data)
              end == (4 + off) + Len(data)
          IN  /\ Len(nw) = IF end > Len(bytes) THEN end ELSE Len(bytes)
              /\ \A i \in 1..Len(nw) :
                   nw[i] = IF i \in ((4 + off) + 1)..end THEN data[i - (4 + off)]
                           ELSE IF i <= Len(bytes) THEN bytes[i] ELSE 0
      BY <1>3, <3>0, <3>1, PatchBytes
    <3>3. QED
      BY <3>1, <3>2 DEF m
  <2>3. /\ Body(bytes) = SubSeq(bytes, 5, m) /\ Body(new) = SubSeq(new, 5, n)
        /\ Len(Body(bytes)) = m - 4
        /\ \A i \in 1..m - 4 : Body(bytes)[i] = bytes[i + 4]
    BY <1>1, BodyBytes DEF Body, HeaderLen
  <2>4. n >= 4 => Len(Body(new)) = n - 4 /\ \A i \in 1..n - 4 : Body(new)[i] = new[i + 4]
    BY <1>1, BodyBytes DEF HeaderLen
  <2> DEFINE old == Body(bytes)
             nxt == Body(new)
             field == (off + 1)..(off + k)
  <2>5. SubSeq(new, 1, 4) = SubSeq(bytes, 1, 4) /\ n >= 4
    <3> HIDE DEF new, m, n, off, data, k
    <3>1. n >= 4 /\ \A i \in 1..4 : new[i] = bytes[i]
      BY <1>1, <2>2
    <3>2. 1 \in 1..n+1 /\ 4 \in 1-1..n /\ 1 \in 1..m+1 /\ 4 \in 1-1..m
      BY <1>1, <3>1
    <3>3. m = Len(bytes) /\ n = Len(new)
      BY DEF m, n
    <3>4. SubSeq(new, 1, 4) = [i \in 1..4 |-> new[1 + i - 1]]
          /\ SubSeq(bytes, 1, 4) = [i \in 1..4 |-> bytes[1 + i - 1]]
      BY <1>1, <3>2, <3>3
    <3>5. QED
      BY <3>1, <3>4
  <2>6. /\ field # {}
        /\ n - 4 \in {m - 4, off + k} /\ n - 4 >= m - 4 /\ n - 4 >= off + k
        /\ \A i \in field : nxt[i] = data[i - off]
        /\ \A i \in (1..m - 4) \ field : nxt[i] = old[i]
        /\ \A i \in 1..off : i > m - 4 => nxt[i] = 0
    <3> HIDE DEF new, m, n, off, data, k, old, nxt
    <3>1. off + 1 \in field
      BY <1>1, <2>1
    <3>2. n - 4 \in {m - 4, off + k} /\ n - 4 >= m - 4 /\ n - 4 >= off + k
      BY <1>1, <2>2
    <3>3. \A i \in 1..m - 4 : old[i] = bytes[i + 4]
      BY <2>3 DEF old
    <3>4. \A i \in 1..n - 4 : nxt[i] = new[i + 4]
      BY <2>4, <2>5 DEF nxt
    <3>5. ASSUME NEW i \in 1..n - 4
          PROVE  nxt[i] = IF i \in field THEN data[i - off]
                          ELSE IF i <= m - 4 THEN bytes[i + 4] ELSE 0
      <4>1. i + 4 \in 1..n /\ (i + 4) - (4 + off) = i - off
        BY <1>1
      <4>2. new[i + 4] = IF i + 4 \in (4 + off + 1)..(4 + off + k) THEN data[i - off]
                         ELSE IF i + 4 <= m THEN bytes[i + 4] ELSE 0
        BY <2>2, <4>1
      <4>3. QED
        BY <1>1, <3>4, <4>2
    <3>6. ASSUME NEW i \in field PROVE nxt[i] = data[i - off]
      BY <1>1, <3>2, <3>5
    <3>7. ASSUME NEW i \in (1..m - 4) \ field PROVE nxt[i] = old[i]
      BY <1>1, <3>2, <3>3, <3>5
    <3>8. ASSUME NEW i \in 1..off, i > m - 4 PROVE nxt[i] = 0
      BY <1>1, <3>2, <3>5, <3>8
    <3>9. QED
      BY <3>1, <3>2, <3>6, <3>7, <3>8
  <2>7. Len(old) = m - 4 /\ Len(nxt) = n - 4
    BY <2>3, <2>4, <2>5
  <2>8. Abstract!FieldWritten(old, nxt, w)
    <3> HIDE DEF old, nxt
    <3>1. QED
      BY <2>6, <2>7 DEF Abstract!FieldWritten
  <2>9. QED
    BY <2>5, <2>8 DEF HeaderLen
<1>4. QED
  BY <1>2, <1>3

-----------------------------------------------------------------------------
(* Whether a call has failed or succeeded is known from its write on, or   *)
(* from its first failure on, and not before.                              *)
OutcomeKnown ==
  \A p \in Procs :
    /\ pc[p] \in {"lock", "read", "mounts", "remountRw", "getAttrs", "clearGet",
                  "clearSet", "create", "write"}
         => outcome[p] = "none"
    /\ pc[p] \in {"restoreGet", "restoreSet", "remountRo", "unlock"}
         => outcome[p] \in {"ok", "err"}

(* Every file keeps its header.                                            *)
HeadersWhole == \A f \in Files : Len(contents[f]) >= HeaderLen

RefInv == LockInv /\ BufferFresh /\ OutcomeKnown /\ HeadersWhole

LEMMA InitRef == Init => RefInv
  BY InitLock, InitBuffer, ContentsAssumption
  DEF Init, RefInv, OutcomeKnown, HeadersWhole, HeaderLen

LEMMA NextOutcome == TypeOK /\ OutcomeKnown /\ [Next]_vars => OutcomeKnown'
<1> SUFFICES ASSUME TypeOK, OutcomeKnown, [Next]_vars PROVE OutcomeKnown'
  OBVIOUS
<1> DEFINE Known(p) ==
      /\ pc[p] \in {"lock", "read", "mounts", "remountRw", "getAttrs", "clearGet",
                    "clearSet", "create", "write"}
           => outcome[p] = "none"
      /\ pc[p] \in {"restoreGet", "restoreSet", "remountRo", "unlock"}
           => outcome[p] \in {"ok", "err"}
<1>1. (\A p \in Procs : Known(p)) /\ ((\A p \in Procs : Known(p)') => OutcomeKnown')
  BY DEF OutcomeKnown
<1>2. ASSUME NEW p \in Procs, Known(p)',
             \A q \in Procs \ {p} : pc'[q] = pc[q] /\ outcome'[q] = outcome[q]
      PROVE  OutcomeKnown'
  BY <1>1, <1>2
<1>3. ASSUME NEW p \in Procs, NEW l, Goto(p, l)
      PROVE  pc'[p] = l /\ \A q \in Procs \ {p} : pc'[q] = pc[q]
  BY <1>3 DEF Goto, TypeOK
<1>4. ASSUME NEW p \in Procs, NEW r, Result(p, r)
      PROVE  outcome'[p] = r /\ \A q \in Procs \ {p} : outcome'[q] = outcome[q]
  BY <1>4 DEF Result, TypeOK
<1> USE DEF FailTo, AfterAttrGuard, AfterWrite
<1>5. ASSUME NEW p \in Procs, Launch(p) \/ StartWrite(p) \/ LockOpenFails(p)
      PROVE  OutcomeKnown'
  BY <1>2, <1>3, <1>4, <1>5 DEF Launch, StartWrite, LockOpenFails
<1>6. ASSUME NEW p \in Procs, Lock(p) PROVE OutcomeKnown'
  BY <1>1, <1>2, <1>3, <1>4, <1>6 DEF Lock
<1>7. ASSUME NEW p \in Procs, ReadAndPatch(p) \/ GetMountFlags(p) \/ RemountRw(p)
      PROVE  OutcomeKnown'
  BY <1>1, <1>2, <1>3, <1>4, <1>7 DEF ReadAndPatch, GetMountFlags, RemountRw
<1>8. ASSUME NEW p \in Procs, GetAttrs(p) \/ ClearGet(p) \/ ClearSet(p)
      PROVE  OutcomeKnown'
  BY <1>1, <1>2, <1>3, <1>4, <1>8 DEF GetAttrs, ClearGet, ClearSet
<1>9. ASSUME NEW p \in Procs, Create(p) \/ WriteAll(p) PROVE OutcomeKnown'
  BY <1>1, <1>2, <1>3, <1>4, <1>9 DEF Create, WriteAll
<1>10. ASSUME NEW p \in Procs, RestoreGet(p) \/ RestoreSet(p) \/ RemountRo(p)
       PROVE  OutcomeKnown'
  BY <1>1, <1>2, <1>3, <1>10 DEF RestoreGet, RestoreSet, RemountRo
<1>11. ASSUME NEW p \in Procs, Unlock(p) PROVE OutcomeKnown'
  BY <1>1, <1>2, <1>3, <1>11 DEF Unlock
<1>12. ASSUME NEW p \in Procs, Exit(p) PROVE OutcomeKnown'
  BY <1>2, <1>3, <1>4, <1>12 DEF Exit
<1>13. CASE Reboot
  BY <1>13 DEF Reboot, OutcomeKnown
<1>14. CASE UNCHANGED vars
  BY <1>1, <1>14 DEF vars
<1>15. QED
  BY <1>5, <1>6, <1>7, <1>8, <1>9, <1>10, <1>11, <1>12, <1>13, <1>14
  DEF Next, Step

(* contents changes by a successful WriteAll only.                         *)
LEMMA ContentsStep ==
  ASSUME [Next]_vars
  PROVE  \/ UNCHANGED contents
         \/ \E p \in Procs :
              /\ WriteAll(p) /\ Result(p, "ok") /\ Goto(p, AfterWrite(p))
              /\ contents' = [contents EXCEPT ![job[p].file] = buf[p]]
<1> USE DEF kernelVars
<1>1. ASSUME NEW p \in Procs, WriteAll(p)
      PROVE  \/ UNCHANGED contents
             \/ /\ Result(p, "ok") /\ Goto(p, AfterWrite(p))
                /\ contents' = [contents EXCEPT ![job[p].file] = buf[p]]
  BY <1>1 DEF WriteAll
<1>2. ASSUME NEW p \in Procs, Launch(p) \/ StartWrite(p) \/ Exit(p)
      PROVE  UNCHANGED contents
  BY <1>2 DEF Launch, StartWrite, Exit
<1>3. ASSUME NEW p \in Procs, Step(p), ~WriteAll(p) PROVE UNCHANGED contents
  BY <1>3 DEF Step, LockOpenFails, Lock, ReadAndPatch, GetMountFlags, RemountRw,
     GetAttrs, ClearGet, ClearSet, Create, RestoreGet, RestoreSet, RemountRo, Unlock
<1>4. CASE Reboot
  BY <1>4 DEF Reboot
<1>5. CASE UNCHANGED vars
  BY <1>5 DEF vars
<1>6. QED
  BY <1>1, <1>2, <1>3, <1>4, <1>5 DEF Next

(* What such a step writes is the file with the field patched in.          *)
LEMMA WriteIsPatch ==
  ASSUME TypeOK, BufferFresh, NEW p \in Procs, WriteAll(p)
  PROVE  /\ job[p] \in Writes /\ job[p].file \in Files
         /\ buf[p] = Patched(contents[job[p].file], job[p])
  BY JobType DEF WriteAll, TypeOK, InCall, BufferFresh

LEMMA NextRef == RefInv /\ [Next]_vars => RefInv'
<1> SUFFICES ASSUME RefInv, [Next]_vars PROVE RefInv'
  OBVIOUS
<1>1. TypeOK /\ LockInv /\ BufferFresh /\ OutcomeKnown /\ HeadersWhole
  BY DEF RefInv, LockInv
<1>2. HeadersWhole'
  <2>1. ASSUME NEW p \in Procs, WriteAll(p),
               contents' = [contents EXCEPT ![job[p].file] = buf[p]]
        PROVE  HeadersWhole'
    <3>1. /\ job[p] \in Writes /\ job[p].file \in Files
          /\ buf[p] = Patched(contents[job[p].file], job[p])
      BY <1>1, <2>1, WriteIsPatch
    <3>2. Len(buf[p]) >= HeaderLen
      BY <1>1, <3>1, PatchedField DEF TypeOK, HeadersWhole
    <3>3. QED
      BY <1>1, <2>1, <3>2 DEF TypeOK, HeadersWhole
  <2>2. CASE UNCHANGED contents
    BY <1>1, <2>2 DEF HeadersWhole
  <2>3. QED
    BY <2>1, <2>2, ContentsStep
<1>3. QED
  BY <1>1, <1>2, NextLock, NextBuffer, NextOutcome DEF RefInv

-----------------------------------------------------------------------------
(* What a caller sees of a process.                                        *)
StatusOf(p) ==
  IF ~InCall(p) THEN "idle"
  ELSE IF outcome[p] = "ok" THEN "committed" ELSE "pending"

ResultOf(p) == IF InCall(p) THEN "none" ELSE outcome[p]

Seen(p) == <<StatusOf(p), ResultOf(p)>>

(* The step changes what is seen of p, and of nobody else.                 *)
OnlySeen(p, status, result) ==
  /\ StatusOf(p)' = status /\ ResultOf(p)' = result
  /\ \A q \in Procs \ {p} : Seen(q)' = Seen(q)

(* The abstract variables change as what is seen does.                     *)
LEMMA SeenUpdate ==
  ASSUME NEW p \in Procs, NEW status, NEW result, OnlySeen(p, status, result)
  PROVE  /\ [q \in Procs |-> StatusOf(q)]'
              = [[q \in Procs |-> StatusOf(q)] EXCEPT ![p] = status]
         /\ [q \in Procs |-> ResultOf(q)]'
              = [[q \in Procs |-> ResultOf(q)] EXCEPT ![p] = result]
<1>1. /\ \A q \in Procs \ {p} : StatusOf(q)' = StatusOf(q) /\ ResultOf(q)' = ResultOf(q)
      /\ StatusOf(p)' = status /\ ResultOf(p)' = result
  BY DEF OnlySeen, Seen
<1>2. QED
  BY <1>1

LEMMA SeenStutter ==
  ASSUME UNCHANGED <<contents, job>>, \A q \in Procs : Seen(q)' = Seen(q)
  PROVE  UNCHANGED Abstract!vars
<1>1. \A q \in Procs : StatusOf(q)' = StatusOf(q) /\ ResultOf(q)' = ResultOf(q)
  BY DEF Seen
<1>2. UNCHANGED <<[q \in Procs |-> StatusOf(q)], [q \in Procs |-> ResultOf(q)]>>
  BY <1>1
<1>3. QED
  BY <1>2 DEF Abstract!vars, StatusOf, ResultOf

(* A call begins.                                                          *)
LEMMA RefineBegin ==
  ASSUME TypeOK, NEW p \in Procs, StartWrite(p)
  PROVE  Abstract!Begin(p)
<1>1. OnlySeen(p, "pending", "none")
  BY DEF StartWrite, TypeOK, Goto, Result, OnlySeen, Seen, StatusOf, ResultOf, InCall
<1>2. StatusOf(p) = "idle"
  BY DEF StartWrite, StatusOf, InCall
<1>3. UNCHANGED contents /\ \E w \in Writes : job' = [job EXCEPT ![p] = w]
  BY DEF StartWrite, kernelVars
<1>4. /\ [q \in Procs |-> StatusOf(q)]'
           = [[q \in Procs |-> StatusOf(q)] EXCEPT ![p] = "pending"]
      /\ [q \in Procs |-> ResultOf(q)]'
           = [[q \in Procs |-> ResultOf(q)] EXCEPT ![p] = "none"]
  BY <1>1, SeenUpdate
<1>5. QED
  BY <1>2, <1>3, <1>4 DEF Abstract!Begin, StatusOf, ResultOf

(* A call ends, with the outcome it has had since its write or its first   *)
(* failure.                                                                *)
LEMMA RefineReturn ==
  ASSUME TypeOK, OutcomeKnown, NEW p \in Procs, LockOpenFails(p) \/ Unlock(p)
  PROVE  \E r \in {"ok", "err"} : Abstract!Return(p, r)
<1>1. /\ UNCHANGED contents
      /\ job' = [job EXCEPT ![p] = NoJob]
      /\ pc[p] \in {"lock", "unlock"} /\ pc'[p] = "idle"
      /\ \A q \in Procs \ {p} : pc'[q] = pc[q] /\ outcome'[q] = outcome[q]
      /\ outcome'[p] \in {"ok", "err"}
      /\ outcome'[p] = "ok" <=> outcome[p] = "ok"
  BY DEF LockOpenFails, Unlock, kernelVars, FailTo, Goto, Result, TypeOK, OutcomeKnown
<1> SUFFICES ASSUME NEW r \in {"ok", "err"}, outcome'[p] = r
             PROVE  Abstract!Return(p, r)
  BY <1>1
<1>2. OnlySeen(p, "idle", r)
  BY <1>1 DEF OnlySeen, Seen, StatusOf, ResultOf, InCall
<1>3. StatusOf(p) = (IF r = "ok" THEN "committed" ELSE "pending")
  BY <1>1 DEF StatusOf, InCall
<1>4. /\ [q \in Procs |-> StatusOf(q)]'
           = [[q \in Procs |-> StatusOf(q)] EXCEPT ![p] = "idle"]
      /\ [q \in Procs |-> ResultOf(q)]'
           = [[q \in Procs |-> ResultOf(q)] EXCEPT ![p] = r]
  BY <1>2, SeenUpdate
<1>5. QED
  BY <1>1, <1>3, <1>4
  DEF Abstract!Return, StatusOf, ResultOf, Abstract!NoOp, NoJob

(* A call takes effect.                                                    *)
LEMMA RefineCommit ==
  ASSUME RefInv, NEW p \in Procs, WriteAll(p), Result(p, "ok"),
         Goto(p, AfterWrite(p)),
         contents' = [contents EXCEPT ![job[p].file] = buf[p]]
  PROVE  Abstract!Commit(p)
<1> DEFINE f == job[p].file
<1>0. TypeOK /\ BufferFresh /\ OutcomeKnown /\ HeadersWhole
  BY DEF RefInv, LockInv
<1>1. /\ job[p] \in Writes /\ f \in Files
      /\ buf[p] = Patched(contents[f], job[p])
  BY <1>0, WriteIsPatch
<1>2. /\ contents[f] \in Seq(Byte) /\ Len(contents[f]) >= HeaderLen
      /\ contents'[f] = Patched(contents[f], job[p])
      /\ \A g \in Files \ {f} : contents'[g] = contents[g]
  BY <1>0, <1>1 DEF TypeOK, HeadersWhole
<1>3. /\ SubSeq(contents'[f], 1, HeaderLen) = SubSeq(contents[f], 1, HeaderLen)
      /\ Abstract!FieldWritten(Body(contents[f]), Body(contents'[f]), job[p])
  BY <1>1, <1>2, PatchedField
<1>4. [g \in Files |-> SubSeq(contents'[g], 1, HeaderLen)]
        = [g \in Files |-> SubSeq(contents[g], 1, HeaderLen)]
  <2>1. \A g \in Files :
          SubSeq(contents'[g], 1, HeaderLen) = SubSeq(contents[g], 1, HeaderLen)
    BY <1>2, <1>3
  <2>2. QED
    BY <2>1
<1>5. \A g \in Files :
        IF g = f THEN Abstract!FieldWritten(Body(contents[g]), Body(contents'[g]), job[p])
                 ELSE Body(contents'[g]) = Body(contents[g])
  BY <1>2, <1>3
<1>6. StatusOf(p) = "pending" /\ OnlySeen(p, "committed", ResultOf(p))
  BY <1>0 DEF WriteAll, TypeOK, OutcomeKnown, Goto, Result, AfterWrite,
     AfterAttrGuard, OnlySeen, Seen, StatusOf, ResultOf, InCall
<1>7. UNCHANGED job
  BY DEF WriteAll, localVars
<1>8. UNCHANGED [q \in Procs |-> ResultOf(q)]
  <2>1. \A q \in Procs : ResultOf(q)' = ResultOf(q)
    BY <1>6 DEF OnlySeen, Seen
  <2>2. QED
    BY <2>1
<1>9. [q \in Procs |-> StatusOf(q)]'
        = [[q \in Procs |-> StatusOf(q)] EXCEPT ![p] = "committed"]
  BY <1>6, SeenUpdate
<1>10. QED
  BY <1>4, <1>5, <1>6, <1>7, <1>8, <1>9 DEF Abstract!Commit, StatusOf, ResultOf

(* The processes of D are gone.                                            *)
LEMMA RefineDie ==
  ASSUME TypeOK, NEW D \in SUBSET Procs, UNCHANGED contents,
         \A q \in Procs :
           /\ job'[q] = IF q \in D THEN NoJob ELSE job[q]
           /\ pc'[q] = IF q \in D THEN "down" ELSE pc[q]
           /\ outcome'[q] = IF q \in D THEN "none" ELSE outcome[q],
         DOMAIN job' = Procs, job' = [q \in Procs |-> job'[q]]
  PROVE  Abstract!Die(D)
<1>1. \A q \in Procs :
        /\ StatusOf(q)' = IF q \in D THEN "idle" ELSE StatusOf(q)
        /\ ResultOf(q)' = IF q \in D THEN "none" ELSE ResultOf(q)
  BY DEF StatusOf, ResultOf, InCall
<1>2. [q \in Procs |-> StatusOf(q)]' = [q \in Procs |-> IF q \in D THEN "idle" ELSE StatusOf(q)]
      /\ [q \in Procs |-> ResultOf(q)]' = [q \in Procs |-> IF q \in D THEN "none" ELSE ResultOf(q)]
  BY <1>1
<1>3. job' = [q \in Procs |-> IF q \in D THEN NoJob ELSE job[q]]
  OBVIOUS
<1>4. QED
  BY <1>2, <1>3 DEF Abstract!Die, Abstract!NoOp, NoJob, StatusOf, ResultOf

(* Every step of write_at_offset is one of the atomic store, or nothing.   *)
LEMMA NextRefines == RefInv /\ [Next]_vars => [Abstract!Next]_(Abstract!vars)
<1> SUFFICES ASSUME RefInv, [Next]_vars PROVE [Abstract!Next]_(Abstract!vars)
  OBVIOUS
<1>0. TypeOK /\ OutcomeKnown
  BY DEF RefInv, LockInv
<1>1. ASSUME NEW p \in Procs, StartWrite(p) PROVE Abstract!Next
  BY <1>0, <1>1, RefineBegin DEF Abstract!Next
<1>2. ASSUME NEW p \in Procs, LockOpenFails(p) \/ Unlock(p) PROVE Abstract!Next
  BY <1>0, <1>2, RefineReturn DEF Abstract!Next
<1>3. ASSUME NEW p \in Procs, WriteAll(p) PROVE [Abstract!Next]_(Abstract!vars)
  <2>1. CASE /\ Result(p, "ok") /\ Goto(p, AfterWrite(p))
             /\ contents' = [contents EXCEPT ![job[p].file] = buf[p]]
    BY <1>3, <2>1, RefineCommit DEF Abstract!Next
  <2>2. CASE FailTo(p, AfterWrite(p)) /\ UNCHANGED contents
    <3>1. UNCHANGED <<contents, job>> /\ pc[p] = "write"
      BY <1>3, <2>2 DEF WriteAll, localVars
    <3>2. \A q \in Procs : Seen(q)' = Seen(q)
      BY <1>0, <2>2, <3>1 DEF FailTo, Goto, Result, TypeOK, AfterWrite,
         AfterAttrGuard, OutcomeKnown, Seen, StatusOf, ResultOf, InCall
    <3>3. QED
      BY <3>1, <3>2, SeenStutter
  <2>3. QED
    BY <1>3, <2>1, <2>2 DEF WriteAll
<1>4. ASSUME NEW p \in Procs,
             \/ Launch(p) \/ Lock(p) \/ ReadAndPatch(p) \/ GetMountFlags(p)
             \/ RemountRw(p) \/ GetAttrs(p) \/ ClearGet(p) \/ ClearSet(p)
             \/ Create(p) \/ RestoreGet(p) \/ RestoreSet(p) \/ RemountRo(p)
      PROVE  UNCHANGED Abstract!vars
  <2> USE DEF kernelVars, localVars, FailTo, AfterWrite, AfterAttrGuard
  <2>1. UNCHANGED <<contents, job>>
    BY <1>4 DEF Launch, Lock, ReadAndPatch, GetMountFlags, RemountRw, GetAttrs,
       ClearGet, ClearSet, Create, RestoreGet, RestoreSet, RemountRo
  <2>2. /\ \A q \in Procs \ {p} : pc'[q] = pc[q] /\ outcome'[q] = outcome[q]
        /\ InCall(p)' <=> InCall(p)
        /\ UNCHANGED outcome \/ (InCall(p) /\ outcome[p] = "none" /\ outcome'[p] = "err")
    <3>1. ASSUME NEW l, Goto(p, l)
          PROVE  pc'[p] = l /\ \A q \in Procs \ {p} : pc'[q] = pc[q]
      BY <1>0, <3>1 DEF Goto, TypeOK
    <3>2. ASSUME NEW r, Result(p, r)
          PROVE  outcome'[p] = r /\ \A q \in Procs \ {p} : outcome'[q] = outcome[q]
      BY <1>0, <3>2 DEF Result, TypeOK
    <3> USE <1>0, <3>1, <3>2 DEF InCall, OutcomeKnown
    <3>3. CASE Launch(p) \/ Lock(p)
      BY <3>3 DEF Launch, Lock
    <3>4. CASE ReadAndPatch(p) \/ GetMountFlags(p) \/ RemountRw(p)
      BY <3>4 DEF ReadAndPatch, GetMountFlags, RemountRw
    <3>5. CASE GetAttrs(p) \/ ClearGet(p) \/ ClearSet(p) \/ Create(p)
      BY <3>5 DEF GetAttrs, ClearGet, ClearSet, Create
    <3>6. CASE RestoreGet(p) \/ RestoreSet(p) \/ RemountRo(p)
      BY <3>6 DEF RestoreGet, RestoreSet, RemountRo
    <3>7. QED
      BY <1>4, <3>3, <3>4, <3>5, <3>6
  <2>3. \A q \in Procs : Seen(q)' = Seen(q)
    BY <2>2 DEF Seen, StatusOf, ResultOf, InCall
  <2>4. QED
    BY <2>1, <2>3, SeenStutter
<1>5. ASSUME NEW p \in Procs, Exit(p) PROVE Abstract!Next
  <2>1. UNCHANGED contents /\ job' = [job EXCEPT ![p] = NoJob]
        /\ pc' = [pc EXCEPT ![p] = "down"] /\ outcome' = [outcome EXCEPT ![p] = "none"]
    BY <1>5 DEF Exit, Goto, Result
  <2>2. Abstract!Die({p})
    BY <1>0, <2>1, RefineDie DEF TypeOK
  <2>3. QED
    BY <2>2 DEF Abstract!Next
<1>6. CASE Reboot
  <2>1. Abstract!Die(Procs)
    BY <1>0, <1>6, RefineDie DEF Reboot
  <2>2. QED
    BY <2>1 DEF Abstract!Next
<1>7. CASE UNCHANGED vars
  <2>1. UNCHANGED <<contents, job, pc, outcome>>
    BY <1>7 DEF vars, kernelVars, localVars
  <2>2. QED
    BY <2>1, SeenStutter DEF Seen, StatusOf, ResultOf, InCall
<1>8. QED
  BY <1>1, <1>2, <1>3, <1>4, <1>5, <1>6, <1>7 DEF Next, Step

LEMMA InitRefines == Init => Abstract!Init
<1> SUFFICES ASSUME Init PROVE Abstract!Init
  OBVIOUS
<1>1. \A p \in Procs : StatusOf(p) = "idle" /\ ResultOf(p) = "none"
  BY DEF Init, StatusOf, ResultOf, InCall
<1>2. /\ [p \in Procs |-> StatusOf(p)] = [p \in Procs |-> "idle"]
      /\ [p \in Procs |-> ResultOf(p)] = [p \in Procs |-> "none"]
  BY <1>1
<1>3. contents = InitContents /\ job = [p \in Procs |-> NoJob]
  BY DEF Init
<1>4. QED
  BY <1>2, <1>3 DEF Abstract!Init, Abstract!NoOp, NoJob, StatusOf, ResultOf

(* write_at_offset implements the atomic store: every call takes effect at *)
(* one instant, entirely and only on its field, exactly when it reports    *)
(* Ok, whatever fails or crashes and however calls interleave.             *)
THEOREM WritesAreAtomic == Spec => ImplementsAtomicStore
<1>1. Spec => []RefInv
  BY InitRef, NextRef, PTL DEF Spec
<1>2. QED
  BY <1>1, InitRefines, NextRefines, PTL
  DEF Spec, ImplementsAtomicStore, Abstract!Spec

=============================================================================
