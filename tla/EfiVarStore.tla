----------------------------- MODULE EfiVarStore -----------------------------
(***************************************************************************)
(* VariableStore::write_at_offset of src/src/lib/hii/forms.rs: the only    *)
(* place where uefisettings modifies the EFI variable store.  Any number   *)
(* of processes run it at the same time.  One write is                     *)
(*                                                                         *)
(*   lock the lock file          (FileLock,                 file_lock.rs)  *)
(*   read the file, patch a copy (Cursor)                                  *)
(*   remount efivarfs rw         (EfivarsMountGuard,        efivarfs.rs)   *)
(*   clear the immutable flag    (EfivarsImmutabilityGuard, chattr.rs)     *)
(*   File::create + write_all                                              *)
(*   drop the guards, in the reverse order                                 *)
(*                                                                         *)
(* Every system call is a step of its own and may fail when its name is in *)
(* Faulty.  A failure runs the drops of what has been constructed so far.  *)
(* The kernel's part (flock, mount, file attributes, efivarfs) is modelled *)
(* as the code uses it: flock belongs to an open file description and is   *)
(* freed when its process ends; efivarfs replaces a whole variable in one  *)
(* write and does not erase it on O_TRUNC; a reboot restores mount flags   *)
(* and attributes but keeps the variables.                                 *)
(***************************************************************************)
EXTENDS Bytes

CONSTANTS
  Procs,         \* uefisettings processes
  Files,         \* efivarfs files, one per varstore
  Writes,        \* the write_at_offset calls: [file, offset, data]
  MsFlags,       \* mount options to_ms_flags knows, "ro" among them
  FsAttrs,       \* file attributes, "immutable" among them
  BootMount,     \* mount options of efivarfs after boot, of any kind
  BootAttrs,     \* file attributes after boot, per file
  InitContents,  \* initial bytes of each file, header included
  FdLimit,       \* descriptors a process may open for lock files
  Faulty         \* system calls that may fail, and "crash"

Calls == {"open", "flock", "read", "mounts", "remountRw", "getAttrs",
          "setAttrs", "create", "write", "restore", "remountRo", "unlock",
          "crash"}

ASSUME FilesAssumption == "mount" \notin Files
ASSUME WritesAssumption ==
  Writes \subseteq [file : Files, offset : Nat, data : Seq(Byte)]
ASSUME AttrsAssumption ==
  "immutable" \in FsAttrs /\ BootAttrs \in [Files -> SUBSET FsAttrs]
ASSUME MountAssumption == "ro" \in MsFlags
ASSUME ContentsAssumption ==
  InitContents \in {c \in [Files -> Seq(Byte)] : \A f \in Files : Len(c[f]) >= 4}
ASSUME FdAssumption == FdLimit \in Nat
ASSUME FaultyAssumption == Faulty \subseteq Calls

VARIABLES
  held,        \* <<process, descriptor>> pairs that hold the flock
  mountFlags,  \* current options of the efivarfs mount
  attrs,       \* current attributes of each file
  contents,    \* current bytes of each file
  leftover,    \* "mount" and files some crash or failed drop left writable
  pc,          \* where each process is in write_at_offset
  job,         \* the arguments of the call
  fd,          \* FileLock.file_descriptor, 0 for -1
  leaked,      \* descriptors this process has opened (never closed)
  mountGuard,  \* EfivarsMountGuard.original_flags, {} without a guard
  attrGuard,   \* EfivarsImmutabilityGuard.attrs_before_writing, or {}
  seenAttrs,   \* current_attrs inside set_attrs! and clear_attrs!
  buf,         \* the bytes under the Cursor
  outcome      \* what the call returns, "none" before it is known

kernelVars == <<held, mountFlags, attrs, contents>>
localVars  == <<job, fd, leaked, mountGuard, attrGuard, seenAttrs, buf>>
vars == <<kernelVars, leftover, pc, localVars, outcome>>

NoJob == [file |-> "none", offset |-> 0, data |-> <<>>]

MayFail(call) == call \in Faulty

-----------------------------------------------------------------------------
(* An efivarfs file starts with the four bytes of the variable's           *)
(* attributes; a varstore offset counts from behind them.                  *)
HeaderLen == 4

(* Cursor::seek and write_options on a copy of the file.                   *)
Patched_NoHeader(bytes, w) == Patch(bytes, w.offset, w.data)

Patched(bytes, w) == Patch(bytes, HeaderLen + w.offset, w.data)

-----------------------------------------------------------------------------
Init ==
  /\ held = {}
  /\ mountFlags = BootMount
  /\ attrs = BootAttrs
  /\ contents = InitContents
  /\ leftover = {}
  /\ pc = [p \in Procs |-> "down"]
  /\ job = [p \in Procs |-> NoJob]
  /\ fd = [p \in Procs |-> 0]
  /\ leaked = [p \in Procs |-> 0]
  /\ mountGuard = [p \in Procs |-> {}]
  /\ attrGuard = [p \in Procs |-> {}]
  /\ seenAttrs = [p \in Procs |-> {}]
  /\ buf = [p \in Procs |-> <<>>]
  /\ outcome = [p \in Procs |-> "none"]

Goto(p, label) == pc' = [pc EXCEPT ![p] = label]
Result(p, r)   == outcome' = [outcome EXCEPT ![p] = r]

(* The `?' operator: the call will return Err once the drops have run.     *)
FailTo(p, label) == Goto(p, label) /\ Result(p, "err")

(* The drops that are due once the immutability guard is gone, and once    *)
(* both guards are to be dropped.                                          *)
AfterAttrGuard_NoRemount(p) == "unlock"

AfterAttrGuard(p) == IF "ro" \in mountGuard[p] THEN "remountRo" ELSE "unlock"

AfterWrite_NoRestore(p) == AfterAttrGuard(p)

AfterWrite(p) ==
  IF "immutable" \in attrGuard[p] THEN "restoreGet" ELSE AfterAttrGuard(p)

-----------------------------------------------------------------------------
(* A process starts, and calls write_at_offset any number of times.        *)
Launch(p) ==
  /\ pc[p] = "down"
  /\ Goto(p, "idle")
  /\ UNCHANGED <<kernelVars, leftover, localVars, outcome>>

StartWrite(p) ==
  /\ pc[p] = "idle"
  /\ \E w \in Writes : job' = [job EXCEPT ![p] = w]
  /\ Goto(p, "lock")
  /\ Result(p, "none")
  /\ UNCHANGED <<kernelVars, leftover, fd, leaked, mountGuard, attrGuard,
                 seenAttrs, buf>>

(* FileLock::lock when the lock file cannot be opened: the drop of a lock  *)
(* whose descriptor is still -1 does nothing.                              *)
LockOpenFails(p) ==
  /\ pc[p] = "lock"
  /\ leaked[p] = FdLimit \/ MayFail("open")
  /\ FailTo(p, "idle")
  /\ job' = [job EXCEPT ![p] = NoJob]
  /\ UNCHANGED <<kernelVars, leftover, fd, leaked, mountGuard, attrGuard,
                 seenAttrs, buf>>

(* flock(LockExclusiveNonblock) on a fresh descriptor.                     *)
FlockGranted_Always == TRUE

FlockGranted == held = {}

FlockRefused_Blocking == MayFail("flock")

FlockRefused == held # {} \/ MayFail("flock")

(* The lock file can be opened: each lock() takes a descriptor for good.   *)
CanOpen_Unlimited(p) == TRUE

CanOpen(p) == leaked[p] < FdLimit

(* FileLock::lock: into_raw_fd gives the descriptor up for good; the flock *)
(* does not wait.  A refused flock leaves the descriptor in the FileLock.  *)
Lock(p) ==
  /\ pc[p] = "lock"
  /\ CanOpen(p)
  /\ leaked' = [leaked EXCEPT ![p] = @ + 1]
  /\ fd' = [fd EXCEPT ![p] = leaked[p] + 1]
  /\ \/ /\ FlockGranted
        /\ held' = held \cup {<<p, leaked[p] + 1>>}
        /\ Goto(p, "read")
        /\ UNCHANGED outcome
     \/ /\ FlockRefused
        /\ FailTo(p, "unlock")
        /\ UNCHANGED held
  /\ UNCHANGED <<mountFlags, attrs, contents, leftover, job, mountGuard,
                 attrGuard, seenAttrs, buf>>

(* read_to_end and the patch of the copy.                                  *)
ReadAndPatch(p) ==
  /\ pc[p] = "read"
  /\ \/ /\ buf' = [buf EXCEPT ![p] = Patched(contents[job[p].file], job[p])]
        /\ Goto(p, "mounts")
        /\ UNCHANGED outcome
     \/ /\ MayFail("read")
        /\ FailTo(p, "unlock")
        /\ UNCHANGED buf
  /\ UNCHANGED <<kernelVars, leftover, job, fd, leaked, mountGuard, attrGuard,
                 seenAttrs>>

(* to_ms_flags only warns of an option it does not know.                   *)
ToMsFlags_Forgetful(options) == options \cap {"ro"}

ToMsFlags(options) == options \cap MsFlags

(* EfivarsMountGuard::new, in two system calls.  A remount sets the mount  *)
(* to the flags it is given: those the guard does not know of are cleared. *)
GetMountFlags(p) ==
  /\ pc[p] = "mounts"
  /\ \/ /\ mountGuard' = [mountGuard EXCEPT ![p] = ToMsFlags(mountFlags)]
        /\ Goto(p, IF "ro" \in mountFlags THEN "remountRw" ELSE "getAttrs")
        /\ UNCHANGED outcome
     \/ /\ MayFail("mounts")
        /\ FailTo(p, "unlock")
        /\ UNCHANGED mountGuard
  /\ UNCHANGED <<kernelVars, leftover, job, fd, leaked, attrGuard, seenAttrs,
                 buf>>

RemountRw(p) ==
  /\ pc[p] = "remountRw"
  /\ \/ /\ mountFlags' = mountGuard[p] \ {"ro"}
        /\ Goto(p, "getAttrs")
        /\ UNCHANGED <<mountGuard, outcome>>
     \/ /\ MayFail("remountRw")
        /\ FailTo(p, "unlock")
        /\ mountGuard' = [mountGuard EXCEPT ![p] = {}]
        /\ UNCHANGED mountFlags
  /\ UNCHANGED <<held, attrs, contents, leftover, job, fd, leaked, attrGuard,
                 seenAttrs, buf>>

(* EfivarsImmutabilityGuard::new: get_all_attrs, then clear_attrs!, which  *)
(* reads the attributes again before it sets them.                         *)
GetAttrs(p) ==
  /\ pc[p] = "getAttrs"
  /\ \/ LET now == attrs[job[p].file]
        IN  /\ attrGuard' = [attrGuard EXCEPT ![p] = now]
            /\ Goto(p, IF "immutable" \in now THEN "clearGet" ELSE "create")
            /\ UNCHANGED outcome
     \/ /\ MayFail("getAttrs")
        /\ FailTo(p, AfterAttrGuard(p))
        /\ UNCHANGED attrGuard
  /\ UNCHANGED <<kernelVars, leftover, job, fd, leaked, mountGuard, seenAttrs,
                 buf>>

ClearGet(p) ==
  /\ pc[p] = "clearGet"
  /\ \/ /\ seenAttrs' = [seenAttrs EXCEPT ![p] = attrs[job[p].file]]
        /\ Goto(p, "clearSet")
        /\ UNCHANGED <<attrGuard, outcome>>
     \/ /\ MayFail("getAttrs")
        /\ FailTo(p, AfterAttrGuard(p))
        /\ attrGuard' = [attrGuard EXCEPT ![p] = {}]
        /\ UNCHANGED seenAttrs
  /\ UNCHANGED <<kernelVars, leftover, job, fd, leaked, mountGuard, buf>>

ClearSet(p) ==
  /\ pc[p] = "clearSet"
  /\ \/ /\ attrs' = [attrs EXCEPT ![job[p].file] = seenAttrs[p] \ {"immutable"}]
        /\ Goto(p, "create")
        /\ UNCHANGED <<attrGuard, outcome>>
     \/ /\ MayFail("setAttrs")
        /\ FailTo(p, AfterAttrGuard(p))
        /\ attrGuard' = [attrGuard EXCEPT ![p] = {}]
        /\ UNCHANGED attrs
  /\ UNCHANGED <<held, mountFlags, contents, leftover, job, fd, leaked,
                 mountGuard, seenAttrs, buf>>

(* File::create: the kernel refuses to open a file for writing on a        *)
(* read-only mount or with the immutable attribute.                        *)
Refused(f) == "ro" \in mountFlags \/ "immutable" \in attrs[f]

Create(p) ==
  /\ pc[p] = "create"
  /\ \/ /\ ~Refused(job[p].file)
        /\ Goto(p, "write")
        /\ UNCHANGED outcome
     \/ /\ Refused(job[p].file) \/ MayFail("create")
        /\ FailTo(p, AfterWrite(p))
  /\ UNCHANGED <<kernelVars, leftover, localVars>>

WriteAll(p) ==
  /\ pc[p] = "write"
  /\ \/ /\ contents' = [contents EXCEPT ![job[p].file] = buf[p]]
        /\ Goto(p, AfterWrite(p))
        /\ Result(p, "ok")
     \/ /\ MayFail("write")
        /\ FailTo(p, AfterWrite(p))
        /\ UNCHANGED contents
  /\ UNCHANGED <<held, mountFlags, attrs, leftover, localVars>>

(* Drop of EfivarsImmutabilityGuard, set_attrs! in two system calls.  A    *)
(* failure is only logged.                                                 *)
RestoreGet(p) ==
  /\ pc[p] = "restoreGet"
  /\ \/ /\ seenAttrs' = [seenAttrs EXCEPT ![p] = attrs[job[p].file]]
        /\ Goto(p, "restoreSet")
        /\ UNCHANGED leftover
     \/ /\ MayFail("restore")
        /\ Goto(p, AfterAttrGuard(p))
        /\ leftover' = leftover \cup {job[p].file}
        /\ UNCHANGED seenAttrs
  /\ UNCHANGED <<kernelVars, job, fd, leaked, mountGuard, attrGuard, buf,
                 outcome>>

Restored_Overwrite(p) == {"immutable"}

Restored(p) == seenAttrs[p] \cup {"immutable"}

RestoreSet(p) ==
  /\ pc[p] = "restoreSet"
  /\ Goto(p, AfterAttrGuard(p))
  /\ \/ /\ attrs' = [attrs EXCEPT ![job[p].file] = Restored(p)]
        /\ UNCHANGED leftover
     \/ /\ MayFail("restore")
        /\ leftover' = leftover \cup {job[p].file}
        /\ UNCHANGED attrs
  /\ UNCHANGED <<held, mountFlags, contents, localVars, outcome>>

(* Drop of EfivarsMountGuard.  A failure is only logged.                   *)
RemountRo(p) ==
  /\ pc[p] = "remountRo"
  /\ Goto(p, "unlock")
  /\ \/ /\ mountFlags' = mountGuard[p]
        /\ UNCHANGED leftover
     \/ /\ MayFail("remountRo")
        /\ leftover' = leftover \cup {"mount"}
        /\ UNCHANGED mountFlags
  /\ UNCHANGED <<held, attrs, contents, localVars, outcome>>

(* LOCK_UN on the FileLock's descriptor.                                   *)
Released_AnyHolder(p) == {}

Released_OnSuccess(p) ==
  IF outcome[p] = "err" THEN held ELSE held \ {<<p, fd[p]>>}

Released_Never(p) == held

Released(p) == held \ {<<p, fd[p]>>}

(* Drop of FileLock, also after a refused flock: it unlocks its own        *)
(* descriptor only.  A failure is only logged.  The call returns.          *)
Unlock(p) ==
  /\ pc[p] = "unlock"
  /\ \/ held' = Released(p)
     \/ MayFail("unlock") /\ UNCHANGED held
  /\ Goto(p, "idle")
  /\ job' = [job EXCEPT ![p] = NoJob]
  /\ fd' = [fd EXCEPT ![p] = 0]
  /\ mountGuard' = [mountGuard EXCEPT ![p] = {}]
  /\ attrGuard' = [attrGuard EXCEPT ![p] = {}]
  /\ seenAttrs' = [seenAttrs EXCEPT ![p] = {}]
  /\ buf' = [buf EXCEPT ![p] = <<>>]
  /\ UNCHANGED <<mountFlags, attrs, contents, leftover, leaked, outcome>>

-----------------------------------------------------------------------------
(* Between a guard's construction and its drop, a guard with something to  *)
(* restore keeps the mount, or its file, open for writing.                 *)
MountWindow(p) ==
  /\ pc[p] \in {"getAttrs", "clearGet", "clearSet", "create", "write",
                "restoreGet", "restoreSet", "remountRo"}
  /\ "ro" \in mountGuard[p]

AttrWindow(p) ==
  /\ pc[p] \in {"create", "write", "restoreGet", "restoreSet"}
  /\ "immutable" \in attrGuard[p]

(* The process ends, between two calls or killed inside one: the kernel    *)
(* closes its descriptors and no drop runs.                                *)
Exit(p) ==
  /\ pc[p] = "idle" \/ (pc[p] # "down" /\ MayFail("crash"))
  /\ held' = {h \in held : h[1] # p}
  /\ leftover' = leftover
                 \cup (IF MountWindow(p) THEN {"mount"} ELSE {})
                 \cup (IF AttrWindow(p) THEN {job[p].file} ELSE {})
  /\ Goto(p, "down")
  /\ Result(p, "none")
  /\ job' = [job EXCEPT ![p] = NoJob]
  /\ fd' = [fd EXCEPT ![p] = 0]
  /\ leaked' = [leaked EXCEPT ![p] = 0]
  /\ mountGuard' = [mountGuard EXCEPT ![p] = {}]
  /\ attrGuard' = [attrGuard EXCEPT ![p] = {}]
  /\ seenAttrs' = [seenAttrs EXCEPT ![p] = {}]
  /\ buf' = [buf EXCEPT ![p] = <<>>]
  /\ UNCHANGED <<mountFlags, attrs, contents>>

(* A reboot or kexec: all processes end, efivarfs is mounted afresh, the   *)
(* variables themselves are in NVRAM.                                      *)
Reboot ==
  /\ MayFail("crash")
  /\ held' = {}
  /\ mountFlags' = BootMount
  /\ attrs' = BootAttrs
  /\ leftover' = {}
  /\ pc' = [p \in Procs |-> "down"]
  /\ job' = [p \in Procs |-> NoJob]
  /\ fd' = [p \in Procs |-> 0]
  /\ leaked' = [p \in Procs |-> 0]
  /\ mountGuard' = [p \in Procs |-> {}]
  /\ attrGuard' = [p \in Procs |-> {}]
  /\ seenAttrs' = [p \in Procs |-> {}]
  /\ buf' = [p \in Procs |-> <<>>]
  /\ outcome' = [p \in Procs |-> "none"]
  /\ UNCHANGED contents

-----------------------------------------------------------------------------
(* The steps of one call.                                                  *)
Step(p) ==
  \/ LockOpenFails(p) \/ Lock(p) \/ ReadAndPatch(p)
  \/ GetMountFlags(p) \/ RemountRw(p)
  \/ GetAttrs(p) \/ ClearGet(p) \/ ClearSet(p)
  \/ Create(p) \/ WriteAll(p)
  \/ RestoreGet(p) \/ RestoreSet(p) \/ RemountRo(p) \/ Unlock(p)

Next ==
  \/ \E p \in Procs : Launch(p) \/ StartWrite(p) \/ Step(p) \/ Exit(p)
  \/ Reboot

Spec == Init /\ [][Next]_vars

(* A running call keeps running: the code never waits.                     *)
FairSpec == Spec /\ \A p \in Procs : WF_vars(Step(p))

-----------------------------------------------------------------------------
(* PROPERTIES                                                              *)

InCall(p) == pc[p] \notin {"down", "idle"}

(* Past the flock, up to the drop of the FileLock.                         *)
InSection(p) ==
  \/ pc[p] \in {"read", "mounts", "remountRw", "getAttrs", "clearGet",
                "clearSet", "create", "write", "restoreGet", "restoreSet",
                "remountRo"}
  \/ pc[p] = "unlock" /\ <<p, fd[p]>> \in held

TypeOK ==
  /\ held \subseteq Procs \X (1..FdLimit)
  /\ mountFlags \subseteq BootMount \cup MsFlags
  /\ attrs \in [Files -> SUBSET FsAttrs]
  /\ contents \in [Files -> Seq(Byte)]
  /\ leftover \subseteq Files \cup {"mount"}
  /\ pc \in [Procs -> {"down", "idle", "lock", "read", "mounts", "remountRw",
                       "getAttrs", "clearGet", "clearSet", "create", "write",
                       "restoreGet", "restoreSet", "remountRo", "unlock"}]
  /\ job \in [Procs -> Writes \cup {NoJob}]
  /\ \A p \in Procs : InCall(p) => job[p] \in Writes
  /\ fd \in [Procs -> 0..FdLimit]
  /\ leaked \in [Procs -> 0..FdLimit]
  /\ mountGuard \in [Procs -> SUBSET MsFlags]
  /\ attrGuard \in [Procs -> SUBSET FsAttrs]
  /\ seenAttrs \in [Procs -> SUBSET FsAttrs]
  /\ buf \in [Procs -> Seq(Byte)]
  /\ outcome \in [Procs -> {"none", "ok", "err"}]

(* At most one process is between a granted flock and its release, and it  *)
(* holds the lock all that time: neither a refused contender's drop        *)
(* (file_lock.rs:63), nor another process's end, nor a descriptor leaked   *)
(* by an earlier call can free it.                                         *)
MutualExclusion ==
  \A p \in Procs : InSection(p) => held = {<<p, fd[p]>>}

(* The bytes about to be written are the current contents with the field   *)
(* patched in: nobody has changed the file since it was read, so that no   *)
(* other process's update is overwritten (forms.rs:527-566).               *)
BufferFresh ==
  \A p \in Procs :
    pc[p] \in {"mounts", "remountRw", "getAttrs", "clearGet", "clearSet",
              "create", "write"}
      => buf[p] = Patched(contents[job[p].file], job[p])

(* "efivarfs being rw is scary" (efivarfs.rs:60): a mount that boots       *)
(* read-only is writable, and an immutable file mutable, only while a call *)
(* that will put it back is under way, or after a crash or a failed drop.  *)
WritableOnlyInWindow ==
  /\ "ro" \in BootMount \ mountFlags
       => "mount" \in leftover \/ \E p \in Procs : MountWindow(p)
  /\ \A f \in Files : "immutable" \in BootAttrs[f] \ attrs[f]
       => f \in leftover \/ \E p \in Procs : AttrWindow(p) /\ job[p].file = f

(* The guards touch nothing but "ro" and "immutable" ("preserving others", *)
(* chattr.rs:92), and never leave those set where they were not at boot;   *)
(* but mount options that to_ms_flags does not know (efivarfs.rs:129-132)  *)
(* are lost, all of them with the first remount, and only where the mount  *)
(* boots read-only.                                                        *)
OtherFlagsKept ==
  /\ mountFlags \in {BootMount, BootMount \cap MsFlags, (BootMount \cap MsFlags) \ {"ro"}}
  /\ "ro" \notin BootMount => mountFlags = BootMount
  /\ \A f \in Files : attrs[f] \in {BootAttrs[f], BootAttrs[f] \ {"immutable"}}

(* When the code opens the file for writing, the mount and the file are    *)
(* writable: no concurrent call's drop has closed them again in between    *)
(* (forms.rs:554-564).                                                     *)
CreateNotRefused ==
  \A p \in Procs : pc[p] \in {"create", "write"} => ~Refused(job[p].file)

(* "Linux will then release it automatically after the program ends"       *)
(* (forms.rs:519): the lock outlives a call only when the unlock failed,   *)
(* and never its process.                                                  *)
LockReleased ==
  \A h \in held : /\ pc[h[1]] # "down"
                  /\ InSection(h[1]) \/ MayFail("unlock")

(* Where nothing but the reading of a variable may fail, a call fails      *)
(* elsewhere only because another process holds the lock, or for want of   *)
(* descriptors: a call never gets into its own way, nor into that of a     *)
(* later one (file_lock.rs:48-58).                                         *)
FailsOnlyContended ==
  [][Faulty \subseteq {"read"} =>
       \A p \in Procs :
         outcome[p] # "err" /\ outcome'[p] = "err" /\ pc[p] # "read"
           => leaked[p] = FdLimit \/ \E q \in Procs \ {p} : InSection(q)]_vars

(* Every call returns or dies with its process: LockExclusiveNonblock      *)
(* never waits, not even for a lock nobody will release (file_lock.rs:50). *)
WriteReturns == \A p \in Procs : InCall(p) ~> ~InCall(p)

(* "We should unmount it ASAP" (efivarfs.rs:60): efivarfs does not stay    *)
(* writable, unless a crash or a failed remount left it so.                *)
WindowCloses ==
  "ro" \in BootMount => []<>("ro" \in mountFlags \/ "mount" \in leftover)

-----------------------------------------------------------------------------
(* REFINEMENT: the store without its locking and its guards.               *)

Body(bytes) == SubSeq(bytes, HeaderLen + 1, Len(bytes))

Abstract == INSTANCE AtomicVarStore WITH
  InitHeader <- [f \in Files |-> SubSeq(InitContents[f], 1, HeaderLen)],
  InitData   <- [f \in Files |-> Body(InitContents[f])],
  header     <- [f \in Files |-> SubSeq(contents[f], 1, HeaderLen)],
  data       <- [f \in Files |-> Body(contents[f])],
  op         <- job,
  status     <- [p \in Procs |->
                   IF ~InCall(p) THEN "idle"
                   ELSE IF outcome[p] = "ok" THEN "committed" ELSE "pending"],
  result     <- [p \in Procs |-> IF InCall(p) THEN "none" ELSE outcome[p]]

(* Every call takes effect at one instant, entirely and only on its field, *)
(* exactly when it reports Ok: write_at_offset implements the atomic       *)
(* store, whatever fails or crashes and however calls interleave.          *)
ImplementsAtomicStore == Abstract!Spec

=============================================================================
