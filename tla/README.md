# uefisettings: a verification development

`uefisettings` reads and changes UEFI (BIOS) settings of a running host. It has two
backends: *HII* parses the firmware's own form database and edits EFI variables through
efivarfs; *iLO* asks HPE's management controller (BMC) over a REST interface that a closed
library tunnels through a device. The code is short. What is hard about it is what it
shares with others: EFI variables, one mount, file attributes and a lock file with other
processes; a controller that loses, delays, refuses and forgets; a firmware that spells
everything its own way.

This directory holds TLA+ models of those parts, TLC runs that check them on small
instances, and TLAPS proofs for every value of the constants.

## 1. The system

| Component | Source (`src/src/...`) | State it keeps | Hard about it | Status |
|---|---|---|---|---|
| EFI variable write | `lib/hii/forms.rs` (`write_at_offset`), `lib/file_lock.rs`, `lib/hii/efivarfs.rs`, `lib/chattr.rs` | the variable, the mount's flags, the file's attributes, the lock | interleaving processes, crashes between steps, failing drops | modelled, proved |
| HII settings backend | `lib/exports.rs` (`HiiBackend`), `lib/hii/forms.rs` | none of its own; the varstores | unlocked reads, partial failure, offsets and widths, translation both ways | modelled, proved |
| IFR form parser | `lib/hii/forms.rs` (`handle_form_package`, queries) | `current_scope`, the tree | malformed packages, scopes, ids that are only locally unique | modelled but for opcode layouts; the tree and the queries proved |
| Translation | `lib/translation.rs` | none | there and back | modelled, in both backends |
| iLO settings backend | `lib/exports.rs` (`IloBackend`), `lib/ilorest/requests.rs` | none of its own; the BMC's current and pending settings | partial failure over three collections, late PATCHes, reboots | modelled, proved |
| REST client and blob transport | `lib/ilorest/rest.rs`, `blobstore.rs`, `chif.rs` | keys, counters and buffers of an attempt; the BMC's blobs | lost, late, refused and duplicated packets, retries | modelled but for HTTP heads and FFI; proved |
| HII database, packages, strings | `lib/hii/extract.rs`, `package.rs`, `strings.rs` | none | lengths that lie or wrap around, id skips, several lists with one GUID, cut-off databases | modelled, proved; the extraction as one step |
| HII listings | `lib/exports.rs` (`list_strings`, `list_questions`, `show_ifr`) | none | prompts from the right package list and language | modelled but for the text layout; proved |
| Command line, backend choice | `main.rs`, `lib/exports.rs` (`identify_machine`) | the dump file | a dump that is emptied, written in pieces and read by other commands; get and set that must meet in one backend | modelled, proved |
| Generated thrift types | `src/thrift/rust/` | none | - | not modelled: generated |

How they interact. `main.rs` picks a backend and makes one call. `HiiBackend` extracts and
parses the database, finds a question in each form package, reads its answer with
`read_bytes` (no lock) and writes through `write_at_offset` (lock, then two guards whose
drops undo them). `IloBackend` makes a REST call per collection through
`redfish::get_attributes` and `update_attribute`; `RestClient::exec` opens the device anew
for each call and retries `Transport::make_request`, which exchanges packets one by one.
There are no threads and no callbacks inside the program; what runs concurrently is other
processes, the kernel, the BMC, crashes and reboots.

## 2. Modules

```
Bytes <-- EfiVarStore --implements--> AtomicVarStore <--uses-- HiiSettings --> Bytes
                                                                   |
                                                                   | form packages
RestCall <--implements-- BlobTransport                        FormPackage
   ^ assumed by IloSettings                                        ^ FormOf
                               CommandLine --> HiiLayout --> HiiDatabase --> Bytes

proofs:  BytesProofs <-- EfiVarStoreProofs, HiiSettingsProofs, BlobTransportProofs,
             ^           FormPackageProofs
             +---------- HiiLayoutProofs <-- CommandLineProofs
         IloSettingsProofs
```

Each `MC*` module gives one module small constants; each `.cfg` is one question; each
`*Proofs` module extends the module it is about, and `BytesProofs` has the lemmas on byte
sequences, the numbers in them, and least and greatest numbers that several need.

A few operators have a name with an underscore (`Released_AnyHolder` beside `Released`).
They are not part of a model. Each is a definition with a plausible bug, a dropped guard, a
swapped order, a lost offset, put in place of its neighbour to see that a property notices.

### EfiVarStore: one `write_at_offset`, many processes

A process is at `pc[p]`; every system call of the code is an action that succeeds or, when
its name is in `Faulty`, fails and runs the drops that are due. `AfterWrite` and
`AfterAttrGuard` are the order of the drops (immutability guard, mount guard, lock).

| Code | Actions |
|---|---|
| `FileLock::new`, `lock`, drop | `Launch`, `LockOpenFails`, `Lock`, `Unlock` (`Released`, `FlockGranted`) |
| read, seek, patch the copy | `ReadAndPatch` (`Patched`) |
| `EfivarsMountGuard::new`, drop | `GetMountFlags`, `RemountRw`, `RemountRo` |
| `EfivarsImmutabilityGuard::new`, drop | `GetAttrs`, `ClearGet`, `ClearSet`, `RestoreGet`, `RestoreSet` |
| `File::create`, `write_all` | `Create`, `WriteAll` |
| (outside) death of a process, reboot | `Exit`, `Reboot` |

The mount's options are any set, at boot and after. A guard knows of them what `ToMsFlags` lets
through: `to_ms_flags` only warns of an option it does not know, and a remount, which sets the
flags to those it is given, loses it.

The kernel is modelled as the code uses it: `flock` belongs to an open file description and
ends with its process, efivarfs replaces a variable in one write and ignores `O_TRUNC`, a
reboot restores flags and attributes and keeps variables. A descriptor is leaked per call,
as `into_raw_fd` does, up to `FdLimit`.

### AtomicVarStore: what a caller may rely on

`Begin`, `Commit`, `Return`, `Die`: a call changes its field, and nothing else, at one
instant between call and return, if and only if it returns Ok. No lock, mount or attribute.
`EfiVarStore` implements it (`ImplementsAtomicStore`) with the header cut off and the status
read from `outcome`; `HiiSettings` uses it (`UsesAtomicStore`).

### HiiSettings: get and set

A command (`Start`) walks a queue of form packages in any order of their lists
(`Orders`: a HashMap) of its `machine`, which the first state chooses and nothing changes:
what forms it has, how its strings spell them, what may fail on it. In each it takes the first question a phrase names (`Matching`) and
answers it (`Get`), or checks a new value (`Acceptable`) and writes it (`Set`, `Write` or
`WriteFails`, `Report`), skips it (`NotFound`, `SetNowhere`) or fails the whole command
(`SetRefused`, `NoStrings`), with the writes before it done. `Kill` ends a process anywhere.
`log` is a history of the writes that the properties speak about and the code never reads.
A number becomes bytes by being shifted, a byte at a time (`Shifted` in `Bytes`), rather than by
powers of two, which the provers know nothing of. `Apart`, `Numbered`, `InitiallyLegal`,
`Readable`, `Legible`, `Untranslated`, `Distinct` and `WordsApart` are what the proofs ask of a
machine and of the spellings.
What extracting and parsing the database give is here `machine` itself; that they give it is
`ListingMeansDatabase` below.

### FormPackage: opcodes into a tree

The list of opcodes comes one by one (`Read`); `ReadNode` and `ReadEnd` are the two branches
of the loop, `Short` the end of the input. `Found`, `Listed`, `StoreOf` and `Text` are the
recursive queries, as recursive functions over node numbers. `HiiSettings` takes a form
package as the list of its questions; that this is all `find_question` depends on is
`FirstInOrder`.

### HiiDatabase and HiiLayout: from bytes to strings and forms

`HiiDatabase` has no variables. `PackageLists`, `Packages` and `BlocksFrom` are the three
reading loops as recursive functions over positions, with an error as a last element that
cannot be read; `ReadDb` is `read_db`, `ByGuid` its two maps, `Listing` what `list_strings`
and `list_questions` answer. `DataLen` wraps around as the code's unsigned subtraction does.
The widths of fields are constants. What a form package's bytes mean is the operator
constant `FormOf`: the string ids of its prompts, or `Failed`.

`HiiLayout` says the same from the other side, and shares with it only field widths and type
numbers: what a database is before it is bytes (lists of packages, texts with the ids they
have), how a firmware lays it out (`EncodeDb`), and what a listing of it should say
(`Meaning`): every package list with its own texts and prompts, or an error, but never a part.
That is more than the code's maps by GUID can hold when two lists have the same GUID; `Says` is
what a listing does say then. `LaidOut` is what the proofs ask of a database.

### CommandLine: processes around one dump file

`handle_cmds` of any number of processes. `extract-db` is `Create`, `Extract`, `WriteChunk`
and `Written`; a listing is `Extract` or `Open`, `CheckSize`, `ReadChunk`, `ReadEnd`, then
`Parse` with `Listing`; get and set are `Identify` and one step in the backend it prefers. The HII backend reads what it
has written; on the iLO a set changes `pending`, a get reads what is in force (`Shown`), and
`Reboot` makes the one the other. `CheckFails`, `ReadFails` and their like are the errors of the
system calls.
Nothing locks the dump, so reads and writes of several processes interleave at every system
call, may be cut off anywhere in `Cuts`, fail, or end with the process (`Kill`). `Machines`
is again chosen by the first state. `creator`, `overlapped`, `disturbed`, `lastSet`,
`beforeBoot` and `missed` are history: who made the dump last and whether somebody else was
writing then, whether the dump changed under a reader, what the last set put, and the last one
before the last reboot, whether a BMC has missed a ping.

### BlobTransport and RestCall: one REST call

`BlobTransport` is one `RestClient::exec`: the client at the packet exchange `pc`, packets
in `wire`, answers in `replies`, the BMC's `blobs` and the requests it has `executed`.
`Send`, `StatusError` and `Receive` are `exchange_packet`; `Accept` is what each caller does
with a good reply, `FailAttempt` what exec's loop does with an error. `Bmc*` is the
controller, `Expire` its volatile namespace. Sizes are constants, so that three fragments
take five bytes. What the receive buffer holds behind an immediate response is `Surplus`: a zero,
and anything behind it, the "random strings after the null bytes" of requests.rs:361. `RestCall` is what exec promises: only the whole request is executed, at
most `MAX_ALLOWED_REQUEST_ATTEMPTS + 2` times and perhaps after the return, and the result is
the whole response to one of the executions, or an error.

### IloSettings: collections, PATCHes, reboots

Each process runs a command as REST calls: `identify`, then for each collection `current`
and, as the command needs, `patch` or `pending`. `ExecuteGet`, `ExecutePatch` and `Refuse`
are the BMC; a call that is lost may have been executed, any number of times
(`Calling`), or be executed later (`ExecuteStray`). `Reboot` makes pending settings current.
`machine` is what
`identify_hpe_machine_type` finds and decides which collections there are and which keys
count as settings. `author`, `origin` and `executed` are history. `Canonical` is what one proof
asks of the spellings database.

## 3. Runs

| Run | Question | Bounds, and why they are enough |
|---|---|---|
| `store_faults` | Lock, guards, freshness of the buffer, flags, under faults and crashes; is it the atomic store; do calls return, does the mount close? | 2 processes (the lock is between two), 1 immutable file, fields of widths 0, 1 and 2, overlapping, one behind the end; every fault; a mount that boots read-only with one option that `to_ms_flags` knows and one it does not. The lock file cannot be opened only when the process is out of descriptors, and not be locked only when it is taken: with these two failing at will a call that waits for the lock would still return |
| `store_contended` | Do calls fail for other reasons than contention, is the lock free after each? | 3 processes, an immutable and a mutable file, 2 descriptors each: an earlier call's leaked descriptor and a live one; only reading may fail |
| `transport` | Torn requests, wrong responses, leaked blobs, fragment sizes, number of executions; is it the abstract REST call, does it return? | a request of one packet and one of 3 fragments, responses of 1 or 2 reads, 2 attempts, every fault, late replies included |
| `form_tree` | Is the tree what the scopes mean, are the queries right? | all packages of up to 6 opcodes: two nested form sets with a question, or one with a store, a nested scope and a question |
| `hii` | Encoding, offsets, refused and failed sets, reads back; is the store used through its interface only; do vendors' spellings cancel out; can what get shows be set again? | 2 processes, 2 commands each, on one of two machines: a two-byte number whose maximum 258 needs both bytes next to a flag, with every fault, kills and a list without strings; and 2 package lists that spell question and answers differently, asked for by the canonical and a vendor's name |
| `command_line` | Do listings say what the database means; is a dump what it should be after failures, kills and overlapping commands; do get and set meet in one backend; does every command return? | 2 processes, 2 commands each. Listings: ten databases, with skips of both widths, a second language, a two-byte character, packages of other types, padding, empty lists, one GUID for two lists, lists with strings or forms alone, a block of unknown type, a form that does not parse, a package or a list whose length is shorter than its header. The dump: one database of two lists, cut in a header, in a text, between the lists and in the second list, over none or an older dump, and one too large to be read. Backends: none, either, both, with reboots |
| `ilo` | What can a set reach, does get answer what was set, does the pending list tell the truth, is `modified: true` true, are collections patched in order? | 2 processes with one of 8 commands each, 1 reboot, an iLO 4 with keys that are no settings and an iLO 5 with 3 collections that share a setting, an attribute that is no string; calls refused, lost, repeated and late |

`MaxOps`, `MaxCommands`, `MaxBoots`, `FdLimit` and `MAX_ALLOWED_REQUEST_ATTEMPTS` bound what
is otherwise unbounded. The last is 10 in the code; 0 gives two attempts, and a retry already
meets all that an earlier attempt can leave behind. One command per process is what the
command line does; a process of `hii` or `command_line` that runs two stands for two that run
one after the other. In the `Hii`, `CommandLine`, `Ilo`, `Form` and `Transport`
configurations the system stops when all commands have run, so deadlock is not checked
there; in `EfiVarStore` a process can always start another call and it is.

In `command_line` GUIDs have two bytes instead of 16, lengths one instead of four (lists) and
three (packages), the header of a string package two instead of 42. All positions are sums
of these, so that an offset that is wrong in the code is wrong here; a length shorter than
its header wraps around to one that exceeds every file, in 256 as in 2^32 (TLC runs with
databases far below 200 bytes). The file limit is 40 bytes instead of 16 MiB, between the
machine whose dump is as long as the limit and the one whose dump is longer.

### Runs that show a disagreement

| Run | What it shows |
|---|---|
| `transport_exact` | an immediate response comes with bytes from behind it |
| `hii_tail` | a question in the last 4 bytes of its varstore is set but never read back |
| `hii_default` | an unreadable one-of shows the option numbered `default_id` instead of the default value |
| `hii_below` | a number below its minimum is written |
| `hii_flag` | setting a Boolean option writes nothing and answers `modified: true` |

Each checks one property that quotes a comment; PROJECT.json has the quotations. The
varstores of `hii` are four bytes longer than their last question, as `hii_tail` is about the
other case.

Four more the models follow without a run of their own. Of several package lists with one GUID
the code keeps the last (package.rs:238, :242): the strings and forms of the others are listed
nowhere, without an error, and forms may be shown with the strings of another list. The help says
"List all strings-id, string pairs in HiiDB" (main.rs:121, exports.rs:102), and package.rs:194
takes GUIDs to be unique, which nothing checks. `ListingMeansDatabase` promises `Meaning`, all
lists, where they are, and otherwise (`Says`) only that the strings listed are those of single
lists; a property that asked for all of them would be violated by the database `Twice` of
`MCCommandLine`. A mount option that `to_ms_flags` does
not know (efivarfs.rs:129-132) is lost until the next reboot once a guard remounts a mount that
was read-only; the guard's drop does not bring it back, as it restores the flags the guard knows.
`OtherFlagsKept` states this loss as well as what is kept. `exec` makes two attempts more than
`MAX_ALLOWED_REQUEST_ATTEMPTS`, because it counts from 0 and compares with `>` (the
`MaxExecutions` of `ImplementsCall` is the number it does make). And a form package is complete
whenever an End leads to the root, so that one that begins with End is an empty package, not a
malformed one.

What `command_line` shows of dumps is weaker than a reader may expect, and says so in its
properties. `DumpListedWhole` is about reads that nobody disturbs: a listing that reads while
another command writes may mix two databases, and two overlapping extractions may leave a
mixture that is there to stay. And a dump that ends between two package lists, or that a
failed extraction has left empty, is listed without an error, as the shorter database it is:
the format has no total length to check. `GetAnswersSetInForce` ends with the first ping that a
BMC misses: a set may then have gone to the HII backend, and the next get asks the BMC. And on an
iLO get does not answer the last set but the last one before the last reboot, as "pending changes"
"will take effect after reboot" (main.rs:168).
`ShownCanBeSet` leaves out options with blanks around their text, which are shown trimmed and
looked for untrimmed.

## 4. Fairness

- `store_faults`: `WF(Step(p))` per process. The code never waits: `flock` is non-blocking,
  so each step of a running call is enabled until taken. No fairness on starts, faults,
  crashes.
- `transport`: `WF(Client)`, because the library returns from each exchange or gives up
  (`set_recv_timeout`), and `WF(Bmc)`. A successful read returns at least one byte; a BMC that
  answered with empty fragments for ever would keep `read_multi_packet` going for ever, as
  nothing in that loop counts.

- `command_line`: `WF(Io(p))` per process: the operating system runs every process and its
  system calls, the extraction and the backends return. A read may return less than there is,
  but not nothing unless it is at the end, and a write writes something or fails. `Parse`
  needs no fairness, as `CommandsReturn` ends where it begins: it is a computation without
  input. A process never waits for another, so nothing stronger is needed.

## 5. Proofs

TLC checks small instances. What follows holds for every value of the constants that their
assumptions allow: any number of processes, commands, files, packets and opcodes, any faults.
Every invariant that was needed to make a property inductive was first checked with TLC.

### EfiVarStoreProofs

| Theorem | States | Argument |
|---|---|---|
| `TypeCorrect` | `TypeOK` | inductive as it stands; `PatchType` for the bytes |
| `SectionsExclude` | `MutualExclusion` | `LockInv` |
| `NoLostUpdate` | `BufferFresh` | `LockInv`: contents change only in a section |
| `CreateGoesThrough` | `CreateNotRefused` | `GuardsKnown` |
| `GuardsPreserveOthers` | `OtherFlagsKept`: attributes, and the mount options `to_ms_flags` knows; what becomes of the others | `GuardsKnown`, `FlagsInv` |
| `WritableOnlyWhileGuarded` | `WritableOnlyInWindow` | all of the above |
| `LockEndsWithCall` | `LockReleased` | `LockInv`; every way out of a section goes through `Unlock`, `Exit` or `Reboot` |
| `CallsFailContended` | `FailsOnlyContended` | `LockReleased`: who refuses a lock is in a section; `CreateNotRefused` |
| `WritesAreAtomic` | `ImplementsAtomicStore` | step by step, with `RefInv` |

`MutualExclusion` is not inductive: a refused contender's drop unlocks its own descriptor,
and nothing in the property says that this is not the one that holds the lock.
`DescriptorsOpen` does: descriptors that hold the lock are among those opened so far, a
contender's is fresh. `LockInv` is `TypeOK /\ DescriptorsOpen /\ MutualExclusion`. With one
process in its section, what it has read stays true until it writes it back; `GuardsKnown`
says so of the mount's flags and the file's attributes at each `pc`, and `FlagsInv` that they
are those of the boot.

In the refinement `StartWrite` is Begin, a successful `WriteAll` is Commit, `Unlock` and
`LockOpenFails` are Return, `Exit` and `Reboot` are Die; everything else is a stutter.
`WriteAll` is a Commit because the buffer is fresh, patching it changes the field and nothing
else (`PatchedField`), and the outcome of a call is not known before (`OutcomeKnown`).

### HiiSettingsProofs

| Theorem | States | Argument |
|---|---|---|
| `HiiTypeCorrect` | `TypeOK` | `HiiInv` |
| `StoreUsedAsSpecified` | `UsesAtomicStore` | step by step: `Set`, `Write`, `WriteFails`, `Report`, `Kill` are the five actions of the store |
| `FieldsHoldLastWrites` | `FieldsFollowLog` | `FieldsInv`: a write hits all of its field and none of another |
| `StoreStaysLegal` | `StoreLegal` | `FieldsFollowLog`, and that every entry of the log is the new answer of an acceptable command |
| `SetIsAnsweredBack` | `RoundTrip` | `AnswersInv`: what a get has read of a field is its last write, and shows it |
| `WhatIsShownCanBeSet` | `ShownCanBeSet` | the same; an option's text leads back to the option (`AnswersCanBeSet`) |

`HiiInv` is typing, `TargetInv` and `LogInv` (what is about to be written, and what was, is
`NewBytes` of an acceptable command for that very question) and `SizesInv` (no file is
shorter than its varstore). The last four theorems have hypotheses. `Apart`: the fields of
different questions do not overlap and lie in their varstores. `Numbered`: options are
numbers of their question's width. `InitiallyLegal`: the firmware starts with legal values.
The first is what a firmware means by offsets; without it a write to one question is a write
to another, and no code can help that. The second leaves Boolean options out, for which the
code writes nothing (`hii_flag`).

`RoundTrip` and `ShownCanBeSet` follow a command's answer there and back: the user's text is
turned into one of the vendor's words, an option, a number, bytes, and on the way out into all
of these again. `AnswersInv` says that every response of a get is what `Answers` makes of the
field as the log has it at `r.at`. They ask, besides, what tells things apart. `Readable`: no
field in the bytes that a read leaves out (`hii_tail` is about the others). `Legible`: a number is
parsed as it is printed, blanks have no case. `Distinct`: the options of a question have
different values, and different texts also when trimmed and translated. `WordsApart` and
`Untranslated`: no spelling stands for two canonical words, is a number or one of the texts shown
for want of an answer. Where one of them fails a firmware or a spellings database says one thing
for two, and which of the two a user meant is lost before the code sees it.

`MCHiiSettings` has TLC evaluate all of the hypotheses on the machines of `hii`. `Encode` and `Decode` are inverse to each other, and `Shifted` is a function at
all, by `StepByStep`: a function that is defined step by step exists, which well-founded
induction on a set of counterexamples gives without an induction theorem over operators.

### FormPackageProofs

| Theorem | States | Argument |
|---|---|---|
| `PackageTypeCorrect` | `TypeOK` | `PackageInv` |
| `TreeIsNesting` | `NestingMatches` | `PackageInv` |
| `StoreInInnermostFormSet` | `StoreOfOwnFormSet` | climbing from a node visits exactly the scopes around it, innermost first |
| `QuestionsInOrder` | `FirstInOrder` | the subtrees of two children of a node lie apart, the first child's before the second's |

`NestingMatches` speaks of the list of opcodes and counts opens and Ends; the code keeps one
pointer, `current_scope`, and goes up the tree. `ScopeInv` links them: the scopes that are
open where the list ends are a stack, with `current_scope` on top, the parent of each right
below it and exactly one level below it. `PlacesInv` says where in the list each node comes
from, which nothing later changes (`PlacesGrow`).

For the walks, `Under(n)` is the subtree of a node: the node and what it encloses. A subtree is
its root and the subtrees of the root's children (`UnderSplits`, `UnderChild`), and these come
one after the other (`SubtreesApart`, from `NestingMatches`). So the list of the questions of a
subtree, `InOrder(Asked(n))`, is the root, if it is one, followed by the children's lists. That
list, and the first matching question, satisfy the equations of `Listed` and `Found`; and no
other function does, as a node with a different value would have a child with one, and there
is a last node.

### BlobTransportProofs

| Theorem | States | Argument |
|---|---|---|
| `TransportTypeCorrect` | `TypeOK` | `ClientType`, `StoreType`, `WireInv` |
| `RequestsArriveWhole` | `NeverTorn` | `UpInv` |
| `FragmentsWithinPackets` | `FragmentsFit` | `WireInv` |
| `ResultIsOfThisAttempt` | `ResultOfThisAttempt` | `ExecutedInv`, `DownInv`, `ReplyInv` |
| `ExecIsACall` | `ImplementsCall` | the same, step by step |

One invariant, `TransportInv`, in parts. `WireInv`: of an attempt one packet at most is on its
way, it is not answered yet, and if it has the number the client waits for, it is what the
client would send now. `UpInv`: the request blob of each attempt holds the beginning of the
request that the acknowledged fragments make, and all of it when final. `ExecutedInv`: an
attempt has one execution at most, and its response blob holds that response. `DownInv`: what
has been read of it is its beginning. `ReplyInv`: what a reply that will be accepted says is
so. Late packets of earlier attempts do no harm because an attempt's keys are its own
(`ReqKey`, `RespKey`). The number of an execution stands
for the bytes of its response, so that there may be no more attempts than bytes have values
(`SizesAssumption`; 12 in the code).

### IloSettingsProofs

| Theorem | States | Argument |
|---|---|---|
| `IloTypeCorrect` | `TypeOK` | `BmcType`, `ProcType`, `CallInv` |
| `OnlySettingsEverChange` | `OnlySettingsChange` | `StoredInv`; every PATCH, late ones included, is one of a setting (`LegalPatch`) |
| `PendingIsAsked` | `PendingWasAsked` | `StoredInv`, `ResponsesInv` |
| `ModifiedIsAccepted` | `ModifiedMeansAccepted` | `ResponsesInv` |
| `PatchesInOrder` | `PatchedInOrder` | `OrderInv`, `DealtWith` |
| `GetsAreCanonical` | `GetAnswersOrigin` | `StoredInv`, `ResponsesInv`, `TranslationRoundTrip` |

`IloInv` is `BmcType`, `ProcType`, `StoredInv` (every setting is as shipped, or what the PATCH it
is attributed to asks for), `OrderInv` and, per process, `CallInv` (what a reply not yet looked
at says is still so), `DealtWith` and `ResponsesInv`. `PatchedInOrder` is not inductive because
a PATCH that is late (`stray`) is executed with nobody waiting for it: it must be in order
already when it is sent, which `OrderInv` says of strays, too.

`GetsAreCanonical` has the hypothesis `Canonical`: names of one vendor value are spellings of
each other, and a value that is asked for is no vendor value unless it is a name, too. A
database without this loses the user's spelling, whatever the code does. `MCIloSettings` has
TLC evaluate it on the entries of `ilo`.

### CommandLineProofs

| Theorem | States | Argument |
|---|---|---|
| `CommandTypeCorrect` | `TypeOK` | `CommandType` |
| `DumpNeverMixed` | `DumpIsBeginning` | `DumpInv` |
| `WrittenIsComplete` | `WrittenMeansComplete` | `DumpInv` |
| `GetAnswersTheSetInForce` | `GetAnswersSetInForce` | `BackendInv` |
| `ListingsMeanTheDatabase` | `ListingMeansDatabase` | `ListInv`, `ListingIsMeaning` |
| `DumpsAreListedWhole` | `DumpListedWhole` | `DumpInv`, `ListInv`, `ListingIsMeaning`, `CutIsRefused` |

`DumpInv`: unless extractions have overlapped, only the creator of the dump writes, and the
dump is as long as what it has written; and whoever writes, the bytes written are the
firmware's at their own places, so that what the creator has written stays when others write
too, a killed or earlier extraction included. `BackendInv`: as long as no ping was missed
every command goes to the backend that `prioritize_backend` prefers; the HII backend holds the
last set, the iLO the last set as pending and the last before the last reboot in force.
`ListInv`: a listing of the firmware has all of the firmware's bytes; a reader whom nobody
disturbs has a beginning of the dump as it is, hence at the end of input all of it, which by
`DumpInv` is the older dump or a beginning of the firmware's database; and a result is the
`Listing` of what was read. What a listing then says is no longer about processes, and is the
matter of the next module. Both theorems have the hypothesis that every database is `LaidOut`.

### HiiLayoutProofs

| Theorem | States | Argument |
|---|---|---|
| `ListingIsMeaning` | `Says(Listing(EncodeDb(db), what), db, what)` | the four loops of the reader meet the items of the layout one by one |
| `CutIsRefused` | `Listing(b, what) = Failed` for a beginning `b` of `EncodeDb(db)` that ends inside a list | the lists before the cut are read, and the next is not readable |

The reader computes positions from the lengths it finds, the layout concatenates. The lemmas
`Joined` and `HoldsParts` say where in a concatenation each part lies, and that a source that
holds the whole holds each part at its place. For each loop (lists, packages, blocks, characters)
one lemma says what is read at the place of an item and that the next position is that of the
next item (`ListRead`, `PackageRead`, `BlockRead`, `TextRead`), and one that the sequence of
results is that of the items (`ListsParsed`, `PackagesParsed`, `BlocksParsed`). Where an item
cannot be read, because its length lies, its block is unknown or the source ends, the loop ends
with an unreadable element (`ListsRefused`, `PackagesRefused`, `EndsUnreadable`), so that an error
anywhere is an error of the whole (`SoundList`). A length that is shorter than its header wraps
around to one that exceeds the database. Then ids (`IdsCounted`, `IdsDiffer`), the maps by GUID
(`StringsByGuid`, `FormsByGuid`: the last of several lists) and prompts (`PromptFound`). Where
GUIDs differ the last list with a GUID is the only one (`GuidOfList`), so that what the maps hold
is what each list of `Meaning` says (`OwnStrings`, `OwnQuestions`, `ShownByLists`); and else the
strings of a GUID are those of its last list (`StringsOfLists`).

The loops are recursive functions over positions, which SMT solvers do not unroll and for which
no induction theorem can be used here. Instead `CountUp` and `DownwardRecursion`, proved from a
least counterexample, show that such a function exists and satisfies its equation, and each
`...Parsed` lemma goes through the items from the last to the first.

`LaidOut`: lengths, counts and characters fit the fields they are put into, texts have no zero
in them, GUIDs have their length, a length that lies is shorter than the header, and the whole
is smaller than what wraps around. It allows everything the reader refuses but
what would not be a layout at all. `MCCommandLine` has TLC evaluate it on all databases of
`command_line`.

### Assumptions

They are the ASSUMEs of the modules, which TLC evaluates in every run. `EfiVarStore`: the
lock file and the mount are distinct, writes are bytes at natural offsets of known files,
files have a header, "ro" is a mount flag the code knows; of the options a mount boots with
nothing is assumed. `HiiSettings`: the types of questions and options as `forms.rs` has them,
varstores of the size their opcodes give. `FormPackage`: the type of opcodes. `BlobTransport`:
a request is not empty, headers are shorter than packets (else the differences of
blobstore.rs:167 and :299 would underflow); and, in the definition of `Surplus`, that the byte
behind an immediate response is zero, on which `remove_null_bytes` relies and
`ResultOfThisAttempt` with it. `IloSettings`: the machine types,
and that all but iLO 4 have the collections `debug` and `service`, which the code asks every
one of them for (requests.rs:97-175). `CommandLine`: a machine's memory is the encoding of its
database, the name for nobody is no process. `HiiDatabase`: lengths have between one and eight
bytes. Hypotheses of single theorems (`Apart` and its neighbours, `Canonical`, `LaidOut`) are
not assumptions of a module, and the `MC` modules have TLC evaluate them on the instances.

### Only model-checked

- Liveness (`WriteReturns`, `WindowCloses`, `ExecReturns`, `CommandsReturn`): out of this
  prover's reach.
- The properties that runs show violated.

## 6. Not modelled

- HTTP heads, JSON, thrift serialisation, printing, logging: formats without state.
- Loading `ilorest_chif.so` and its symbols: one step, `Connect`.
- Structures of single opcodes: an opcode parses or does not.
- Four- and eight-byte questions: the same code as one- and two-byte ones, beyond what TLC
  can enumerate.
- Varstores with the same name in several package lists (the file is then shared): the MC
  instance has one file per form set.
- The text `show_ifr` prints, names of package lists, UCS-2 to UTF-8: formatting.
- Inside `extract_db`: an EFI variable with an address, and `/dev/mem`. Nothing in the
  program changes either, so one step that yields the database or fails says the same.
- `identify` and `show-translations` on the command line: they print what is there.
- The composition of `CommandLine` with the two backends' modules: one setting per backend
  stands for them, with a current and a pending value for the iLO, as the choice of the backend
  depends on nothing else inside them.
- A read of a variable that sees a write half done: a read is one step in `HiiSettings`.
- A BMC that answers NotModified (20), which `exchange_packet` accepts, to anything but a blob
  that is created again; keys being new, the client never meets one.
- Generated thrift types and module declarations.

## 7. Plan

1. Done: the EFI variable write and its proofs; the transport; both backends; the form
   parser; the database from bytes to listings; the command line with its dump file.
2. Done: proofs of every safety property and action property that a passing run checks, and
   of the three refinements.
3. Composition of `IloSettings` with `RestCall`, one instance per call; a store shared by
   two form sets in `HiiSettings`.
