------------------------------ MODULE CommandLine ------------------------------
(***************************************************************************)
(* handle_cmds of src/src/main.rs: any number of processes extract the HII *)
(* database into a dump file, list a database from the firmware or from    *)
(* the dump, and get and set through the backend that identify_machine and *)
(* prioritize_backend choose.                                              *)
(*                                                                         *)
(* There is one dump file and nothing locks it.  A write or a read of it   *)
(* is one step per system call, of any length; what get and set do inside  *)
(* a backend is HiiSettings and IloSettings, here one step that reads or   *)
(* changes the one setting of that backend.  The HII backend reads what it *)
(* has written; of the iLO a set changes the pending settings, which take  *)
(* effect with a reboot, and a get reads the current ones.                 *)
(***************************************************************************)
EXTENDS HiiLayout

CONSTANTS
  Procs,               \* uefisettings processes
  MaxCommands,         \* commands per process
  Cuts,                \* where reads and writes of the dump may break off
  OldDb,               \* a database dumped earlier, from another firmware
  MAX_ALLOWED_FILESIZE,
  Machines             \* machines, each with its
                       \*   db: the firmware's database,
                       \*   memory: its bytes,
                       \*   backends: those it has, of "Hii" and "Ilo",
                       \*   commands: what is asked on it, [op, arg],
                       \*   faulty: what may happen: "extract", "file", "ping",
                       \*     "backend" for a failure, "kill", "reboot"

ASSUME MachinesAssumption ==
  \A m \in Machines :
    /\ m.memory = EncodeDb(m.db) /\ m.memory \in Seq(Byte)
    /\ m.backends \subseteq {"Hii", "Ilo"}
    /\ m.faulty \subseteq {"extract", "file", "ping", "backend", "kill", "reboot"}
    /\ \A c \in m.commands : c.op \in {"extract", "list", "listfile", "get", "set"}
ASSUME BoundsAssumption == Cuts \subseteq Nat /\ MAX_ALLOWED_FILESIZE \in Nat
ASSUME OldDumpAssumption == EncodeDb(OldDb) \in Seq(Byte)
ASSUME ProcsAssumption == "nobody" \notin Procs

VARIABLES
  machine,     \* the machine; it does not change
  dump,        \* the dump file: Missing or Parsed(its bytes)
  creator,     \* the process that has last created it
  overlapped,  \* another process was about to write when it was created
  settings,    \* the setting of each backend, as it is in force
  pending,     \* the iLO's, as it will be after a reboot
  lastSet,     \* what the last set has put, whatever the backend
  beforeBoot,  \* and the last before the last reboot
  missed,      \* a backend of the machine was not found once
  pc,          \* "idle" or where a process is
  cmd,         \* its command
  buf,         \* the bytes it has extracted or read
  done,        \* how many of them it has written
  disturbed,   \* the dump was not left alone while it read it
  backend,     \* the backend it uses
  result,      \* what its listing or get has found
  outcome,     \* "none", "ok" or "err"
  ran          \* commands started

fileVars == <<dump, creator, overlapped>>
backendVars == <<settings, pending, lastSet, beforeBoot, missed>>
procVars == <<pc, cmd, buf, done, disturbed, backend, result, outcome, ran>>
vars == <<machine, fileVars, backendVars, procVars>>

MayFail(what) == what \in machine.faulty

NoCommand == [op |-> "none", arg |-> 0]
Missing   == [ok |-> FALSE]
NoResult  == [ok |-> FALSE, value |-> "none"]
Nobody    == "nobody"

(* What the HiiDB variable points to.                                      *)
Firmware == machine.memory

-----------------------------------------------------------------------------
Init ==
  /\ machine \in Machines
  /\ dump \in {Missing, Parsed(EncodeDb(OldDb))}
  /\ creator = Nobody
  /\ overlapped = FALSE
  /\ settings = [b \in {"Hii", "Ilo"} |-> 0]
  /\ pending = 0
  /\ lastSet = 0
  /\ beforeBoot = 0
  /\ missed = FALSE
  /\ pc = [p \in Procs |-> "idle"]
  /\ cmd = [p \in Procs |-> NoCommand]
  /\ buf = [p \in Procs |-> <<>>]
  /\ done = [p \in Procs |-> 0]
  /\ disturbed = [p \in Procs |-> FALSE]
  /\ backend = [p \in Procs |-> "none"]
  /\ result = [p \in Procs |-> NoResult]
  /\ outcome = [p \in Procs |-> "none"]
  /\ ran = [p \in Procs |-> 0]

FirstStep(op) ==
  CASE op = "extract"        -> "create"
    [] op = "list"           -> "extract"
    [] op = "listfile"       -> "open"
    [] op \in {"get", "set"} -> "identify"

Start(p) ==
  /\ pc[p] = "idle" /\ ran[p] < MaxCommands
  /\ \E c \in machine.commands :
       /\ cmd' = [cmd EXCEPT ![p] = c]
       /\ pc' = [pc EXCEPT ![p] = FirstStep(c.op)]
  /\ buf' = [buf EXCEPT ![p] = <<>>]
  /\ done' = [done EXCEPT ![p] = 0]
  /\ disturbed' = [disturbed EXCEPT ![p] = FALSE]
  /\ backend' = [backend EXCEPT ![p] = "none"]
  /\ result' = [result EXCEPT ![p] = NoResult]
  /\ outcome' = [outcome EXCEPT ![p] = "none"]
  /\ ran' = [ran EXCEPT ![p] = @ + 1]
  /\ UNCHANGED <<fileVars, backendVars>>

Goes(p, step) == pc' = [pc EXCEPT ![p] = step]

Ends(p, with) ==
  /\ pc' = [pc EXCEPT ![p] = "idle"]
  /\ outcome' = [outcome EXCEPT ![p] = with]

(* The process is gone and its memory with it.                             *)
Frees(p) ==
  /\ buf' = [buf EXCEPT ![p] = <<>>]
  /\ done' = [done EXCEPT ![p] = 0]

-----------------------------------------------------------------------------
(* EXTRACTING                                                              *)

Writing(p) == cmd[p].op = "extract" /\ pc[p] \in {"extract", "write"}

Reading(p) == pc[p] \in {"check", "read"}

(* The dump changes under those who read it.                               *)
Disturbs ==
  disturbed' = [q \in Procs |-> disturbed[q] \/ Reading(q)]

(* File::create                                                            *)
Created_Over == Parsed(IF dump.ok THEN dump.value ELSE <<>>)

Created == Parsed(<<>>)

Create(p) ==
  /\ pc[p] = "create"
  /\ dump' = Created
  /\ creator' = p
  /\ overlapped' = \E q \in Procs : Writing(q)
  /\ Disturbs
  /\ Goes(p, "extract")
  /\ UNCHANGED <<backendVars, cmd, buf, done, backend, result, outcome, ran>>

CreateFails(p) ==
  /\ pc[p] = "create" /\ MayFail("file")
  /\ Ends(p, "err")
  /\ UNCHANGED <<fileVars, backendVars, cmd, buf, done, disturbed, backend, result, ran>>

(* HiiBackend::extract_db                                                  *)
Extract(p) ==
  /\ pc[p] = "extract" /\ "Hii" \in machine.backends
  /\ buf' = [buf EXCEPT ![p] = Firmware]
  /\ Goes(p, IF cmd[p].op = "extract" THEN "write" ELSE "parse")
  /\ UNCHANGED <<fileVars, backendVars, cmd, done, disturbed, backend, result, outcome, ran>>

ExtractFails(p) ==
  /\ pc[p] = "extract"
  /\ "Hii" \notin machine.backends \/ MayFail("extract")
  /\ Ends(p, "err") /\ Frees(p)
  /\ UNCHANGED <<fileVars, backendVars, cmd, disturbed, backend, result, ran>>

(* Where a system call that could go to position end may stop.             *)
Stops(from, end) == {n \in Cuts \cup {end} : from < n /\ n <= end}

(* write_all                                                               *)
WriteChunk(p) ==
  /\ pc[p] = "write"
  /\ \E n \in Stops(done[p], Len(buf[p])) :
       /\ dump' = [dump EXCEPT !.value = Patch(@, done[p], SubSeq(buf[p], done[p] + 1, n))]
       /\ done' = [done EXCEPT ![p] = n]
  /\ Disturbs
  /\ UNCHANGED <<creator, overlapped, backendVars, pc, cmd, buf, backend, result, outcome, ran>>

WriteFails_Unnoticed(p) ==
  /\ pc[p] = "write" /\ MayFail("file")
  /\ Ends(p, "ok") /\ Frees(p)
  /\ UNCHANGED <<fileVars, backendVars, cmd, disturbed, backend, result, ran>>

WriteFails(p) ==
  /\ pc[p] = "write" /\ MayFail("file")
  /\ Ends(p, "err") /\ Frees(p)
  /\ UNCHANGED <<fileVars, backendVars, cmd, disturbed, backend, result, ran>>

Written(p) ==
  /\ pc[p] = "write" /\ done[p] = Len(buf[p])
  /\ Ends(p, "ok") /\ Frees(p)
  /\ UNCHANGED <<fileVars, backendVars, cmd, disturbed, backend, result, ran>>

-----------------------------------------------------------------------------
(* LISTING                                                                 *)

(* get_db_dump_bytes                                                       *)
Open(p) ==
  /\ pc[p] = "open" /\ dump.ok
  /\ disturbed' = [disturbed EXCEPT ![p] = overlapped]
  /\ Goes(p, "check")
  /\ UNCHANGED <<fileVars, backendVars, cmd, buf, done, backend, result, outcome, ran>>

OpenFails(p) ==
  /\ pc[p] = "open" /\ (~dump.ok \/ MayFail("file"))
  /\ Ends(p, "err")
  /\ UNCHANGED <<fileVars, backendVars, cmd, buf, done, disturbed, backend, result, ran>>

SizeAllowed_Any(size) == TRUE

SizeAllowed(size) == size <= MAX_ALLOWED_FILESIZE

CheckSize(p) ==
  /\ pc[p] = "check"
  /\ IF SizeAllowed(Len(dump.value)) THEN Goes(p, "read") /\ UNCHANGED outcome
     ELSE Ends(p, "err")
  /\ UNCHANGED <<fileVars, backendVars, cmd, buf, done, disturbed, backend, result, ran>>

CheckFails(p) ==
  /\ pc[p] = "check" /\ MayFail("file")
  /\ Ends(p, "err")
  /\ UNCHANGED <<fileVars, backendVars, cmd, buf, done, disturbed, backend, result, ran>>

(* read_to_end: until a read returns nothing.                              *)
ReadChunk(p) ==
  /\ pc[p] = "read"
  /\ \E n \in Stops(Len(buf[p]), Len(dump.value)) :
       buf' = [buf EXCEPT ![p] = @ \o SubSeq(dump.value, Len(@) + 1, n)]
  /\ UNCHANGED <<fileVars, backendVars, pc, cmd, done, disturbed, backend, result, outcome, ran>>

AtEnd_Exactly(p) == Len(buf[p]) = Len(dump.value)

AtEnd(p) == Len(buf[p]) >= Len(dump.value)

ReadEnd(p) ==
  /\ pc[p] = "read" /\ AtEnd(p)
  /\ Goes(p, "parse")
  /\ UNCHANGED <<fileVars, backendVars, cmd, buf, done, disturbed, backend, result, outcome, ran>>

ReadFails(p) ==
  /\ pc[p] = "read" /\ MayFail("file")
  /\ Ends(p, "err") /\ Frees(p)
  /\ UNCHANGED <<fileVars, backendVars, cmd, disturbed, backend, result, ran>>

(* list_strings, or list_questions and show_ifr                            *)
Parse(p) ==
  /\ pc[p] = "parse"
  /\ LET listing == Listing(buf[p], cmd[p].arg)
     IN  /\ result' = [result EXCEPT ![p] = listing]
         /\ Ends(p, IF listing.ok THEN "ok" ELSE "err")
  /\ UNCHANGED <<fileVars, backendVars, cmd, buf, done, disturbed, backend, ran>>

-----------------------------------------------------------------------------
(* BACKENDS                                                                *)

(* identify_machine: the path of the HiiDB variable exists, the BMC        *)
(* answers a ping.                                                         *)
Found ==
  {machine.backends}
  \cup (IF MayFail("ping") THEN {machine.backends \ {"Ilo"}} ELSE {})

(* prioritize_backend                                                      *)
Preferred_GetOnly(found, op) ==
  IF "Ilo" \in found /\ (op = "get" \/ "Hii" \notin found) THEN "Ilo" ELSE "Hii"

Preferred(found, op) == IF "Ilo" \in found THEN "Ilo" ELSE "Hii"

Known_Always(found) == TRUE

Known(found) == found # {}

Identify(p) ==
  /\ pc[p] = "identify"
  /\ \E found \in Found :
       /\ missed' = (missed \/ found # machine.backends)
       /\ IF Known(found)
          THEN /\ backend' = [backend EXCEPT ![p] = Preferred(found, cmd[p].op)]
               /\ Goes(p, "backend") /\ UNCHANGED outcome
          ELSE Ends(p, "err") /\ UNCHANGED backend
  /\ UNCHANGED <<fileVars, settings, pending, lastSet, beforeBoot, cmd, buf, done, disturbed, result, ran>>

Shown_Pending(b) == IF b = "Ilo" THEN pending ELSE settings[b]

Shown(b) == settings[b]

(* HiiBackend::get or IloBackend::get                                      *)
Get(p) ==
  /\ pc[p] = "backend" /\ cmd[p].op = "get"
  /\ result' = [result EXCEPT ![p] = Parsed(Shown(backend[p]))]
  /\ Ends(p, "ok")
  /\ UNCHANGED <<fileVars, backendVars, cmd, buf, done, disturbed, backend, ran>>

(* HiiBackend::set or IloBackend::set; one that fails may have changed the *)
(* setting all the same.                                                   *)
Set(p) ==
  /\ pc[p] = "backend" /\ cmd[p].op = "set"
  /\ IF backend[p] = "Ilo" THEN pending' = cmd[p].arg /\ UNCHANGED settings
     ELSE settings' = [settings EXCEPT !["Hii"] = cmd[p].arg] /\ UNCHANGED pending
  /\ lastSet' = cmd[p].arg
  /\ \E with \in {"ok"} \cup (IF MayFail("backend") THEN {"err"} ELSE {}) : Ends(p, with)
  /\ UNCHANGED <<fileVars, beforeBoot, missed, cmd, buf, done, disturbed, backend, result, ran>>

BackendFails(p) ==
  /\ pc[p] = "backend" /\ MayFail("backend")
  /\ Ends(p, "err")
  /\ UNCHANGED <<fileVars, backendVars, cmd, buf, done, disturbed, backend, result, ran>>

-----------------------------------------------------------------------------
Kill(p) ==
  /\ pc[p] # "idle" /\ MayFail("kill")
  /\ Ends(p, "none") /\ Frees(p)
  /\ cmd' = [cmd EXCEPT ![p] = NoCommand]
  /\ UNCHANGED <<fileVars, backendVars, disturbed, backend, result, ran>>

(* The machine is shut down and comes up again, with no process running.   *)
Reboot ==
  /\ MayFail("reboot")
  /\ settings' = [settings EXCEPT !["Ilo"] = pending]
  /\ beforeBoot' = lastSet
  /\ pc' = [p \in Procs |-> "idle"]
  /\ cmd' = [p \in Procs |-> NoCommand]
  /\ buf' = [p \in Procs |-> <<>>]
  /\ done' = [p \in Procs |-> 0]
  /\ result' = [p \in Procs |-> NoResult]
  /\ outcome' = [p \in Procs |-> "none"]
  /\ UNCHANGED <<fileVars, pending, lastSet, missed, disturbed, backend, ran>>

Io(p) ==
  \/ Create(p) \/ CreateFails(p) \/ Extract(p) \/ ExtractFails(p)
  \/ WriteChunk(p) \/ WriteFails(p) \/ Written(p)
  \/ Open(p) \/ OpenFails(p) \/ CheckSize(p) \/ CheckFails(p)
  \/ ReadChunk(p) \/ ReadFails(p) \/ ReadEnd(p)
  \/ Identify(p) \/ Get(p) \/ Set(p) \/ BackendFails(p)

Next ==
  /\ \/ \E p \in Procs : Start(p) \/ Io(p) \/ Parse(p) \/ Kill(p)
     \/ Reboot
  /\ UNCHANGED machine

Spec == Init /\ [][Next]_vars

(* The operating system runs every process and its system calls return.    *)
FairSpec == Spec /\ \A p \in Procs : WF_vars(Io(p) /\ UNCHANGED machine)

-----------------------------------------------------------------------------
(* PROPERTIES                                                              *)

TypeOK ==
  /\ dump = Missing \/ dump.value \in Seq(Byte)
  /\ creator \in Procs \cup {Nobody}
  /\ pc \in [Procs -> {"idle", "create", "extract", "write", "open", "check", "read",
                       "parse", "identify", "backend"}]
  /\ \A p \in Procs :
       /\ cmd[p] \in machine.commands \cup {NoCommand}
       /\ buf[p] \in Seq(Byte) /\ done[p] <= Len(buf[p])
       /\ pc[p] \in {"write", "check", "read"} => dump.ok
       /\ pc[p] = "backend" => backend[p] \in machine.backends

(* A listing of the firmware's database says what the database means, or   *)
(* is an error if that cannot be read as a whole: all lengths, ids and     *)
(* skips are counted right, every prompt is a text of its own package      *)
(* list, and given that package lists have "unique guids" (package.rs:194) *)
(* none is left out.  Where they have not, lists are left out, but strings *)
(* of different lists are not mixed.                                       *)
ListingMeansDatabase ==
  \A p \in Procs :
    cmd[p].op = "list" /\ result[p] # NoResult
      => Says(result[p], machine.db, cmd[p].arg)

(* The dumps whose package lists are all complete.                         *)
WholeDumps ==
  {OldDb} \cup {SubSeq(machine.db, 1, k) : k \in 0..Len(machine.db)}

(* A dump can be cut off anywhere, by a crash, a full disk or an           *)
(* extraction that fails after main.rs:214 has emptied the file.  Left     *)
(* alone while it is read it is listed as what its complete package lists  *)
(* mean, and one that is cut off inside a list is refused, never half      *)
(* listed or mixed with the database that was there before.  One beyond    *)
(* the limit of main.rs:314-321 is not listed at all.                      *)
DumpListedWhole ==
  \A p \in Procs :
    cmd[p].op = "listfile" /\ result[p] # NoResult /\ ~disturbed[p]
      => /\ Len(buf[p]) <= MAX_ALLOWED_FILESIZE
         /\ IF \E db \in WholeDumps : EncodeDb(db) = buf[p]
            THEN \E db \in WholeDumps :
                   EncodeDb(db) = buf[p] /\ Says(result[p], db, cmd[p].arg)
            ELSE IsPrefix(buf[p], Firmware) /\ result[p] = Failed

(* Whatever failed and whoever was killed, the dump is the earlier one or  *)
(* a beginning of the firmware's database, unless two extractions into the *)
(* one file have overlapped (main.rs:213-217).                             *)
DumpIsBeginning ==
  dump.ok /\ ~overlapped =>
    IF creator = Nobody THEN dump.value = EncodeDb(OldDb)
    ELSE IsPrefix(dump.value, Firmware)

(* "HiiDB written to" (main.rs:218): then the dump is the whole database,  *)
(* as long as no later command creates it anew, even if an earlier one is  *)
(* still writing.                                                          *)
WrittenMeansComplete ==
  \A p \in Procs :
    creator = p /\ pc[p] = "idle" /\ cmd[p].op = "extract" /\ outcome[p] = "ok"
      => dump.value = Firmware

(* What a get has to answer: the HII backend's settings are in force when  *)
(* they are set, the iLO's "pending changes" "will take effect after       *)
(* reboot" (main.rs:168).                                                  *)
SetInForce == IF "Ilo" \in machine.backends THEN beforeBoot ELSE lastSet

(* identify_machine runs anew for every command and a command forgets what *)
(* others have found: get answers from where the last set that is in force *)
(* has put its value, as long as the BMC has answered every ping.  "ilo is *)
(* prioritized because its more structured than hii" (main.rs:293), for    *)
(* both commands.                                                          *)
GetAnswersSetInForce ==
  [][\A p \in Procs :
       cmd[p].op = "get" /\ pc[p] = "backend" /\ outcome'[p] = "ok" /\ ~missed
         => result'[p] = Parsed(SetInForce)]_vars

(* A command comes to the end of its input and output (and then parses     *)
(* what it has read), also when the dump shrinks or grows under a command  *)
(* that reads it.                                                          *)
CommandsReturn == \A p \in Procs : pc[p] # "idle" ~> pc[p] \in {"idle", "parse"}

=============================================================================
