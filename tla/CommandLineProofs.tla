-------------------------- MODULE CommandLineProofs --------------------------
(***************************************************************************)
(* The dump file, the choice of the backend and the listings, for any      *)
(* number of processes and commands, any databases, and calls that stop or *)
(* fail anywhere.                                                          *)
(***************************************************************************)
EXTENDS CommandLine, HiiLayoutProofs

Steps == {"idle", "create", "extract", "write", "open", "check", "read", "parse",
          "identify", "backend"}

(* TypeOK, and what it takes to keep it.                                   *)
CommandType ==
  /\ machine \in Machines
  /\ dump = Missing \/ (dump = Parsed(dump.value) /\ dump.value \in Seq(Byte))
  /\ creator \in Procs \cup {Nobody}
  /\ pc \in [Procs -> Steps]
  /\ cmd \in [Procs -> machine.commands \cup {NoCommand}]
  /\ buf \in [Procs -> Seq(Byte)]
  /\ done \in [Procs -> Nat]
  /\ DOMAIN backend = Procs
  /\ \A p \in Procs :
       /\ done[p] <= Len(buf[p])
       /\ pc[p] # "write" => done[p] = 0
       /\ pc[p] \in {"write", "check", "read"} => dump.ok
       /\ Writing(p) => dump.ok
       /\ pc[p] \in {"write", "create"} => cmd[p].op = "extract"
       /\ pc[p] \in {"open", "check", "read", "parse", "identify"} =>
            cmd[p].op # "extract"
       /\ pc[p] = "backend" => backend[p] \in machine.backends

(* The dump has the firmware's bytes up to this length.                    *)
Agrees(length) ==
  /\ length <= Len(dump.value)
  /\ \A i \in 1..length : dump.value[i] = Firmware[i]

HasWritten(p) == pc[p] = "idle" /\ cmd[p].op = "extract" /\ outcome[p] = "ok"

(* Only the creator writes unless extractions have overlapped; and whoever *)
(* writes, it is the firmware's bytes at their own places: what the        *)
(* creator has written of them stays, even when others write too.          *)
DumpInv ==
  /\ \A p \in Procs : pc[p] = "write" => buf[p] = Firmware
  /\ ~overlapped => \A p \in Procs : Writing(p) => p = creator
  /\ creator = Nobody => ~overlapped /\ (dump.ok => dump.value = EncodeDb(OldDb))
  /\ creator # Nobody =>
       /\ dump.ok /\ Len(dump.value) <= Len(Firmware)
       /\ Writing(creator) => Agrees(done[creator])
       /\ HasWritten(creator) => Agrees(Len(Firmware))
       /\ ~overlapped =>
            /\ Agrees(Len(dump.value))
            /\ Writing(creator) => Len(dump.value) = done[creator]

-----------------------------------------------------------------------------
LEMMA ParsedFields ==
  ASSUME NEW value
  PROVE  /\ Parsed(value).ok /\ Parsed(value).value = value
         /\ Parsed(value) = Parsed(Parsed(value).value)
  BY DEF Parsed

LEMMA CommandTypeTyped == CommandType => TypeOK
  BY DEF CommandType, TypeOK, Parsed, Steps

LEMMA InitCommandType == Init => CommandType
<1> SUFFICES ASSUME Init PROVE CommandType
  OBVIOUS
<1>1. EncodeDb(OldDb) \in Seq(Byte) /\ <<>> \in Seq(Byte)
  BY OldDumpAssumption, EmptySeq
<1>2. dump = Missing \/ (dump = Parsed(dump.value) /\ dump.value \in Seq(Byte))
  BY <1>1, ParsedFields DEF Init
<1>3. QED
  BY <1>1, <1>2, EmptySeq DEF Init, CommandType, Steps, Writing

LEMMA MachineType ==
  ASSUME machine \in Machines
  PROVE  /\ Firmware \in Seq(Byte) /\ Len(Firmware) \in Nat
         /\ machine.backends \subseteq {"Hii", "Ilo"}
         /\ \A c \in machine.commands :
              c.op \in {"extract", "list", "listfile", "get", "set"}
  BY MachinesAssumption, LenProperties DEF Firmware

(* A system call stops inside what it was asked to transfer.               *)
LEMMA StopsRange ==
  ASSUME NEW from \in Nat, NEW end \in Nat, NEW n \in Stops(from, end)
  PROVE  n \in Nat /\ from < n /\ n <= end
  BY BoundsAssumption DEF Stops

(* What one chunk makes of the dump.                                       *)
LEMMA ChunkType ==
  ASSUME NEW old \in Seq(Byte), NEW bytes \in Seq(Byte), NEW from \in Nat,
         NEW n \in Nat, from <= n, n <= Len(bytes)
  PROVE  Patch(old, from, SubSeq(bytes, from + 1, n)) \in Seq(Byte)
  BY PartBytes, PatchType

LEMMA NextCommandType == CommandType /\ [Next]_vars => CommandType'
<1> SUFFICES ASSUME CommandType, [Next]_vars PROVE CommandType'
  OBVIOUS
<1>0. /\ machine \in Machines
      /\ pc \in [Procs -> Steps] /\ cmd \in [Procs -> machine.commands \cup {NoCommand}]
      /\ buf \in [Procs -> Seq(Byte)] /\ done \in [Procs -> Nat]
      /\ \A q \in Procs : Len(buf[q]) \in Nat /\ done[q] <= Len(buf[q])
      /\ dump.ok => dump.value \in Seq(Byte) /\ Len(dump.value) \in Nat
                    /\ dump = Parsed(dump.value)
      /\ dump = Missing \/ dump.ok
  BY LenProperties DEF CommandType, Parsed, Missing
<1> USE DEF Goes, Ends, Frees, Steps, fileVars, backendVars, Writing
<1>1. ASSUME NEW p \in Procs, Start(p), UNCHANGED machine PROVE CommandType'
  <2>1. PICK c \in machine.commands : /\ cmd' = [cmd EXCEPT ![p] = c]
                                      /\ pc' = [pc EXCEPT ![p] = FirstStep(c.op)]
    BY <1>1 DEF Start
  <2>2. c.op \in {"extract", "list", "listfile", "get", "set"}
    BY <1>0, MachineType
  <2>3. /\ FirstStep(c.op) \in {"create", "extract", "open", "identify"}
        /\ FirstStep(c.op) = "create" <=> c.op = "extract"
    BY <2>2 DEF FirstStep
  <2>4. buf' \in [Procs -> Seq(Byte)] /\ Len(<<>>) = 0
    BY <1>0, <1>1, EmptySeq DEF Start
  <2>5. done' \in [Procs -> Nat] /\ UNCHANGED <<dump, creator>>
    BY <1>0, <1>1 DEF Start
  <2>6. \A q \in Procs : done'[q] <= Len(buf'[q])
    BY <1>0, <1>1, <2>4 DEF Start
  <2>7. QED
    BY <1>0, <1>1, <2>1, <2>3, <2>4, <2>5, <2>6 DEF Start, CommandType
<1>2. ASSUME NEW p \in Procs, Create(p), UNCHANGED machine PROVE CommandType'
  <2>1. dump' = Parsed(dump'.value) /\ dump'.ok /\ dump'.value \in Seq(Byte)
    BY <1>2, EmptySeq, ParsedFields DEF Create, Created
  <2>2. QED
    BY <1>0, <1>2, <2>1 DEF Create, CommandType
<1>3. ASSUME NEW p \in Procs, Extract(p), UNCHANGED machine PROVE CommandType'
  <2>1. Firmware \in Seq(Byte) /\ Len(Firmware) \in Nat
    BY <1>0, MachineType
  <2>2. buf' \in [Procs -> Seq(Byte)]
    BY <1>0, <1>3, <2>1 DEF Extract
  <2>3. \A q \in Procs : done[q] <= Len(buf'[q])
    <3>1. done[p] = 0 /\ buf'[p] = Firmware
      BY <1>0, <1>3 DEF Extract, CommandType
    <3>2. done[p] <= Len(buf'[p])
      BY <2>1, <3>1
    <3>3. ASSUME NEW q \in Procs \ {p} PROVE done[q] <= Len(buf'[q])
      <4>1. buf'[q] = buf[q]
        BY <1>0, <1>3 DEF Extract
      <4>2. QED
        BY <1>0, <4>1
    <3>4. QED
      BY <3>2, <3>3
  <2>4. QED
    BY <1>0, <1>3, <2>2, <2>3 DEF Extract, CommandType
<1>4. ASSUME NEW p \in Procs, WriteChunk(p), UNCHANGED machine PROVE CommandType'
  <2>1. PICK n \in Stops(done[p], Len(buf[p])) :
          /\ dump' = [dump EXCEPT !.value = Patch(@, done[p], SubSeq(buf[p], done[p] + 1, n))]
          /\ done' = [done EXCEPT ![p] = n]
    BY <1>4 DEF WriteChunk
  <2>2. n \in Nat /\ done[p] <= n /\ n <= Len(buf[p])
    BY <1>0, StopsRange
  <2>3. dump.ok
    BY <1>4 DEF WriteChunk, CommandType
  <2> DEFINE new == Patch(dump.value, done[p], SubSeq(buf[p], done[p] + 1, n))
  <2>4. new \in Seq(Byte)
    BY <1>0, <2>2, <2>3, ChunkType
  <2> HIDE DEF new
  <2>5. dump' = Parsed(new)
    BY <1>0, <2>1, <2>3 DEF Parsed, new
  <2>6. dump'.ok /\ dump' = Parsed(dump'.value) /\ dump'.value \in Seq(Byte)
    BY <2>4, <2>5, ParsedFields
  <2>7. QED
    BY <1>0, <1>4, <2>1, <2>2, <2>6 DEF WriteChunk, CommandType
<1>5. ASSUME NEW p \in Procs, UNCHANGED machine,
             \/ ExtractFails(p) \/ WriteFails(p) \/ Written(p) \/ ReadFails(p) \/ Kill(p)
      PROVE  CommandType'
  <2>1. /\ pc' = [pc EXCEPT ![p] = "idle"] /\ UNCHANGED <<dump, creator, backend>>
        /\ buf' = [buf EXCEPT ![p] = <<>>] /\ done' = [done EXCEPT ![p] = 0]
        /\ cmd' \in {cmd, [cmd EXCEPT ![p] = NoCommand]}
    BY <1>5 DEF ExtractFails, WriteFails, Written, ReadFails, Kill
  <2>2. buf' \in [Procs -> Seq(Byte)] /\ Len(<<>>) = 0
    BY <1>0, <2>1, EmptySeq
  <2>3. done' \in [Procs -> Nat] /\ \A q \in Procs : done'[q] <= Len(buf'[q])
    BY <1>0, <2>1, <2>2
  <2>4. /\ pc' \in [Procs -> Steps] /\ cmd' \in [Procs -> machine.commands \cup {NoCommand}]
        /\ pc'[p] = "idle" /\ done'[p] = 0
        /\ \A q \in Procs \ {p} : pc'[q] = pc[q] /\ cmd'[q] = cmd[q] /\ done'[q] = done[q]
    BY <1>0, <2>1
  <2>5. QED
    BY <1>0, <1>5, <2>1, <2>2, <2>3, <2>4 DEF CommandType
<1>6. ASSUME NEW p \in Procs, UNCHANGED machine,
             \/ CreateFails(p) \/ Open(p) \/ OpenFails(p) \/ CheckSize(p)
             \/ CheckFails(p) \/ ReadEnd(p) \/ Parse(p) \/ Get(p) \/ Set(p) \/ BackendFails(p)
      PROVE  CommandType'
  <2>1. /\ UNCHANGED <<dump, creator, backend, cmd, buf, done>>
        /\ pc[p] # "write"
        /\ \E l \in {"idle", "check", "read", "parse"} :
             /\ pc' = [pc EXCEPT ![p] = l]
             /\ l \in {"check", "read"} => dump.ok
             /\ l \in {"check", "read", "parse", "identify"} => cmd[p].op # "extract"
    BY <1>6 DEF CreateFails, Open, OpenFails, CheckSize, CheckFails, ReadEnd, Parse, Get,
       Set, BackendFails, CommandType
  <2>2. QED
    BY <1>0, <1>6, <2>1 DEF CommandType
<1>7. ASSUME NEW p \in Procs, ReadChunk(p), UNCHANGED machine PROVE CommandType'
  <2>1. PICK n \in Stops(Len(buf[p]), Len(dump.value)) :
          buf' = [buf EXCEPT ![p] = @ \o SubSeq(dump.value, Len(@) + 1, n)]
    BY <1>7 DEF ReadChunk
  <2>2. dump.ok /\ pc[p] = "read" /\ done[p] = 0
    BY <1>7 DEF ReadChunk, CommandType
  <2>3. n \in Nat /\ Len(buf[p]) <= n /\ n <= Len(dump.value)
    <3>1. Len(buf[p]) \in Nat /\ Len(dump.value) \in Nat
      BY <1>0, <2>2
    <3>2. QED
      BY <3>1, StopsRange
  <2>4. SubSeq(dump.value, Len(buf[p]) + 1, n) \in Seq(Byte)
    BY <1>0, <2>2, <2>3, PartBytes
  <2>5. buf[p] \o SubSeq(dump.value, Len(buf[p]) + 1, n) \in Seq(Byte)
    BY <1>0, <2>4, ConcatProperties
  <2>6. buf' \in [Procs -> Seq(Byte)] /\ \A q \in Procs \ {p} : buf'[q] = buf[q]
    BY <1>0, <2>1, <2>5
  <2>7. \A q \in Procs : Len(buf'[q]) \in Nat
    BY <2>6, LenProperties
  <2>8. \A q \in Procs : done[q] <= Len(buf'[q])
    <3>1. done[p] <= Len(buf'[p])
      BY <2>2, <2>7
    <3>2. ASSUME NEW q \in Procs \ {p} PROVE done[q] <= Len(buf'[q])
      <4>1. Len(buf'[q]) = Len(buf[q])
        BY <2>6
      <4>2. QED
        BY <1>0, <4>1
    <3>3. QED
      BY <3>1, <3>2
  <2>9. QED
    BY <1>0, <1>7, <2>6, <2>8 DEF ReadChunk, CommandType
<1>8. ASSUME NEW p \in Procs, Identify(p), UNCHANGED machine PROVE CommandType'
  <2>1. PICK found \in Found :
          IF Known(found)
          THEN /\ backend' = [backend EXCEPT ![p] = Preferred(found, cmd[p].op)]
               /\ Goes(p, "backend")
          ELSE pc' = [pc EXCEPT ![p] = "idle"] /\ UNCHANGED backend
    BY <1>8 DEF Identify
  <2>2. found \subseteq machine.backends /\ found \subseteq {"Hii", "Ilo"}
    BY <1>0, MachineType DEF Found
  <2>3. Known(found) => Preferred(found, cmd[p].op) \in machine.backends
    BY <2>2 DEF Known, Preferred
  <2>4. UNCHANGED <<machine, dump, creator, cmd, buf, done>> /\ done[p] = 0
    BY <1>8 DEF Identify, CommandType
  <2>5. \E l \in {"idle", "backend"} :
          /\ pc' = [pc EXCEPT ![p] = l]
          /\ IF l = "backend"
             THEN \E b \in machine.backends : backend' = [backend EXCEPT ![p] = b]
             ELSE UNCHANGED backend
    BY <2>1, <2>3
  <2>6. QED
    BY <1>0, <2>4, <2>5 DEF CommandType
<1>9. CASE Reboot /\ UNCHANGED machine
  <2>1. /\ pc' = [p \in Procs |-> "idle"] /\ cmd' = [p \in Procs |-> NoCommand]
        /\ buf' = [p \in Procs |-> <<>>] /\ done' = [p \in Procs |-> 0]
        /\ UNCHANGED <<machine, dump, creator, backend>>
    BY <1>9 DEF Reboot
  <2>2. buf' \in [Procs -> Seq(Byte)] /\ Len(<<>>) = 0
    BY <2>1, EmptySeq
  <2>3. QED
    BY <1>0, <2>1, <2>2 DEF CommandType
<1>10. CASE UNCHANGED vars
  BY <1>10 DEF vars, procVars, CommandType
<1>11. QED
  BY <1>1, <1>2, <1>3, <1>4, <1>5, <1>6, <1>7, <1>8, <1>9, <1>10 DEF Next, Io

(* Type correctness of every reachable state: no process reads or writes a *)
(* dump that is not there, or uses a backend the machine does not have.    *)
THEOREM CommandTypeCorrect == Spec => []TypeOK
  BY CommandTypeTyped, InitCommandType, NextCommandType, PTL DEF Spec

-----------------------------------------------------------------------------
OutcomeType == outcome \in [Procs -> {"none", "ok", "err"}]

(* Only the process that takes the step ends with it.                      *)
LEMMA OutcomeSteps ==
  ASSUME NEW p \in Procs, Start(p) \/ Io(p) \/ Parse(p) \/ Kill(p)
  PROVE  UNCHANGED outcome
         \/ \E r \in {"none", "ok", "err"} : outcome' = [outcome EXCEPT ![p] = r]
<1> USE DEF Ends
<1>1. CASE Start(p) \/ Parse(p) \/ Kill(p)
  BY <1>1 DEF Start, Parse, Kill
<1>2. CASE Io(p)
  <2>1. CASE Set(p)
    BY <2>1 DEF Set
  <2>2. CASE Identify(p)
    BY <2>2 DEF Identify
  <2>3. CASE CheckSize(p)
    BY <2>3 DEF CheckSize
  <2>4. CASE \/ Create(p) \/ Extract(p) \/ WriteChunk(p) \/ Open(p)
             \/ ReadChunk(p) \/ ReadEnd(p)
    BY <2>4 DEF Create, Extract, WriteChunk, Open, ReadChunk, ReadEnd
  <2>5. CASE \/ CreateFails(p) \/ ExtractFails(p) \/ WriteFails(p) \/ Written(p)
             \/ OpenFails(p) \/ CheckFails(p) \/ ReadFails(p) \/ Get(p) \/ BackendFails(p)
    BY <2>5 DEF CreateFails, ExtractFails, WriteFails, Written, OpenFails, CheckFails,
       ReadFails, Get, BackendFails
  <2>6. QED
    BY <1>2, <2>1, <2>2, <2>3, <2>4, <2>5 DEF Io
<1>3. QED
  BY <1>1, <1>2

LEMMA NextOutcomeType == OutcomeType /\ [Next]_vars => OutcomeType'
<1> SUFFICES ASSUME OutcomeType, [Next]_vars PROVE OutcomeType'
  OBVIOUS
<1>1. ASSUME NEW p \in Procs, NEW r \in {"none", "ok", "err"},
             outcome' = [outcome EXCEPT ![p] = r]
      PROVE  OutcomeType'
  BY <1>1 DEF OutcomeType
<1>2. CASE UNCHANGED vars
  BY <1>2 DEF vars, procVars, OutcomeType
<1>3. CASE Reboot
  BY <1>3 DEF Reboot, OutcomeType
<1>4. QED
  BY <1>1, <1>2, <1>3, OutcomeSteps DEF Next, OutcomeType

(* The steps that leave the dump alone: nobody begins to write it, and     *)
(* who is done writing has written all.                                    *)
QuietStep ==
  /\ UNCHANGED <<fileVars, machine>>
  /\ \A q \in Procs :
       /\ Writing(q)' => Writing(q) /\ done'[q] = done[q]
       /\ pc'[q] = "write" => buf'[q] = Firmware \/ (pc[q] = "write" /\ buf'[q] = buf[q])
       /\ HasWritten(q)' =>
            HasWritten(q) \/ (Writing(q) /\ pc[q] = "write" /\ done[q] = Len(buf[q]))

LEMMA CommandStepKinds ==
  ASSUME CommandType, OutcomeType, [Next]_vars
  PROVE  \/ \E p \in Procs : Create(p) /\ UNCHANGED machine
         \/ \E p \in Procs : WriteChunk(p) /\ UNCHANGED machine
         \/ QuietStep
<1>0. /\ pc \in [Procs -> Steps] /\ cmd \in [Procs -> machine.commands \cup {NoCommand}]
      /\ buf \in [Procs -> Seq(Byte)] /\ done \in [Procs -> Nat]
      /\ outcome \in [Procs -> {"none", "ok", "err"}]
      /\ machine \in Machines
  BY DEF CommandType, OutcomeType
<1> USE DEF Goes, Ends, Frees, Steps, fileVars, backendVars, Writing, HasWritten
<1>1. ASSUME NEW p \in Procs, UNCHANGED <<fileVars, machine>>,
             \A q \in Procs \ {p} :
               /\ pc'[q] = pc[q] /\ cmd'[q] = cmd[q] /\ buf'[q] = buf[q]
               /\ done'[q] = done[q] /\ outcome'[q] = outcome[q],
             Writing(p)' => Writing(p) /\ done'[p] = done[p],
             pc'[p] = "write" => buf'[p] = Firmware,
             HasWritten(p)' => Writing(p) /\ pc[p] = "write" /\ done[p] = Len(buf[p])
      PROVE  QuietStep
  BY <1>1 DEF QuietStep
<1>2. ASSUME NEW p \in Procs, UNCHANGED <<fileVars, machine>>,
             \A q \in Procs \ {p} :
               /\ pc'[q] = pc[q] /\ cmd'[q] = cmd[q] /\ buf'[q] = buf[q]
               /\ done'[q] = done[q] /\ outcome'[q] = outcome[q],
             ~Writing(p)', pc'[p] # "write", ~HasWritten(p)'
      PROVE  QuietStep
  BY <1>1, <1>2
<1>3. ASSUME NEW p \in Procs, Start(p), UNCHANGED machine PROVE QuietStep
  <2>1. PICK c \in machine.commands : /\ cmd' = [cmd EXCEPT ![p] = c]
                                      /\ pc' = [pc EXCEPT ![p] = FirstStep(c.op)]
    BY <1>3 DEF Start
  <2>2. c.op \in {"extract", "list", "listfile", "get", "set"}
    BY <1>0, MachineType
  <2>3. /\ FirstStep(c.op) \in {"create", "extract", "open", "identify"}
        /\ FirstStep(c.op) = "extract" => c.op = "list"
    BY <2>2 DEF FirstStep
  <2>4. ~Writing(p)' /\ ~HasWritten(p)' /\ pc'[p] # "write"
    BY <1>0, <2>1, <2>3
  <2>5. \A q \in Procs \ {p} :
          /\ pc'[q] = pc[q] /\ cmd'[q] = cmd[q] /\ buf'[q] = buf[q]
          /\ done'[q] = done[q] /\ outcome'[q] = outcome[q]
    BY <1>0, <1>3, <2>1 DEF Start
  <2>6. UNCHANGED <<fileVars, machine>>
    BY <1>3 DEF Start
  <2>7. QED
    BY <1>2, <2>4, <2>5, <2>6
<1>4. ASSUME NEW p \in Procs, UNCHANGED machine,
             \/ CreateFails(p) \/ ExtractFails(p) \/ WriteFails(p) \/ OpenFails(p)
             \/ CheckFails(p) \/ ReadFails(p) \/ BackendFails(p) \/ Kill(p)
      PROVE  QuietStep
  <2>1. UNCHANGED fileVars /\ pc' = [pc EXCEPT ![p] = "idle"]
    BY <1>4 DEF CreateFails, ExtractFails, WriteFails, OpenFails, CheckFails, ReadFails,
       BackendFails, Kill
  <2>2. /\ cmd' \in {cmd, [cmd EXCEPT ![p] = NoCommand]}
        /\ buf' \in {buf, [buf EXCEPT ![p] = <<>>]}
        /\ done' \in {done, [done EXCEPT ![p] = 0]}
    BY <1>4 DEF CreateFails, ExtractFails, WriteFails, OpenFails, CheckFails, ReadFails,
       BackendFails, Kill
  <2>3. \/ outcome' = [outcome EXCEPT ![p] = "err"]
        \/ outcome' = [outcome EXCEPT ![p] = "none"]
    BY <1>4 DEF CreateFails, ExtractFails, WriteFails, OpenFails, CheckFails, ReadFails,
       BackendFails, Kill
  <2>4. pc'[p] = "idle" /\ outcome'[p] # "ok"
    BY <1>0, <2>1, <2>3
  <2>5. \A q \in Procs \ {p} :
          /\ pc'[q] = pc[q] /\ cmd'[q] = cmd[q] /\ buf'[q] = buf[q]
          /\ done'[q] = done[q] /\ outcome'[q] = outcome[q]
    BY <1>0, <2>1, <2>2, <2>3
  <2>6. ~Writing(p)' /\ ~HasWritten(p)' /\ pc'[p] # "write"
    BY <2>4
  <2>7. QED
    BY <1>2, <1>4, <2>1, <2>5, <2>6
<1>5. ASSUME NEW p \in Procs, Extract(p), UNCHANGED machine PROVE QuietStep
  <2>1. /\ UNCHANGED <<fileVars, machine, cmd, done, outcome>>
        /\ pc[p] = "extract" /\ pc'[p] \in {"write", "parse"} /\ buf'[p] = Firmware
        /\ pc'[p] = "write" => cmd[p].op = "extract"
    BY <1>0, <1>5 DEF Extract
  <2>2. \A q \in Procs \ {p} : pc'[q] = pc[q] /\ buf'[q] = buf[q]
    BY <1>0, <1>5 DEF Extract
  <2>3. Writing(p)' => Writing(p)
    BY <2>1
  <2>4. ~HasWritten(p)'
    BY <2>1
  <2>5. QED
    BY <1>1, <2>1, <2>2, <2>3, <2>4
<1>6. ASSUME NEW p \in Procs, Written(p), UNCHANGED machine PROVE QuietStep
  <2>1. /\ UNCHANGED <<fileVars, machine, cmd>> /\ pc[p] = "write"
        /\ cmd[p].op = "extract" /\ done[p] = Len(buf[p]) /\ pc'[p] = "idle"
    BY <1>0, <1>6 DEF Written, CommandType
  <2>2. \A q \in Procs \ {p} :
          /\ pc'[q] = pc[q] /\ buf'[q] = buf[q]
          /\ done'[q] = done[q] /\ outcome'[q] = outcome[q]
    BY <1>0, <1>6 DEF Written
  <2>3. ~Writing(p)' /\ Writing(p)
    BY <2>1
  <2>4. QED
    BY <1>1, <2>1, <2>2, <2>3
<1>7. ASSUME NEW p \in Procs, UNCHANGED machine,
             \/ Open(p) \/ CheckSize(p) \/ ReadChunk(p) \/ ReadEnd(p) \/ Parse(p)
             \/ Identify(p) \/ Get(p) \/ Set(p)
      PROVE  QuietStep
  <2>1. UNCHANGED <<fileVars, cmd, done>> /\ cmd[p].op # "extract"
    <3>1. UNCHANGED <<fileVars, cmd, done>>
      BY <1>7 DEF Open, CheckSize, ReadChunk, ReadEnd, Parse, Identify, Get, Set
    <3>2. CASE Get(p) \/ Set(p)
      BY <3>1, <3>2 DEF Get, Set
    <3>3. CASE Open(p) \/ CheckSize(p) \/ ReadChunk(p) \/ ReadEnd(p) \/ Parse(p)
      <4>1. pc[p] \in {"open", "check", "read", "parse"}
        BY <3>3 DEF Open, CheckSize, ReadChunk, ReadEnd, Parse
      <4>2. QED
        BY <3>1, <4>1 DEF CommandType
    <3>4. CASE Identify(p)
      <4>1. pc[p] = "identify"
        BY <3>4 DEF Identify
      <4>2. QED
        BY <3>1, <4>1 DEF CommandType
    <3>5. QED
      BY <1>7, <3>2, <3>3, <3>4
  <2>2. /\ pc'[p] # "write"
        /\ \A q \in Procs \ {p} : pc'[q] = pc[q]
    BY <1>0, <1>7 DEF Open, CheckSize, ReadChunk, ReadEnd, Parse, Identify, Get, Set
  <2>3. \A q \in Procs \ {p} : buf'[q] = buf[q]
    BY <1>0, <1>7 DEF Open, CheckSize, ReadChunk, ReadEnd, Parse, Identify, Get, Set
  <2>4. \A q \in Procs \ {p} : outcome'[q] = outcome[q]
    BY <1>0, <1>7 DEF Open, CheckSize, ReadChunk, ReadEnd, Parse, Identify, Get, Set
  <2>5. ~Writing(p)' /\ ~HasWritten(p)'
    BY <2>1
  <2>6. QED
    BY <1>2, <1>7, <2>1, <2>2, <2>3, <2>4, <2>5
<1>8. CASE Reboot /\ UNCHANGED machine
  <2>1. /\ UNCHANGED <<fileVars, machine>> /\ pc' = [p \in Procs |-> "idle"]
        /\ outcome' = [p \in Procs |-> "none"]
    BY <1>8 DEF Reboot
  <2>2. QED
    BY <2>1 DEF QuietStep
<1>9. CASE UNCHANGED vars
  BY <1>9 DEF vars, procVars, QuietStep
<1>10. QED
  BY <1>3, <1>4, <1>5, <1>6, <1>7, <1>8, <1>9 DEF Next, Io

-----------------------------------------------------------------------------
LEMMA InitDump == Init => OutcomeType /\ DumpInv
  BY ProcsAssumption DEF Init, OutcomeType, DumpInv, Nobody, Parsed, Missing, Writing

(* A process that creates the dump is its writer now, and those who were   *)
(* about to write it are remembered as overlapping.                        *)
LEMMA CreateDump ==
  ASSUME CommandType, DumpInv, NEW p \in Procs, Create(p), UNCHANGED machine
  PROVE  DumpInv'
<1> USE DEF Goes, Writing, HasWritten
<1>1. /\ pc \in [Procs -> Steps] /\ done \in [Procs -> Nat]
      /\ cmd[p].op = "extract" /\ done[p] = 0 /\ Firmware' = Firmware
      /\ Len(Firmware) \in Nat
  BY MachineType DEF CommandType, Create, Firmware
<1>2. /\ dump' = Parsed(<<>>) /\ creator' = p /\ pc' = [pc EXCEPT ![p] = "extract"]
      /\ overlapped' = \E q \in Procs : Writing(q)
      /\ UNCHANGED <<cmd, buf, done, outcome>> /\ pc[p] = "create"
  BY DEF Create, Created
<1>3. dump'.ok /\ dump'.value = <<>> /\ Len(dump'.value) = 0
  BY <1>2, ParsedFields, EmptySeq
<1>4. Agrees(0)' /\ Agrees(Len(dump.value))'
  BY <1>3 DEF Agrees
<1>5. creator' # Nobody /\ pc'[p] = "extract"
  BY <1>1, <1>2, ProcsAssumption DEF Nobody
<1>6. \A q \in Procs : pc'[q] = "write" => buf'[q] = Firmware'
  BY <1>1, <1>2 DEF DumpInv
<1>7. ~overlapped' => \A q \in Procs : Writing(q)' => q = creator'
  BY <1>1, <1>2
<1>8. QED
  BY <1>1, <1>2, <1>3, <1>4, <1>5, <1>6, <1>7 DEF DumpInv

LEMMA QuietDump ==
  ASSUME CommandType, DumpInv, QuietStep
  PROVE  DumpInv'
<1>1. Firmware' = Firmware /\ UNCHANGED <<dump, creator, overlapped>>
  BY DEF QuietStep, Firmware, fileVars
<1>2. \A q \in Procs : pc'[q] = "write" => buf'[q] = Firmware'
  BY <1>1 DEF DumpInv, QuietStep
<1>3. ~overlapped' => \A q \in Procs : Writing(q)' => q = creator'
  BY <1>1 DEF DumpInv, QuietStep
<1>4. \A length : Agrees(length)' = Agrees(length)
  BY <1>1 DEF Agrees
<1>5. CASE creator = Nobody
  BY <1>1, <1>2, <1>3, <1>5 DEF DumpInv
<1>6. CASE creator # Nobody
  <2>1. creator \in Procs
    BY <1>6 DEF CommandType
  <2>2. Writing(creator)' => Writing(creator) /\ done'[creator] = done[creator]
    BY <1>1, <2>1 DEF QuietStep
  <2>3. Writing(creator)' => Agrees(done[creator])' /\ done'[creator'] = done[creator]
    BY <1>1, <1>4, <1>6, <2>2 DEF DumpInv
  <2>4. HasWritten(creator)' => Agrees(Len(Firmware))'
    <3>1. CASE HasWritten(creator)
      BY <1>1, <1>4, <1>6, <3>1 DEF DumpInv
    <3>2. CASE Writing(creator) /\ pc[creator] = "write" /\ done[creator] = Len(buf[creator])
      <4>1. done[creator] = Len(Firmware)
        BY <2>1, <3>2 DEF DumpInv
      <4>2. QED
        BY <1>1, <1>4, <1>6, <3>2, <4>1 DEF DumpInv
    <3>3. QED
      BY <1>1, <2>1, <3>1, <3>2 DEF QuietStep
  <2>5. ~overlapped' => Agrees(Len(dump.value))'
    BY <1>1, <1>4, <1>6 DEF DumpInv
  <2>6. ~overlapped' /\ Writing(creator)' => Len(dump'.value) = done'[creator']
    BY <1>1, <1>6, <2>2 DEF DumpInv
  <2>7. QED
    BY <1>1, <1>2, <1>3, <1>6, <2>3, <2>4, <2>5, <2>6 DEF DumpInv
<1>7. QED
  BY <1>5, <1>6

(* Whoever writes a chunk, it is the firmware's bytes at their own place.  *)
LEMMA WriteDump ==
  ASSUME CommandType, DumpInv, NEW p \in Procs, WriteChunk(p), UNCHANGED machine
  PROVE  DumpInv'
<1> USE DEF Writing, HasWritten
<1>1. /\ Firmware' = Firmware /\ Firmware \in Seq(Byte) /\ Len(Firmware) \in Nat
      /\ UNCHANGED <<creator, overlapped, pc, cmd, buf, outcome>>
      /\ pc[p] = "write" /\ buf[p] = Firmware /\ cmd[p].op = "extract"
      /\ dump.ok /\ dump = Parsed(dump.value) /\ dump.value \in Seq(Byte)
      /\ Len(dump.value) \in Nat
      /\ done \in [Procs -> Nat] /\ done[p] <= Len(Firmware)
  BY MachineType, LenProperties DEF WriteChunk, CommandType, DumpInv, Firmware, Missing,
     Parsed
<1>2. PICK n \in Stops(done[p], Len(buf[p])) :
        /\ dump' = [dump EXCEPT !.value = Patch(@, done[p], SubSeq(buf[p], done[p] + 1, n))]
        /\ done' = [done EXCEPT ![p] = n]
  BY DEF WriteChunk
<1>3. n \in Nat /\ done[p] < n /\ n <= Len(Firmware) /\ done[p] \in Nat
  BY <1>1, StopsRange
<1> DEFINE new == Patch(dump.value, done[p], SubSeq(Firmware, done[p] + 1, n))
<1>4. /\ Len(new) = IF n > Len(dump.value) THEN n ELSE Len(dump.value)
      /\ \A i \in 1..Len(new) :
           new[i] = IF i \in done[p] + 1..n THEN Firmware[i]
                    ELSE IF i <= Len(dump.value) THEN dump.value[i] ELSE 0
  BY <1>1, <1>3, ChunkBytes, SMTT(30)
<1>5. dump' = Parsed(new)
  BY <1>1, <1>2 DEF Parsed
<1> HIDE DEF new
<1>6. dump'.ok /\ dump'.value = new
  BY <1>5, ParsedFields
<1>7. Writing(p) /\ creator # Nobody /\ creator \in Procs
  <2>1. creator = Nobody => p = creator
    BY <1>1 DEF DumpInv
  <2>2. creator # Nobody
    BY <2>1, ProcsAssumption DEF Nobody
  <2>3. QED
    BY <1>1, <2>2 DEF CommandType
<1>8. /\ dump.ok /\ Len(dump.value) <= Len(Firmware)
      /\ Writing(creator) => Agrees(done[creator])
      /\ HasWritten(creator) => Agrees(Len(Firmware))
      /\ ~overlapped => /\ creator = p /\ Agrees(Len(dump.value))
                        /\ Len(dump.value) = done[p]
  BY <1>1, <1>7 DEF DumpInv
<1>9. ASSUME NEW length \in Nat, Agrees(length) PROVE Agrees(length)'
  <2>1. length <= Len(dump.value) /\ \A i \in 1..length : dump.value[i] = Firmware[i]
    BY <1>9 DEF Agrees
  <2>2. length <= Len(new)
    BY <1>1, <1>3, <1>4, <2>1
  <2>3. ASSUME NEW i \in 1..length PROVE new[i] = Firmware[i]
    BY <1>1, <1>3, <1>4, <2>1, <2>2, <2>3, SMTT(30)
  <2>4. QED
    BY <1>1, <1>6, <2>2, <2>3 DEF Agrees
<1>10. ASSUME Agrees(done[p]) PROVE Agrees(n)'
  BY <1>1, <1>3, <1>4, <1>6, <1>10, SMTT(30) DEF Agrees
<1>11. Len(new) <= Len(Firmware)
  BY <1>1, <1>3, <1>4, <1>8
<1>12. Writing(creator)' => Agrees(done[creator])'
  <2>1. CASE creator = p
    <3>1. done'[creator'] = n /\ Agrees(done[p])
      BY <1>1, <1>2, <1>7, <1>8, <2>1
    <3>2. QED
      BY <1>10, <3>1 DEF Agrees
  <2>2. CASE creator # p
    <3>1. done'[creator'] = done[creator] /\ done[creator] \in Nat
      BY <1>1, <1>2, <1>7, <2>2
    <3>2. Writing(creator)' => Agrees(done[creator])
      BY <1>1, <1>8
    <3>3. QED
      BY <1>9, <3>1, <3>2 DEF Agrees
  <2>3. QED
    BY <2>1, <2>2
<1>13. HasWritten(creator)' => Agrees(Len(Firmware))'
  <2>1. HasWritten(creator)' => Agrees(Len(Firmware))
    BY <1>1, <1>8
  <2>2. QED
    BY <1>1, <1>9, <2>1 DEF Agrees
<1>14. ~overlapped' => Agrees(Len(dump.value))' /\ Len(dump'.value) = done'[creator']
  <2> SUFFICES ASSUME ~overlapped
               PROVE  Agrees(Len(dump.value))' /\ Len(dump'.value) = done'[creator']
    BY <1>1
  <2>1. creator = p /\ Len(dump.value) = done[p] /\ Agrees(done[p])
    BY <1>8
  <2>2. Len(dump'.value) = n /\ done'[creator'] = n
    BY <1>1, <1>2, <1>3, <1>4, <1>6, <1>7, <2>1
  <2>3. QED
    BY <1>10, <2>1, <2>2 DEF Agrees
<1>15. QED
  <2>1. \A q \in Procs : pc'[q] = "write" => buf'[q] = Firmware'
    BY <1>1 DEF DumpInv
  <2>2. ~overlapped' => \A q \in Procs : Writing(q)' => q = creator'
    BY <1>1 DEF DumpInv
  <2>3. QED
    BY <1>1, <1>6, <1>7, <1>11, <1>12, <1>13, <1>14, <2>1, <2>2 DEF DumpInv

LEMMA NextDump ==
  CommandType /\ OutcomeType /\ DumpInv /\ [Next]_vars => DumpInv'
  BY CommandStepKinds, CreateDump, QuietDump, WriteDump

LEMMA DumpBeginning == CommandType /\ DumpInv => DumpIsBeginning
<1> SUFFICES ASSUME CommandType, DumpInv, dump.ok, ~overlapped, creator # Nobody
             PROVE  IsPrefix(dump.value, Firmware)
  BY DEF DumpIsBeginning, DumpInv
<1>1. dump.value \in Seq(Byte) /\ Firmware \in Seq(Byte)
  BY MachineType DEF CommandType, Missing
<1>2. Len(dump.value) <= Len(Firmware) /\ Agrees(Len(dump.value))
  BY DEF DumpInv
<1> DEFINE length == Len(dump.value)
<1>3. /\ length \in Nat /\ length <= Len(Firmware) /\ Len(Firmware) \in Nat
      /\ \A i \in 1..length : dump.value[i] = Firmware[i]
  BY <1>1, <1>2, LenProperties DEF Agrees
<1>4. SubSeq(dump.value, 1, length) = SubSeq(Firmware, 1, length)
  BY <1>3
<1>5. QED
  BY <1>3, <1>4 DEF IsPrefix

LEMMA DumpComplete == CommandType /\ DumpInv => WrittenMeansComplete
<1> SUFFICES ASSUME CommandType, DumpInv, NEW p \in Procs, creator = p, HasWritten(p)
             PROVE  dump.value = Firmware
  BY DEF WrittenMeansComplete, HasWritten
<1>1. creator # Nobody
  BY ProcsAssumption DEF Nobody
<1>2. dump.ok /\ Len(dump.value) <= Len(Firmware) /\ Agrees(Len(Firmware))
  BY <1>1 DEF DumpInv
<1>3. dump.value \in Seq(Byte) /\ Firmware \in Seq(Byte)
  BY <1>2, MachineType DEF CommandType, Missing
<1>4. Len(dump.value) = Len(Firmware) /\ Len(Firmware) \in Nat
  BY <1>2, <1>3, LenProperties DEF Agrees
<1>5. \A i \in 1..Len(Firmware) : dump.value[i] = Firmware[i]
  BY <1>2 DEF Agrees
<1>6. QED
  BY <1>3, <1>4, <1>5, SeqEqual

(* Whatever fails or is killed, the dump is the earlier one or a beginning *)
(* of the firmware's database, unless extractions have overlapped.         *)
THEOREM DumpNeverMixed == Spec => []DumpIsBeginning
<1>1. Init => CommandType /\ OutcomeType /\ DumpInv
  BY InitCommandType, InitDump
<1>2. CommandType /\ OutcomeType /\ DumpInv /\ [Next]_vars
        => (CommandType /\ OutcomeType /\ DumpInv)'
  BY NextCommandType, NextOutcomeType, NextDump
<1>3. QED
  BY <1>1, <1>2, DumpBeginning, PTL DEF Spec

(* "HiiDB written to" is true, even when an earlier extraction is still    *)
(* writing the same file.                                                  *)
THEOREM WrittenIsComplete == Spec => []WrittenMeansComplete
<1>1. Init => CommandType /\ OutcomeType /\ DumpInv
  BY InitCommandType, InitDump
<1>2. CommandType /\ OutcomeType /\ DumpInv /\ [Next]_vars
        => (CommandType /\ OutcomeType /\ DumpInv)'
  BY NextCommandType, NextOutcomeType, NextDump
<1>3. QED
  BY <1>1, <1>2, DumpComplete, PTL DEF Spec

-----------------------------------------------------------------------------
(* The backend that prioritize_backend takes when all are found.           *)
Usual == Preferred(machine.backends, "get")

(* A backend not found once is remembered; as long as there is none, every *)
(* command uses the same one, and that is where the last set went, be it   *)
(* in force or pending.                                                    *)
BackendInv ==
  /\ DOMAIN settings = {"Hii", "Ilo"}
  /\ DOMAIN result = Procs
  /\ ~missed => settings[Usual] = SetInForce /\ (Usual = "Ilo" => pending = lastSet)
  /\ \A p \in Procs :
       /\ pc[p] = "backend" /\ ~missed => backend[p] = Usual
       /\ pc[p] # "idle" => outcome[p] = "none"

LEMMA InitBackend == Init => BackendInv
  BY DEF Init, BackendInv, Usual, Preferred, SetInForce

LEMMA NextBackend ==
  CommandType /\ OutcomeType /\ BackendInv /\ [Next]_vars => BackendInv'
<1> SUFFICES ASSUME CommandType, OutcomeType, BackendInv, [Next]_vars PROVE BackendInv'
  OBVIOUS
<1> USE DEF Goes, Ends, fileVars, backendVars
<1>0. /\ pc \in [Procs -> Steps] /\ outcome \in [Procs -> {"none", "ok", "err"}]
      /\ DOMAIN backend = Procs /\ Usual \in {"Hii", "Ilo"}
      /\ SetInForce = IF Usual = "Ilo" THEN beforeBoot ELSE lastSet
      /\ DOMAIN settings = {"Hii", "Ilo"} /\ DOMAIN result = Procs
  BY DEF CommandType, OutcomeType, Usual, Preferred, BackendInv, SetInForce
<1>1. ASSUME NEW p \in Procs, UNCHANGED <<machine, backendVars, backend>>,
             DOMAIN result' = Procs, pc'[p] # "backend",
             pc'[p] # "idle" => outcome'[p] = "none",
             \A q \in Procs \ {p} : pc'[q] = pc[q] /\ outcome'[q] = outcome[q]
      PROVE  BackendInv'
  <2>1. Usual' = Usual /\ SetInForce' = SetInForce
    BY <1>1 DEF Usual, SetInForce
  <2>2. QED
    BY <1>1, <2>1 DEF BackendInv
<1>2. ASSUME NEW p \in Procs, Start(p), UNCHANGED machine PROVE BackendInv'
  <2>1. PICK c \in machine.commands : pc' = [pc EXCEPT ![p] = FirstStep(c.op)]
    BY <1>2 DEF Start
  <2>2. c.op \in {"extract", "list", "listfile", "get", "set"}
    BY MachineType DEF CommandType
  <2>3. FirstStep(c.op) # "backend"
    BY <2>2 DEF FirstStep
  <2>4. /\ pc'[p] # "backend" /\ outcome'[p] = "none"
        /\ \A q \in Procs \ {p} : pc'[q] = pc[q] /\ outcome'[q] = outcome[q]
    BY <1>0, <1>2, <2>1, <2>3 DEF Start
  <2>5. \A q \in Procs \ {p} : backend'[q] = backend[q]
    BY <1>0, <1>2 DEF Start
  <2>6. /\ Usual' = Usual /\ SetInForce' = SetInForce
        /\ UNCHANGED backendVars /\ DOMAIN result' = Procs
    BY <1>0, <1>2 DEF Usual, SetInForce, Start
  <2>7. QED
    BY <2>4, <2>5, <2>6 DEF BackendInv
<1>3. ASSUME NEW p \in Procs, UNCHANGED machine,
             \/ Create(p) \/ Extract(p) \/ WriteChunk(p) \/ Open(p)
             \/ ReadChunk(p) \/ ReadEnd(p)
      PROVE  BackendInv'
  <2>1. UNCHANGED <<backendVars, backend, outcome, result>>
    BY <1>3 DEF Create, Extract, WriteChunk, Open, ReadChunk, ReadEnd
  <2>2. /\ pc[p] \in {"create", "extract", "write", "open", "read"}
        /\ \/ UNCHANGED pc
           \/ \E l \in {"extract", "write", "check", "parse"} : pc' = [pc EXCEPT ![p] = l]
    BY <1>3 DEF Create, Extract, WriteChunk, Open, ReadChunk, ReadEnd
  <2>3. outcome[p] = "none"
    BY <2>2 DEF BackendInv
  <2>4. pc'[p] # "backend" /\ \A q \in Procs \ {p} : pc'[q] = pc[q]
    BY <1>0, <2>2
  <2>5. QED
    BY <1>0, <1>1, <1>3, <2>1, <2>3, <2>4
<1>4. ASSUME NEW p \in Procs, UNCHANGED machine,
             \/ CreateFails(p) \/ ExtractFails(p) \/ WriteFails(p) \/ Written(p)
             \/ OpenFails(p) \/ CheckFails(p) \/ ReadFails(p) \/ Parse(p) \/ Get(p)
             \/ BackendFails(p) \/ Kill(p)
      PROVE  BackendInv'
  <2>1. UNCHANGED <<backendVars, backend>> /\ DOMAIN result' = Procs
    BY <1>0, <1>4 DEF CreateFails, ExtractFails, WriteFails, Written, OpenFails, CheckFails,
       ReadFails, Parse, Get, BackendFails, Kill
  <2>2. /\ pc' = [pc EXCEPT ![p] = "idle"]
        /\ \E r \in {"none", "ok", "err"} : outcome' = [outcome EXCEPT ![p] = r]
    BY <1>4 DEF CreateFails, ExtractFails, WriteFails, Written, OpenFails, CheckFails,
       ReadFails, Parse, Get, BackendFails, Kill
  <2>3. /\ pc'[p] = "idle"
        /\ \A q \in Procs \ {p} : pc'[q] = pc[q] /\ outcome'[q] = outcome[q]
    BY <1>0, <2>2
  <2>4. QED
    BY <1>1, <1>4, <2>1, <2>3
<1>5. ASSUME NEW p \in Procs, CheckSize(p), UNCHANGED machine PROVE BackendInv'
  <2>1. UNCHANGED <<backendVars, backend, result>> /\ pc[p] = "check"
    BY <1>5 DEF CheckSize
  <2>2. \/ pc' = [pc EXCEPT ![p] = "read"] /\ UNCHANGED outcome
        \/ /\ pc' = [pc EXCEPT ![p] = "idle"]
           /\ outcome' = [outcome EXCEPT ![p] = "err"]
    BY <1>5 DEF CheckSize
  <2>3. outcome[p] = "none"
    BY <2>1 DEF BackendInv
  <2>4. /\ pc'[p] # "backend" /\ (pc'[p] # "idle" => outcome'[p] = "none")
        /\ \A q \in Procs \ {p} : pc'[q] = pc[q] /\ outcome'[q] = outcome[q]
    BY <1>0, <2>2, <2>3
  <2>5. QED
    BY <1>0, <1>1, <1>5, <2>1, <2>4
<1>6. ASSUME NEW p \in Procs, Identify(p), UNCHANGED machine PROVE BackendInv'
  <2>1. /\ UNCHANGED <<machine, settings, pending, lastSet, beforeBoot, result>>
        /\ pc[p] = "identify"
    BY <1>6 DEF Identify
  <2>2. PICK found \in Found :
          /\ missed' = (missed \/ found # machine.backends)
          /\ IF Known(found)
             THEN /\ backend' = [backend EXCEPT ![p] = Preferred(found, cmd[p].op)]
                  /\ pc' = [pc EXCEPT ![p] = "backend"] /\ UNCHANGED outcome
             ELSE /\ pc' = [pc EXCEPT ![p] = "idle"]
                  /\ outcome' = [outcome EXCEPT ![p] = "err"]
                  /\ UNCHANGED backend
    BY <1>6 DEF Identify
  <2>3. Usual' = Usual /\ SetInForce' = SetInForce
    BY <2>1 DEF Usual, SetInForce
  <2>4. outcome[p] = "none"
    BY <2>1 DEF BackendInv
  <2>5. ~missed' => ~missed /\ found = machine.backends
    BY <2>2
  <2>6. \A q \in Procs \ {p} :
          pc'[q] = pc[q] /\ backend'[q] = backend[q] /\ outcome'[q] = outcome[q]
    BY <1>0, <2>2
  <2>7. pc'[p] # "idle" => outcome'[p] = "none"
    BY <1>0, <2>2, <2>4
  <2>8. pc'[p] = "backend" /\ ~missed' => backend'[p] = Usual
    BY <1>0, <2>2, <2>5 DEF Usual, Preferred
  <2>9. QED
    BY <1>0, <2>1, <2>3, <2>5, <2>6, <2>7, <2>8 DEF BackendInv
<1>7. ASSUME NEW p \in Procs, Set(p), UNCHANGED machine PROVE BackendInv'
  <2>1. /\ pc[p] = "backend" /\ UNCHANGED <<machine, missed, backend, result, beforeBoot>>
        /\ IF backend[p] = "Ilo" THEN pending' = cmd[p].arg /\ UNCHANGED settings
           ELSE settings' = [settings EXCEPT !["Hii"] = cmd[p].arg] /\ UNCHANGED pending
        /\ lastSet' = cmd[p].arg
        /\ pc' = [pc EXCEPT ![p] = "idle"]
        /\ \E r : outcome' = [outcome EXCEPT ![p] = r]
    BY <1>7 DEF Set
  <2>2. ~missed => backend[p] = Usual
    BY <2>1 DEF BackendInv
  <2>3. /\ pc'[p] = "idle"
        /\ \A q \in Procs \ {p} : pc'[q] = pc[q] /\ outcome'[q] = outcome[q]
    BY <1>0, <2>1
  <2>4. /\ Usual' = Usual /\ DOMAIN settings' = DOMAIN settings
        /\ SetInForce' = IF Usual = "Ilo" THEN beforeBoot ELSE cmd[p].arg
    BY <1>0, <2>1 DEF Usual, Preferred, SetInForce
  <2>5. ~missed' => settings'[Usual] = SetInForce' /\ (Usual = "Ilo" => pending' = lastSet')
    <3>1. CASE Usual = "Ilo"
      BY <1>0, <2>1, <2>2, <2>4, <3>1 DEF BackendInv
    <3>2. CASE Usual = "Hii"
      BY <1>0, <2>1, <2>2, <2>4, <3>2
    <3>3. QED
      BY <1>0, <3>1, <3>2
  <2>6. QED
    BY <1>0, <2>1, <2>3, <2>4, <2>5 DEF BackendInv
<1>8. CASE Reboot /\ UNCHANGED machine
  <2>1. /\ settings' = [settings EXCEPT !["Ilo"] = pending] /\ beforeBoot' = lastSet
        /\ UNCHANGED <<machine, pending, lastSet, missed>>
        /\ pc' = [p \in Procs |-> "idle"] /\ DOMAIN result' = Procs
    BY <1>8 DEF Reboot
  <2>2. Usual' = Usual /\ SetInForce' = lastSet
    BY <1>0, <2>1 DEF Usual, SetInForce
  <2>3. ~missed => settings'[Usual] = lastSet /\ (Usual = "Ilo" => pending = lastSet)
    <3>1. CASE Usual = "Ilo"
      BY <1>0, <2>1, <3>1 DEF BackendInv
    <3>2. CASE Usual = "Hii"
      BY <1>0, <2>1, <3>2 DEF BackendInv
    <3>3. QED
      BY <1>0, <3>1, <3>2
  <2>4. QED
    BY <1>0, <2>1, <2>2, <2>3 DEF BackendInv
<1>9. CASE UNCHANGED vars
  BY <1>9 DEF vars, procVars, BackendInv, Usual, SetInForce
<1>10. QED
  BY <1>2, <1>3, <1>4, <1>5, <1>6, <1>7, <1>8, <1>9 DEF Next, Io

(* The answer a get that ends well gives.                                  *)
GetStep ==
  \A p \in Procs :
    cmd[p].op = "get" /\ pc[p] = "backend" /\ outcome'[p] = "ok" /\ ~missed
      => result'[p] = Parsed(SetInForce)

LEMMA GetAnswers == OutcomeType /\ BackendInv /\ [Next]_vars => [GetStep]_vars
<1> SUFFICES ASSUME OutcomeType, BackendInv, Next, NEW p \in Procs,
                    cmd[p].op = "get", pc[p] = "backend", outcome'[p] = "ok", ~missed
             PROVE  result'[p] = Parsed(SetInForce)
  BY DEF GetStep
<1> USE DEF Goes, Ends
<1>1. outcome[p] = "none" /\ backend[p] = Usual /\ settings[Usual] = SetInForce
      /\ DOMAIN result = Procs /\ outcome \in [Procs -> {"none", "ok", "err"}]
  BY DEF BackendInv, OutcomeType
<1>2. PICK q \in Procs : Start(q) \/ Io(q) \/ Parse(q) \/ Kill(q)
  <2>1. ~Reboot
    BY DEF Reboot
  <2>2. QED
    BY <2>1 DEF Next
<1>3. \/ UNCHANGED outcome
      \/ \E r \in {"none", "ok", "err"} : outcome' = [outcome EXCEPT ![q] = r]
  BY <1>2, OutcomeSteps
<1>4. q = p
  BY <1>1, <1>3
<1>5. Get(p) \/ BackendFails(p) \/ Kill(p)
  <2>1. ~Start(p) /\ ~Parse(p)
    BY DEF Start, Parse
  <2>2. ~Create(p) /\ ~CreateFails(p) /\ ~Extract(p) /\ ~ExtractFails(p)
        /\ ~WriteChunk(p) /\ ~WriteFails(p) /\ ~Written(p) /\ ~Open(p) /\ ~OpenFails(p)
    BY DEF Create, CreateFails, Extract, ExtractFails, WriteChunk, WriteFails, Written,
       Open, OpenFails
  <2>3. ~CheckSize(p) /\ ~CheckFails(p) /\ ~ReadChunk(p) /\ ~ReadFails(p)
        /\ ~ReadEnd(p) /\ ~Identify(p) /\ ~Set(p)
    BY DEF CheckSize, CheckFails, ReadChunk, ReadFails, ReadEnd, Identify, Set
  <2>4. QED
    BY <1>2, <1>4, <2>1, <2>2, <2>3 DEF Io
<1>6. Get(p)
  BY <1>1, <1>5 DEF BackendFails, Kill
<1>7. QED
  BY <1>1, <1>6 DEF Get, Shown

(* A get answers what the last set that is in force has put, whatever the  *)
(* backend: with an iLO the last before the last reboot, without one the   *)
(* last; as long as the BMC has answered every ping.                       *)
THEOREM GetAnswersTheSetInForce == Spec => GetAnswersSetInForce
<1>1. Init => CommandType /\ OutcomeType /\ BackendInv
  BY InitCommandType, InitDump, InitBackend
<1>2. CommandType /\ OutcomeType /\ BackendInv /\ [Next]_vars
        => (CommandType /\ OutcomeType /\ BackendInv)' /\ [GetStep]_vars
  BY NextCommandType, NextOutcomeType, NextBackend, GetAnswers
<1>3. QED
  BY <1>1, <1>2, PTL DEF Spec, GetAnswersSetInForce, GetStep

-----------------------------------------------------------------------------
(* What a listing in progress has read: of the firmware all of it, of a    *)
(* dump that is left alone a beginning of what is there, so that at its    *)
(* end it has the dump of another firmware or a beginning of this one's.   *)
SoundDump(bytes) == bytes = EncodeDb(OldDb) \/ BeginningOf(bytes, machine.db)

ReadSoFar(p) ==
  /\ ~overlapped /\ Len(buf[p]) <= Len(dump.value)
  /\ \A i \in 1..Len(buf[p]) : buf[p][i] = dump.value[i]
  /\ pc[p] = "read" => Len(dump.value) <= MAX_ALLOWED_FILESIZE

ListOf(p) ==
  /\ pc[p] \in {"open", "check", "read"} => cmd[p].op = "listfile"
  /\ pc[p] = "extract" => cmd[p].op \in {"extract", "list"}
  /\ pc[p] \in {"open", "check"} => buf[p] = <<>>
  /\ pc[p] # "idle" => result[p] = NoResult
  /\ Reading(p) /\ ~disturbed[p] => ReadSoFar(p)
  /\ cmd[p].op = "list" /\ pc[p] = "parse" => buf[p] = Firmware
  /\ cmd[p].op = "list" /\ result[p] # NoResult => result[p] = Listing(Firmware, cmd[p].arg)
  /\ cmd[p].op = "listfile" /\ ~disturbed[p] /\ (pc[p] = "parse" \/ result[p] # NoResult) =>
       SoundDump(buf[p]) /\ Len(buf[p]) <= MAX_ALLOWED_FILESIZE
  /\ cmd[p].op = "listfile" /\ result[p] # NoResult => result[p] = Listing(buf[p], cmd[p].arg)

ListInv ==
  /\ DOMAIN result = Procs /\ DOMAIN disturbed = Procs
  /\ \A p \in Procs : ListOf(p)

LEMMA InitListInv == Init => ListInv
<1> SUFFICES ASSUME Init PROVE ListInv
  OBVIOUS
<1>1. DOMAIN result = Procs /\ DOMAIN disturbed = Procs
  BY DEF Init
<1>2. ASSUME NEW p \in Procs PROVE ListOf(p)
  <2>1. pc[p] = "idle" /\ result[p] = NoResult
    BY DEF Init
  <2>2. QED
    BY <2>1 DEF ListOf, Reading
<1>3. QED
  BY <1>1, <1>2 DEF ListInv

(* A step of another process at most changes the dump, and then this one   *)
(* knows.                                                                  *)
LEMMA ListOfOthers ==
  ASSUME NEW q \in Procs, ListOf(q), UNCHANGED machine,
         pc'[q] = pc[q], cmd'[q] = cmd[q], buf'[q] = buf[q], result'[q] = result[q],
         \/ UNCHANGED <<dump, overlapped>> /\ disturbed'[q] = disturbed[q]
         \/ disturbed'[q] = (disturbed[q] \/ Reading(q))
  PROVE  ListOf(q)'
<1>1. Firmware' = Firmware
  BY DEF Firmware
<1>2. Reading(q)' = Reading(q)
  BY DEF Reading
<1>3. ~disturbed'[q] => ~disturbed[q]
  OBVIOUS
<1>4. ASSUME Reading(q)', ~disturbed'[q] PROVE ReadSoFar(q)'
  <2>1. Reading(q) /\ ~disturbed[q] /\ UNCHANGED <<dump, overlapped>>
    BY <1>2, <1>4
  <2>2. ReadSoFar(q)
    BY <2>1 DEF ListOf
  <2>3. QED
    BY <2>1, <2>2 DEF ReadSoFar
<1>5. SoundDump(buf[q]) => SoundDump(buf[q])'
  BY DEF SoundDump
<1>6. Listing(Firmware, cmd[q].arg)' = Listing(Firmware, cmd[q].arg)
      /\ Listing(buf[q], cmd[q].arg)' = Listing(buf[q], cmd[q].arg)
  BY <1>1
<1>7. QED
  BY <1>1, <1>3, <1>4, <1>5, <1>6 DEF ListOf

(* A command that ends without a listing leaves nothing to be said.        *)
LEMMA ListOfEnded ==
  ASSUME NEW p \in Procs, pc'[p] = "idle", result'[p] = NoResult
  PROVE  ListOf(p)'
  BY DEF ListOf, Reading

LEMMA NextListOfOthers ==
  ASSUME CommandType, ListInv, NEW p \in Procs,
         Start(p) \/ Io(p) \/ Parse(p) \/ Kill(p), UNCHANGED machine,
         NEW q \in Procs, q # p
  PROVE  ListOf(q)'
<1> USE DEF Goes, Ends, Frees, fileVars, backendVars, Disturbs
<1>0. /\ DOMAIN pc = Procs /\ DOMAIN cmd = Procs /\ DOMAIN buf = Procs
      /\ DOMAIN result = Procs /\ DOMAIN disturbed = Procs /\ ListOf(q)
  BY DEF CommandType, ListInv
<1>1. pc'[q] = pc[q] /\ cmd'[q] = cmd[q]
  <2>1. CASE Start(p) \/ Parse(p) \/ Kill(p)
    BY <1>0, <2>1 DEF Start, Parse, Kill
  <2>2. CASE \/ Create(p) \/ CreateFails(p) \/ Extract(p) \/ ExtractFails(p)
             \/ WriteChunk(p) \/ WriteFails(p) \/ Written(p) \/ Open(p) \/ OpenFails(p)
    BY <1>0, <2>2 DEF Create, CreateFails, Extract, ExtractFails, WriteChunk, WriteFails,
       Written, Open, OpenFails
  <2>3. CASE \/ CheckSize(p) \/ ReadChunk(p) \/ ReadEnd(p)
             \/ CheckFails(p) \/ ReadFails(p)
             \/ Identify(p) \/ Get(p) \/ Set(p) \/ BackendFails(p)
    BY <1>0, <2>3 DEF CheckSize, CheckFails, ReadChunk, ReadFails, ReadEnd, Identify, Get,
       Set, BackendFails
  <2>4. QED
    BY <2>1, <2>2, <2>3 DEF Io
<1>2. buf'[q] = buf[q] /\ result'[q] = result[q]
  <2>1. CASE Start(p) \/ Parse(p) \/ Kill(p)
    BY <1>0, <2>1 DEF Start, Parse, Kill
  <2>2. CASE \/ Create(p) \/ CreateFails(p) \/ Extract(p) \/ ExtractFails(p)
             \/ WriteChunk(p) \/ WriteFails(p) \/ Written(p) \/ Open(p) \/ OpenFails(p)
    BY <1>0, <2>2 DEF Create, CreateFails, Extract, ExtractFails, WriteChunk, WriteFails,
       Written, Open, OpenFails
  <2>3. CASE \/ CheckSize(p) \/ ReadChunk(p) \/ ReadEnd(p)
             \/ CheckFails(p) \/ ReadFails(p)
             \/ Identify(p) \/ Get(p) \/ Set(p) \/ BackendFails(p)
    BY <1>0, <2>3 DEF CheckSize, CheckFails, ReadChunk, ReadFails, ReadEnd, Identify, Get,
       Set, BackendFails
  <2>4. QED
    BY <2>1, <2>2, <2>3 DEF Io
<1>3. \/ UNCHANGED <<dump, overlapped>> /\ disturbed'[q] = disturbed[q]
      \/ disturbed'[q] = (disturbed[q] \/ Reading(q))
  <2>1. CASE Start(p) \/ Parse(p) \/ Kill(p)
    BY <1>0, <2>1 DEF Start, Parse, Kill
  <2>2. CASE Create(p) \/ WriteChunk(p)
    BY <1>0, <2>2 DEF Create, WriteChunk
  <2>3. CASE \/ CreateFails(p) \/ Extract(p) \/ ExtractFails(p)
             \/ WriteFails(p) \/ Written(p) \/ Open(p) \/ OpenFails(p)
    BY <1>0, <2>3 DEF CreateFails, Extract, ExtractFails, WriteFails, Written, Open, OpenFails
  <2>4. CASE \/ CheckSize(p) \/ ReadChunk(p) \/ ReadEnd(p)
             \/ CheckFails(p) \/ ReadFails(p)
             \/ Identify(p) \/ Get(p) \/ Set(p) \/ BackendFails(p)
    BY <1>0, <2>4 DEF CheckSize, CheckFails, ReadChunk, ReadFails, ReadEnd, Identify, Get,
       Set, BackendFails
  <2>5. QED
    BY <2>1, <2>2, <2>3, <2>4 DEF Io
<1>4. QED
  BY <1>0, <1>1, <1>2, <1>3, ListOfOthers

(* What an undisturbed reader has in hand at the end.                      *)
LEMMA ReadIsSound ==
  ASSUME CommandType, DumpInv, machine.memory = EncodeDb(machine.db),
         NEW p \in Procs, pc[p] = "read", ReadSoFar(p), AtEnd(p)
  PROVE  SoundDump(buf[p]) /\ Len(buf[p]) <= MAX_ALLOWED_FILESIZE
<1>1. /\ dump.ok /\ dump.value \in Seq(Byte) /\ buf[p] \in Seq(Byte)
      /\ Len(dump.value) \in Nat /\ Len(buf[p]) \in Nat
  BY LenProperties DEF CommandType, Missing
<1>2. /\ Len(buf[p]) = Len(dump.value) /\ ~overlapped
      /\ \A i \in 1..Len(buf[p]) : buf[p][i] = dump.value[i]
      /\ Len(dump.value) <= MAX_ALLOWED_FILESIZE
  BY <1>1 DEF ReadSoFar, AtEnd
<1>3. buf[p] = dump.value
  BY <1>1, <1>2, SeqEqual
<1>4. CASE creator = Nobody
  <2>1. dump.value = EncodeDb(OldDb)
    BY <1>1, <1>4 DEF DumpInv
  <2>2. QED
    BY <1>2, <1>3, <2>1 DEF SoundDump
<1>5. CASE creator # Nobody
  <2>1. Len(dump.value) <= Len(Firmware) /\ Agrees(Len(dump.value))
    BY <1>2, <1>5 DEF DumpInv
  <2>2. Firmware = EncodeDb(machine.db)
    BY DEF Firmware
  <2>3. BeginningOf(dump.value, machine.db)
    BY <1>1, <2>1, <2>2 DEF BeginningOf, Agrees
  <2>4. BeginningOf(buf[p], machine.db)
    BY <1>3, <2>3
  <2>5. QED
    BY <1>2, <2>4 DEF SoundDump
<1>6. QED
  BY <1>2, <1>4, <1>5

LEMMA NextListOf ==
  ASSUME CommandType, DumpInv, ListInv, machine.memory = EncodeDb(machine.db), NEW p \in Procs,
         Start(p) \/ Io(p) \/ Parse(p) \/ Kill(p), UNCHANGED machine
  PROVE  ListOf(p)'
<1> USE DEF Goes, Ends, Frees, fileVars, backendVars, Disturbs
<1>0. /\ pc \in [Procs -> Steps] /\ DOMAIN cmd = Procs /\ DOMAIN buf = Procs
      /\ DOMAIN result = Procs /\ DOMAIN disturbed = Procs /\ ListOf(p)
      /\ Firmware' = Firmware
  BY DEF CommandType, ListInv, Firmware
<1>1. CASE Start(p)
  <2>1. PICK c \in machine.commands : /\ cmd' = [cmd EXCEPT ![p] = c]
                                      /\ pc' = [pc EXCEPT ![p] = FirstStep(c.op)]
    BY <1>1 DEF Start
  <2>2. c.op \in {"extract", "list", "listfile", "get", "set"}
    BY MachineType DEF CommandType
  <2>3. /\ FirstStep(c.op) \in {"create", "extract", "open", "identify"}
        /\ FirstStep(c.op) = "open" => c.op = "listfile"
        /\ FirstStep(c.op) = "extract" => c.op = "list"
    BY <2>2 DEF FirstStep
  <2>4. cmd'[p] = c /\ pc'[p] = FirstStep(c.op) /\ buf'[p] = <<>> /\ result'[p] = NoResult
    BY <1>0, <1>1, <2>1 DEF Start
  <2>5. QED
    BY <2>3, <2>4 DEF ListOf, Reading
<1>2. CASE \/ CreateFails(p) \/ ExtractFails(p) \/ WriteFails(p) \/ Written(p)
           \/ OpenFails(p) \/ CheckFails(p) \/ ReadFails(p) \/ Set(p)
           \/ BackendFails(p) \/ Kill(p)
  <2>1. pc'[p] = "idle" /\ UNCHANGED result
    BY <1>0, <1>2 DEF CreateFails, ExtractFails, WriteFails, Written, OpenFails, CheckFails,
       ReadFails, Set, BackendFails, Kill
  <2>2. pc[p] # "idle"
    BY <1>2 DEF CreateFails, ExtractFails, WriteFails, Written, OpenFails, CheckFails,
       ReadFails, Set, BackendFails, Kill
  <2>3. result[p] = NoResult
    BY <1>0, <2>2 DEF ListOf
  <2>4. QED
    BY <2>1, <2>3, ListOfEnded
<1>3. CASE Create(p)
  <2>1. pc'[p] = "extract" /\ pc[p] = "create" /\ UNCHANGED <<cmd, result>>
    BY <1>0, <1>3 DEF Create
  <2>2. cmd[p].op = "extract" /\ result[p] = NoResult
    BY <1>0, <2>1 DEF CommandType, ListOf
  <2>3. QED
    BY <2>1, <2>2 DEF ListOf, Reading
<1>4. CASE Extract(p)
  <2>1. /\ pc'[p] = IF cmd[p].op = "extract" THEN "write" ELSE "parse"
        /\ buf'[p] = Firmware /\ pc[p] = "extract" /\ UNCHANGED <<cmd, result>>
    BY <1>0, <1>4 DEF Extract
  <2>2. cmd[p].op \in {"extract", "list"} /\ result[p] = NoResult
    BY <1>0, <2>1 DEF ListOf
  <2>3. pc'[p] \in {"write", "parse"}
    BY <2>1
  <2>4. QED
    BY <1>0, <2>1, <2>2, <2>3 DEF ListOf, Reading
<1>5. CASE WriteChunk(p)
  <2>1. pc[p] = "write" /\ UNCHANGED <<pc, cmd, result>>
    BY <1>5 DEF WriteChunk
  <2>2. cmd[p].op = "extract" /\ result[p] = NoResult
    BY <1>0, <2>1 DEF CommandType, ListOf
  <2>3. QED
    BY <2>1, <2>2 DEF ListOf, Reading
<1>6. CASE Open(p)
  <2>1. /\ pc[p] = "open" /\ pc'[p] = "check" /\ disturbed'[p] = overlapped
        /\ UNCHANGED <<cmd, result, buf, dump, overlapped>> /\ dump.ok
    BY <1>0, <1>6 DEF Open
  <2>2. cmd[p].op = "listfile" /\ buf[p] = <<>> /\ result[p] = NoResult
    BY <1>0, <2>1 DEF ListOf
  <2>3. Len(dump.value) \in Nat /\ Len(<<>>) = 0
    BY <2>1, LenProperties, EmptySeq DEF CommandType, Missing
  <2>4. ~disturbed'[p] => ReadSoFar(p)'
    BY <2>1, <2>2, <2>3 DEF ReadSoFar
  <2>5. QED
    BY <2>1, <2>2, <2>4 DEF ListOf, Reading
<1>7. CASE CheckSize(p)
  <2>1. pc[p] = "check" /\ UNCHANGED <<cmd, result, buf, dump, overlapped, disturbed>>
    BY <1>7 DEF CheckSize
  <2>2. cmd[p].op = "listfile" /\ buf[p] = <<>> /\ result[p] = NoResult
    BY <1>0, <2>1 DEF ListOf
  <2>3. CASE SizeAllowed(Len(dump.value))
    <3>1. pc'[p] = "read" /\ Len(dump.value) <= MAX_ALLOWED_FILESIZE
      BY <1>0, <1>7, <2>3 DEF CheckSize, SizeAllowed
    <3>2. ~disturbed[p] => ReadSoFar(p)
      BY <1>0, <2>1 DEF ListOf, Reading
    <3>3. ~disturbed'[p] => ReadSoFar(p)'
      BY <2>1, <3>1, <3>2 DEF ReadSoFar
    <3>4. QED
      BY <2>1, <2>2, <3>1, <3>3 DEF ListOf
  <2>4. CASE ~SizeAllowed(Len(dump.value))
    <3>1. pc'[p] = "idle"
      BY <1>0, <1>7, <2>4 DEF CheckSize
    <3>2. QED
      BY <2>1, <2>2, <3>1, ListOfEnded
  <2>5. QED
    BY <2>3, <2>4
<1>8. CASE ReadChunk(p)
  <2>1. pc[p] = "read" /\ UNCHANGED <<pc, cmd, result, dump, overlapped, disturbed>>
    BY <1>8 DEF ReadChunk
  <2>2. cmd[p].op = "listfile" /\ result[p] = NoResult
    BY <1>0, <2>1 DEF ListOf
  <2>3. PICK n \in Stops(Len(buf[p]), Len(dump.value)) :
          buf' = [buf EXCEPT ![p] = @ \o SubSeq(dump.value, Len(@) + 1, n)]
    BY <1>8 DEF ReadChunk
  <2>4. PICK a \in Seq(Byte), v \in Seq(Byte) : a = buf[p] /\ v = dump.value
    BY <2>1 DEF CommandType, Missing
  <2>5. PICK l \in Nat : l = Len(a) /\ Len(v) \in Nat
    BY LenProperties
  <2>6. n \in Nat /\ l < n /\ n <= Len(v)
    BY <2>4, <2>5, StopsRange
  <2>7. /\ SubSeq(v, l + 1, n) \in Seq(Byte) /\ Len(SubSeq(v, l + 1, n)) = n - l
        /\ \A i \in 1..n - l : SubSeq(v, l + 1, n)[i] = v[l + i]
    <3>1. l <= n
      BY <2>6
    <3>2. QED
      BY <2>5, <2>6, <3>1, PartBytes
  <2>8. PICK more \in Seq(Byte) : more = SubSeq(v, l + 1, n)
    BY <2>7
  <2>9. buf'[p] = a \o more
    BY <1>0, <2>3, <2>4, <2>5, <2>8
  <2>10. ASSUME ReadSoFar(p) PROVE ReadSoFar(p)'
    <3>1. \A i \in 1..l : a[i] = v[i]
      BY <2>4, <2>5, <2>10 DEF ReadSoFar
    <3>2. /\ Len(a \o more) = n
          /\ \A i \in 1..l : (a \o more)[i] = a[i]
          /\ \A i \in l + 1..n : (a \o more)[i] = more[i - l]
      BY <2>5, <2>6, <2>7, <2>8, ConcatProperties
    <3>3. ASSUME NEW i \in 1..n PROVE (a \o more)[i] = v[i]
      <4>1. CASE i \in 1..l
        BY <3>1, <3>2, <4>1
      <4>2. CASE i \notin 1..l
        <5>1. i \in l + 1..n /\ i - l \in 1..n - l /\ l + (i - l) = i
          BY <2>5, <2>6, <4>2
        <5>2. QED
          BY <2>7, <2>8, <3>2, <5>1
      <4>3. QED
        BY <4>1, <4>2
    <3>4. Len(buf'[p]) <= Len(dump'.value) /\ \A i \in 1..Len(buf'[p]) : buf'[p][i] = dump'.value[i]
      BY <2>1, <2>4, <2>6, <2>9, <3>2, <3>3
    <3>5. QED
      BY <2>1, <2>10, <3>4 DEF ReadSoFar
  <2>11. ~disturbed'[p] => ReadSoFar(p)'
    BY <1>0, <2>1, <2>10 DEF ListOf, Reading
  <2>12. QED
    BY <2>1, <2>2, <2>11 DEF ListOf
<1>9. CASE ReadEnd(p)
  <2>1. /\ pc[p] = "read" /\ AtEnd(p) /\ pc'[p] = "parse"
        /\ UNCHANGED <<cmd, result, buf, disturbed>>
    BY <1>0, <1>9 DEF ReadEnd
  <2>2. cmd[p].op = "listfile" /\ result[p] = NoResult
    BY <1>0, <2>1 DEF ListOf
  <2>3. ~disturbed[p] => SoundDump(buf[p]) /\ Len(buf[p]) <= MAX_ALLOWED_FILESIZE
    BY <1>0, <2>1, ReadIsSound DEF ListOf, Reading
  <2>4. ~disturbed'[p] => SoundDump(buf[p])' /\ Len(buf'[p]) <= MAX_ALLOWED_FILESIZE
    BY <2>1, <2>3 DEF SoundDump
  <2>5. QED
    BY <2>1, <2>2, <2>4 DEF ListOf, Reading
<1>10. CASE Parse(p)
  <2>1. /\ pc[p] = "parse" /\ pc'[p] = "idle" /\ UNCHANGED <<cmd, buf, disturbed>>
        /\ result'[p] = Listing(buf[p], cmd[p].arg)
    BY <1>0, <1>10 DEF Parse
  <2>2. cmd[p].op = "list" => buf[p] = Firmware
    BY <1>0, <2>1 DEF ListOf
  <2>3. cmd[p].op = "listfile" /\ ~disturbed[p] =>
          SoundDump(buf[p]) /\ Len(buf[p]) <= MAX_ALLOWED_FILESIZE
    BY <1>0, <2>1 DEF ListOf
  <2>4. SoundDump(buf[p]) => SoundDump(buf[p])'
    BY <2>1 DEF SoundDump
  <2>5. Listing(Firmware, cmd[p].arg)' = Listing(Firmware, cmd[p].arg)
        /\ Listing(buf[p], cmd[p].arg)' = Listing(buf[p], cmd[p].arg)
    BY <1>0, <2>1
  <2>6. QED
    BY <1>0, <2>1, <2>2, <2>3, <2>4, <2>5 DEF ListOf, Reading
<1>11. CASE Identify(p)
  <2>1. pc[p] = "identify" /\ pc'[p] \in {"backend", "idle"} /\ UNCHANGED result
    BY <1>0, <1>11 DEF Identify
  <2>2. result[p] = NoResult
    BY <1>0, <2>1 DEF ListOf
  <2>3. QED
    BY <2>1, <2>2 DEF ListOf, Reading
<1>12. CASE Get(p)
  <2>1. cmd[p].op = "get" /\ UNCHANGED cmd /\ pc'[p] = "idle"
    BY <1>0, <1>12 DEF Get
  <2>2. QED
    BY <2>1 DEF ListOf, Reading
<1>13. QED
  BY <1>1, <1>2, <1>3, <1>4, <1>5, <1>6, <1>7, <1>8, <1>9, <1>10, <1>11, <1>12 DEF Io

LEMMA ListInvDomains ==
  ASSUME ListInv, NEW p \in Procs, Start(p) \/ Io(p) \/ Parse(p) \/ Kill(p)
  PROVE  DOMAIN result' = Procs /\ DOMAIN disturbed' = Procs
<1>1. DOMAIN result = Procs /\ DOMAIN disturbed = Procs
  BY DEF ListInv
<1>2. CASE Start(p) \/ Parse(p) \/ Kill(p)
  BY <1>1, <1>2 DEF Start, Parse, Kill
<1>3. CASE \/ Create(p) \/ CreateFails(p) \/ Extract(p) \/ ExtractFails(p)
           \/ WriteChunk(p) \/ WriteFails(p) \/ Written(p) \/ Open(p) \/ OpenFails(p)
  BY <1>1, <1>3 DEF Create, CreateFails, Extract, ExtractFails, WriteChunk, WriteFails,
     Written, Open, OpenFails, Disturbs
<1>4. CASE \/ CheckSize(p) \/ ReadChunk(p) \/ ReadEnd(p)
           \/ CheckFails(p) \/ ReadFails(p)
           \/ Identify(p) \/ Get(p) \/ Set(p) \/ BackendFails(p)
  BY <1>1, <1>4 DEF CheckSize, CheckFails, ReadChunk, ReadFails, ReadEnd, Identify, Get,
     Set, BackendFails
<1>5. QED
  BY <1>2, <1>3, <1>4 DEF Io

LEMMA NextListInv == CommandType /\ DumpInv /\ ListInv /\ [Next]_vars => ListInv'
<1>1. ASSUME ListInv, UNCHANGED vars PROVE ListInv'
  <2>1. UNCHANGED <<machine, dump, overlapped, pc, cmd, buf, disturbed, result>>
    BY <1>1 DEF vars, fileVars, procVars
  <2>2. \A q \in Procs : ListOf(q)'
    BY <1>1, <2>1, ListOfOthers DEF ListInv
  <2>3. QED
    BY <1>1, <2>1, <2>2 DEF ListInv
<1>2. ASSUME CommandType, DumpInv, ListInv, NEW p \in Procs,
             Start(p) \/ Io(p) \/ Parse(p) \/ Kill(p), UNCHANGED machine
      PROVE  ListInv'
  <2>1. machine.memory = EncodeDb(machine.db)
    BY <1>2, MachinesAssumption DEF CommandType
  <2>2. ListOf(p)'
    BY <1>2, <2>1, NextListOf
  <2>3. \A q \in Procs : q # p => ListOf(q)'
    BY <1>2, NextListOfOthers
  <2>4. DOMAIN result' = Procs /\ DOMAIN disturbed' = Procs
    BY <1>2, ListInvDomains
  <2>5. QED
    BY <2>2, <2>3, <2>4 DEF ListInv
<1>3. ASSUME ListInv, Reboot PROVE ListInv'
  <2>1. /\ pc' = [p \in Procs |-> "idle"] /\ result' = [p \in Procs |-> NoResult]
        /\ UNCHANGED disturbed
    BY <1>3 DEF Reboot
  <2>2. \A p \in Procs : ListOf(p)'
    BY <2>1, ListOfEnded
  <2>3. DOMAIN result' = Procs /\ DOMAIN disturbed' = Procs
    BY <1>3, <2>1 DEF ListInv
  <2>4. QED
    BY <2>2, <2>3 DEF ListInv
<1>4. ASSUME CommandType, DumpInv, ListInv, Next PROVE ListInv'
  <2>1. UNCHANGED machine
    BY <1>4 DEF Next
  <2>2. CASE \E p \in Procs : Start(p) \/ Io(p) \/ Parse(p) \/ Kill(p)
    BY <1>2, <1>4, <2>1, <2>2
  <2>3. QED
    BY <1>3, <1>4, <2>2 DEF Next
<1>5. QED
  BY <1>1, <1>4

-----------------------------------------------------------------------------
(* What the databases are taken to be: as in HiiLayout.LaidOut.            *)
DatabasesLaidOut == LaidOut(OldDb) /\ \A m \in Machines : LaidOut(m.db)

LEMMA ListingMeans ==
  ASSUME DatabasesLaidOut
  PROVE  CommandType /\ ListInv => ListingMeansDatabase
<1> SUFFICES ASSUME CommandType, ListInv, NEW p \in Procs,
                    cmd[p].op = "list", result[p] # NoResult
             PROVE  Says(result[p], machine.db, cmd[p].arg)
  BY DEF ListingMeansDatabase
<1>1. result[p] = Listing(Firmware, cmd[p].arg)
  BY DEF ListInv, ListOf
<1>2. Firmware = EncodeDb(machine.db) /\ LaidOut(machine.db)
  BY MachinesAssumption DEF CommandType, DatabasesLaidOut, Firmware
<1>3. Says(Listing(EncodeDb(machine.db), cmd[p].arg), machine.db, cmd[p].arg)
  BY <1>2, ListingIsMeaning
<1>4. QED
  BY <1>1, <1>2, <1>3

(* A dump of whole package lists is listed as what those mean, and every   *)
(* other beginning of the firmware's database is refused.                  *)
LEMMA SoundDumpListed ==
  ASSUME DatabasesLaidOut, machine \in Machines, NEW bytes, SoundDump(bytes), NEW what
  PROVE  IF \E db \in WholeDumps : EncodeDb(db) = bytes
         THEN \E db \in WholeDumps : EncodeDb(db) = bytes /\ Says(Listing(bytes, what), db, what)
         ELSE IsPrefix(bytes, Firmware) /\ Listing(bytes, what) = Failed
<1>1. /\ LaidOut(machine.db) /\ LaidOut(OldDb) /\ Firmware = EncodeDb(machine.db)
  BY MachinesAssumption DEF DatabasesLaidOut, Firmware
<1>2. CASE \E db \in WholeDumps : EncodeDb(db) = bytes
  <2>1. PICK db \in WholeDumps : EncodeDb(db) = bytes
    BY <1>2
  <2>2. LaidOut(db)
    BY <1>1, LaidOutPrefix DEF WholeDumps
  <2>3. Says(Listing(EncodeDb(db), what), db, what)
    BY <2>2, ListingIsMeaning
  <2>4. QED
    BY <1>2, <2>1, <2>3
<1>3. CASE \A db \in WholeDumps : EncodeDb(db) # bytes
  <2>1. bytes # EncodeDb(OldDb) /\ \A k \in 0..Len(machine.db) : bytes # EncodeDb(SubSeq(machine.db, 1, k))
    BY <1>3 DEF WholeDumps
  <2>2. BeginningOf(bytes, machine.db)
    BY <2>1 DEF SoundDump
  <2>3. Listing(bytes, what) = Failed
    BY <1>1, <2>1, <2>2, CutIsRefused
  <2>4. PICK whole \in Seq(Byte) : whole = Firmware
    BY MachineType
  <2>5. /\ bytes \in Seq(Byte) /\ Len(bytes) <= Len(whole)
        /\ \A i \in 1..Len(bytes) : bytes[i] = whole[i]
    BY <1>1, <2>2, <2>4 DEF BeginningOf
  <2>6. PICK length \in Nat : length = Len(bytes)
    BY <2>5, LenProperties
  <2>7. Len(whole) \in Nat
    BY <2>4, LenProperties
  <2>8. SubSeq(bytes, 1, length) = SubSeq(whole, 1, length)
    BY <2>5, <2>6
  <2>9. IsPrefix(bytes, whole)
    BY <2>5, <2>6, <2>7, <2>8 DEF IsPrefix
  <2>10. QED
    BY <1>3, <2>3, <2>4, <2>9
<1>4. QED
  BY <1>2, <1>3

LEMMA DumpsListed ==
  ASSUME DatabasesLaidOut
  PROVE  CommandType /\ ListInv => DumpListedWhole
<1> SUFFICES ASSUME CommandType, ListInv, NEW p \in Procs,
                    cmd[p].op = "listfile", result[p] # NoResult, ~disturbed[p]
             PROVE  /\ Len(buf[p]) <= MAX_ALLOWED_FILESIZE
                    /\ IF \E db \in WholeDumps : EncodeDb(db) = buf[p]
                       THEN \E db \in WholeDumps :
                              EncodeDb(db) = buf[p] /\ Says(result[p], db, cmd[p].arg)
                       ELSE IsPrefix(buf[p], Firmware) /\ result[p] = Failed
  BY DEF DumpListedWhole
<1>1. /\ result[p] = Listing(buf[p], cmd[p].arg)
      /\ SoundDump(buf[p]) /\ Len(buf[p]) <= MAX_ALLOWED_FILESIZE
  BY DEF ListInv, ListOf
<1>2. IF \E db \in WholeDumps : EncodeDb(db) = buf[p]
      THEN \E db \in WholeDumps :
             EncodeDb(db) = buf[p] /\ Says(Listing(buf[p], cmd[p].arg), db, cmd[p].arg)
      ELSE IsPrefix(buf[p], Firmware) /\ Listing(buf[p], cmd[p].arg) = Failed
  BY <1>1, SoundDumpListed DEF CommandType
<1>3. QED
  BY <1>1, <1>2

(* A listing of the firmware's database, by whatever process and beside    *)
(* whatever others do, says what the database means: every block, text and *)
(* package list of it has been counted and read right, and where no two    *)
(* package lists have one GUID, none of them is left out.                  *)
THEOREM ListingsMeanTheDatabase ==
  ASSUME DatabasesLaidOut
  PROVE  Spec => []ListingMeansDatabase
<1>1. Init => CommandType /\ OutcomeType /\ DumpInv /\ ListInv
  BY InitCommandType, InitDump, InitListInv
<1>2. CommandType /\ OutcomeType /\ DumpInv /\ ListInv /\ [Next]_vars
        => (CommandType /\ OutcomeType /\ DumpInv /\ ListInv)'
  BY NextCommandType, NextOutcomeType, NextDump, NextListInv
<1>3. CommandType /\ ListInv => ListingMeansDatabase
  BY ListingMeans
<1>4. QED
  BY <1>1, <1>2, <1>3, PTL DEF Spec

(* A dump that is left alone while it is read is listed as what its        *)
(* complete package lists mean, wherever writing it has stopped; one that  *)
(* is cut off inside a list is refused.                                    *)
THEOREM DumpsAreListedWhole ==
  ASSUME DatabasesLaidOut
  PROVE  Spec => []DumpListedWhole
<1>1. Init => CommandType /\ OutcomeType /\ DumpInv /\ ListInv
  BY InitCommandType, InitDump, InitListInv
<1>2. CommandType /\ OutcomeType /\ DumpInv /\ ListInv /\ [Next]_vars
        => (CommandType /\ OutcomeType /\ DumpInv /\ ListInv)'
  BY NextCommandType, NextOutcomeType, NextDump, NextListInv
<1>3. CommandType /\ ListInv => DumpListedWhole
  BY DumpsListed
<1>4. QED
  BY <1>1, <1>2, <1>3, PTL DEF Spec

=============================================================================
