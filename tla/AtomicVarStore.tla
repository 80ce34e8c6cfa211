---------------------------- MODULE AtomicVarStore ----------------------------
(***************************************************************************)
(* What write_at_offset promises its callers: each call changes exactly    *)
(* the bytes of its field, at one instant between call and return, and     *)
(* only if it returns Ok.  A caller that dies may or may not have reached  *)
(* that instant.  There is no lock, no mount and no attribute here;        *)
(* offsets count from the start of the variable's data.                    *)
(***************************************************************************)
EXTENDS Naturals, Sequences

CONSTANTS Procs, Files, Writes, InitHeader, InitData

VARIABLES
  header,  \* the EFI attributes of each variable
  data,    \* the data bytes of each variable
  status,  \* "idle", "pending" or "committed", per process
  op,      \* the call a process is in
  result   \* what the last call returned

vars == <<header, data, status, op, result>>

NoOp == [file |-> "none", offset |-> 0, data |-> <<>>]

(* new is old with w's bytes at w's offset.  Bytes outside the field stay; *)
(* the variable grows only when the field ends behind it, and a gap before *)
(* the field reads as zero.                                                *)
FieldWritten(old, new, w) ==
  LET field == (w.offset + 1)..(w.offset + Len(w.data))
  IN  IF field = {} THEN new = old
      ELSE /\ Len(new) \in {Len(old), w.offset + Len(w.data)}
           /\ Len(new) >= Len(old)
           /\ Len(new) >= w.offset + Len(w.data)
           /\ \A i \in field : new[i] = w.data[i - w.offset]
           /\ \A i \in (1..Len(old)) \ field : new[i] = old[i]
           /\ \A i \in 1..w.offset : i > Len(old) => new[i] = 0

Init ==
  /\ header = InitHeader
  /\ data = InitData
  /\ status = [p \in Procs |-> "idle"]
  /\ op = [p \in Procs |-> NoOp]
  /\ result = [p \in Procs |-> "none"]

Begin(p) ==
  /\ status[p] = "idle"
  /\ \E w \in Writes : op' = [op EXCEPT ![p] = w]
  /\ status' = [status EXCEPT ![p] = "pending"]
  /\ result' = [result EXCEPT ![p] = "none"]
  /\ UNCHANGED <<header, data>>

Commit(p) ==
  /\ status[p] = "pending"
  /\ \A f \in Files :
       IF f = op[p].file THEN FieldWritten(data[f], data'[f], op[p])
                         ELSE data'[f] = data[f]
  /\ status' = [status EXCEPT ![p] = "committed"]
  /\ UNCHANGED <<header, op, result>>

Return(p, r) ==
  /\ status[p] = (IF r = "ok" THEN "committed" ELSE "pending")
  /\ status' = [status EXCEPT ![p] = "idle"]
  /\ op' = [op EXCEPT ![p] = NoOp]
  /\ result' = [result EXCEPT ![p] = r]
  /\ UNCHANGED <<header, data>>

(* The processes of D end, inside a call or between two.                   *)
Die(D) ==
  /\ status' = [p \in Procs |-> IF p \in D THEN "idle" ELSE status[p]]
  /\ op' = [p \in Procs |-> IF p \in D THEN NoOp ELSE op[p]]
  /\ result' = [p \in Procs |-> IF p \in D THEN "none" ELSE result[p]]
  /\ UNCHANGED <<header, data>>

Next ==
  \/ \E p \in Procs : Begin(p) \/ Commit(p) \/ \E r \in {"ok", "err"} : Return(p, r)
  \/ \E D \in SUBSET Procs : Die(D)

Spec == Init /\ [][Next]_vars

=============================================================================
