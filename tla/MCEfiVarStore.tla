---------------------------- MODULE MCEfiVarStore ----------------------------
(* EfiVarStore on small instances.                                         *)
EXTENDS EfiVarStore

CONSTANTS p1, p2, p3, f1, f2

(* One variable with two data bytes behind its header.                     *)
MCContents == [f \in Files |-> <<7, 0, 0, 0, 1, 2>>]

(* efivarfs read-only, with an option to_ms_flags knows and one it does    *)
(* not know.                                                               *)
MCMountRo == {"ro", "nosuid", "nosymfollow"}

(* f1 is one of the files the kernel makes immutable, f2 is not.           *)
MCAttrs == [f \in Files |-> IF f = f1 THEN {"immutable", "nodump"} ELSE {"nodump"}]

(* Fields of two widths, overlapping, one behind a gap at the end, and a   *)
(* value of a kind write_at_offset has no encoding for.                    *)
MCWidths ==
  {[file |-> f1, offset |-> 0, data |-> <<9, 9>>],
   [file |-> f1, offset |-> 1, data |-> <<8>>],
   [file |-> f1, offset |-> 3, data |-> <<5>>],
   [file |-> f1, offset |-> 0, data |-> <<>>]}

MCTwoFiles ==
  {[file |-> f1, offset |-> 0, data |-> <<9>>],
   [file |-> f2, offset |-> 1, data |-> <<8>>]}

(* Everything; but the lock file cannot be opened only for want of         *)
(* descriptors, and locked only when the lock is taken.                    *)
MCFaults == Calls \ {"open", "flock"}
MCRead == {"read"}

=============================================================================
