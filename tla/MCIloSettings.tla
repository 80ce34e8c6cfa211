----------------------------- MODULE MCIloSettings -----------------------------
(* IloSettings on small machines.                                          *)
EXTENDS IloSettings, TLC

CONSTANTS p1, p2

MCFold(s) == CASE s = "enabled" -> "Enabled" [] OTHER -> s

(* Two entries of the spellings database.                                  *)
MCDb == [q \in {"TPM State", "TXT Support"} |->
  IF q = "TPM State"
  THEN [question |-> "TpmState",
        replacements |-> <<[key |-> "Enabled", value |-> "PresentEnabled"]>>]
  ELSE [question |-> "IntelTxt", replacements |-> <<>>]]

(* IntelTxt is in two collections; Name is a setting of iLO 5 only.        *)
Bios ==
  [a \in {"TpmState", "IntelTxt", "Name", "Cores"} |->
     CASE a = "TpmState" -> "NotPresent" [] a = "IntelTxt" -> "Disabled"
       [] a = "Name" -> "Bios" [] a = "Cores" -> "8"]
MCIlo4 == [c \in {"bios"} |-> Bios]
MCIlo5 == [c \in {"bios", "debug", "service"} |->
  CASE c = "bios" -> Bios
    [] c = "debug" -> [a \in {"IntelTxt"} |-> "Disabled"]
    [] c = "service" -> [a \in {"IntelTxt"} |-> "Disabled"]]

(* Cores is a JSON number.                                                 *)
MCStrings == {"TpmState", "IntelTxt", "Name"}

Cmd(op, question, value) == [op |-> op, question |-> question, value |-> value]

MCSettings == [m \in {"Ilo4", "Ilo5"} |-> IF m = "Ilo4" THEN MCIlo4 ELSE MCIlo5]

(* Settings by canonical and by vendor name, and two that set must skip.   *)
MCCommands ==
  {Cmd("get", "TPM State", ""), Cmd("set", "TPM State", "enabled"),
   Cmd("set", "TXT Support", "Enabled"), Cmd("set", "IntelTxt", "Disabled"),
   Cmd("set", "Name", "x"), Cmd("set", "Cores", "2"),
   Cmd("show", "", ""), Cmd("pending", "", "")}

(* The spellings are as the proofs ask for them.                           *)
ASSUME CanonicalAssumption ==
  \A c \in MCCommands : c.op = "set" => Canonical(c.question, c.value)

=============================================================================
