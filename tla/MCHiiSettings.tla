---------------------------- MODULE MCHiiSettings ----------------------------
(* HiiSettings on a small firmware.                                        *)
EXTENDS HiiSettings, TLC

CONSTANTS p1, p2

MCFold(s) == CASE s = "enable" -> "Enable" [] OTHER -> s
MCTrim(s) == CASE s = "Enable Intel(R) TXT " -> "Enable Intel(R) TXT"
               [] s = "Disable " -> "Disable" [] OTHER -> s
MCNumber(s) == IF \E n \in 0..300 : ToString(n) = s
               THEN CHOOSE n \in 0..300 : ToString(n) = s ELSE -1
MCDecimal(n) == ToString(n)

(* The entry of the spellings database for TXT Support.                    *)
MCDb == [q \in {"TXT Support"} |->
  [variations |-> {"TXT Support", "Enable Intel(R) TXT"},
   replacements |-> <<[key |-> "Disabled", variants |-> {"Disabled", "Disable"}],
                      [key |-> "Enabled", variants |-> {"Enabled", "Enable"}]>>]]

Option(text, value) == [text |-> text, type |-> "num", width |-> 1, value |-> value]

OneOf(prompt, store, offset, options, defaults) ==
  [kind |-> "OneOf", prompt |-> prompt, store |-> store, offset |-> offset,
   width |-> 1, min |-> 0, max |-> 1, options |-> options, defaults |-> defaults]

Numeric(prompt, store, offset, width, min, max) ==
  [kind |-> "Numeric", prompt |-> prompt, store |-> store, offset |-> offset,
   width |-> width, min |-> min, max |-> max, options |-> <<>>, defaults |-> <<>>]

CheckBox(prompt, store, offset) ==
  [Numeric(prompt, store, offset, 1, 0, 1) EXCEPT !.kind = "CheckBox"]

(* Two vendors' spellings of one question, a two-byte number between two   *)
(* other fields, and a question without a varstore.                        *)
TxtA == OneOf("Enable Intel(R) TXT ", "f1", 0,
              <<Option("Disable ", 0), Option("Enable", 1)>>, <<>>)
TxtB == OneOf("TXT Support", "f2", 0,
              <<Option("Disabled", 0), Option("Enabled", 1)>>,
              <<[id |-> 0, value |-> 1]>>)
Memory == Numeric("Memory", "f1", 1, 2, 2, 258)
Lock   == CheckBox("Lock", "f1", 3)
Lost   == Numeric("Memory", "none", 0, 1, 0, 9)

MCFiles == {"f1", "f2"}
MCSize == [f \in MCFiles |-> IF f = "f1" THEN 8 ELSE 5]
MCTailSize == [f \in MCFiles |-> IF f = "f1" THEN 4 ELSE 1]
Zeros(n) == [i \in 1..n |-> 0]
MCInit == [f \in MCFiles |-> <<7, 0, 0, 0>> \o Zeros(MCSize[f])]
MCTailInit == [f \in MCFiles |-> <<7, 0, 0, 0>> \o Zeros(MCTailSize[f])]

Cmd(op, question, value) == [op |-> op, question |-> question, value |-> value]

Asked(questions, values) ==
  {Cmd("get", q, "") : q \in questions} \cup {Cmd("set", v[1], v[2]) : v \in values}

Machine(first, second, strings, commands, faulty) ==
  [forms |-> [g \in {"g1", "g2"} |-> IF g = "g1" THEN first ELSE second],
   strings |-> strings, commands |-> commands, faulty |-> faulty]

(* Numbers, in a package list with strings and one without.                *)
Numbers ==
  Machine(<<<<TxtA, Memory>>, <<Lost, Lock>>>>, <<<<TxtB>>>>, {"g1"},
          Asked({"Memory", "Lock"},
                {<<"Memory", "258">>, <<"Memory", "259">>, <<"Lock", "1">>}),
          {"extract", "read", "write", "kill"})

(* Spellings of one question in two package lists.                         *)
Translations ==
  Machine(<<<<TxtA, Memory>>, <<Lost, Lock>>>>, <<<<TxtB>>>>, {"g1", "g2"},
          Asked({"TXT Support"},
                {<<"TXT Support", "Enabled">>, <<"Enable Intel(R) TXT", "enable">>}),
          {"extract"})

MCMachines == {Numbers, Translations}
ASSUME FirmwareAssumption ==
  /\ WordsApart
  /\ \A m \in MCMachines :
       /\ Apart(m) /\ Numbered(m) /\ InitiallyLegal(m)
       /\ Legible(m) /\ Untranslated(m) /\ Distinct(m)
       /\ Size = MCSize => Readable(m)

MCTranslations == {[Translations EXCEPT !.faulty = {}]}
MCBelow == {[Numbers EXCEPT !.commands = Asked({}, {<<"Memory", "1">>}), !.faulty = {}]}

(* An option whose value is a Boolean.                                     *)
Flag == [TxtB EXCEPT !.options = <<[Option("Disabled", 0) EXCEPT !.type = "bool"],
                                   [Option("Enabled", 1) EXCEPT !.type = "bool"]>>]
MCFlag == {Machine(<<>>, <<<<Flag>>>>, {"g1", "g2"}, Translations.commands, {})}

=============================================================================
