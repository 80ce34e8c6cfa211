----------------------------- MODULE MCCommandLine -----------------------------
(* CommandLine on small databases.                                         *)
EXTENDS CommandLine

CONSTANTS p1, p2

(* A form package's data: the prompts' ids; 0 does not parse.              *)
MCFormOf(data) == IF 0 \in Range(data) THEN Failed ELSE Parsed(data)

Text(char)   == [kind |-> "text", text |-> <<char>>, count |-> 0]
NoText       == [kind |-> "text", text |-> <<>>, count |-> 0]
Skip(w, n)   == [kind |-> w, text |-> <<>>, count |-> n]
Odd          == [kind |-> "other", text |-> <<>>, count |-> 0]

Texts(blocks) == [type |-> Strings, blocks |-> blocks]
Prompts(ids)  == [type |-> Form, data |-> ids]
Fonts         == [type |-> 5, data |-> <<9>>]
Short         == [type |-> 5, data |-> <<>>, claims |-> 1]

List(guid, packages) == [guid |-> <<guid, 0>>, packages |-> packages, padding |-> <<>>]

A == List(1, <<Texts(<<Text(7)>>), Prompts(<<1>>)>>)
B == List(2, <<Prompts(<<1>>), Texts(<<Text(8)>>)>>)
C == List(3, <<Texts(<<Text(7)>>), Prompts(<<1>>)>>)

(* Two lists, the one dumped earlier has one of other texts.               *)
Plain == <<A, B>>
MCOldDb == <<List(1, <<Texts(<<Text(3), Text(4)>>), Prompts(<<2, 1>>)>>)>>

(* What listings can meet: skipped ids, a second language, packages of     *)
(* other types, bytes behind the End package, a character with two bytes.  *)
Rich ==
  <<List(1, <<Fonts, Texts(<<Text(7), Skip("skip1", 2), NoText, Text(300)>>),
              Texts(<<Text(8), Text(9)>>), Prompts(<<1, 2, 5, 3>>)>>),
    [List(2, <<Texts(<<Skip("skip2", 1), Text(4)>>), Prompts(<<2>>), Prompts(<<1>>)>>)
       EXCEPT !.padding = <<3, 2>>]>>

(* Two lists with one GUID.                                                *)
Twice == <<A, List(1, <<Texts(<<Text(5)>>)>>)>>

(* Strings or forms alone; broken packages.                                *)
Databases ==
  <<Rich, Twice, <<>>, <<A, List(2, <<Texts(<<Text(5)>>)>>)>>, <<A, List(2, <<Prompts(<<1>>)>>)>>,
   <<List(2, <<>>), A>>, <<A, List(2, <<Texts(<<Odd, Text(7)>>)>>)>>,
   <<List(1, <<Prompts(<<0>>)>>), B>>, <<A, List(2, <<Short>>)>>,
   <<[guid |-> <<2, 0>>, packages |-> <<>>, padding |-> <<>>, claims |-> 1], A>>>>

Cmd(op, arg) == [op |-> op, arg |-> arg]
Listings == {Cmd("list", "strings"), Cmd("list", "questions")}

On(db, backends, commands, faulty) ==
  [db |-> db, memory |-> EncodeDb(db), backends |-> backends, commands |-> commands, faulty |-> faulty]

Parsers == {On(Databases[i], {"Hii"}, Listings, {}) : i \in DOMAIN Databases}

Dumper ==
  On(Plain, {"Hii"},
     {Cmd("extract", "none"), Cmd("listfile", "questions")},
     {"extract", "file", "kill"})

Large == On(Plain \o <<C>>, {"Hii"}, {Cmd("extract", "none"), Cmd("listfile", "strings")}, {"kill"})

WithBackends(backends) ==
  On(<<>>, backends, {Cmd("get", 0), Cmd("set", 1), Cmd("set", 2)}, {"ping", "backend", "reboot"})

MCMachines ==
  Parsers \cup {Dumper, Large, WithBackends({}), WithBackends({"Hii"}), WithBackends({"Ilo"}),
              WithBackends({"Hii", "Ilo"})}

(* Plain has two lists of 20 bytes: a cut in the first header, in the      *)
(* first text, between the lists and in the second list.                   *)
MCCuts == {2, 12, 20, 26}

(* Plain may be read, Large may not.                                       *)
MCMaxFile == 40

ASSUME DatabasesAssumption == LaidOut(OldDb) /\ \A m \in Machines : LaidOut(m.db)

=============================================================================
