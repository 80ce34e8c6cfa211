------------------------------ MODULE HiiSettings ------------------------------
(***************************************************************************)
(* HiiBackend::get and HiiBackend::set of src/src/lib/exports.rs, with     *)
(* what they use of hii/forms.rs and translation.rs.  Any number of        *)
(* processes run commands.  A command goes through the form packages of    *)
(* all package lists; in each it takes the first question that one of the  *)
(* phrases names, reads its answer from the question's varstore (without   *)
(* the lock), and a set writes a new answer through write_at_offset.       *)
(*                                                                         *)
(* A form package is given by what list_questions returns for it, which    *)
(* FormPackage shows to be all that find_question depends on.  The writes  *)
(* are those AtomicVarStore specifies and EfiVarStore implements: Write is *)
(* the instant of the write, and a failed write changes nothing.           *)
(***************************************************************************)
EXTENDS Bytes, FiniteSets, FiniteSetsExt, SequencesExt

CONSTANTS
  Procs,          \* uefisettings processes
  MaxCommands,    \* commands per process
  Machines,       \* the machines they may run on, each with its
                  \*   forms: package list GUID -> its form packages, each a
                  \*     sequence of questions,
                  \*   strings: the package lists with a string package,
                  \*   commands: what is asked on it, [op, question, value],
                  \*   faulty: what may fail: "extract", "read", "write", "kill"
  Files,          \* the varstores' efivarfs files
  Size,           \* the size of each varstore, as its opcode gives it
  InitContents,   \* initial bytes of each file, header included
  translation_db, \* canonical question -> [variations, replacements]
  Fold(_),        \* what eq_ignore_ascii_case compares
  Trim(_),        \* str::trim
  Number(_),      \* str::parse, -1 for what is not a number
  Decimal(_)      \* format!("{a}")

(* The widths of the number types; a one-of is the only question with      *)
(* options (forms.rs:1220, 1322, 1388).                                    *)
Widths == {1, 2, 4, 8}

OptionType == [text : STRING, type : STRING, width : Widths, value : Nat]

QuestionType ==
  {q \in [kind : {"Numeric", "OneOf", "CheckBox"}, prompt : STRING,
          store : Files \cup {"none"}, offset : Nat, width : Widths, min : Nat, max : Nat,
          options : Seq(OptionType), defaults : Seq([id : Nat, value : Nat])] :
     q.kind # "OneOf" => q.options = <<>>}

ASSUME MachinesAssumption ==
  \A m \in Machines :
    /\ IsFiniteSet(DOMAIN m.forms)
    /\ \A g \in DOMAIN m.forms : m.forms[g] \in Seq(Seq(QuestionType))
    /\ m.strings \subseteq DOMAIN m.forms
    /\ \A c \in m.commands : c.op \in {"get", "set"} /\ Number(c.value) \in Int
    /\ m.faulty \subseteq {"extract", "read", "write", "kill"}
ASSUME StoresAssumption ==
  /\ "none" \notin Files
  /\ Size \in [Files -> Nat]
  /\ InitContents \in [Files -> Seq(Byte)]
  /\ \A f \in Files : Len(InitContents[f]) = 4 + Size[f]
ASSUME SpellingsAssumption ==
  \A question \in DOMAIN translation_db :
    translation_db[question].replacements
      \in Seq([key : STRING, variants : SUBSET STRING])

VARIABLES
  machine,    \* the machine; it does not change
  contents,   \* current bytes of each file
  pc,         \* "idle", "visit", "write" or "written"
  cmd,        \* the command a process runs
  queue,      \* the form packages it has not visited
  target,     \* the write in progress: [guid, question, data]
  reply,      \* what its last write_at_offset has returned
  responses,  \* the response list
  outcome,    \* "none", "ok" or "err"
  ran,        \* commands started
  log         \* every write there has been: [proc, cmd, guid, question, data]

vars ==
  <<machine, contents, pc, cmd, queue, target, reply, responses, outcome, ran, log>>

NoCommand == [op |-> "none", question |-> "", value |-> ""]
NoTarget  == [guid |-> "none", question |-> [store |-> "none", offset |-> 0], data |-> <<>>]

MayFail(what) == what \in machine.faulty

Forms == machine.forms

-----------------------------------------------------------------------------
(* TRANSLATION                                                             *)

Same(s, t) == Fold(s) = Fold(t)

Translated(question) ==
  question \in DOMAIN translation_db /\ translation_db[question].variations # {}

Replacements(question) == translation_db[question].replacements

(* get_qa_variations_hii                                                   *)
QuestionVariations(question) ==
  IF Translated(question) THEN translation_db[question].variations ELSE {question}

AnswerVariations_Vendor(question, answer) == {answer}

AnswerVariations(question, answer) ==
  LET keys == IF Translated(question)
              THEN {k \in DOMAIN Replacements(question) :
                      Same(Replacements(question)[k].key, answer)}
              ELSE {}
  IN  IF keys = {} THEN {answer} ELSE Replacements(question)[Min(keys)].variants

(* translate_response: the first key that stands for the answer.           *)
TranslateResponse_Skip(question, answer) == answer

TranslateResponse(question, answer) ==
  LET keys == IF Translated(question)
              THEN {k \in DOMAIN Replacements(question) :
                      \E v \in Replacements(question)[k].variants : Same(v, answer)}
              ELSE {}
  IN  IF keys = {} THEN answer ELSE Replacements(question)[Min(keys)].key

-----------------------------------------------------------------------------
(* READING AN ANSWER                                                       *)

HeaderLen == 4

NoAnswer == -1

FieldOf(q, bytes) ==
  SubSeq(bytes, HeaderLen + q.offset + 1, HeaderLen + q.offset + q.width)

(* VariableStore::read_bytes: as many bytes as the varstore has, from the  *)
(* start of the file; extract_efi_data: the field behind the header.       *)
ReadBytes(q) == SubSeq(contents[q.store], 1, Size[q.store])

Stored_NoHeader(q) == Decode(SubSeq(ReadBytes(q), q.offset + 1, q.offset + q.width))

Stored(q) ==
  IF HeaderLen + q.offset + q.width <= Len(ReadBytes(q))
  THEN Decode(FieldOf(q, ReadBytes(q))) ELSE NoAnswer

(* An option of another type than the number types counts as 0.            *)
OptionValue(o) == IF o.type = "num" THEN o.value ELSE 0

(* handle_oneof: without an answer, the default_id of the last Default.    *)
Chosen(q) ==
  IF Stored(q) = NoAnswer /\ q.defaults # <<>>
  THEN q.defaults[Len(q.defaults)].id ELSE Stored(q)

OneOfAnswer(q) ==
  LET hits == {i \in DOMAIN q.options : OptionValue(q.options[i]) = Chosen(q)}
  IN  IF hits = {} \/ Trim(q.options[Min(hits)].text) = "" THEN "Unknown"
      ELSE Trim(q.options[Min(hits)].text)

(* handle_numeric, handle_checkbox                                         *)
NumberAnswer(q) ==
  IF Stored(q) = NoAnswer THEN "<ExtractEFIDataError>" ELSE Decimal(Stored(q))

Answers(q) ==
  IF q.store = "none" THEN {"<VarStoreError>"}
  ELSE {IF q.kind = "OneOf" THEN OneOfAnswer(q) ELSE NumberAnswer(q)}
       \cup (IF MayFail("read") THEN {"<VStoreError>"} ELSE {})

-----------------------------------------------------------------------------
(* CHANGING AN ANSWER                                                      *)

(* set picks the first option that one of the variations names;            *)
(* change_value then looks its text up again and comes to the same one.    *)
OptionFor(q, variations) ==
  {o \in Range(q.options) : \E v \in variations : Same(v, o.text)}

FirstOption(q, variations) ==
  q.options[Min({i \in DOMAIN q.options : q.options[i] \in OptionFor(q, variations)})]

(* What write_at_offset is given; a value that is not a number writes      *)
(* nothing.                                                                *)
OptionBytes(o) == IF o.type = "num" THEN Encode(o.value, o.width) ELSE <<>>

Legal_Unbounded(q, n) == n >= 0

Legal(q, n) == n >= 0 /\ Fits(n, q.width) /\ n <= q.max

Acceptable(q, c) ==
  IF q.options # <<>> THEN OptionFor(q, AnswerVariations(c.question, c.value)) # {}
  ELSE q.store = "none" \/ (q.kind # "OneOf" /\ Legal(q, Number(c.value)))

NewBytes(q, c) ==
  IF q.options # <<>>
  THEN OptionBytes(FirstOption(q, AnswerVariations(c.question, c.value)))
  ELSE Encode(Number(c.value), q.width)

-----------------------------------------------------------------------------
Init ==
  /\ machine \in Machines
  /\ contents = InitContents
  /\ pc = [p \in Procs |-> "idle"]
  /\ cmd = [p \in Procs |-> NoCommand]
  /\ queue = [p \in Procs |-> <<>>]
  /\ target = [p \in Procs |-> NoTarget]
  /\ reply = [p \in Procs |-> "none"]
  /\ responses = [p \in Procs |-> <<>>]
  /\ outcome = [p \in Procs |-> "none"]
  /\ ran = [p \in Procs |-> 0]
  /\ log = <<>>

(* ParsedHiiDB.forms is a HashMap: its package lists come in any order.    *)
Orders ==
  {FlattenSeq([k \in DOMAIN order |->
                 [i \in DOMAIN Forms[order[k]] |->
                    [guid |-> order[k], questions |-> Forms[order[k]][i]]]])
     : order \in SetToSeqs(DOMAIN Forms)}

(* A command begins: extract_db and read_db.                               *)
Start(p) ==
  /\ pc[p] = "idle"
  /\ ran[p] < MaxCommands
  /\ ran' = [ran EXCEPT ![p] = @ + 1]
  /\ \E c \in machine.commands : cmd' = [cmd EXCEPT ![p] = c]
  /\ responses' = [responses EXCEPT ![p] = <<>>]
  /\ \/ /\ \E order \in Orders : queue' = [queue EXCEPT ![p] = order]
        /\ pc' = [pc EXCEPT ![p] = "visit"]
        /\ outcome' = [outcome EXCEPT ![p] = "none"]
     \/ /\ MayFail("extract")
        /\ outcome' = [outcome EXCEPT ![p] = "err"]
        /\ UNCHANGED <<pc, queue>>
  /\ UNCHANGED <<contents, target, reply, log>>

Fail(p) ==
  /\ pc' = [pc EXCEPT ![p] = "idle"]
  /\ outcome' = [outcome EXCEPT ![p] = "err"]
  /\ responses' = [responses EXCEPT ![p] = <<>>]
  /\ queue' = [queue EXCEPT ![p] = <<>>]
  /\ target' = [target EXCEPT ![p] = NoTarget]

(* find_question in the package at hand.                                   *)
Matching(p) ==
  {i \in DOMAIN queue[p][1].questions :
     \E phrase \in QuestionVariations(cmd[p].question) :
       Same(phrase, Trim(queue[p][1].questions[i].prompt))}

Question(p) == queue[p][1].questions[Min(Matching(p))]

Visiting(p) == pc[p] = "visit" /\ queue[p] # <<>>

NextPackage(p) == queue' = [queue EXCEPT ![p] = Tail(@)]

(* A package list with forms but without strings.                          *)
NoStrings(p) ==
  /\ Visiting(p)
  /\ queue[p][1].guid \notin machine.strings
  /\ Fail(p)
  /\ UNCHANGED <<contents, cmd, reply, ran, log>>

NotFound(p) ==
  /\ Visiting(p)
  /\ queue[p][1].guid \in machine.strings
  /\ Matching(p) = {}
  /\ NextPackage(p)
  /\ UNCHANGED <<contents, pc, cmd, target, reply, responses, outcome, ran, log>>

At(p) ==
  /\ Visiting(p)
  /\ queue[p][1].guid \in machine.strings
  /\ Matching(p) # {}

Response(p, q, answer, at) ==
  [guid |-> queue[p][1].guid, question |-> q, answer |-> answer, at |-> at]

Get(p) ==
  /\ At(p) /\ cmd[p].op = "get"
  /\ \E answer \in Answers(Question(p)) :
       responses' = [responses EXCEPT ![p] =
         Append(@, Response(p, Question(p),
                            TranslateResponse(cmd[p].question, answer), Len(log)))]
  /\ NextPackage(p)
  /\ UNCHANGED <<contents, pc, cmd, target, reply, outcome, ran, log>>

(* change_value up to its call of write_at_offset ...                      *)
Set(p) ==
  /\ At(p) /\ cmd[p].op = "set"
  /\ Acceptable(Question(p), cmd[p])
  /\ Question(p).store # "none"
  /\ target' = [target EXCEPT ![p] =
       [guid |-> queue[p][1].guid, question |-> Question(p),
        data |-> NewBytes(Question(p), cmd[p])]]
  /\ reply' = [reply EXCEPT ![p] = "none"]
  /\ pc' = [pc EXCEPT ![p] = "write"]
  /\ UNCHANGED <<contents, cmd, queue, responses, outcome, ran, log>>

(* ... or Ok(false): there is no varstore, which is not an error ...       *)
SetNowhere(p) ==
  /\ At(p) /\ cmd[p].op = "set"
  /\ Acceptable(Question(p), cmd[p])
  /\ Question(p).store = "none"
  /\ NextPackage(p)
  /\ UNCHANGED <<contents, pc, cmd, target, reply, responses, outcome, ran, log>>

(* ... or InvalidOption, ExceededMaxValue or a value that does not parse.  *)
SetRefused(p) ==
  /\ At(p) /\ cmd[p].op = "set"
  /\ ~Acceptable(Question(p), cmd[p])
  /\ Fail(p)
  /\ UNCHANGED <<contents, cmd, reply, ran, log>>

(* write_at_offset                                                         *)
Position_NoOffset(q) == HeaderLen

Position(q) == HeaderLen + q.offset

Write(p) ==
  /\ pc[p] = "write"
  /\ LET t == target[p]
     IN  /\ contents' = [contents EXCEPT ![t.question.store] =
                           Patch(@, Position(t.question), t.data)]
         /\ log' = Append(log, [proc |-> p, cmd |-> cmd[p], guid |-> t.guid,
                                question |-> t.question, data |-> t.data])
  /\ pc' = [pc EXCEPT ![p] = "written"]
  /\ UNCHANGED <<cmd, queue, target, reply, responses, outcome, ran>>

WriteFails_Ignored(p) ==
  /\ pc[p] = "write"
  /\ MayFail("write")
  /\ pc' = [pc EXCEPT ![p] = "written"]
  /\ UNCHANGED <<contents, cmd, queue, target, reply, responses, outcome, ran, log>>

WriteFails(p) ==
  /\ pc[p] = "write"
  /\ MayFail("write")
  /\ reply' = [reply EXCEPT ![p] = "err"]
  /\ Fail(p)
  /\ UNCHANGED <<contents, cmd, ran, log>>

(* A process's own last write.                                             *)
LastWrite(p) == Max({0} \cup {i \in DOMAIN log : log[i].proc = p})

(* Ok(true): the response says modified.                                   *)
Report(p) ==
  /\ pc[p] = "written"
  /\ reply' = [reply EXCEPT ![p] = "ok"]
  /\ responses' = [responses EXCEPT ![p] =
       Append(@, Response(p, target[p].question, cmd[p].value, LastWrite(p)))]
  /\ target' = [target EXCEPT ![p] = NoTarget]
  /\ pc' = [pc EXCEPT ![p] = "visit"]
  /\ NextPackage(p)
  /\ UNCHANGED <<contents, cmd, outcome, ran, log>>

Finish(p) ==
  /\ pc[p] = "visit" /\ queue[p] = <<>>
  /\ pc' = [pc EXCEPT ![p] = "idle"]
  /\ outcome' = [outcome EXCEPT ![p] = "ok"]
  /\ UNCHANGED <<contents, cmd, queue, target, reply, responses, ran, log>>

(* The process is killed.                                                  *)
Kill(p) ==
  /\ MayFail("kill")
  /\ pc[p] # "idle"
  /\ pc' = [pc EXCEPT ![p] = "idle"]
  /\ cmd' = [cmd EXCEPT ![p] = NoCommand]
  /\ queue' = [queue EXCEPT ![p] = <<>>]
  /\ target' = [target EXCEPT ![p] = NoTarget]
  /\ reply' = [reply EXCEPT ![p] = "none"]
  /\ responses' = [responses EXCEPT ![p] = <<>>]
  /\ outcome' = [outcome EXCEPT ![p] = "none"]
  /\ UNCHANGED <<contents, ran, log>>

Next ==
  /\ \E p \in Procs :
       \/ Start(p) \/ NoStrings(p) \/ NotFound(p) \/ Get(p)
       \/ Set(p) \/ SetNowhere(p) \/ SetRefused(p)
       \/ Write(p) \/ WriteFails(p) \/ Report(p) \/ Finish(p) \/ Kill(p)
  /\ UNCHANGED machine

Spec == Init /\ [][Next]_vars

-----------------------------------------------------------------------------
(* PROPERTIES                                                              *)

QuestionsOn(m) ==
  {q \in UNION {UNION {Range(m.forms[g][i]) : i \in DOMAIN m.forms[g]} : g \in DOMAIN m.forms} :
     q.store # "none"}

Questions == QuestionsOn(machine)

TypeOK ==
  /\ contents \in [Files -> Seq(Byte)]
  /\ pc \in [Procs -> {"idle", "visit", "write", "written"}]
  /\ \A p \in Procs :
       /\ cmd[p] \in machine.commands \cup {NoCommand}
       /\ pc[p] \in {"write", "written"} =>
            /\ cmd[p].op = "set"
            /\ queue[p] # <<>> /\ queue[p][1].guid = target[p].guid
            /\ target[p].question \in Questions
       /\ \A k \in DOMAIN responses[p] : responses[p][k].at <= Len(log)
  /\ reply \in [Procs -> {"none", "ok", "err"}]
  /\ outcome \in [Procs -> {"none", "ok", "err"}]

(* A value the firmware has an option for, or one up to the maximum.       *)
LegalIn(q, bytes) ==
  LET n == Decode(FieldOf(q, bytes))
  IN  IF q.kind = "OneOf" THEN \E o \in Range(q.options) : OptionValue(o) = n
      ELSE n <= q.max

LegalField(q) == LegalIn(q, contents[q.store])

(* No sequence of commands, refused and failed ones included, puts a value *)
(* into the store that its question does not allow: neither its own field  *)
(* nor a neighbour's is ever hit by a wrong value, offset or width         *)
(* (forms.rs:1662-1712, "We have three layers of checks so as to not       *)
(* accidentally corrupt EFI vars", :515).                                  *)
StoreLegal == \A q \in Questions : LegalField(q)

(* The last write to q's field among the first n writes, 0 for none.       *)
LastTo(q, n) == Max({0} \cup {i \in 1..n : log[i].question = q})

(* Every field holds what the last successful set of its question has put  *)
(* there, whoever ran it; without one it holds what it held at first, and  *)
(* so do the variables' attributes (forms.rs:527-566).                     *)
FieldsFollowLog ==
  /\ \A f \in Files : SubSeq(contents[f], 1, HeaderLen)
                      = SubSeq(InitContents[f], 1, HeaderLen)
  /\ \A q \in Questions :
       FieldOf(q, contents[q.store]) =
         IF LastTo(q, Len(log)) = 0 THEN FieldOf(q, InitContents[q.store])
         ELSE log[LastTo(q, Len(log))].data

IsAnswer(answer) == answer \notin {"<VStoreError>", "<VarStoreError>"}

(* "set changes the value of the UEFI question/attribute", "get displays   *)
(* the value of the UEFI question/attribute" (exports.rs:54-56): what a    *)
(* get answers is what the last set by the same name has asked for, in the *)
(* canonical spelling when the name is canonical.  Encoding, the vendors'  *)
(* spellings of questions and answers and the way back cancel out.         *)
RoundTrip ==
  \A p \in Procs : cmd[p].op = "get" =>
    \A k \in DOMAIN responses[p] :
      LET r == responses[p][k]
          w == LastTo(r.question, r.at)
      IN  w # 0 /\ log[w].cmd.question = cmd[p].question /\ IsAnswer(r.answer)
          => IF r.question.kind = "OneOf"
             THEN Same(r.answer, TranslateResponse(cmd[p].question,
                                                   Trim(log[w].cmd.value)))
             ELSE Number(r.answer) = Number(log[w].cmd.value)

(* What get shows for a question can be set again by the name it was asked *)
(* by, and that puts back the value get has read: reading (a number, an    *)
(* option's trimmed text, the canonical word for it) and choosing an       *)
(* option agree.  Not for an option whose text has blanks around it, which *)
(* is shown trimmed (forms.rs:1318) and looked for untrimmed               *)
(* (exports.rs:206), nor for an answer that is no option.                  *)
ShownCanBeSet ==
  \A p \in Procs : cmd[p].op = "get" =>
    \A k \in DOMAIN responses[p] :
      LET r == responses[p][k]
          again == [op |-> "set", question |-> cmd[p].question, value |-> r.answer]
          shownAs(o) == TranslateResponse(cmd[p].question, Trim(o.text))
          field == IF LastTo(r.question, r.at) # 0 THEN log[LastTo(r.question, r.at)].data
                   ELSE FieldOf(r.question, InitContents[r.question.store])
      IN  /\ IsAnswer(r.answer) /\ r.answer # "Unknown"
          /\ \A o \in Range(r.question.options) :
               shownAs(o) = r.answer => Trim(o.text) = o.text
          => Acceptable(r.question, again) /\ NewBytes(r.question, again) = field

(* "Question question; // this will be the newly modified question"        *)
(* (uefisettings_backend.thrift): a response with modified: true is about  *)
(* a write of this very command that changed the question's field.         *)
ModifiedMeansWritten ==
  \A p \in Procs : cmd[p].op = "set" =>
    \A k \in DOMAIN responses[p] :
      LET r == responses[p][k]
      IN  /\ r.at \in DOMAIN log
          /\ log[r.at].proc = p /\ log[r.at].cmd = cmd[p]
          /\ log[r.at].question = r.question
          /\ Len(log[r.at].data) = r.question.width

(* "(will return error if doesn't match constraints)" (exports.rs:196),    *)
(* said of "some arbitrary value like a number".                           *)
WithinConstraints ==
  \A i \in DOMAIN log : log[i].question.kind = "Numeric" =>
    LET n == Decode(log[i].data) IN n >= log[i].question.min /\ n <= log[i].question.max

(* "No answer was provided, so using the default value instead."           *)
(* (forms.rs:1284)                                                         *)
DefaultShown ==
  \A p \in Procs : cmd[p].op = "get" =>
    \A k \in DOMAIN responses[p] :
      LET r == responses[p][k]
          q == r.question
      IN  q.kind = "OneOf" /\ Stored(q) = NoAnswer /\ q.defaults # <<>>
            /\ IsAnswer(r.answer)
          => \E o \in Range(q.options) :
               /\ OptionValue(o) = q.defaults[Len(q.defaults)].value
               /\ Same(r.answer, TranslateResponse(cmd[p].question, Trim(o.text)))

-----------------------------------------------------------------------------
(* What the proofs of StoreLegal and FieldsFollowLog ask of a firmware:    *)
(* its fields lie in their varstores and apart from each other, its        *)
(* options are numbers of their questions' widths, its stores start out    *)
(* legal.                                                                  *)
Apart(m) ==
  \A q \in QuestionsOn(m) :
    /\ q.offset + q.width <= Size[q.store]
    /\ \A r \in QuestionsOn(m) : q # r /\ q.store = r.store =>
         q.offset + q.width <= r.offset \/ r.offset + r.width <= q.offset

Numbered(m) ==
  \A q \in QuestionsOn(m) : \A o \in Range(q.options) :
    o.type = "num" /\ o.width = q.width /\ Fits(o.value, q.width)

InitiallyLegal(m) == \A q \in QuestionsOn(m) : LegalIn(q, InitContents[q.store])

-----------------------------------------------------------------------------
(* What the proofs of RoundTrip and ShownCanBeSet ask besides.             *)

(* No field lies in the last bytes of its file, which a read leaves out:   *)
(* the header is counted among what it reads (forms.rs:499-507).           *)
Readable(m) == \A q \in QuestionsOn(m) : HeaderLen + q.offset + q.width <= Size[q.store]

Words ==
  UNION {UNION {{r.key} \cup r.variants : r \in Range(Replacements(question))}
           : question \in DOMAIN translation_db}

Texts(m) ==
  Words \cup {c.value : c \in m.commands}
        \cup UNION {{o.text : o \in Range(q.options)} : q \in QuestionsOn(m)}

NumbersOf(m) == UNION {0..q.max : q \in {r \in QuestionsOn(m) : r.kind # "OneOf"}}

(* Blanks have no case; a number is parsed as it is printed.               *)
Legible(m) ==
  /\ \A s, t \in Texts(m) : Same(s, t) => Same(Trim(s), Trim(t))
  /\ \A n \in NumbersOf(m) : Number(Decimal(n)) = n

(* A canonical word is among its own spellings, no spelling has blanks     *)
(* around it, and none stands for two words.                               *)
WordsApart ==
  \A question \in DOMAIN translation_db : \A j, k \in DOMAIN Replacements(question) :
    LET a == Replacements(question)[j]
        b == Replacements(question)[k]
    IN  /\ \E v \in a.variants : Same(v, a.key)
        /\ \A v \in a.variants : Trim(v) = v
        /\ (\E v \in a.variants, w \in b.variants : Same(v, w)) => j = k

(* No spelling is a number or one of the texts shown instead of an answer. *)
Untranslated(m) ==
  \A c \in m.commands :
    \A text \in {"Unknown", "<VStoreError>", "<VarStoreError>"}
                  \cup {Decimal(n) : n \in NumbersOf(m)} :
      TranslateResponse(c.question, text) = text

(* A question's options have values, and texts, that are told apart.       *)
Distinct(m) ==
  \A q \in QuestionsOn(m) : \A o, r \in Range(q.options) :
    /\ Trim(o.text) # ""
    /\ OptionValue(o) = OptionValue(r) => o = r
    /\ \A c \in m.commands :
         Same(TranslateResponse(c.question, Trim(o.text)),
              TranslateResponse(c.question, Trim(r.text))) => o = r

-----------------------------------------------------------------------------
(* The writes these commands can ask for.                                  *)
PossibleWrites ==
  {[file |-> qc[1].store, offset |-> qc[1].offset, data |-> NewBytes(qc[1], qc[2])] :
     qc \in {x \in UNION {QuestionsOn(m) \X m.commands : m \in Machines} :
              Acceptable(x[1], x[2])}}

Store == INSTANCE AtomicVarStore WITH
  Writes     <- PossibleWrites,
  InitHeader <- [f \in Files |-> SubSeq(InitContents[f], 1, HeaderLen)],
  InitData   <- [f \in Files |-> SubSeq(InitContents[f], HeaderLen + 1, Len(InitContents[f]))],
  header     <- [f \in Files |-> SubSeq(contents[f], 1, HeaderLen)],
  data       <- [f \in Files |-> SubSeq(contents[f], HeaderLen + 1, Len(contents[f]))],
  status     <- [p \in Procs |-> CASE pc[p] = "write"   -> "pending"
                                   [] pc[p] = "written" -> "committed"
                                   [] OTHER             -> "idle"],
  op         <- [p \in Procs |-> [file |-> target[p].question.store,
                                  offset |-> target[p].question.offset,
                                  data |-> target[p].data]],
  result     <- reply

(* The backend uses the store through the interface that EfiVarStore       *)
(* implements, and in no other way (forms.rs:1651, 1669, 1682, 1695, 1708).*)
UsesAtomicStore == Store!Spec

=============================================================================
