--------------------------- MODULE HiiSettingsProofs ---------------------------
(***************************************************************************)
(* get and set on a firmware's questions, for any processes, machines and  *)
(* commands.  What a process is about to write, and what the log says was  *)
(* written, is the new answer of an acceptable command (TargetInv,         *)
(* LogInv); FieldsFollowLog and StoreLegal follow from what NewBytes and   *)
(* Patch give.  A get's responses are what the log says of their fields    *)
(* (AnswersInv); RoundTrip and ShownCanBeSet follow from what the ways     *)
(* there and back, text to bytes and bytes to text, make of each other.    *)
(***************************************************************************)
EXTENDS HiiSettings, BytesProofs, FiniteSetTheorems

-----------------------------------------------------------------------------
(* The packages a process may have to visit, the writes in progress and    *)
(* the entries of the log.                                                 *)
Packages ==
  UNION {{[guid |-> g, questions |-> Forms[g][i]] : i \in DOMAIN Forms[g]} : g \in DOMAIN Forms}

Target == [guid : DOMAIN Forms, question : Questions, data : Seq(Byte)]

Entry == [proc : Procs, cmd : machine.commands, guid : DOMAIN Forms,
          question : Questions, data : Seq(Byte)]

HiiType ==
  /\ machine \in Machines
  /\ contents \in [Files -> Seq(Byte)]
  /\ pc \in [Procs -> {"idle", "visit", "write", "written"}]
  /\ cmd \in [Procs -> machine.commands \cup {NoCommand}]
  /\ queue \in [Procs -> Seq(Packages)]
  /\ target \in [Procs -> Target \cup {NoTarget}]
  /\ reply \in [Procs -> {"none", "ok", "err"}]
  /\ outcome \in [Procs -> {"none", "ok", "err"}]
  /\ log \in Seq(Entry)

(* What is written is the new answer of a command that is acceptable.      *)
NewAnswer(q, c, data) == c.op = "set" /\ Acceptable(q, c) /\ data = NewBytes(q, c)

TargetInv ==
  \A p \in Procs :
    IF pc[p] \in {"write", "written"}
    THEN /\ queue[p] # <<>> /\ queue[p][1].guid = target[p].guid
         /\ target[p] # NoTarget /\ NewAnswer(target[p].question, cmd[p], target[p].data)
    ELSE target[p] = NoTarget

LogInv == \A i \in 1..Len(log) : NewAnswer(log[i].question, log[i].cmd, log[i].data)

(* A response tells of a moment there has been.                            *)
ResponsesInv ==
  /\ DOMAIN responses = Procs
  /\ \A p \in Procs :
       /\ responses[p] \in Seq(Range(responses[p]))
       /\ \A k \in 1..Len(responses[p]) : responses[p][k].at \in 0..Len(log)

(* The file of a varstore has the header the varstore does not count.      *)
SizesInv == \A f \in Files : Len(contents[f]) >= HeaderLen + Size[f]
ExactInv == \A f \in Files : Len(contents[f]) = HeaderLen + Size[f]
-----------------------------------------------------------------------------
(* What is known of a machine's questions and of its packages.             *)
LEMMA QuestionsTyped ==
  ASSUME machine \in Machines, NEW q \in Questions
  PROVE  /\ q \in QuestionType /\ q.store \in Files /\ q.store # "none"
         /\ q.offset \in Nat /\ q.width \in Widths /\ q.max \in Nat
         /\ q.options \in Seq(OptionType)
         /\ q.kind # "OneOf" => q.options = <<>>
<1>1. PICK g \in DOMAIN Forms : \E i \in DOMAIN Forms[g] : q \in Range(Forms[g][i])
  BY DEF Questions, QuestionsOn, Forms
<1>2. PICK i \in DOMAIN Forms[g] : q \in Range(Forms[g][i])
  BY <1>1
<1>3. Forms[g] \in Seq(Seq(QuestionType))
  BY <1>1, MachinesAssumption DEF Forms
<1>4. Forms[g][i] \in Seq(QuestionType)
  BY <1>2, <1>3, LenProperties, ElementOfSeq
<1>5. q \in QuestionType
  BY <1>2, <1>4, LenProperties, ElementOfSeq DEF Range
<1>6. q.store # "none"
  BY DEF Questions, QuestionsOn
<1>7. q.store \in Files \cup {"none"}
  BY <1>5 DEF QuestionType
<1>8. q.offset \in Nat /\ q.width \in Widths /\ q.max \in Nat
  BY <1>5 DEF QuestionType
<1>9. q.options \in Seq(OptionType) /\ (q.kind # "OneOf" => q.options = <<>>)
  BY <1>5 DEF QuestionType
<1>10. QED
  BY <1>5, <1>6, <1>7, <1>8, <1>9

LEMMA PackagesTyped ==
  ASSUME machine \in Machines, NEW package \in Packages
  PROVE  /\ package.guid \in DOMAIN Forms
         /\ package.questions \in Seq(QuestionType)
         /\ \A i \in DOMAIN package.questions :
              package.questions[i].store # "none" => package.questions[i] \in Questions
<1>0. PICK g \in DOMAIN Forms : \E i \in DOMAIN Forms[g] :
        package = [guid |-> g, questions |-> Forms[g][i]]
  BY DEF Packages
<1>1. PICK i \in DOMAIN Forms[g] : package = [guid |-> g, questions |-> Forms[g][i]]
  BY <1>0
<1>2. Forms[g] \in Seq(Seq(QuestionType))
  BY <1>1, MachinesAssumption DEF Forms
<1>3. Forms[g][i] \in Seq(QuestionType)
  BY <1>1, <1>2, LenProperties, ElementOfSeq
<1>4. ASSUME NEW k \in DOMAIN Forms[g][i], Forms[g][i][k].store # "none"
      PROVE  Forms[g][i][k] \in Questions
  <2>1. Forms[g][i][k] \in Range(Forms[g][i])
    BY DEF Range
  <2>2. Forms[g][i][k] \in UNION {Range(Forms[g][j]) : j \in DOMAIN Forms[g]}
    BY <1>1, <2>1
  <2>3. QED
    BY <1>1, <1>4, <2>2 DEF Questions, QuestionsOn, Forms
<1>5. package.guid = g /\ package.questions = Forms[g][i]
  BY <1>1
<1>6. QED
  BY <1>1, <1>3, <1>4, <1>5

LEMMA OrdersTyped ==
  ASSUME machine \in Machines, NEW order \in Orders
  PROVE  order \in Seq(Packages)
<1> DEFINE D == DOMAIN Forms
           PackagesOf(g) == [i \in DOMAIN Forms[g] |-> [guid |-> g, questions |-> Forms[g][i]]]
<1>1. PICK lists \in SetToSeqs(D) :
        order = FlattenSeq([k \in DOMAIN lists |-> PackagesOf(lists[k])])
  BY DEF Orders
<1>2. IsFiniteSet(D)
  BY MachinesAssumption DEF Forms
<1>3. Cardinality(D) \in Nat
  BY <1>2, FS_CardinalityType
<1>4. lists \in [1..Cardinality(D) -> D]
  BY <1>1 DEF SetToSeqs
<1>5. ASSUME NEW g \in D PROVE PackagesOf(g) \in Seq(Packages)
  <2>1. Forms[g] \in Seq(Seq(QuestionType))
    BY MachinesAssumption DEF Forms
  <2>2. DOMAIN Forms[g] = 1..Len(Forms[g]) /\ Len(Forms[g]) \in Nat
    BY <2>1, LenProperties
  <2>3. \A i \in DOMAIN Forms[g] : [guid |-> g, questions |-> Forms[g][i]] \in Packages
    BY DEF Packages
  <2>4. PackagesOf(g) \in [1..Len(Forms[g]) -> Packages]
    BY <2>2, <2>3
  <2>5. QED
    BY <2>2, <2>4, SeqDef
<1> HIDE DEF PackagesOf
<1> DEFINE seqs == [k \in DOMAIN lists |-> PackagesOf(lists[k])]
<1>6. seqs \in [1..Cardinality(D) -> Seq(Packages)]
  BY <1>4, <1>5
<1>7. seqs \in Seq(Seq(Packages))
  BY <1>3, <1>6, SeqDef
<1> HIDE DEF seqs
<1>8. FlattenSeq(seqs) \in Seq(Packages)
  BY <1>7, FlattenType
<1>9. QED
  BY <1>1, <1>8 DEF seqs
-----------------------------------------------------------------------------
(* WHAT IS WRITTEN                                                         *)

(* Numbers and bytes, for the widths of questions.                         *)
LEMMA WidthsTyped == Widths \subseteq FieldWidths
  BY DEF Widths, FieldWidths

LEMMA AnswerEncoded ==
  ASSUME NEW n \in Nat, NEW width \in Widths
  PROVE  Encode(n, width) \in Seq(Byte) /\ Len(Encode(n, width)) = width
<1>1. width \in FieldWidths
  BY WidthsTyped
<1>2. QED
  BY <1>1, EncodeTyped

LEMMA AnswerDecoded ==
  ASSUME NEW n \in Nat, NEW width \in Widths, Fits(n, width)
  PROVE  Decode(Encode(n, width)) = n
<1>1. width \in FieldWidths
  BY WidthsTyped
<1>2. QED
  BY <1>1, DecodeEncode

LEMMA AnswerEncodedAgain ==
  ASSUME NEW width \in Widths, NEW bytes \in Seq(Byte), Len(bytes) = width
  PROVE  /\ Decode(bytes) \in Nat /\ Fits(Decode(bytes), width)
         /\ Encode(Decode(bytes), width) = bytes
<1>1. width \in FieldWidths
  BY WidthsTyped
<1>2. QED
  BY <1>1, EncodeDecode

(* The option a value is looked up as is one of the question's.            *)
LEMMA FirstOptionTyped ==
  ASSUME machine \in Machines, NEW q \in Questions, NEW variations,
         OptionFor(q, variations) # {}
  PROVE  FirstOption(q, variations) \in Range(q.options) \cap OptionType
<1> DEFINE hits == {i \in DOMAIN q.options : q.options[i] \in OptionFor(q, variations)}
<1>1. q.options \in Seq(OptionType)
  BY QuestionsTyped
<1>2. DOMAIN q.options = 1..Len(q.options) /\ Len(q.options) \in Nat
  BY <1>1, LenProperties
<1>3. hits \in SUBSET Nat
  BY <1>2
<1>4. hits # {}
  <2>1. PICK o : o \in OptionFor(q, variations)
    OBVIOUS
  <2>2. o \in Range(q.options)
    BY <2>1 DEF OptionFor
  <2>3. PICK i \in DOMAIN q.options : o = q.options[i]
    BY <2>2 DEF Range
  <2>4. QED
    BY <2>1, <2>3
<1> HIDE DEF hits
<1>5. Min(hits) \in hits
  BY <1>3, <1>4, MinIsLeast
<1>6. Min(hits) \in DOMAIN q.options
  BY <1>5 DEF hits
<1>7. FirstOption(q, variations) = q.options[Min(hits)]
  BY DEF FirstOption, hits
<1>8. q.options[Min(hits)] \in OptionType
  BY <1>1, <1>2, <1>6, ElementOfSeq
<1>9. q.options[Min(hits)] \in Range(q.options)
  BY <1>6 DEF Range
<1>10. QED
  BY <1>7, <1>8, <1>9

LEMMA CommandsTyped ==
  ASSUME machine \in Machines, NEW c \in machine.commands
  PROVE  c.op \in {"get", "set"} /\ Number(c.value) \in Int
BY MachinesAssumption

(* For a question without options it is a number that fits and does not    *)
(* exceed the maximum.                                                     *)
LEMMA NumberWritten ==
  ASSUME machine \in Machines, NEW q \in Questions, NEW c \in machine.commands,
         Acceptable(q, c), q.options = <<>>
  PROVE  /\ q.kind # "OneOf" /\ Number(c.value) \in Nat
         /\ Fits(Number(c.value), q.width) /\ Number(c.value) <= q.max
         /\ NewBytes(q, c) = Encode(Number(c.value), q.width)
<1>1. q.store # "none"
  BY QuestionsTyped
<1>2. q.kind # "OneOf" /\ Legal(q, Number(c.value))
  BY <1>1 DEF Acceptable
<1>3. Number(c.value) \in Int
  BY CommandsTyped
<1>4. QED
  BY <1>2, <1>3 DEF Legal, NewBytes

(* For a question with options it is the value of one of them.             *)
LEMMA OptionWritten ==
  ASSUME machine \in Machines, NEW q \in Questions, NEW c \in machine.commands,
         Acceptable(q, c), q.options # <<>>
  PROVE  \E o \in Range(q.options) \cap OptionType : NewBytes(q, c) = OptionBytes(o)
<1> DEFINE variations == AnswerVariations(c.question, c.value)
<1>1. OptionFor(q, variations) # {}
  BY DEF Acceptable
<1> HIDE DEF variations
<1>2. FirstOption(q, variations) \in Range(q.options) \cap OptionType
  BY <1>1, FirstOptionTyped
<1>3. NewBytes(q, c) = OptionBytes(FirstOption(q, variations))
  BY DEF NewBytes, variations
<1>4. QED
  BY <1>2, <1>3

LEMMA OptionBytesTyped ==
  ASSUME NEW o \in OptionType
  PROVE  OptionBytes(o) \in Seq(Byte)
<1>1. o.value \in Nat /\ o.width \in Widths
  BY DEF OptionType
<1>2. Encode(o.value, o.width) \in Seq(Byte)
  BY <1>1, AnswerEncoded
<1>3. QED
  BY <1>2, EmptySeq DEF OptionBytes

LEMMA NewBytesTyped ==
  ASSUME machine \in Machines, NEW q \in Questions, NEW c \in machine.commands,
         Acceptable(q, c)
  PROVE  NewBytes(q, c) \in Seq(Byte)
<1>1. CASE q.options = <<>>
  <2>1. Number(c.value) \in Nat /\ NewBytes(q, c) = Encode(Number(c.value), q.width)
    BY <1>1, NumberWritten
  <2>2. q.width \in Widths
    BY QuestionsTyped
  <2>3. QED
    BY <2>1, <2>2, AnswerEncoded
<1>2. CASE q.options # <<>>
  BY <1>2, OptionWritten, OptionBytesTyped
<1>3. QED
  BY <1>1, <1>2
-----------------------------------------------------------------------------
(* THE INVARIANT                                                           *)

HiiInv == HiiType /\ TargetInv /\ LogInv /\ ResponsesInv /\ SizesInv

LEMMA MachineStays ==
  ASSUME machine' = machine
  PROVE  /\ Forms' = Forms /\ Questions' = Questions /\ Packages' = Packages
         /\ Target' = Target /\ Entry' = Entry
<1>1. Forms' = Forms /\ Questions' = Questions
  BY DEF Forms, Questions
<1>2. Packages' = Packages /\ Target' = Target /\ Entry' = Entry
  BY <1>1 DEF Packages, Target, Entry
<1>3. QED
  BY <1>1, <1>2

LEMMA NextPackageTyped ==
  ASSUME HiiType, NEW p \in Procs, queue[p] # <<>>
  PROVE  /\ queue[p][1] \in Packages /\ queue[p][1].guid \in DOMAIN Forms
         /\ Tail(queue[p]) \in Seq(Packages)
<1>1. queue[p] \in Seq(Packages) /\ machine \in Machines
  BY DEF HiiType
<1>2. Len(queue[p]) \in Nat \ {0}
  BY <1>1, EmptySeq
<1>3. queue[p][1] \in Packages
  BY <1>1, <1>2, ElementOfSeq
<1>4. queue[p][1].guid \in DOMAIN Forms
  BY <1>1, <1>3, PackagesTyped
<1>5. QED
  BY <1>1, <1>3, <1>4, HeadTailProperties

LEMMA QuestionTyped ==
  ASSUME HiiType, NEW p \in Procs, At(p), Question(p).store # "none"
  PROVE  Question(p) \in Questions
<1>1. queue[p][1] \in Packages /\ machine \in Machines
  BY NextPackageTyped DEF At, Visiting, HiiType
<1>2. queue[p][1].questions \in Seq(QuestionType)
  BY <1>1, PackagesTyped
<1>3. Matching(p) \in SUBSET Nat /\ Matching(p) # {}
  BY <1>2, LenProperties DEF At, Matching
<1>4. Min(Matching(p)) \in Matching(p)
  BY <1>3, MinIsLeast
<1>5. Min(Matching(p)) \in DOMAIN queue[p][1].questions
  BY <1>4 DEF Matching
<1>6. QED
  BY <1>1, <1>5, PackagesTyped DEF Question

(* What a set starts to write.                                             *)
LEMMA SetWrites ==
  ASSUME HiiType, NEW p \in Procs, Set(p)
  PROVE  /\ Question(p) \in Questions /\ cmd[p] \in machine.commands
         /\ target' = [target EXCEPT ![p] =
              [guid |-> queue[p][1].guid, question |-> Question(p),
               data |-> NewBytes(Question(p), cmd[p])]]
         /\ target'[p] \in Target
         /\ NewAnswer(target'[p].question, cmd[p], target'[p].data)
<1>1. Question(p) \in Questions
  BY QuestionTyped DEF Set
<1>2. cmd[p] \in machine.commands /\ machine \in Machines
  <2>1. NoCommand.op # "set"
    BY DEF NoCommand
  <2>2. cmd[p] \in machine.commands \cup {NoCommand} /\ machine \in Machines
    BY DEF HiiType
  <2>3. cmd[p].op = "set"
    BY DEF Set
  <2>4. QED
    BY <2>1, <2>2, <2>3
<1>3. Acceptable(Question(p), cmd[p]) /\ cmd[p].op = "set"
  BY DEF Set
<1>4. NewBytes(Question(p), cmd[p]) \in Seq(Byte)
  BY <1>1, <1>2, <1>3, NewBytesTyped
<1>5. queue[p][1].guid \in DOMAIN Forms
  BY NextPackageTyped DEF Set, At, Visiting
<1> DEFINE t == [guid |-> queue[p][1].guid, question |-> Question(p),
                 data |-> NewBytes(Question(p), cmd[p])]
<1>6. t \in Target
  BY <1>1, <1>4, <1>5 DEF Target
<1>7. target' = [target EXCEPT ![p] = t] /\ target'[p] = t
  BY DEF Set, HiiType
<1>8. NewAnswer(t.question, cmd[p], t.data)
  BY <1>3 DEF NewAnswer
<1>9. QED
  BY <1>1, <1>2, <1>6, <1>7, <1>8

(* What a write does to the files and to the log.                          *)
LEMMA WriteWrites ==
  ASSUME HiiInv, NEW p \in Procs, Write(p)
  PROVE  /\ target[p] \in Target /\ target[p].question \in Questions
         /\ target[p].question.store \in Files
         /\ target[p].question.offset \in Nat /\ target[p].data \in Seq(Byte)
         /\ cmd[p] \in machine.commands
         /\ NewAnswer(target[p].question, cmd[p], target[p].data)
         /\ contents' = [contents EXCEPT ![target[p].question.store] =
              Patch(@, HeaderLen + target[p].question.offset, target[p].data)]
         /\ \E entry \in Entry :
              /\ entry.question = target[p].question /\ entry.data = target[p].data
              /\ entry.cmd = cmd[p] /\ entry.proc = p
              /\ log' = Append(log, entry)
<1>1. /\ target[p] \in Target \cup {NoTarget} /\ machine \in Machines
      /\ cmd[p] \in machine.commands \cup {NoCommand}
  BY DEF HiiInv, HiiType
<1>2. target[p] # NoTarget /\ NewAnswer(target[p].question, cmd[p], target[p].data)
  BY DEF HiiInv, TargetInv, Write
<1>3. target[p] \in Target
  BY <1>1, <1>2
<1>4. /\ target[p].question \in Questions /\ target[p].data \in Seq(Byte)
      /\ target[p].guid \in DOMAIN Forms
  BY <1>3 DEF Target
<1>5. target[p].question.store \in Files /\ target[p].question.offset \in Nat
  BY <1>1, <1>4, QuestionsTyped
<1>6. cmd[p] \in machine.commands
  <2>1. NoCommand.op # "set"
    BY DEF NoCommand
  <2>2. cmd[p].op = "set"
    BY <1>2 DEF NewAnswer
  <2>3. QED
    BY <1>1, <2>1, <2>2
<1> DEFINE entry == [proc |-> p, cmd |-> cmd[p], guid |-> target[p].guid,
                     question |-> target[p].question, data |-> target[p].data]
<1>7. entry \in Entry
  BY <1>4, <1>6 DEF Entry
<1>8. log' = Append(log, entry)
  BY DEF Write
<1>9. contents' = [contents EXCEPT ![target[p].question.store] =
              Patch(@, HeaderLen + target[p].question.offset, target[p].data)]
  BY DEF Write, Position
<1>10. QED
  BY <1>2, <1>3, <1>4, <1>5, <1>6, <1>7, <1>8, <1>9

LEMMA NextType ==
  ASSUME HiiInv, Next
  PROVE  HiiType'
<1>1. PICK p \in Procs :
        \/ Start(p) \/ NoStrings(p) \/ NotFound(p) \/ Get(p)
        \/ Set(p) \/ SetNowhere(p) \/ SetRefused(p)
        \/ Write(p) \/ WriteFails(p) \/ Report(p) \/ Finish(p) \/ Kill(p)
  BY DEF Next
<1>2. machine' = machine /\ HiiType
  BY DEF Next, HiiInv
<1>3. /\ Forms' = Forms /\ Questions' = Questions /\ Packages' = Packages
      /\ Target' = Target /\ Entry' = Entry
  BY <1>2, MachineStays
<1>4. <<>> \in Seq(Packages)
  BY EmptySeq
<1>5. ASSUME Start(p) PROVE HiiType'
  <2>1. \E c \in machine.commands : cmd' = [cmd EXCEPT ![p] = c]
    BY <1>5 DEF Start
  <2>2. cmd' \in [Procs -> machine.commands \cup {NoCommand}]
    BY <1>2, <2>1 DEF HiiType
  <2>3. queue' \in [Procs -> Seq(Packages)]
    <3>1. CASE UNCHANGED queue
      BY <1>2, <3>1 DEF HiiType
    <3>2. CASE \E order \in Orders : queue' = [queue EXCEPT ![p] = order]
      <4>1. PICK order \in Orders : queue' = [queue EXCEPT ![p] = order]
        BY <3>2
      <4>2. order \in Seq(Packages)
        BY <1>2, OrdersTyped DEF HiiType
      <4>3. QED
        BY <1>2, <4>1, <4>2 DEF HiiType
    <3>3. QED
      BY <1>5, <3>1, <3>2 DEF Start
  <2>4. /\ pc' \in [Procs -> {"idle", "visit", "write", "written"}]
        /\ outcome' \in [Procs -> {"none", "ok", "err"}]
    BY <1>2, <1>5 DEF Start, HiiType
  <2>5. UNCHANGED <<contents, target, reply, log>>
    BY <1>5 DEF Start
  <2>6. QED
    BY <1>2, <1>3, <2>2, <2>3, <2>4, <2>5 DEF HiiType
<1>6. ASSUME NoStrings(p) \/ SetRefused(p) \/ WriteFails(p) PROVE HiiType'
  <2>1. /\ Fail(p) /\ UNCHANGED <<contents, cmd, log>>
        /\ reply' = reply \/ reply' = [reply EXCEPT ![p] = "err"]
    BY <1>6 DEF NoStrings, SetRefused, WriteFails
  <2>2. /\ pc' \in [Procs -> {"idle", "visit", "write", "written"}]
        /\ outcome' \in [Procs -> {"none", "ok", "err"}]
        /\ reply' \in [Procs -> {"none", "ok", "err"}]
    BY <1>2, <2>1 DEF Fail, HiiType
  <2>3. /\ queue' \in [Procs -> Seq(Packages)]
        /\ target' \in [Procs -> Target \cup {NoTarget}]
    BY <1>2, <1>4, <2>1 DEF Fail, HiiType
  <2>4. QED
    BY <1>2, <1>3, <2>1, <2>2, <2>3 DEF HiiType
<1>7. ASSUME NotFound(p) \/ Get(p) \/ SetNowhere(p) PROVE HiiType'
  <2>1. queue[p] # <<>> /\ queue' = [queue EXCEPT ![p] = Tail(@)]
        /\ UNCHANGED <<contents, pc, cmd, target, reply, outcome, log>>
    BY <1>7 DEF NotFound, Get, SetNowhere, At, Visiting, NextPackage
  <2>2. Tail(queue[p]) \in Seq(Packages)
    BY <1>2, <2>1, NextPackageTyped
  <2>3. queue' \in [Procs -> Seq(Packages)]
    BY <1>2, <2>1, <2>2 DEF HiiType
  <2>4. QED
    BY <1>2, <1>3, <2>1, <2>3 DEF HiiType
<1>8. ASSUME Set(p) PROVE HiiType'
  <2>1. target'[p] \in Target /\ \E t : target' = [target EXCEPT ![p] = t]
    BY <1>2, <1>8, SetWrites
  <2>2. target' \in [Procs -> Target \cup {NoTarget}]
    BY <1>2, <2>1 DEF HiiType
  <2>3. /\ reply' \in [Procs -> {"none", "ok", "err"}]
        /\ pc' \in [Procs -> {"idle", "visit", "write", "written"}]
        /\ UNCHANGED <<contents, cmd, queue, outcome, log>>
    BY <1>2, <1>8 DEF Set, HiiType
  <2>4. QED
    BY <1>2, <1>3, <2>2, <2>3 DEF HiiType
<1>9. ASSUME Write(p) PROVE HiiType'
  <2> DEFINE f == target[p].question.store
             new == Patch(contents[f], HeaderLen + target[p].question.offset, target[p].data)
  <2>1. /\ f \in Files /\ target[p].question.offset \in Nat /\ target[p].data \in Seq(Byte)
        /\ contents' = [contents EXCEPT ![f] = new]
        /\ \E entry \in Entry : log' = Append(log, entry)
    BY <1>9, WriteWrites
  <2>2. new \in Seq(Byte)
    <3>1. contents[f] \in Seq(Byte)
      BY <1>2, <2>1 DEF HiiType
    <3>2. HeaderLen + target[p].question.offset \in Nat
      BY <2>1 DEF HeaderLen
    <3>3. QED
      BY <2>1, <3>1, <3>2, PatchType
  <2> HIDE DEF new, f
  <2>3. contents' \in [Files -> Seq(Byte)]
    BY <1>2, <2>1, <2>2 DEF HiiType
  <2>4. log' \in Seq(Entry)
    BY <1>2, <2>1, AppendProperties DEF HiiType
  <2>5. /\ pc' \in [Procs -> {"idle", "visit", "write", "written"}]
        /\ UNCHANGED <<cmd, queue, target, reply, outcome>>
    BY <1>2, <1>9 DEF Write, HiiType
  <2>6. QED
    BY <1>2, <1>3, <2>3, <2>4, <2>5 DEF HiiType
<1>10. ASSUME Report(p) PROVE HiiType'
  <2>1. queue[p] # <<>> /\ queue' = [queue EXCEPT ![p] = Tail(@)]
    BY <1>10 DEF Report, NextPackage, HiiInv, TargetInv
  <2>2. Tail(queue[p]) \in Seq(Packages)
    BY <1>2, <2>1, NextPackageTyped
  <2>3. queue' \in [Procs -> Seq(Packages)]
    BY <1>2, <2>1, <2>2 DEF HiiType
  <2>4. /\ pc' \in [Procs -> {"idle", "visit", "write", "written"}]
        /\ reply' \in [Procs -> {"none", "ok", "err"}]
        /\ target' \in [Procs -> Target \cup {NoTarget}]
        /\ UNCHANGED <<contents, cmd, outcome, log>>
    BY <1>2, <1>10 DEF Report, HiiType
  <2>5. QED
    BY <1>2, <1>3, <2>3, <2>4 DEF HiiType
<1>11. ASSUME Finish(p) PROVE HiiType'
  BY <1>2, <1>3, <1>11 DEF Finish, HiiType
<1>12. ASSUME Kill(p) PROVE HiiType'
  BY <1>2, <1>3, <1>4, <1>12 DEF Kill, HiiType
<1>13. QED
  BY <1>1, <1>5, <1>6, <1>7, <1>8, <1>9, <1>10, <1>11, <1>12
(* A step of p concerns p alone.                                           *)
Step(p) ==
  \/ Start(p) \/ NoStrings(p) \/ NotFound(p) \/ Get(p)
  \/ Set(p) \/ SetNowhere(p) \/ SetRefused(p)
  \/ Write(p) \/ WriteFails(p) \/ Report(p) \/ Finish(p) \/ Kill(p)

LEMMA OthersStay ==
  ASSUME HiiType, DOMAIN responses = Procs, NEW p \in Procs, Step(p), NEW q \in Procs, q # p
  PROVE  /\ pc'[q] = pc[q] /\ cmd'[q] = cmd[q] /\ queue'[q] = queue[q]
         /\ target'[q] = target[q] /\ responses'[q] = responses[q]
         /\ DOMAIN responses' = Procs
<1> USE DEF HiiType
<1>1. CASE Start(p)
  BY <1>1 DEF Start
<1>2. CASE NoStrings(p) \/ SetRefused(p) \/ WriteFails(p)
  <2>1. Fail(p) /\ UNCHANGED cmd
    BY <1>2 DEF NoStrings, SetRefused, WriteFails
  <2>2. QED
    BY <2>1 DEF Fail
<1>3. CASE NotFound(p) \/ SetNowhere(p)
  BY <1>3 DEF NotFound, SetNowhere, NextPackage
<1>4. CASE Get(p)
  BY <1>4 DEF Get, NextPackage
<1>5. CASE Set(p)
  BY <1>5 DEF Set
<1>6. CASE Write(p)
  BY <1>6 DEF Write
<1>7. CASE Report(p)
  BY <1>7 DEF Report, NextPackage
<1>8. CASE Finish(p)
  BY <1>8 DEF Finish
<1>9. CASE Kill(p)
  BY <1>9 DEF Kill
<1>10. QED
  BY <1>1, <1>2, <1>3, <1>4, <1>5, <1>6, <1>7, <1>8, <1>9 DEF Step

LEMMA NextTarget ==
  ASSUME HiiInv, Next
  PROVE  TargetInv'
<1> DEFINE Good(q) ==
      IF pc[q] \in {"write", "written"}
      THEN /\ queue[q] # <<>> /\ queue[q][1].guid = target[q].guid
           /\ target[q] # NoTarget
           /\ NewAnswer(target[q].question, cmd[q], target[q].data)
      ELSE target[q] = NoTarget
<1>1. PICK p \in Procs : Step(p)
  BY DEF Next, Step
<1>2. HiiType /\ DOMAIN responses = Procs /\ \A q \in Procs : Good(q)
  BY DEF HiiInv, TargetInv, ResponsesInv
<1>3. ASSUME NEW q \in Procs, q # p PROVE Good(q)'
  <2>1. /\ pc'[q] = pc[q] /\ cmd'[q] = cmd[q] /\ queue'[q] = queue[q]
        /\ target'[q] = target[q]
    BY <1>1, <1>2, <1>3, OthersStay
  <2>2. QED
    BY <1>2, <2>1
<1>4. Good(p)'
  <2>1. CASE \/ Start(p) \/ Kill(p) \/ Report(p) \/ Finish(p)
             \/ NotFound(p) \/ SetNowhere(p) \/ Get(p)
    <3>1. /\ Start(p) => pc[p] = "idle" /\ pc'[p] \in {"idle", "visit"} /\ target'[p] = target[p]
          /\ Kill(p) => pc'[p] = "idle" /\ target'[p] = NoTarget
          /\ Report(p) => pc'[p] = "visit" /\ target'[p] = NoTarget
          /\ Finish(p) => pc[p] = "visit" /\ pc'[p] = "idle" /\ target'[p] = target[p]
          /\ NotFound(p) \/ SetNowhere(p) \/ Get(p) =>
               pc[p] = "visit" /\ pc'[p] = "visit" /\ target'[p] = target[p]
      BY <1>2 DEF Start, Kill, Report, Finish, NotFound, SetNowhere, Get, At, Visiting, HiiType
    <3>2. QED
      BY <1>2, <2>1, <3>1
  <2>2. CASE NoStrings(p) \/ SetRefused(p) \/ WriteFails(p)
    <3>1. Fail(p)
      BY <2>2 DEF NoStrings, SetRefused, WriteFails
    <3>2. pc'[p] = "idle" /\ target'[p] = NoTarget
      BY <1>2, <3>1 DEF Fail, HiiType
    <3>3. QED
      BY <3>2
  <2>3. CASE Set(p)
    <3>1. /\ target'[p] = [guid |-> queue[p][1].guid, question |-> Question(p),
                           data |-> NewBytes(Question(p), cmd[p])]
          /\ target'[p] \in Target /\ machine \in Machines
          /\ NewAnswer(target'[p].question, cmd[p], target'[p].data)
      BY <1>2, <2>3, SetWrites DEF HiiType
    <3>2. pc'[p] = "write" /\ queue'[p] = queue[p] /\ cmd'[p] = cmd[p] /\ queue[p] # <<>>
      BY <1>2, <2>3 DEF Set, At, Visiting, HiiType
    <3>3. target'[p] # NoTarget
      <4>1. target'[p].question \in Questions /\ NoTarget.question.store = "none"
        BY <3>1 DEF Target, NoTarget
      <4>2. target'[p].question.store # "none"
        BY <3>1, <4>1, QuestionsTyped
      <4>3. QED
        BY <4>1, <4>2
    <3>4. target'[p].guid = queue[p][1].guid
      BY <3>1
    <3>5. QED
      BY <3>1, <3>2, <3>3, <3>4
  <2>4. CASE Write(p)
    <3>1. /\ pc[p] = "write" /\ pc'[p] = "written" /\ queue'[p] = queue[p] /\ cmd'[p] = cmd[p]
          /\ target'[p] = target[p]
      BY <1>2, <2>4 DEF Write, HiiType
    <3>2. QED
      BY <1>2, <3>1
  <2>5. QED
    BY <1>1, <2>1, <2>2, <2>3, <2>4 DEF Step
<1> HIDE DEF Good
<1>5. \A q \in Procs : Good(q)'
  BY <1>3, <1>4
<1>6. QED
  BY <1>5 DEF Good, TargetInv

(* The log grows by a write at a time.                                     *)
LEMMA LogGrows ==
  ASSUME HiiInv, Next
  PROVE  \/ UNCHANGED <<contents, log>>
         \/ \E p \in Procs : Write(p)
<1>1. PICK p \in Procs : Step(p)
  BY DEF Next, Step
<1>2. CASE Write(p)
  BY <1>2
<1>3. CASE ~Write(p)
  <2>1. UNCHANGED <<contents, log>>
    BY <1>1, <1>3 DEF Step, Start, NoStrings, NotFound, Get, Set, SetNowhere, SetRefused,
                      WriteFails, Report, Finish, Kill
  <2>2. QED
    BY <2>1
<1>4. QED
  BY <1>2, <1>3

LEMMA NextLog ==
  ASSUME HiiInv, Next
  PROVE  LogInv'
<1>1. CASE UNCHANGED <<contents, log>>
  BY <1>1 DEF HiiInv, LogInv
<1>2. ASSUME NEW p \in Procs, Write(p) PROVE LogInv'
  <2>1. PICK entry \in Entry :
          /\ entry.question = target[p].question /\ entry.data = target[p].data
          /\ entry.cmd = cmd[p] /\ log' = Append(log, entry)
    BY <1>2, WriteWrites
  <2>2. NewAnswer(entry.question, entry.cmd, entry.data)
    BY <1>2, <2>1, WriteWrites
  <2>3. log \in Seq(Entry)
    BY DEF HiiInv, HiiType
  <2>4. /\ Len(log') = Len(log) + 1 /\ Len(log) \in Nat /\ log'[Len(log) + 1] = entry
        /\ \A i \in 1..Len(log) : log'[i] = log[i]
    BY <2>1, <2>3, AppendProperties, LenProperties
  <2>5. ASSUME NEW i \in 1..Len(log')
        PROVE  NewAnswer(log'[i].question, log'[i].cmd, log'[i].data)
    <3>1. CASE i = Len(log) + 1
      BY <2>2, <2>4, <3>1
    <3>2. CASE i # Len(log) + 1
      <4>1. i \in 1..Len(log)
        BY <2>4, <2>5, <3>2
      <4>2. NewAnswer(log[i].question, log[i].cmd, log[i].data)
        BY <4>1 DEF HiiInv, LogInv
      <4>3. QED
        BY <2>4, <4>1, <4>2
    <3>3. QED
      BY <3>1, <3>2
  <2>6. QED
    BY <2>5 DEF LogInv
<1>3. QED
  BY <1>1, <1>2, LogGrows
LEMMA NextSizes ==
  ASSUME HiiInv, Next
  PROVE  SizesInv'
<1>1. CASE UNCHANGED <<contents, log>>
  BY <1>1 DEF HiiInv, SizesInv
<1>2. ASSUME NEW p \in Procs, Write(p) PROVE SizesInv'
  <2> DEFINE g == target[p].question.store
             pos == HeaderLen + target[p].question.offset
             data == target[p].data
             new == Patch(contents[g], pos, data)
  <2>1. /\ g \in Files /\ pos \in Nat /\ data \in Seq(Byte)
        /\ contents' = [contents EXCEPT ![g] = new]
    BY <1>2, WriteWrites DEF HeaderLen
  <2>2. contents \in [Files -> Seq(Byte)]
    BY DEF HiiInv, HiiType
  <2>3. /\ contents'[g] = new /\ \A f \in Files \ {g} : contents'[f] = contents[f]
    BY <2>1, <2>2
  <2>4. Len(new) >= Len(contents[g])
    <3>1. contents[g] \in Seq(Byte)
      BY <2>1, <2>2
    <3>2. CASE data = <<>>
      <4>1. new = contents[g]
        BY <3>2 DEF Patch
      <4>2. QED
        BY <3>1, <4>1, LenProperties
    <3>3. CASE data # <<>>
      <4> HIDE DEF pos, data, g
      <4>1. PICK bytes \in Seq(Byte) : bytes = contents[g]
        BY <3>1
      <4>2. LET nw == Patch(bytes, pos, data)
                end == pos + Len(data)
            IN  Len(nw) = IF end > Len(bytes) THEN end ELSE Len(bytes)
        BY <2>1, <3>3, PatchBytes
      <4>3. Len(data) \in Nat /\ Len(bytes) \in Nat
        BY <2>1, LenProperties
      <4>4. QED
        BY <2>1, <4>1, <4>2, <4>3
    <3>4. QED
      BY <3>2, <3>3
  <2> HIDE DEF new, g
  <2>5. ASSUME NEW f \in Files PROVE Len(contents'[f]) >= HeaderLen + Size[f]
    <3>1. Len(contents[f]) >= HeaderLen + Size[f]
      BY DEF HiiInv, SizesInv
    <3>2. Len(contents[f]) \in Nat /\ Len(contents'[f]) \in Nat
          /\ HeaderLen + Size[f] \in Nat
      <4>1. contents' \in [Files -> Seq(Byte)]
        BY NextType DEF HiiType
      <4>2. contents[f] \in Seq(Byte) /\ contents'[f] \in Seq(Byte)
        BY <2>2, <4>1
      <4>3. HeaderLen + Size[f] \in Nat
        BY StoresAssumption DEF HeaderLen
      <4>4. QED
        BY <4>2, <4>3, LenProperties
    <3>3. CASE f = g
      BY <2>3, <2>4, <3>1, <3>2, <3>3
    <3>4. CASE f # g
      BY <2>3, <3>1, <3>4
    <3>5. QED
      BY <3>3, <3>4
  <2>6. QED
    BY <2>5 DEF SizesInv
<1>3. QED
  BY <1>1, <1>2, LogGrows

LEMMA LastWriteTyped ==
  ASSUME HiiType, NEW p \in Procs
  PROVE  LastWrite(p) \in 0..Len(log)
<1> DEFINE S == {0} \cup {i \in DOMAIN log : log[i].proc = p}
<1>1. DOMAIN log = 1..Len(log) /\ Len(log) \in Nat
  BY LenProperties DEF HiiType
<1>2. S \in SUBSET (0..Len(log)) /\ S # {}
  BY <1>1
<1> HIDE DEF S
<1>3. Max(S) \in S
  BY <1>1, <1>2, MaxIsGreatest
<1>4. QED
  BY <1>2, <1>3 DEF LastWrite, S

(* Appending to a sequence of anything.                                    *)
LEMMA AppendAny ==
  ASSUME NEW s, s \in Seq(Range(s)), NEW e
  PROVE  /\ Append(s, e) \in Seq(Range(Append(s, e)))
         /\ Len(s) \in Nat /\ Len(Append(s, e)) = Len(s) + 1
         /\ \A k \in 1..Len(s) : Append(s, e)[k] = s[k]
         /\ Append(s, e)[Len(s) + 1] = e
<1> DEFINE T == Range(s) \cup {e}
           new == Append(s, e)
<1>1. s \in Seq(T) /\ e \in T
  BY SeqMonotonic
<1>2. /\ new \in Seq(T) /\ Len(new) = Len(s) + 1 /\ Len(s) \in Nat
      /\ \A k \in 1..Len(s) : new[k] = s[k]
      /\ new[Len(s) + 1] = e
  BY <1>1, AppendProperties, LenProperties
<1>3. new \in Seq(Range(new))
  <2>1. new \in [1..Len(new) -> T] /\ Len(new) \in Nat
    BY <1>2, LenProperties
  <2>2. new \in [1..Len(new) -> Range(new)]
    BY <2>1 DEF Range
  <2>3. QED
    BY <2>1, <2>2, SeqDef
<1>4. QED
  BY <1>2, <1>3

LEMMA NextResponses ==
  ASSUME HiiInv, Next
  PROVE  ResponsesInv'
<1> DEFINE Good(q) ==
      /\ responses[q] \in Seq(Range(responses[q]))
      /\ \A k \in 1..Len(responses[q]) : responses[q][k].at \in 0..Len(log)
<1>1. PICK p \in Procs : Step(p)
  BY DEF Next, Step
<1>2. HiiType /\ DOMAIN responses = Procs /\ \A q \in Procs : Good(q)
  BY DEF HiiInv, ResponsesInv
<1>3. Len(log) \in Nat /\ Len(log') \in Nat /\ Len(log) <= Len(log')
  <2>1. log \in Seq(Entry) /\ Len(log) \in Nat
    BY <1>2, LenProperties DEF HiiType
  <2>2. CASE UNCHANGED log
    BY <2>1, <2>2
  <2>3. ASSUME NEW r \in Procs, Write(r) PROVE Len(log') = Len(log) + 1
    <3>1. PICK entry \in Entry : log' = Append(log, entry)
      BY <2>3, WriteWrites
    <3>2. QED
      BY <2>1, <3>1, AppendProperties
  <2>4. QED
    BY <2>1, <2>2, <2>3, LogGrows
<1>4. ASSUME NEW q \in Procs, responses'[q] = responses[q] PROVE Good(q)'
  <2>1. Good(q)
    BY <1>2
  <2>2. \A k \in 1..Len(responses[q]) : responses[q][k].at \in 0..Len(log')
    BY <1>3, <2>1
  <2>3. QED
    BY <1>4, <2>1, <2>2
<1>5. ASSUME NEW q \in Procs, responses'[q] = <<>> PROVE Good(q)'
  <2>1. <<>> \in Seq(Range(<<>>)) /\ Len(<<>>) = 0
    BY EmptySeq
  <2>2. \A k \in 1..Len(<<>>) : <<>>[k].at \in 0..Len(log')
    BY <2>1
  <2>3. QED
    BY <1>5, <2>1, <2>2
<1>6. ASSUME NEW q \in Procs, NEW e, e.at \in 0..Len(log),
             responses'[q] = Append(responses[q], e)
      PROVE  Good(q)'
  <2>1. Good(q)
    BY <1>2
  <2> DEFINE new == Append(responses[q], e)
  <2>2. /\ new \in Seq(Range(new))
        /\ Len(responses[q]) \in Nat /\ Len(new) = Len(responses[q]) + 1
        /\ \A k \in 1..Len(responses[q]) : new[k] = responses[q][k]
        /\ new[Len(responses[q]) + 1] = e
    BY <2>1, AppendAny
  <2> HIDE DEF new
  <2>3. ASSUME NEW k \in 1..Len(new) PROVE new[k].at \in 0..Len(log')
    <3>1. CASE k = Len(responses[q]) + 1
      BY <1>3, <1>6, <2>2, <3>1
    <3>2. CASE k # Len(responses[q]) + 1
      <4>1. k \in 1..Len(responses[q])
        BY <2>2, <3>2
      <4>2. new[k].at \in 0..Len(log)
        BY <2>1, <2>2, <4>1
      <4>3. QED
        BY <1>3, <4>2
    <3>3. QED
      BY <3>1, <3>2
  <2>4. responses'[q] = new
    BY <1>6 DEF new
  <2>5. QED
    BY <2>2, <2>3, <2>4
<1>7. \/ responses'[p] = responses[p]
      \/ responses'[p] = <<>>
      \/ \E e : e.at \in 0..Len(log) /\ responses'[p] = Append(responses[p], e)
  <2>1. CASE Get(p)
    <3>1. PICK answer : responses' = [responses EXCEPT ![p] =
            Append(@, Response(p, Question(p), TranslateResponse(cmd[p].question, answer),
                               Len(log)))]
      BY <2>1 DEF Get
    <3> DEFINE e == Response(p, Question(p), TranslateResponse(cmd[p].question, answer), Len(log))
    <3>2. e.at \in 0..Len(log)
      BY <1>3 DEF Response
    <3>3. responses'[p] = Append(responses[p], e)
      BY <1>2, <3>1
    <3>4. QED
      BY <3>2, <3>3
  <2>2. CASE Report(p)
    <3> DEFINE e == Response(p, target[p].question, cmd[p].value, LastWrite(p))
    <3>1. e.at \in 0..Len(log)
      BY <1>2, LastWriteTyped DEF Response
    <3>2. responses'[p] = Append(responses[p], e)
      BY <1>2, <2>2 DEF Report
    <3>3. QED
      BY <3>1, <3>2
  <2>3. CASE Start(p) \/ Kill(p)
    BY <1>2, <2>3 DEF Start, Kill
  <2>4. CASE NoStrings(p) \/ SetRefused(p) \/ WriteFails(p)
    <3>1. Fail(p)
      BY <2>4 DEF NoStrings, SetRefused, WriteFails
    <3>2. QED
      BY <1>2, <3>1 DEF Fail
  <2>5. CASE NotFound(p) \/ Set(p) \/ SetNowhere(p) \/ Write(p) \/ Finish(p)
    BY <2>5 DEF NotFound, Set, SetNowhere, Write, Finish
  <2>6. QED
    BY <1>1, <2>1, <2>2, <2>3, <2>4, <2>5 DEF Step
<1>8. ASSUME NEW q \in Procs PROVE Good(q)'
  <2>1. CASE q = p
    BY <1>4, <1>5, <1>6, <1>7, <2>1
  <2>2. CASE q # p
    BY <1>1, <1>2, <1>4, <2>2, OthersStay
  <2>3. QED
    BY <2>1, <2>2
<1>9. DOMAIN responses' = Procs
  BY <1>1, <1>2 DEF Step, Start, NoStrings, NotFound, Get, Set, SetNowhere, SetRefused,
     Write, WriteFails, Report, Finish, Kill, Fail
<1> HIDE DEF Good
<1>10. \A q \in Procs : Good(q)'
  BY <1>8
<1>11. QED
  BY <1>9, <1>10 DEF Good, ResponsesInv
LEMMA InitInv == Init => HiiInv
<1> SUFFICES ASSUME Init PROVE HiiInv
  OBVIOUS
<1>1. HiiType
  <2>1. <<>> \in Seq(Packages) /\ <<>> \in Seq(Entry)
    BY EmptySeq
  <2>2. InitContents \in [Files -> Seq(Byte)]
    BY StoresAssumption
  <2>3. QED
    BY <2>1, <2>2 DEF Init, HiiType
<1>2. TargetInv
  BY DEF Init, TargetInv
<1>3. LogInv
  <2>1. Len(log) = 0
    BY EmptySeq DEF Init
  <2>2. QED
    BY <2>1 DEF LogInv
<1>4. ResponsesInv
  <2>1. DOMAIN responses = Procs /\ \A p \in Procs : responses[p] = <<>>
    BY DEF Init
  <2>2. <<>> \in Seq(Range(<<>>)) /\ Len(<<>>) = 0
    BY EmptySeq
  <2>3. \A p \in Procs : 1..Len(responses[p]) = {}
    BY <2>1, <2>2
  <2>4. QED
    BY <2>1, <2>2, <2>3 DEF ResponsesInv
<1>5. SizesInv
  <2>1. ASSUME NEW f \in Files PROVE Len(contents[f]) >= HeaderLen + Size[f]
    <3>1. Len(InitContents[f]) = 4 + Size[f] /\ Size[f] \in Nat
      BY StoresAssumption
    <3>2. QED
      BY <3>1 DEF Init, HeaderLen
  <2>2. QED
    BY <2>1 DEF SizesInv
<1>6. QED
  BY <1>1, <1>2, <1>3, <1>4, <1>5 DEF HiiInv

LEMMA StepInv == HiiInv /\ [Next]_vars => HiiInv'
<1> SUFFICES ASSUME HiiInv, [Next]_vars PROVE HiiInv'
  OBVIOUS
<1>1. CASE Next
  BY <1>1, NextType, NextTarget, NextLog, NextResponses, NextSizes DEF HiiInv
<1>2. CASE UNCHANGED vars
  <2>1. UNCHANGED <<machine, contents, pc, cmd, queue, target, reply, responses, outcome, log>>
    BY <1>2 DEF vars
  <2>2. Packages' = Packages /\ Target' = Target /\ Entry' = Entry
    BY <2>1, MachineStays
  <2>3. HiiType'
    BY <2>1, <2>2 DEF HiiInv, HiiType
  <2>4. TargetInv'
    BY <2>1 DEF HiiInv, TargetInv
  <2>5. LogInv' /\ ResponsesInv' /\ SizesInv'
    BY <2>1 DEF HiiInv, LogInv, ResponsesInv, SizesInv
  <2>6. QED
    BY <2>3, <2>4, <2>5 DEF HiiInv
<1>3. QED
  BY <1>1, <1>2

(* Steps, failures and kills of any processes keep the invariant.          *)
LEMMA HiiInvariance == Spec => []HiiInv
BY InitInv, StepInv, PTL DEF Spec

LEMMA InvType == HiiInv => TypeOK
<1> SUFFICES ASSUME HiiInv PROVE TypeOK
  OBVIOUS
<1>1. HiiType /\ TargetInv /\ ResponsesInv
  BY DEF HiiInv
<1>2. ASSUME NEW p \in Procs, pc[p] \in {"write", "written"}
      PROVE  /\ cmd[p].op = "set"
             /\ queue[p] # <<>> /\ queue[p][1].guid = target[p].guid
             /\ target[p].question \in Questions
  <2>1. /\ queue[p] # <<>> /\ queue[p][1].guid = target[p].guid
        /\ target[p] # NoTarget /\ NewAnswer(target[p].question, cmd[p], target[p].data)
    BY <1>1, <1>2 DEF TargetInv
  <2>2. target[p] \in Target
    BY <1>1, <2>1 DEF HiiType
  <2>3. QED
    BY <2>1, <2>2 DEF Target, NewAnswer
<1>3. ASSUME NEW p \in Procs, NEW k \in DOMAIN responses[p]
      PROVE  responses[p][k].at <= Len(log)
  <2>1. k \in 1..Len(responses[p])
    BY <1>1, LenProperties DEF ResponsesInv
  <2>2. responses[p][k].at \in 0..Len(log)
    BY <1>1, <2>1 DEF ResponsesInv
  <2>3. QED
    BY <2>2
<1>4. \A p \in Procs : cmd[p] \in machine.commands \cup {NoCommand}
  BY <1>1 DEF HiiType
<1>5. QED
  BY <1>1, <1>2, <1>3, <1>4 DEF HiiType, TypeOK

(* While a command writes, it is a set, the package it is in is the first  *)
(* of its queue and the question is one the machine has; what is in a file *)
(* are bytes; no response tells of a write that has not happened           *)
(* (exports.rs:180-260, forms.rs:527-566).                                 *)
THEOREM HiiTypeCorrect == Spec => []TypeOK
BY HiiInvariance, InvType, PTL
-----------------------------------------------------------------------------
(* THE STORE AS THE BACKEND USES IT                                        *)

Header(bytes) == SubSeq(bytes, 1, HeaderLen)

Body(bytes) == SubSeq(bytes, HeaderLen + 1, Len(bytes))

(* Patching behind the header keeps it and writes the field.               *)
LEMMA PatchBody ==
  ASSUME NEW bytes \in Seq(Byte), Len(bytes) >= HeaderLen, NEW w, w.offset \in Nat,
         w.data \in Seq(Byte), NEW new, new = Patch(bytes, HeaderLen + w.offset, w.data)
  PROVE  /\ Header(new) = Header(bytes)
         /\ Store!FieldWritten(Body(bytes), Body(new), w)
<1> DEFINE m == Len(bytes)
           n == Len(new)
           k == Len(w.data)
           field == (w.offset + 1)..(w.offset + k)
<1>1. PICK off \in Nat, data \in Seq(Byte) : off = w.offset /\ data = w.data
  OBVIOUS
<1>2. CASE data = <<>>
  <2>1. new = bytes
    BY <1>1, <1>2 DEF Patch
  <2>2. field = {}
    <3>1. k = 0
      BY <1>1, <1>2, EmptySeq
    <3>2. QED
      BY <3>1
  <2>3. QED
    BY <2>1, <2>2 DEF Store!FieldWritten
<1>3. CASE data # <<>>
  <2>1. new \in Seq(Byte) /\ HeaderLen + off \in Nat
    BY <1>1, PatchType DEF HeaderLen
  <2>2. m \in Nat /\ n \in Nat /\ k \in Nat /\ k > 0 /\ m >= 4
    BY <1>1, <1>3, <2>1, EmptySeq, LenProperties DEF HeaderLen
  <2>3. /\ n = IF 4 + off + k > m THEN 4 + off + k ELSE m
        /\ \A i \in 1..n : new[i] = IF i \in 4 + off + 1..4 + off + k THEN data[i - (4 + off)]
                                    ELSE IF i <= m THEN bytes[i] ELSE 0
    <3>1. PICK pos \in Nat : pos = 4 + off
      BY <1>1
    <3>2. new = Patch(bytes, pos, data)
      BY <1>1, <3>1 DEF HeaderLen
    <3>3. LET nw == Patch(bytes, pos, data)
              end == pos + Len(data)
          IN  /\ Len(nw) = IF end > Len(bytes) THEN end ELSE Len(bytes)
              /\ \A i \in 1..Len(nw) :
                   nw[i] = IF i \in (pos + 1)..end THEN data[i - pos]
                           ELSE IF i <= Len(bytes) THEN bytes[i] ELSE 0
      BY <1>3, PatchBytes
    <3>4. QED
      BY <1>1, <3>1, <3>2, <3>3
  <2> HIDE DEF m, n, k
  <2>4. n >= 4 /\ \A i \in 1..4 : new[i] = bytes[i]
    BY <2>2, <2>3
  <2>5. /\ Len(Header(bytes)) = 4 /\ Len(Header(new)) = 4
        /\ Header(bytes) \in Seq(Byte) /\ Header(new) \in Seq(Byte)
        /\ \A i \in 1..4 : Header(bytes)[i] = bytes[i] /\ Header(new)[i] = new[i]
    <3>1. PICK from \in Nat, to \in Nat : from = 0 /\ to = 4
      OBVIOUS
    <3>2. from <= to /\ to <= Len(bytes) /\ to <= Len(new)
      BY <2>2, <2>4, <3>1 DEF m, n
    <3>3. /\ SubSeq(bytes, from + 1, to) \in Seq(Byte)
          /\ Len(SubSeq(bytes, from + 1, to)) = to - from
          /\ \A i \in 1..to - from : SubSeq(bytes, from + 1, to)[i] = bytes[from + i]
      BY <3>2, PartBytes
    <3>4. /\ SubSeq(new, from + 1, to) \in Seq(Byte)
          /\ Len(SubSeq(new, from + 1, to)) = to - from
          /\ \A i \in 1..to - from : SubSeq(new, from + 1, to)[i] = new[from + i]
      BY <2>1, <3>2, PartBytes
    <3>5. Header(bytes) = SubSeq(bytes, from + 1, to) /\ Header(new) = SubSeq(new, from + 1, to)
      BY <3>1 DEF Header, HeaderLen
    <3>6. to - from = 4 /\ \A i \in 1..4 : from + i = i
      BY <3>1
    <3>7. QED
      BY <3>3, <3>4, <3>5, <3>6
  <2>6. Header(new) = Header(bytes)
    <3>1. Header(bytes) \in [1..4 -> Byte] /\ Header(new) \in [1..4 -> Byte]
      BY <2>5, LenProperties
    <3>2. \A i \in 1..4 : Header(new)[i] = Header(bytes)[i]
      BY <2>4, <2>5
    <3>3. QED
      BY <3>1, <3>2, SMTT(30)
  <2>7. /\ Len(Body(bytes)) = m - 4 /\ Len(Body(new)) = n - 4
        /\ \A i \in 1..m - 4 : Body(bytes)[i] = bytes[4 + i]
        /\ \A i \in 1..n - 4 : Body(new)[i] = new[4 + i]
    <3>1. PICK from \in Nat : from = 4
      OBVIOUS
    <3>2. from <= m /\ from <= n
      BY <2>2, <2>4, <3>1
    <3>3. /\ Len(SubSeq(bytes, from + 1, m)) = m - from
          /\ \A i \in 1..m - from : SubSeq(bytes, from + 1, m)[i] = bytes[from + i]
      BY <2>2, <3>2, PartBytes DEF m
    <3>4. /\ Len(SubSeq(new, from + 1, n)) = n - from
          /\ \A i \in 1..n - from : SubSeq(new, from + 1, n)[i] = new[from + i]
      BY <2>1, <2>2, <3>2, PartBytes DEF n
    <3>5. Body(bytes) = SubSeq(bytes, from + 1, m) /\ Body(new) = SubSeq(new, from + 1, n)
      BY <3>1 DEF Body, HeaderLen, m, n
    <3>6. QED
      BY <3>1, <3>3, <3>4, <3>5
  <2> DEFINE old == Body(bytes)
             nxt == Body(new)
  <2> HIDE DEF old, nxt
  <2>8. ASSUME NEW i \in 1..n - 4
        PROVE  nxt[i] = IF i \in field THEN data[i - off]
                        ELSE IF i <= m - 4 THEN old[i] ELSE 0
    <3>1. 4 + i \in 1..n /\ (4 + i) - (4 + off) = i - off
      BY <1>1, <2>2
    <3>2. new[4 + i] = IF 4 + i \in 4 + off + 1..4 + off + k THEN data[i - off]
                       ELSE IF 4 + i <= m THEN bytes[4 + i] ELSE 0
      BY <2>3, <3>1
    <3>3. nxt[i] = new[4 + i]
      BY <2>7 DEF nxt
    <3>4. i <= m - 4 => old[i] = bytes[4 + i]
      BY <2>2, <2>7 DEF old
    <3>5. 4 + i \in 4 + off + 1..4 + off + k <=> i \in field
      BY <1>1, <2>2
    <3>6. 4 + i <= m <=> i <= m - 4
      BY <2>2
    <3>7. QED
      BY <3>2, <3>3, <3>4, <3>5, <3>6
  <2>9. /\ field # {} /\ n - 4 \in {m - 4, off + k} /\ n - 4 >= m - 4 /\ n - 4 >= off + k
    <3>1. off + 1 \in field
      BY <1>1, <2>2
    <3>2. QED
      BY <2>2, <2>3, <3>1
  <2>10. ASSUME NEW i \in field PROVE nxt[i] = data[i - off]
    BY <1>1, <2>2, <2>8, <2>9, SMTT(30)
  <2>11. ASSUME NEW i \in (1..m - 4) \ field PROVE nxt[i] = old[i]
    BY <1>1, <2>2, <2>8, <2>9
  <2>12. ASSUME NEW i \in 1..off, i > m - 4 PROVE nxt[i] = 0
    <3>1. i \in 1..n - 4 /\ i \notin field /\ ~(i <= m - 4)
      BY <1>1, <2>2, <2>9, <2>12
    <3>2. QED
      BY <2>8, <3>1
  <2>13. Len(old) = m - 4 /\ Len(nxt) = n - 4
    BY <2>7 DEF old, nxt
  <2>14. Store!FieldWritten(old, nxt, w)
    BY <1>1, <2>9, <2>10, <2>11, <2>12, <2>13 DEF Store!FieldWritten, k
  <2>15. QED
    BY <2>6, <2>14 DEF old, nxt
<1>4. QED
  BY <1>2, <1>3
(* A process and its call, as the store's specification sees them.         *)
StatusOf(p) ==
  CASE pc[p] = "write"   -> "pending"
    [] pc[p] = "written" -> "committed"
    [] OTHER             -> "idle"

CallOf(p) ==
  [file |-> target[p].question.store, offset |-> target[p].question.offset,
   data |-> target[p].data]

LEMMA NoCall == \A p \in Procs : target[p] = NoTarget => CallOf(p) = Store!NoOp
BY DEF CallOf, NoTarget, Store!NoOp

(* What the mapping makes of a step of p.                                  *)
LEMMA MappedStep ==
  ASSUME NEW p \in Procs,
         \A q \in Procs : q # p => pc'[q] = pc[q] /\ target'[q] = target[q]
  PROVE  /\ [q \in Procs |-> StatusOf(q)]'
              = [[q \in Procs |-> StatusOf(q)] EXCEPT ![p] = StatusOf(p)']
         /\ [q \in Procs |-> CallOf(q)]'
              = [[q \in Procs |-> CallOf(q)] EXCEPT ![p] = CallOf(p)']
<1>1. \A q \in Procs : q # p => StatusOf(q)' = StatusOf(q) /\ CallOf(q)' = CallOf(q)
  BY DEF StatusOf, CallOf
<1> HIDE DEF StatusOf, CallOf
<1>2. QED
  BY <1>1

(* What no caller can see.                                                 *)
LEMMA MappedStutter ==
  ASSUME UNCHANGED <<contents, reply>>,
         \A q \in Procs : StatusOf(q)' = StatusOf(q) /\ target'[q] = target[q]
  PROVE  UNCHANGED Store!vars
<1>1. \A q \in Procs : CallOf(q)' = CallOf(q)
  BY DEF CallOf
<1>2. /\ [q \in Procs |-> StatusOf(q)]' = [q \in Procs |-> StatusOf(q)]
      /\ [q \in Procs |-> CallOf(q)]' = [q \in Procs |-> CallOf(q)]
  BY <1>1
<1>3. QED
  BY <1>2 DEF Store!vars, StatusOf, CallOf

(* A set begins a call of write_at_offset ...                              *)
LEMMA SetBegins ==
  ASSUME HiiInv, NEW p \in Procs, Set(p)
  PROVE  Store!Begin(p)
<1>0. HiiType
  BY DEF HiiInv
<1>1. /\ Question(p) \in Questions /\ cmd[p] \in machine.commands /\ machine \in Machines
      /\ target' = [target EXCEPT ![p] =
              [guid |-> queue[p][1].guid, question |-> Question(p),
               data |-> NewBytes(Question(p), cmd[p])]]
  BY <1>0, SetWrites DEF HiiType
<1> DEFINE w == [file |-> Question(p).store, offset |-> Question(p).offset,
                 data |-> NewBytes(Question(p), cmd[p])]
<1>2. w \in PossibleWrites
  <2>1. Acceptable(Question(p), cmd[p])
    BY DEF Set
  <2>2. <<Question(p), cmd[p]>> \in QuestionsOn(machine) \X machine.commands
    BY <1>1 DEF Questions
  <2>3. <<Question(p), cmd[p]>> \in UNION {QuestionsOn(m) \X m.commands : m \in Machines}
    BY <1>1, <2>2
  <2> DEFINE qc == <<Question(p), cmd[p]>>
  <2>4. qc \in {x \in UNION {QuestionsOn(m) \X m.commands : m \in Machines} :
                  Acceptable(x[1], x[2])}
    BY <2>1, <2>3
  <2>5. w = [file |-> qc[1].store, offset |-> qc[1].offset, data |-> NewBytes(qc[1], qc[2])]
    OBVIOUS
  <2> HIDE DEF qc, w
  <2>6. QED
    BY <2>4, <2>5 DEF PossibleWrites
<1>3. CallOf(p)' = w
  BY <1>0, <1>1 DEF CallOf, HiiType
<1>4. pc[p] = "visit" /\ pc' = [pc EXCEPT ![p] = "write"] /\ pc'[p] = "write"
  BY <1>0 DEF Set, At, Visiting, HiiType
<1>5. StatusOf(p) = "idle" /\ StatusOf(p)' = "pending"
  BY <1>4 DEF StatusOf
<1>6. \A q \in Procs : q # p => pc'[q] = pc[q] /\ target'[q] = target[q]
  BY <1>0, <1>1, <1>4 DEF HiiType
<1>7. /\ [q \in Procs |-> StatusOf(q)]'
           = [[q \in Procs |-> StatusOf(q)] EXCEPT ![p] = "pending"]
      /\ [q \in Procs |-> CallOf(q)]' = [[q \in Procs |-> CallOf(q)] EXCEPT ![p] = w]
  BY <1>3, <1>5, <1>6, MappedStep
<1>8. reply' = [reply EXCEPT ![p] = "none"] /\ UNCHANGED contents
  BY DEF Set
<1>9. [q \in Procs |-> StatusOf(q)][p] = "idle"
  BY <1>5
<1> HIDE DEF w
<1>10. QED
  BY <1>2, <1>7, <1>8, <1>9 DEF Store!Begin, StatusOf, CallOf

(* ... its write is the instant the call takes effect ...                  *)
LEMMA WriteCommits ==
  ASSUME HiiInv, NEW p \in Procs, Write(p)
  PROVE  Store!Commit(p)
<1>0. HiiType
  BY DEF HiiInv
<1> DEFINE g == target[p].question.store
           w == CallOf(p)
           new == Patch(contents[g], HeaderLen + w.offset, w.data)
<1>1. w.file = g /\ w.offset = target[p].question.offset /\ w.data = target[p].data
  BY DEF CallOf
<1>2. /\ g \in Files /\ w.offset \in Nat /\ w.data \in Seq(Byte)
      /\ contents' = [contents EXCEPT ![g] = new]
  BY <1>1, WriteWrites
<1>3. contents[g] \in Seq(Byte) /\ Len(contents[g]) >= HeaderLen
  <2>1. contents[g] \in Seq(Byte) /\ Len(contents[g]) \in Nat
    BY <1>0, <1>2, LenProperties DEF HiiType
  <2>2. Len(contents[g]) >= HeaderLen + Size[g] /\ Size[g] \in Nat
    BY <1>2, StoresAssumption DEF HiiInv, SizesInv
  <2>3. QED
    BY <2>1, <2>2 DEF HeaderLen
<1> HIDE DEF g, w
<1>4. /\ Header(new) = Header(contents[g])
      /\ Store!FieldWritten(Body(contents[g]), Body(new), w)
  BY <1>2, <1>3, PatchBody
<1> HIDE DEF new
<1>5. contents'[g] = new /\ \A f \in Files : f # g => contents'[f] = contents[f]
  BY <1>0, <1>2 DEF HiiType
<1>6. [f \in Files |-> Header(contents[f])]' = [f \in Files |-> Header(contents[f])]
  BY <1>4, <1>5
<1>7. \A f \in Files : IF f = w.file THEN Store!FieldWritten(Body(contents[f]), Body(contents'[f]), w)
                                     ELSE Body(contents'[f]) = Body(contents[f])
  BY <1>1, <1>4, <1>5
<1>8. pc[p] = "write" /\ pc' = [pc EXCEPT ![p] = "written"] /\ pc'[p] = "written"
      /\ UNCHANGED <<target, reply>>
  BY <1>0 DEF Write, HiiType
<1>9. StatusOf(p) = "pending" /\ StatusOf(p)' = "committed" /\ CallOf(p)' = CallOf(p)
  BY <1>8 DEF StatusOf, CallOf
<1>10. \A q \in Procs : q # p => pc'[q] = pc[q] /\ target'[q] = target[q]
  BY <1>0, <1>8 DEF HiiType
<1>11. /\ [q \in Procs |-> StatusOf(q)]'
            = [[q \in Procs |-> StatusOf(q)] EXCEPT ![p] = "committed"]
       /\ [q \in Procs |-> CallOf(q)]' = [[q \in Procs |-> CallOf(q)] EXCEPT ![p] = CallOf(p)]
  BY <1>9, <1>10, MappedStep
<1>12. [q \in Procs |-> CallOf(q)]' = [q \in Procs |-> CallOf(q)]
  BY <1>11
<1>13. [q \in Procs |-> StatusOf(q)][p] = "pending" /\ [q \in Procs |-> CallOf(q)][p] = w
  BY <1>9 DEF w
<1>14. /\ [f \in Files |-> Body(contents[f])]' = [f \in Files |-> Body(contents'[f])]
       /\ \A f \in Files : [h \in Files |-> Body(contents[h])][f] = Body(contents[f])
       /\ \A f \in Files : [h \in Files |-> Body(contents'[h])][f] = Body(contents'[f])
  OBVIOUS
<1>15. \A f \in Files :
         IF f = [q \in Procs |-> CallOf(q)][p].file
         THEN Store!FieldWritten([h \in Files |-> Body(contents[h])][f],
                                 [h \in Files |-> Body(contents[h])]'[f],
                                 [q \in Procs |-> CallOf(q)][p])
         ELSE [h \in Files |-> Body(contents[h])]'[f] = [h \in Files |-> Body(contents[h])][f]
  BY <1>7, <1>13, <1>14
<1>16. QED
  BY <1>6, <1>8, <1>11, <1>12, <1>13, <1>15
  DEF Store!Commit, StatusOf, CallOf, Body, Header
(* ... its report or its failure is the return ...                         *)
LEMMA ReportReturns ==
  ASSUME HiiInv, NEW p \in Procs, NEW r \in {"ok", "err"},
         IF r = "ok" THEN Report(p) ELSE WriteFails(p)
  PROVE  Store!Return(p, r)
<1>0. HiiType
  BY DEF HiiInv
<1>1. /\ pc[p] = (IF r = "ok" THEN "written" ELSE "write")
      /\ \E c \in {"idle", "visit"} : pc' = [pc EXCEPT ![p] = c]
      /\ target' = [target EXCEPT ![p] = NoTarget]
      /\ reply' = [reply EXCEPT ![p] = r]
      /\ UNCHANGED contents
  BY DEF Report, WriteFails, Fail
<1>2. StatusOf(p) = (IF r = "ok" THEN "committed" ELSE "pending")
  BY <1>1 DEF StatusOf
<1>3. StatusOf(p)' = "idle"
  <2>1. pc'[p] \in {"idle", "visit"}
    BY <1>0, <1>1 DEF HiiType
  <2>2. QED
    BY <2>1 DEF StatusOf
<1>4. CallOf(p)' = Store!NoOp
  <2>1. target'[p] = NoTarget
    BY <1>0, <1>1 DEF HiiType
  <2>2. QED
    BY <2>1 DEF CallOf, NoTarget, Store!NoOp
<1>5. \A q \in Procs : q # p => pc'[q] = pc[q] /\ target'[q] = target[q]
  BY <1>0, <1>1 DEF HiiType
<1>6. /\ [q \in Procs |-> StatusOf(q)]'
           = [[q \in Procs |-> StatusOf(q)] EXCEPT ![p] = "idle"]
      /\ [q \in Procs |-> CallOf(q)]'
           = [[q \in Procs |-> CallOf(q)] EXCEPT ![p] = Store!NoOp]
  BY <1>3, <1>4, <1>5, MappedStep
<1>7. [q \in Procs |-> StatusOf(q)][p] = (IF r = "ok" THEN "committed" ELSE "pending")
  BY <1>2
<1>8. QED
  BY <1>1, <1>6, <1>7 DEF Store!Return, StatusOf, CallOf

(* ... and a process that is killed dies.                                  *)
LEMMA KillDies ==
  ASSUME HiiInv, NEW p \in Procs, Kill(p)
  PROVE  Store!Die({p})
<1>0. HiiType
  BY DEF HiiInv
<1>1. /\ pc' = [pc EXCEPT ![p] = "idle"] /\ target' = [target EXCEPT ![p] = NoTarget]
      /\ reply' = [reply EXCEPT ![p] = "none"] /\ UNCHANGED contents
  BY DEF Kill
<1>2. /\ pc'[p] = "idle" /\ target'[p] = NoTarget /\ reply'[p] = "none"
      /\ reply' = [q \in Procs |-> reply'[q]]
      /\ \A q \in Procs : q # p =>
           pc'[q] = pc[q] /\ target'[q] = target[q] /\ reply'[q] = reply[q]
  BY <1>0, <1>1 DEF HiiType
<1>3. StatusOf(p)' = "idle"
  BY <1>2 DEF StatusOf
<1>4. CallOf(p)' = Store!NoOp
  BY <1>2 DEF CallOf, NoTarget, Store!NoOp
<1>5. \A q \in Procs :
        /\ StatusOf(q)' = IF q \in {p} THEN "idle" ELSE [r \in Procs |-> StatusOf(r)][q]
        /\ CallOf(q)' = IF q \in {p} THEN Store!NoOp ELSE [r \in Procs |-> CallOf(r)][q]
        /\ reply'[q] = IF q \in {p} THEN "none" ELSE reply[q]
  <2>1. \A q \in Procs : q # p => StatusOf(q)' = StatusOf(q) /\ CallOf(q)' = CallOf(q)
    BY <1>2 DEF StatusOf, CallOf
  <2> HIDE DEF StatusOf, CallOf
  <2>2. QED
    BY <1>2, <1>3, <1>4, <2>1
<1>6. [q \in Procs |-> StatusOf(q)]'
        = [q \in Procs |-> IF q \in {p} THEN "idle" ELSE [r \in Procs |-> StatusOf(r)][q]]
  BY <1>5
<1>7. [q \in Procs |-> CallOf(q)]'
        = [q \in Procs |-> IF q \in {p} THEN Store!NoOp ELSE [r \in Procs |-> CallOf(r)][q]]
  BY <1>5
<1>8. reply' = [q \in Procs |-> IF q \in {p} THEN "none" ELSE reply[q]]
  BY <1>2, <1>5
<1>9. QED
  BY <1>1, <1>6, <1>7, <1>8 DEF Store!Die, StatusOf, CallOf

(* All other steps stay between the calls.                                 *)
LEMMA RestIsUnseen ==
  ASSUME HiiInv, NEW p \in Procs,
         \/ Start(p) \/ NoStrings(p) \/ NotFound(p) \/ Get(p)
         \/ SetNowhere(p) \/ SetRefused(p) \/ Finish(p)
  PROVE  UNCHANGED Store!vars
<1>0. HiiType /\ (pc[p] \notin {"write", "written"} => target[p] = NoTarget)
  BY DEF HiiInv, TargetInv
<1>1. UNCHANGED <<contents, reply>>
  BY DEF Start, NoStrings, NotFound, Get, SetNowhere, SetRefused, Finish
<1>2. pc[p] \in {"idle", "visit"}
  BY DEF Start, NoStrings, NotFound, Get, SetNowhere, SetRefused, Finish, At, Visiting
<1>3. \/ UNCHANGED pc
      \/ \E c \in {"idle", "visit"} : pc' = [pc EXCEPT ![p] = c]
  BY DEF Start, NoStrings, NotFound, Get, SetNowhere, SetRefused, Finish, Fail
<1>4. target' = target \/ target' = [target EXCEPT ![p] = NoTarget]
  BY DEF Start, NoStrings, NotFound, Get, SetNowhere, SetRefused, Finish, Fail
<1>5. \A q \in Procs : target'[q] = target[q]
  BY <1>0, <1>2, <1>4 DEF HiiType
<1>6. \A q \in Procs : pc'[q] = pc[q] \/ (q = p /\ pc'[p] \in {"idle", "visit"})
  BY <1>0, <1>3 DEF HiiType
<1>7. \A q \in Procs : StatusOf(q)' = StatusOf(q)
  BY <1>2, <1>6 DEF StatusOf
<1>8. QED
  BY <1>1, <1>5, <1>7, MappedStutter

LEMMA StepUsesStore == HiiInv /\ [Next]_vars => [Store!Next]_(Store!vars)
<1> SUFFICES ASSUME HiiInv, [Next]_vars PROVE [Store!Next]_(Store!vars)
  OBVIOUS
<1>1. ASSUME NEW p \in Procs, Step(p) PROVE [Store!Next]_(Store!vars)
  <2>1. CASE Set(p)
    BY <2>1, SetBegins DEF Store!Next
  <2>2. CASE Write(p)
    BY <2>2, WriteCommits DEF Store!Next
  <2>3. CASE Report(p)
    <3>1. Store!Return(p, "ok")
      BY <2>3, ReportReturns
    <3>2. QED
      BY <3>1 DEF Store!Next
  <2>4. CASE WriteFails(p)
    <3>1. Store!Return(p, "err")
      BY <2>4, ReportReturns
    <3>2. QED
      BY <3>1 DEF Store!Next
  <2>5. CASE Kill(p)
    <3>1. Store!Die({p}) /\ {p} \in SUBSET Procs
      BY <2>5, KillDies
    <3>2. QED
      BY <3>1 DEF Store!Next
  <2>6. CASE \/ Start(p) \/ NoStrings(p) \/ NotFound(p) \/ Get(p)
             \/ SetNowhere(p) \/ SetRefused(p) \/ Finish(p)
    <3>1. UNCHANGED Store!vars
      BY <2>6, RestIsUnseen
    <3>2. QED
      BY <3>1
  <2>7. QED
    BY <1>1, <2>1, <2>2, <2>3, <2>4, <2>5, <2>6 DEF Step
<1>2. CASE Next
  BY <1>1, <1>2 DEF Next, Step
<1>3. CASE UNCHANGED vars
  <2>1. UNCHANGED <<contents, pc, target, reply>>
    BY <1>3 DEF vars
  <2>2. \A q \in Procs : StatusOf(q)' = StatusOf(q) /\ target'[q] = target[q]
    BY <2>1 DEF StatusOf
  <2>3. UNCHANGED Store!vars
    BY <2>1, <2>2, MappedStutter
  <2>4. QED
    BY <2>3
<1>4. QED
  BY <1>2, <1>3

LEMMA InitUsesStore == Init => Store!Init
<1> SUFFICES ASSUME Init PROVE Store!Init
  OBVIOUS
<1>1. \A p \in Procs : StatusOf(p) = "idle" /\ CallOf(p) = Store!NoOp
  BY NoCall DEF Init, StatusOf
<1>2. /\ [p \in Procs |-> StatusOf(p)] = [p \in Procs |-> "idle"]
      /\ [p \in Procs |-> CallOf(p)] = [p \in Procs |-> Store!NoOp]
  BY <1>1
<1>3. contents = InitContents /\ reply = [p \in Procs |-> "none"]
  BY DEF Init
<1>4. QED
  BY <1>2, <1>3 DEF Store!Init, StatusOf, CallOf

(* Every write get and set do to the store is a call of write_at_offset as *)
(* AtomicVarStore specifies it: with the offset and the bytes of the       *)
(* question, taking effect at one instant, and nothing when it fails       *)
(* (forms.rs:1651, 1669, 1682, 1695, 1708).                                *)
THEOREM StoreUsedAsSpecified == Spec => UsesAtomicStore
BY InitUsesStore, StepUsesStore, HiiInvariance, PTL DEF Spec, UsesAtomicStore, Store!Spec
-----------------------------------------------------------------------------
(* FIELDS AND THE LOG                                                      *)

(* Patching within a sequence: the patch is where it was put, the parts    *)
(* beside it stay.                                                         *)
Spliced(new, bytes, from, to, data) ==
  /\ new \in Seq(Byte) /\ Len(new) = Len(bytes)
  /\ SubSeq(new, from + 1, to) = data
  /\ \A a, b \in Nat : a <= b /\ b <= Len(bytes) /\ (b <= from \/ to <= a) =>
       SubSeq(new, a + 1, b) = SubSeq(bytes, a + 1, b)

LEMMA PatchWithin ==
  ASSUME NEW bytes \in Seq(Byte), NEW from \in Nat, NEW to \in Nat,
         from < to, to <= Len(bytes), NEW data \in Seq(Byte), Len(data) = to - from,
         NEW new, new = Patch(bytes, from, data)
  PROVE  Spliced(new, bytes, from, to, data)
<1>1. data # <<>> /\ Len(bytes) \in Nat
  BY EmptySeq, LenProperties
<1>2. new \in Seq(Byte)
  BY PatchType
<1>3. /\ Len(new) = Len(bytes)
      /\ \A i \in 1..Len(bytes) :
           new[i] = IF i \in from + 1..to THEN data[i - from] ELSE bytes[i]
  <2>1. LET nw == Patch(bytes, from, data)
            end == from + Len(data)
        IN  /\ Len(nw) = IF end > Len(bytes) THEN end ELSE Len(bytes)
            /\ \A i \in 1..Len(nw) :
                 nw[i] = IF i \in (from + 1)..end THEN data[i - from]
                         ELSE IF i <= Len(bytes) THEN bytes[i] ELSE 0
    BY <1>1, PatchBytes
  <2>2. from + Len(data) = to /\ ~(to > Len(bytes))
    BY <1>1
  <2>3. /\ Len(new) = Len(bytes)
        /\ \A i \in 1..Len(new) :
             new[i] = IF i \in from + 1..to THEN data[i - from]
                      ELSE IF i <= Len(bytes) THEN bytes[i] ELSE 0
    BY <2>1, <2>2
  <2>4. \A i \in 1..Len(bytes) : i <= Len(bytes)
    BY <1>1
  <2>5. QED
    BY <2>3, <2>4
<1>4. SubSeq(new, from + 1, to) = data
  <2>1. /\ SubSeq(new, from + 1, to) \in Seq(Byte)
        /\ Len(SubSeq(new, from + 1, to)) = to - from
        /\ \A i \in 1..to - from : SubSeq(new, from + 1, to)[i] = new[from + i]
    BY <1>2, <1>3, PartBytes
  <2>2. ASSUME NEW i \in 1..to - from PROVE SubSeq(new, from + 1, to)[i] = data[i]
    <3>1. from + i \in 1..Len(bytes) /\ from + i \in from + 1..to /\ (from + i) - from = i
      BY <1>1
    <3>2. QED
      BY <1>3, <2>1, <3>1
  <2> DEFINE part == SubSeq(new, from + 1, to)
  <2> HIDE DEF part
  <2>3. part \in [1..to - from -> Byte] /\ data \in [1..to - from -> Byte]
    BY <2>1, LenProperties DEF part
  <2>4. \A i \in 1..to - from : part[i] = data[i]
    BY <2>2 DEF part
  <2>5. part = data
    BY <2>3, <2>4
  <2>6. QED
    BY <2>5 DEF part
<1>5. ASSUME NEW a \in Nat, NEW b \in Nat, a <= b, b <= Len(bytes), b <= from \/ to <= a
      PROVE  SubSeq(new, a + 1, b) = SubSeq(bytes, a + 1, b)
  <2> DEFINE old == SubSeq(bytes, a + 1, b)
             part == SubSeq(new, a + 1, b)
  <2>1. /\ part \in Seq(Byte) /\ Len(part) = b - a
        /\ \A i \in 1..b - a : part[i] = new[a + i]
    BY <1>2, <1>3, <1>5, PartBytes
  <2>2. /\ old \in Seq(Byte) /\ Len(old) = b - a
        /\ \A i \in 1..b - a : old[i] = bytes[a + i]
    BY <1>5, PartBytes
  <2> HIDE DEF old, part
  <2>3. ASSUME NEW i \in 1..b - a PROVE part[i] = old[i]
    <3>1. a + i \in 1..Len(bytes) /\ a + i \notin from + 1..to
      BY <1>1, <1>5
    <3>2. QED
      BY <1>3, <2>1, <2>2, <3>1
  <2>4. part \in [1..b - a -> Byte] /\ old \in [1..b - a -> Byte]
    BY <2>1, <2>2, LenProperties
  <2>5. part = old
    BY <2>3, <2>4
  <2>6. QED
    BY <2>5 DEF old, part
<1>6. QED
  BY <1>2, <1>3, <1>4, <1>5 DEF Spliced

(* A new answer is as wide as its question, and one the question allows.   *)
LEMMA NewAnswerLegal ==
  ASSUME machine \in Machines, Numbered(machine), NEW q \in Questions,
         NEW c \in machine.commands, NEW data, NewAnswer(q, c, data)
  PROVE  /\ data \in Seq(Byte) /\ Len(data) = q.width
         /\ IF q.kind = "OneOf" THEN \E o \in Range(q.options) : OptionValue(o) = Decode(data)
            ELSE Decode(data) <= q.max
<1>1. /\ Acceptable(q, c) /\ data = NewBytes(q, c) /\ q.width \in Widths
      /\ q.kind # "OneOf" => q.options = <<>>
  BY QuestionsTyped DEF NewAnswer
<1>2. CASE q.options = <<>>
  <2>1. /\ q.kind # "OneOf" /\ Number(c.value) \in Nat
        /\ Fits(Number(c.value), q.width) /\ Number(c.value) <= q.max
        /\ data = Encode(Number(c.value), q.width)
    BY <1>1, <1>2, NumberWritten
  <2>2. data \in Seq(Byte) /\ Len(data) = q.width /\ Decode(data) = Number(c.value)
    BY <1>1, <2>1, AnswerEncoded, AnswerDecoded
  <2>3. QED
    BY <2>1, <2>2
<1>3. CASE q.options # <<>>
  <2>1. PICK o \in Range(q.options) \cap OptionType : data = OptionBytes(o)
    BY <1>1, <1>3, OptionWritten
  <2>2. o.type = "num" /\ o.width = q.width /\ Fits(o.value, q.width)
    BY <2>1 DEF Numbered, Questions
  <2>3. o.value \in Nat /\ data = Encode(o.value, q.width)
    BY <2>1, <2>2 DEF OptionBytes, OptionType
  <2>4. data \in Seq(Byte) /\ Len(data) = q.width /\ Decode(data) = o.value
    BY <1>1, <2>2, <2>3, AnswerEncoded, AnswerDecoded
  <2>5. OptionValue(o) = o.value
    BY <2>2 DEF OptionValue
  <2>6. QED
    BY <1>1, <1>3, <2>1, <2>4, <2>5
<1>4. QED
  BY <1>2, <1>3

(* The last write to a question, before and after one more write.          *)
LEMMA LastToTyped ==
  ASSUME HiiType, NEW q
  PROVE  /\ LastTo(q, Len(log)) \in 0..Len(log)
         /\ LastTo(q, Len(log)) # 0 => log[LastTo(q, Len(log))].question = q
<1> DEFINE S == {0} \cup {i \in 1..Len(log) : log[i].question = q}
<1>1. Len(log) \in Nat
  BY LenProperties DEF HiiType
<1>2. S \in SUBSET (0..Len(log)) /\ S # {}
  BY <1>1
<1> HIDE DEF S
<1>3. Max(S) \in S
  BY <1>1, <1>2, MaxIsGreatest
<1>4. QED
  BY <1>2, <1>3 DEF LastTo, S

LEMMA LastToAppended ==
  ASSUME HiiType, NEW entry \in Entry, log' = Append(log, entry), NEW q
  PROVE  LastTo(q, Len(log))' = IF entry.question = q THEN Len(log) + 1
                                ELSE LastTo(q, Len(log))
<1> DEFINE n == Len(log)
           S == {0} \cup {i \in 1..n : log[i].question = q}
           T == {0} \cup {i \in 1..n + 1 : log'[i].question = q}
<1>1. /\ n \in Nat /\ Len(log') = n + 1 /\ log'[n + 1] = entry
      /\ \A i \in 1..n : log'[i] = log[i]
  BY AppendProperties, LenProperties DEF HiiType
<1>2. LastTo(q, Len(log))' = Max(T) /\ LastTo(q, Len(log)) = Max(S)
  BY <1>1 DEF LastTo
<1> HIDE DEF n
<1>3. CASE entry.question = q
  <2>1. T \in SUBSET (0..n + 1) /\ n + 1 \in T /\ n + 1 \in Nat
    BY <1>1, <1>3
  <2> HIDE DEF S, T
  <2>2. PICK k \in Nat : k = n + 1
    BY <1>1
  <2>3. Max(T) \in T /\ \A y \in T : y <= Max(T)
    <3>1. T \in SUBSET (0..k) /\ T # {}
      BY <2>1, <2>2
    <3>2. QED
      BY <3>1, MaxIsGreatest
  <2>4. Max(T) \in 0..n + 1 /\ n + 1 <= Max(T)
    BY <2>1, <2>3
  <2>5. Max(T) = n + 1
    BY <1>1, <2>4
  <2>6. QED
    BY <1>2, <1>3, <2>5 DEF n
<1>4. CASE entry.question # q
  <2>1. T = S
    BY <1>1, <1>4
  <2>2. QED
    BY <1>2, <1>4, <2>1
<1>5. QED
  BY <1>3, <1>4
-----------------------------------------------------------------------------
(* A file keeps its length, as the fields lie in it: only so does a write  *)
(* reach no other field.                                                   *)
FieldsInv == ExactInv /\ FieldsFollowLog

LEMMA QuestionNumbers ==
  ASSUME machine \in Machines, NEW q \in Questions
  PROVE  q.offset \in Nat /\ q.width \in Nat /\ q.width > 0
<1>1. q.offset \in Nat /\ q.width \in Widths
  BY QuestionsTyped
<1>2. QED
  BY <1>1 DEF Widths

(* A field is where its question puts it.                                  *)
LEMMA FieldFrame ==
  ASSUME machine \in Machines, Apart(machine), NEW q \in Questions
  PROVE  /\ HeaderLen + q.offset \in Nat /\ HeaderLen + q.offset + q.width \in Nat
         /\ HeaderLen + q.offset < HeaderLen + q.offset + q.width
         /\ HeaderLen + q.offset + q.width <= HeaderLen + Size[q.store]
         /\ \A bytes : FieldOf(q, bytes)
                         = SubSeq(bytes, (HeaderLen + q.offset) + 1, HeaderLen + q.offset + q.width)
<1>1. q.offset \in Nat /\ q.width \in Widths /\ q.store \in Files
  BY QuestionsTyped
<1>2. q.width \in Nat /\ q.width > 0
  BY <1>1 DEF Widths
<1>3. q.offset + q.width <= Size[q.store] /\ Size[q.store] \in Nat
  BY <1>1, StoresAssumption DEF Apart, Questions
<1>4. QED
  BY <1>1, <1>2, <1>3 DEF HeaderLen, FieldOf

LEMMA NextFields ==
  ASSUME HiiInv, FieldsInv, Apart(machine), Numbered(machine), NEW p \in Procs, Write(p),
         machine' = machine
  PROVE  FieldsInv'
<1> DEFINE t == target[p].question
           g == t.store
           from == HeaderLen + t.offset
           to == HeaderLen + t.offset + t.width
           data == target[p].data
           bytes == contents[g]
           new == Patch(bytes, from, data)
<1>0. HiiType /\ machine \in Machines /\ contents \in [Files -> Seq(Byte)]
  BY DEF HiiInv, HiiType
<1>1. /\ t \in Questions /\ g \in Files /\ data \in Seq(Byte)
      /\ NewAnswer(t, cmd[p], data) /\ cmd[p] \in machine.commands
      /\ contents' = [contents EXCEPT ![g] = new]
  BY WriteWrites
<1>2. PICK entry \in Entry :
        entry.question = t /\ entry.data = data /\ log' = Append(log, entry)
  BY WriteWrites
<1>3. Len(data) = t.width
  BY <1>0, <1>1, NewAnswerLegal
<1>4. /\ from \in Nat /\ to \in Nat /\ from < to /\ to <= HeaderLen + Size[g]
      /\ \A b : FieldOf(t, b) = SubSeq(b, from + 1, to)
  BY <1>0, <1>1, FieldFrame
<1>5. bytes \in Seq(Byte) /\ Len(bytes) = HeaderLen + Size[g]
  BY <1>0, <1>1 DEF FieldsInv, ExactInv
<1>6. contents'[g] = new /\ \A f \in Files : f # g => contents'[f] = contents[f]
  BY <1>0, <1>1
<1>7. to - from = t.width /\ HeaderLen <= from
  <2>1. t.offset \in Nat /\ t.width \in Nat
    BY <1>0, <1>1, QuestionNumbers
  <2>2. QED
    BY <2>1 DEF HeaderLen
<1> HIDE DEF from, to, data, bytes, new, g
<1>8. /\ new \in Seq(Byte) /\ Len(new) = Len(bytes)
      /\ SubSeq(new, from + 1, to) = data
      /\ \A a, b \in Nat : a <= b /\ b <= Len(bytes) /\ (b <= from \/ to <= a) =>
           SubSeq(new, a + 1, b) = SubSeq(bytes, a + 1, b)
  <2>1. to <= Len(bytes) /\ Len(data) = to - from
    BY <1>3, <1>4, <1>5, <1>7
  <2>2. new = Patch(bytes, from, data)
    BY DEF new
  <2>3. Spliced(new, bytes, from, to, data)
    BY <1>1, <1>4, <1>5, <2>1, <2>2, PatchWithin
  <2>4. QED
    BY <2>3 DEF Spliced
<1>9. ExactInv'
  <2>1. ASSUME NEW f \in Files PROVE Len(contents'[f]) = HeaderLen + Size[f]
    <3>1. CASE f = g
      BY <1>5, <1>6, <1>8, <3>1
    <3>2. CASE f # g
      BY <1>6, <3>2 DEF FieldsInv, ExactInv
    <3>3. QED
      BY <3>1, <3>2
  <2>2. QED
    BY <2>1 DEF ExactInv
<1>10. ASSUME NEW f \in Files
       PROVE  SubSeq(contents'[f], 1, HeaderLen) = SubSeq(InitContents[f], 1, HeaderLen)
  <2>1. SubSeq(contents[f], 1, HeaderLen) = SubSeq(InitContents[f], 1, HeaderLen)
    BY DEF FieldsInv, FieldsFollowLog
  <2>2. CASE f = g
    <3>1. PICK a \in Nat, b \in Nat : a = 0 /\ b = HeaderLen /\ a + 1 = 1
      BY DEF HeaderLen
    <3>2. Size[g] \in Nat
      BY <1>1, StoresAssumption
    <3>3. a <= b /\ b <= Len(bytes) /\ b <= from
      BY <1>5, <1>7, <3>1, <3>2 DEF HeaderLen
    <3>4. SubSeq(new, a + 1, b) = SubSeq(bytes, a + 1, b)
      BY <1>8, <3>3
    <3>5. SubSeq(new, 1, HeaderLen) = SubSeq(bytes, 1, HeaderLen)
      BY <3>1, <3>4
    <3>6. QED
      BY <1>6, <2>1, <2>2, <3>5 DEF bytes
  <2>3. CASE f # g
    BY <1>6, <2>1, <2>3
  <2>4. QED
    BY <2>2, <2>3
<1>11. ASSUME NEW q \in Questions
       PROVE  FieldOf(q, contents'[q.store])
                = IF LastTo(q, Len(log))' = 0 THEN FieldOf(q, InitContents[q.store])
                  ELSE log'[LastTo(q, Len(log))'].data
  <2> DEFINE last == LastTo(q, Len(log))
  <2>1. LastTo(q, Len(log))' = IF t = q THEN Len(log) + 1 ELSE last
    BY <1>0, <1>2, LastToAppended
  <2>2. /\ Len(log) \in Nat /\ log'[Len(log) + 1] = entry
        /\ \A i \in 1..Len(log) : log'[i] = log[i]
    BY <1>0, <1>2, AppendProperties, LenProperties DEF HiiType
  <2>3. CASE t = q
    <3>1. FieldOf(q, contents'[q.store]) = data
      BY <1>4, <1>6, <1>8, <2>3 DEF g
    <3>2. QED
      BY <1>2, <2>1, <2>2, <2>3, <3>1
  <2>4. CASE t # q
    <3>1. FieldOf(q, contents[q.store])
            = IF last = 0 THEN FieldOf(q, InitContents[q.store]) ELSE log[last].data
      BY DEF FieldsInv, FieldsFollowLog
    <3>2. FieldOf(q, contents'[q.store]) = FieldOf(q, contents[q.store])
      <4>1. CASE q.store = g
        <5> DEFINE a == HeaderLen + q.offset
                   b == HeaderLen + q.offset + q.width
        <5>1. /\ a \in Nat /\ b \in Nat /\ a < b /\ b <= HeaderLen + Size[g]
              /\ \A bb : FieldOf(q, bb) = SubSeq(bb, a + 1, b)
          BY <1>0, <4>1, FieldFrame
        <5>2. t.offset + t.width <= q.offset \/ q.offset + q.width <= t.offset
          BY <1>1, <2>4, <4>1 DEF Apart, Questions, g
        <5>3. b <= from \/ to <= a
          <6>1. /\ t.offset \in Nat /\ q.offset \in Nat
                /\ t.width \in Nat /\ q.width \in Nat
            BY <1>0, <1>1, QuestionNumbers
          <6>2. QED
            BY <5>2, <6>1 DEF from, to, HeaderLen
        <5> HIDE DEF a, b
        <5>4. SubSeq(new, a + 1, b) = SubSeq(bytes, a + 1, b)
          <6>1. a <= b /\ b <= Len(bytes)
            BY <1>5, <5>1
          <6>2. QED
            BY <1>8, <5>1, <5>3, <6>1
        <5>5. QED
          BY <1>6, <4>1, <5>1, <5>4 DEF bytes
      <4>2. CASE q.store # g
        <5>1. q.store \in Files
          BY <1>0, QuestionsTyped
        <5>2. QED
          BY <1>6, <4>2, <5>1
      <4>3. QED
        BY <4>1, <4>2
    <3>3. last # 0 => log'[last] = log[last]
      <4>1. last \in 0..Len(log)
        BY <1>0, LastToTyped
      <4>2. QED
        BY <2>2, <4>1
    <3>4. QED
      BY <2>1, <2>4, <3>1, <3>2, <3>3
  <2>5. QED
    BY <2>3, <2>4
<1>12. Questions' = Questions
  BY MachineStays
<1>13. QED
  BY <1>9, <1>10, <1>11, <1>12 DEF FieldsInv, FieldsFollowLog

LEMMA InitFields == Init => FieldsInv
<1> SUFFICES ASSUME Init PROVE FieldsInv
  OBVIOUS
<1>1. contents = InitContents
  BY DEF Init
<1>2. ExactInv
  BY <1>1, StoresAssumption DEF ExactInv, HeaderLen
<1>3. HiiType
  BY InitInv DEF HiiInv
<1>4. ASSUME NEW q \in Questions PROVE LastTo(q, Len(log)) = 0
  <2>1. Len(log) = 0
    BY EmptySeq DEF Init
  <2>2. LastTo(q, Len(log)) \in 0..0
    BY <1>3, <2>1, LastToTyped
  <2>3. QED
    BY <2>2
<1>5. QED
  BY <1>1, <1>2, <1>4 DEF FieldsInv, FieldsFollowLog

LEMMA StepFields ==
  HiiInv /\ FieldsInv /\ Apart(machine) /\ Numbered(machine) /\ [Next]_vars => FieldsInv'
<1> SUFFICES ASSUME HiiInv, FieldsInv, Apart(machine), Numbered(machine), [Next]_vars
             PROVE  FieldsInv'
  OBVIOUS
<1>1. machine' = machine
  BY DEF Next, vars
<1>2. CASE UNCHANGED <<contents, log>>
  <2>1. Questions' = Questions
    BY <1>1, MachineStays
  <2>2. \A q : LastTo(q, Len(log))' = LastTo(q, Len(log))
    BY <1>2 DEF LastTo
  <2>3. QED
    BY <1>2, <2>1, <2>2 DEF FieldsInv, ExactInv, FieldsFollowLog
<1>3. ASSUME NEW p \in Procs, Write(p) PROVE FieldsInv'
  BY <1>1, <1>3, NextFields
<1>4. CASE Next
  BY <1>2, <1>3, <1>4, LogGrows
<1>5. CASE UNCHANGED vars
  BY <1>2, <1>5 DEF vars
<1>6. QED
  BY <1>4, <1>5

(* Every field holds what the last successful set of its question has put  *)
(* there, and the variables' attributes stay, if the questions' fields lie *)
(* in their varstores and apart from each other and the options are        *)
(* numbers of their questions' widths (forms.rs:527-566).                  *)
THEOREM FieldsHoldLastWrites ==
  ASSUME \A m \in Machines : Apart(m) /\ Numbered(m)
  PROVE  Spec => []FieldsFollowLog
<1>1. HiiInv => Apart(machine) /\ Numbered(machine)
  BY DEF HiiInv, HiiType
<1>2. HiiInv /\ FieldsInv /\ [Next]_vars => FieldsInv'
  BY <1>1, StepFields
<1>3. FieldsInv => FieldsFollowLog
  BY DEF FieldsInv
<1>4. QED
  BY <1>2, <1>3, HiiInvariance, InitFields, PTL DEF Spec

(* The values the questions allow are the only ones in their fields, if    *)
(* they are so at first.                                                   *)
LEMMA LogLegal ==
  ASSUME HiiInv, FieldsFollowLog, Numbered(machine), InitiallyLegal(machine)
  PROVE  StoreLegal
<1>0. HiiType /\ machine \in Machines /\ LogInv
  BY DEF HiiInv, HiiType
<1> SUFFICES ASSUME NEW q \in Questions PROVE LegalField(q)
  BY DEF StoreLegal
<1> DEFINE last == LastTo(q, Len(log))
<1>1. FieldOf(q, contents[q.store])
        = IF last = 0 THEN FieldOf(q, InitContents[q.store]) ELSE log[last].data
  BY DEF FieldsFollowLog
<1>2. last \in 0..Len(log) /\ Len(log) \in Nat /\ (last # 0 => log[last].question = q)
  BY <1>0, LastToTyped, LenProperties DEF HiiType
<1> HIDE DEF last
<1>3. CASE last = 0
  <2>1. LegalIn(q, InitContents[q.store])
    BY DEF InitiallyLegal, Questions
  <2>2. QED
    BY <1>1, <1>3, <2>1 DEF LegalField, LegalIn
<1>4. CASE last # 0
  <2>1. last \in 1..Len(log)
    BY <1>2, <1>4
  <2>2. log[last] \in Entry
    BY <1>0, <2>1, ElementOfSeq DEF HiiType
  <2>3. log[last].cmd \in machine.commands
        /\ NewAnswer(q, log[last].cmd, log[last].data)
    BY <1>0, <1>2, <1>4, <2>1, <2>2 DEF LogInv, Entry
  <2>4. IF q.kind = "OneOf"
        THEN \E o \in Range(q.options) : OptionValue(o) = Decode(log[last].data)
        ELSE Decode(log[last].data) <= q.max
    BY <1>0, <2>3, NewAnswerLegal
  <2>5. QED
    BY <1>1, <1>4, <2>4 DEF LegalField, LegalIn
<1>5. QED
  BY <1>3, <1>4

(* No sequence of commands of any processes, failed and killed ones        *)
(* included, puts a value into the store that its question does not allow  *)
(* (forms.rs:1662-1712).                                                   *)
THEOREM StoreStaysLegal ==
  ASSUME \A m \in Machines : Apart(m) /\ Numbered(m) /\ InitiallyLegal(m)
  PROVE  Spec => []StoreLegal
<1>1. Spec => []FieldsFollowLog
  BY FieldsHoldLastWrites
<1>2. HiiInv /\ FieldsFollowLog => StoreLegal
  BY LogLegal DEF HiiInv, HiiType
<1>3. QED
  BY <1>1, <1>2, HiiInvariance, PTL
-----------------------------------------------------------------------------
(* WHAT IS SHOWN                                                           *)

(* An answer is translated as what it is the same as.                      *)
LEMMA TranslateSame ==
  ASSUME NEW question, NEW s, NEW t, Same(s, t)
  PROVE  Same(TranslateResponse(question, s), TranslateResponse(question, t))
<1> DEFINE Keys(text) == IF Translated(question)
                         THEN {k \in DOMAIN Replacements(question) :
                                 \E v \in Replacements(question)[k].variants : Same(v, text)}
                         ELSE {}
<1>1. Keys(s) = Keys(t)
  BY DEF Same
<1>2. \A text : TranslateResponse(question, text)
                  = IF Keys(text) = {} THEN text ELSE Replacements(question)[Min(Keys(text))].key
  BY DEF TranslateResponse
<1> HIDE DEF Keys
<1>3. CASE Keys(s) = {}
  BY <1>1, <1>2, <1>3
<1>4. CASE Keys(s) # {}
  <2>1. TranslateResponse(question, s) = TranslateResponse(question, t)
    BY <1>1, <1>2, <1>4
  <2>2. QED
    BY <2>1 DEF Same
<1>5. QED
  BY <1>3, <1>4

LEMMA ReplacementsTyped ==
  ASSUME NEW question, Translated(question)
  PROVE  /\ DOMAIN Replacements(question) \in SUBSET Nat
         /\ question \in DOMAIN translation_db
<1>1. question \in DOMAIN translation_db
  BY DEF Translated
<1>2. Replacements(question) \in Seq([key : STRING, variants : SUBSET STRING])
  BY <1>1, SpellingsAssumption DEF Replacements
<1>3. QED
  BY <1>1, <1>2, LenProperties

(* A spelling of a word is translated into that word ...                   *)
LEMMA SpellingTranslated ==
  ASSUME WordsApart, NEW question, Translated(question),
         NEW j \in DOMAIN Replacements(question),
         NEW v \in Replacements(question)[j].variants, NEW text, Same(v, text)
  PROVE  TranslateResponse(question, text) = Replacements(question)[j].key
<1> DEFINE keys == {k \in DOMAIN Replacements(question) :
                      \E w \in Replacements(question)[k].variants : Same(w, text)}
<1>1. DOMAIN Replacements(question) \in SUBSET Nat /\ question \in DOMAIN translation_db
  BY ReplacementsTyped
<1>2. j \in keys
  OBVIOUS
<1>3. ASSUME NEW k \in keys PROVE k = j
  <2>1. PICK w \in Replacements(question)[k].variants : Same(w, text)
    OBVIOUS
  <2>2. Same(v, w)
    BY <2>1 DEF Same
  <2>3. QED
    BY <1>1, <2>1, <2>2 DEF WordsApart
<1>4. TranslateResponse(question, text)
        = IF keys = {} THEN text ELSE Replacements(question)[Min(keys)].key
  BY DEF TranslateResponse
<1>5. keys \in SUBSET Nat
  BY <1>1
<1> HIDE DEF keys
<1>6. Min(keys) = j
  BY <1>2, <1>3, <1>5, MinIsLeast
<1>7. QED
  BY <1>2, <1>4, <1>6

(* ... and what is none stays as it is.                                    *)
LEMMA OthersNotTranslated ==
  ASSUME NEW question, NEW text,
         ~ (Translated(question) /\ \E j \in DOMAIN Replacements(question) :
              \E v \in Replacements(question)[j].variants : Same(v, text))
  PROVE  TranslateResponse(question, text) = text
BY DEF TranslateResponse

(* A set by a canonical word looks for an option by the word's spellings.  *)
LEMMA WordVariations ==
  ASSUME WordsApart, NEW question, Translated(question),
         NEW j \in DOMAIN Replacements(question), NEW text,
         Same(Replacements(question)[j].key, text)
  PROVE  AnswerVariations(question, text) = Replacements(question)[j].variants
<1> DEFINE keys == {k \in DOMAIN Replacements(question) :
                      Same(Replacements(question)[k].key, text)}
<1>1. DOMAIN Replacements(question) \in SUBSET Nat /\ question \in DOMAIN translation_db
  BY ReplacementsTyped
<1>2. j \in keys
  OBVIOUS
<1>3. ASSUME NEW k \in keys PROVE k = j
  <2>1. PICK v \in Replacements(question)[k].variants : Same(v, Replacements(question)[k].key)
    BY <1>1 DEF WordsApart
  <2>2. PICK w \in Replacements(question)[j].variants : Same(w, Replacements(question)[j].key)
    BY <1>1 DEF WordsApart
  <2>3. Same(v, w)
    BY <2>1, <2>2 DEF Same
  <2>4. QED
    BY <1>1, <2>3 DEF WordsApart
<1>4. AnswerVariations(question, text)
        = IF keys = {} THEN {text} ELSE Replacements(question)[Min(keys)].variants
  BY DEF AnswerVariations
<1>5. keys \in SUBSET Nat
  BY <1>1
<1> HIDE DEF keys
<1>6. Min(keys) = j
  BY <1>2, <1>3, <1>5, MinIsLeast
<1>7. QED
  BY <1>2, <1>4, <1>6

LEMMA OtherVariations ==
  ASSUME NEW question, NEW text,
         ~ (Translated(question) /\ \E j \in DOMAIN Replacements(question) :
              Same(Replacements(question)[j].key, text))
  PROVE  AnswerVariations(question, text) = {text}
BY DEF AnswerVariations

(* The texts of a machine and of the database.                             *)
LEMMA WordsAreTexts ==
  ASSUME NEW m, NEW question, Translated(question), NEW j \in DOMAIN Replacements(question)
  PROVE  /\ Replacements(question)[j].key \in Texts(m)
         /\ \A v \in Replacements(question)[j].variants : v \in Texts(m)
<1>1. question \in DOMAIN translation_db
  BY DEF Translated
<1>2. Replacements(question)[j] \in Range(Replacements(question))
  BY DEF Range
<1>3. {Replacements(question)[j].key} \cup Replacements(question)[j].variants \subseteq Words
  BY <1>1, <1>2 DEF Words
<1>4. QED
  BY <1>3 DEF Texts

(* What an option found by a value is shown as, the value is shown as too. *)
LEMMA FoundIsShown ==
  ASSUME WordsApart, NEW m, Legible(m), NEW q \in QuestionsOn(m), NEW o \in Range(q.options),
         NEW c \in m.commands, NEW v \in AnswerVariations(c.question, c.value), Same(v, o.text)
  PROVE  Same(TranslateResponse(c.question, Trim(o.text)),
              TranslateResponse(c.question, Trim(c.value)))
<1>1. o.text \in Texts(m) /\ c.value \in Texts(m)
  BY DEF Texts
<1>2. \A s, t \in Texts(m) : Same(s, t) => Same(Trim(s), Trim(t))
  BY DEF Legible
<1>3. ASSUME Translated(c.question), NEW j \in DOMAIN Replacements(c.question),
             Same(Replacements(c.question)[j].key, c.value)
      PROVE  Same(TranslateResponse(c.question, Trim(o.text)),
                  TranslateResponse(c.question, Trim(c.value)))
  <2> DEFINE word == Replacements(c.question)[j]
  <2>1. v \in word.variants
    BY <1>3, WordVariations
  <2>2. c.question \in DOMAIN translation_db
    BY <1>3, ReplacementsTyped
  <2>3. PICK w \in word.variants : Same(w, word.key)
    BY <2>2 DEF WordsApart
  <2>4. Trim(v) = v /\ Trim(w) = w /\ v \in Texts(m) /\ w \in Texts(m)
    BY <1>3, <2>1, <2>2, WordsAreTexts DEF WordsApart
  <2>5. Same(v, Trim(o.text))
    BY <1>1, <1>2, <2>4
  <2>6. Same(w, c.value)
    BY <1>3, <2>3 DEF Same
  <2>7. Same(w, Trim(c.value))
    BY <1>1, <1>2, <2>4, <2>6
  <2>8. TranslateResponse(c.question, Trim(o.text)) = word.key
    BY <1>3, <2>1, <2>5, SpellingTranslated
  <2>9. TranslateResponse(c.question, Trim(c.value)) = word.key
    BY <1>3, <2>7, SpellingTranslated
  <2>10. QED
    BY <2>8, <2>9 DEF Same
<1>4. ASSUME ~ (Translated(c.question) /\ \E j \in DOMAIN Replacements(c.question) :
                  Same(Replacements(c.question)[j].key, c.value))
      PROVE  Same(TranslateResponse(c.question, Trim(o.text)),
                  TranslateResponse(c.question, Trim(c.value)))
  <2>1. v = c.value
    BY <1>4, OtherVariations
  <2>2. Same(o.text, c.value)
    BY <2>1 DEF Same
  <2>3. Same(Trim(o.text), Trim(c.value))
    BY <1>1, <1>2, <2>2
  <2>4. QED
    BY <2>3, TranslateSame
<1>5. QED
  BY <1>3, <1>4

(* An option that is shown untrimmed is among those that what it is shown  *)
(* as finds; all of these are shown alike.                                 *)
LEMMA ShownIsFound ==
  ASSUME WordsApart, NEW m, Legible(m), NEW q \in QuestionsOn(m), NEW o \in Range(q.options),
         Trim(o.text) = o.text, NEW question, NEW answer,
         answer = TranslateResponse(question, o.text)
  PROVE  /\ o \in OptionFor(q, AnswerVariations(question, answer))
         /\ \A r \in OptionFor(q, AnswerVariations(question, answer)) :
              Same(TranslateResponse(question, Trim(r.text)), answer)
<1>1. \A r \in Range(q.options) : r.text \in Texts(m)
  BY DEF Texts
<1>2. \A s, t \in Texts(m) : Same(s, t) => Same(Trim(s), Trim(t))
  BY DEF Legible
<1>3. ASSUME Translated(question), NEW j \in DOMAIN Replacements(question),
             NEW v \in Replacements(question)[j].variants, Same(v, o.text)
      PROVE  /\ o \in OptionFor(q, AnswerVariations(question, answer))
             /\ \A r \in OptionFor(q, AnswerVariations(question, answer)) :
                  Same(TranslateResponse(question, Trim(r.text)), answer)
  <2>1. answer = Replacements(question)[j].key
    BY <1>3, SpellingTranslated
  <2>2. AnswerVariations(question, answer) = Replacements(question)[j].variants
    <3>1. Same(Replacements(question)[j].key, answer)
      BY <2>1 DEF Same
    <3>2. QED
      BY <1>3, <3>1, WordVariations
  <2>3. o \in OptionFor(q, AnswerVariations(question, answer))
    BY <1>3, <2>2 DEF OptionFor
  <2>4. ASSUME NEW r \in OptionFor(q, AnswerVariations(question, answer))
        PROVE  Same(TranslateResponse(question, Trim(r.text)), answer)
    <3>1. r \in Range(q.options)
          /\ \E w \in Replacements(question)[j].variants : Same(w, r.text)
      BY <2>2 DEF OptionFor
    <3>2. PICK w \in Replacements(question)[j].variants : Same(w, r.text)
      BY <3>1
    <3>3. question \in DOMAIN translation_db
      BY <1>3, ReplacementsTyped
    <3>4. Trim(w) = w /\ w \in Texts(m)
      BY <1>3, <3>3, WordsAreTexts DEF WordsApart
    <3>5. Same(w, Trim(r.text))
      BY <1>1, <1>2, <3>1, <3>2, <3>4
    <3>6. TranslateResponse(question, Trim(r.text)) = Replacements(question)[j].key
      BY <1>3, <3>5, SpellingTranslated
    <3>7. QED
      BY <2>1, <3>6 DEF Same
  <2>5. QED
    BY <2>3, <2>4
<1>4. ASSUME ~ (Translated(question) /\ \E j \in DOMAIN Replacements(question) :
                  \E v \in Replacements(question)[j].variants : Same(v, o.text))
      PROVE  /\ o \in OptionFor(q, AnswerVariations(question, answer))
             /\ \A r \in OptionFor(q, AnswerVariations(question, answer)) :
                  Same(TranslateResponse(question, Trim(r.text)), answer)
  <2>1. answer = o.text
    BY <1>4, OthersNotTranslated
  <2>2. ~ (Translated(question) /\ \E j \in DOMAIN Replacements(question) :
             Same(Replacements(question)[j].key, answer))
    <3>1. SUFFICES ASSUME Translated(question), NEW j \in DOMAIN Replacements(question),
                          Same(Replacements(question)[j].key, answer)
                   PROVE  FALSE
      OBVIOUS
    <3>2. question \in DOMAIN translation_db
      BY <3>1, ReplacementsTyped
    <3>3. PICK v \in Replacements(question)[j].variants : Same(v, Replacements(question)[j].key)
      BY <3>2 DEF WordsApart
    <3>4. Same(v, o.text)
      BY <2>1, <3>1, <3>3 DEF Same
    <3>5. QED
      BY <1>4, <3>1, <3>4
  <2>3. AnswerVariations(question, answer) = {answer}
    BY <2>2, OtherVariations
  <2>4. o \in OptionFor(q, AnswerVariations(question, answer))
    BY <2>1, <2>3 DEF OptionFor, Same
  <2>5. ASSUME NEW r \in OptionFor(q, AnswerVariations(question, answer))
        PROVE  Same(TranslateResponse(question, Trim(r.text)), answer)
    <3>1. r \in Range(q.options) /\ Same(r.text, o.text)
      BY <2>1, <2>3 DEF OptionFor, Same
    <3>2. Same(Trim(r.text), o.text)
      BY <1>1, <1>2, <3>1
    <3>3. QED
      BY <3>2, TranslateSame
  <2>6. QED
    BY <2>4, <2>5
<1>5. QED
  BY <1>3, <1>4
-----------------------------------------------------------------------------
(* WHAT GET ANSWERS                                                        *)

(* The last write to a question among the first n, and what its field held *)
(* then.                                                                   *)
LastIn(writes, q, n) == Max({0} \cup {i \in 1..n : writes[i].question = q})

FieldAt(writes, q, n) ==
  IF LastIn(writes, q, n) = 0 THEN FieldOf(q, InitContents[q.store])
  ELSE writes[LastIn(writes, q, n)].data

AnswerIn(q, bytes) ==
  LET hits == {i \in DOMAIN q.options : OptionValue(q.options[i]) = Decode(bytes)}
      text == Trim(q.options[Min(hits)].text)
  IN  IF q.kind # "OneOf" THEN Decimal(Decode(bytes))
      ELSE IF hits = {} \/ text = "" THEN "Unknown" ELSE text

(* An answer tells what the field held when it was read.                   *)
Right(writes, questions, name, r) ==
  IsAnswer(r.answer) =>
    /\ r.question \in questions
    /\ r.answer = TranslateResponse(name, AnswerIn(r.question, FieldAt(writes, r.question, r.at)))

AnswersInv ==
  \A p \in Procs : cmd[p].op = "get" =>
    \A k \in 1..Len(responses[p]) : Right(log, Questions, cmd[p].question, responses[p][k])

LEMMA LastInTyped ==
  ASSUME NEW writes, NEW q, NEW n \in Nat
  PROVE  /\ LastIn(writes, q, n) \in 0..n
         /\ LastIn(writes, q, n) # 0 => writes[LastIn(writes, q, n)].question = q
<1> DEFINE S == {0} \cup {i \in 1..n : writes[i].question = q}
<1>1. S \in SUBSET (0..n) /\ S # {}
  OBVIOUS
<1> HIDE DEF S
<1>2. Max(S) \in S
  BY <1>1, MaxIsGreatest
<1>3. QED
  BY <1>1, <1>2 DEF LastIn, S

(* A later write changes nothing about it.                                 *)
LEMMA FieldAtStays ==
  ASSUME NEW S, NEW writes \in Seq(S), NEW e \in S, NEW q, NEW n \in 0..Len(writes)
  PROVE  FieldAt(Append(writes, e), q, n) = FieldAt(writes, q, n)
<1> DEFINE new == Append(writes, e)
<1>1. Len(writes) \in Nat /\ \A i \in 1..Len(writes) : new[i] = writes[i]
  BY AppendProperties, LenProperties
<1>2. n \in Nat /\ \A i \in 1..n : i \in 1..Len(writes)
  BY <1>1
<1> HIDE DEF new
<1>3. {i \in 1..n : new[i].question = q} = {i \in 1..n : writes[i].question = q}
  BY <1>1, <1>2
<1>4. LastIn(new, q, n) = LastIn(writes, q, n)
  BY <1>3 DEF LastIn
<1>5. LastIn(writes, q, n) \in 0..n
  BY <1>2, LastInTyped
<1>6. LastIn(writes, q, n) # 0 => new[LastIn(writes, q, n)] = writes[LastIn(writes, q, n)]
  BY <1>1, <1>2, <1>5
<1>7. QED
  BY <1>4, <1>6 DEF FieldAt, new

(* What a field that a read reaches is read as.                            *)
LEMMA FieldRead ==
  ASSUME HiiInv, FieldsInv, Apart(machine), Readable(machine), NEW q \in Questions
  PROVE  /\ FieldOf(q, contents[q.store]) \in Seq(Byte)
         /\ Len(FieldOf(q, contents[q.store])) = q.width
         /\ Stored(q) = Decode(FieldOf(q, contents[q.store])) /\ Stored(q) # NoAnswer
<1>0. machine \in Machines /\ contents \in [Files -> Seq(Byte)]
  BY DEF HiiInv, HiiType
<1>1. q.store \in Files /\ q.width \in Widths
  BY <1>0, QuestionsTyped
<1> DEFINE bytes == contents[q.store]
           size == Size[q.store]
           from == HeaderLen + q.offset
           to == HeaderLen + q.offset + q.width
<1>2. bytes \in Seq(Byte) /\ size \in Nat /\ Len(bytes) = HeaderLen + size
  BY <1>0, <1>1, StoresAssumption DEF FieldsInv, ExactInv
<1>3. from \in Nat /\ to \in Nat /\ from < to /\ to <= size
      /\ \A b : FieldOf(q, b) = SubSeq(b, from + 1, to)
  BY <1>0, FieldFrame DEF Readable, Questions
<1>4. to - from = q.width
  <2>1. q.offset \in Nat /\ q.width \in Nat
    BY <1>0, QuestionNumbers
  <2>2. QED
    BY <2>1 DEF HeaderLen
<1>5. ReadBytes(q) = SubSeq(bytes, 1, size)
  BY DEF ReadBytes
<1> HIDE DEF from, to, bytes, size
<1>6. HeaderLen = 4
  BY DEF HeaderLen
<1>7. /\ SubSeq(bytes, from + 1, to) \in Seq(Byte)
      /\ Len(SubSeq(bytes, from + 1, to)) = q.width
  BY <1>2, <1>3, <1>4, <1>6, PartBytes
<1>8. Len(ReadBytes(q)) = size
  <2>1. PICK zero \in Nat : zero = 0 /\ zero + 1 = 1 /\ zero <= size /\ size - zero = size
    BY <1>2
  <2>2. Len(SubSeq(bytes, zero + 1, size)) = size - zero
    BY <1>2, <1>6, <2>1, PartBytes
  <2>3. QED
    BY <1>5, <2>1, <2>2
<1>9. SubSeq(ReadBytes(q), from + 1, to) = SubSeq(bytes, from + 1, to)
  <2>1. 1 \in 1..Len(bytes) /\ size \in 1..Len(bytes)
        /\ from + 1 \in 1..size - 1 + 1 /\ to \in 1..size - 1 + 1
        /\ 1 + (from + 1) - 1 = from + 1 /\ 1 + to - 1 = to
    BY <1>2, <1>3, <1>6
  <2>2. SubSeq(SubSeq(bytes, 1, size), from + 1, to) = SubSeq(bytes, 1 + (from + 1) - 1, 1 + to - 1)
    BY <1>2, <2>1, SubSeqOfSubSeq
  <2>3. QED
    BY <1>5, <2>1, <2>2
<1>10. Stored(q) = Decode(FieldOf(q, bytes))
  <2>1. HeaderLen + q.offset + q.width <= Len(ReadBytes(q))
    BY <1>3, <1>8 DEF to
  <2>2. FieldOf(q, ReadBytes(q)) = FieldOf(q, bytes)
    BY <1>3, <1>9
  <2>3. QED
    BY <2>1, <2>2 DEF Stored
<1>11. Decode(FieldOf(q, bytes)) \in Nat
  <2>1. FieldOf(q, bytes) = SubSeq(bytes, from + 1, to)
    BY <1>3
  <2>2. QED
    BY <1>1, <1>7, <2>1, AnswerEncodedAgain
<1>12. QED
  <2>1. Stored(q) # NoAnswer
    BY <1>10, <1>11 DEF NoAnswer
  <2>2. QED
    BY <1>3, <1>7, <1>10, <2>1 DEF bytes

(* A read that does not fail gives the answer in the field.                *)
LEMMA AnswersRead ==
  ASSUME HiiInv, FieldsInv, Apart(machine), Readable(machine),
         NEW q \in Questions, NEW answer \in Answers(q), answer # "<VStoreError>"
  PROVE  answer = AnswerIn(q, FieldOf(q, contents[q.store]))
<1>1. Stored(q) = Decode(FieldOf(q, contents[q.store])) /\ Stored(q) # NoAnswer
  BY FieldRead
<1>2. q.store # "none"
  BY QuestionsTyped DEF HiiInv, HiiType
<1>3. answer = IF q.kind = "OneOf" THEN OneOfAnswer(q) ELSE NumberAnswer(q)
  BY <1>2 DEF Answers
<1>4. CASE q.kind = "OneOf"
  <2>1. Chosen(q) = Stored(q)
    BY <1>1 DEF Chosen
  <2>2. QED
    BY <1>1, <1>3, <1>4, <2>1 DEF OneOfAnswer, AnswerIn
<1>5. CASE q.kind # "OneOf"
  BY <1>1, <1>3, <1>5 DEF NumberAnswer, AnswerIn
<1>6. QED
  BY <1>4, <1>5

LEMMA GetAnswers ==
  ASSUME HiiInv, FieldsInv, Apart(machine), Readable(machine), Untranslated(machine),
         NEW p \in Procs, Get(p)
  PROVE  \E e : /\ responses'[p] = Append(responses[p], e)
                /\ e.at = Len(log) /\ Right(log, Questions, cmd[p].question, e)
<1>0. HiiType /\ machine \in Machines /\ DOMAIN responses = Procs
  BY DEF HiiInv, HiiType, ResponsesInv
<1>1. PICK answer \in Answers(Question(p)) : responses' = [responses EXCEPT ![p] =
        Append(@, Response(p, Question(p), TranslateResponse(cmd[p].question, answer),
                           Len(log)))]
  BY DEF Get
<1> DEFINE q == Question(p)
           name == cmd[p].question
           e == Response(p, q, TranslateResponse(name, answer), Len(log))
<1>2. cmd[p] \in machine.commands
  <2>1. NoCommand.op # "get"
    BY DEF NoCommand
  <2>2. cmd[p] \in machine.commands \cup {NoCommand} /\ cmd[p].op = "get"
    BY <1>0 DEF HiiType, Get
  <2>3. QED
    BY <2>1, <2>2
<1>3. e.question = q /\ e.answer = TranslateResponse(name, answer) /\ e.at = Len(log)
  BY DEF Response
<1>4. responses'[p] = Append(responses[p], e)
  BY <1>0, <1>1
<1> HIDE DEF e
<1>5. /\ TranslateResponse(name, "<VStoreError>") = "<VStoreError>"
      /\ TranslateResponse(name, "<VarStoreError>") = "<VarStoreError>"
  BY <1>2 DEF Untranslated
<1>6. ASSUME IsAnswer(e.answer)
      PROVE  /\ q \in Questions
             /\ e.answer = TranslateResponse(name, AnswerIn(q, FieldAt(log, q, Len(log))))
  <2>1. answer \notin {"<VStoreError>", "<VarStoreError>"}
    BY <1>3, <1>5, <1>6 DEF IsAnswer
  <2>2. q.store # "none"
    BY <2>1 DEF Answers
  <2>3. q \in Questions
    BY <1>0, <2>2, QuestionTyped DEF Get
  <2> HIDE DEF q
  <2>4. answer = AnswerIn(q, FieldOf(q, contents[q.store]))
    BY <2>1, <2>3, AnswersRead DEF q
  <2>5. FieldOf(q, contents[q.store]) = FieldAt(log, q, Len(log))
    BY <2>3 DEF FieldsInv, FieldsFollowLog, FieldAt, LastTo, LastIn
  <2>6. QED
    BY <1>3, <2>3, <2>4, <2>5
<1>7. Right(log, Questions, name, e)
  BY <1>3, <1>6 DEF Right
<1>8. QED
  BY <1>3, <1>4, <1>7

LEMMA NextAnswers ==
  ASSUME HiiInv, FieldsInv, AnswersInv, Apart(machine), Readable(machine),
         Untranslated(machine), Next
  PROVE  AnswersInv'
<1> DEFINE Good(q) == cmd[q].op = "get" =>
      \A k \in 1..Len(responses[q]) : Right(log, Questions, cmd[q].question, responses[q][k])
<1>0. PICK p \in Procs : Step(p)
  BY DEF Next, Step
<1>1. /\ HiiType /\ TargetInv /\ DOMAIN responses = Procs
      /\ \A q \in Procs : responses[q] \in Seq(Range(responses[q]))
      /\ \A q \in Procs : \A k \in 1..Len(responses[q]) : responses[q][k].at \in 0..Len(log)
  BY DEF HiiInv, ResponsesInv
<1>2. Questions' = Questions
  BY MachineStays DEF Next
<1>3. \A q \in Procs : Good(q)
  BY DEF AnswersInv
(* An answer stays right as the log grows.                                 *)
<1>4. ASSUME NEW q \in Procs, NEW k \in 1..Len(responses[q]), NEW name,
             Right(log, Questions, name, responses[q][k])
      PROVE  Right(log', Questions', name, responses[q][k])
  <2>1. PICK r : r = responses[q][k]
    OBVIOUS
  <2>2. r.at \in 0..Len(log)
    BY <1>1, <2>1
  <2>3. FieldAt(log', r.question, r.at) = FieldAt(log, r.question, r.at)
    <3>1. CASE UNCHANGED log
      BY <3>1
    <3>2. ASSUME NEW w \in Procs, Write(w)
          PROVE  FieldAt(log', r.question, r.at) = FieldAt(log, r.question, r.at)
      <4>1. PICK entry \in Entry : log' = Append(log, entry)
        BY <3>2, WriteWrites
      <4>2. log \in Seq(Entry)
        BY <1>1 DEF HiiType
      <4>3. QED
        BY <2>2, <4>1, <4>2, FieldAtStays
    <3>3. QED
      BY <3>1, <3>2, LogGrows
  <2>4. Right(log', Questions', name, r)
    BY <1>2, <1>4, <2>1, <2>3 DEF Right
  <2>5. QED
    BY <2>1, <2>4
<1>5. ASSUME NEW q \in Procs, responses'[q] = responses[q], cmd'[q] = cmd[q] PROVE Good(q)'
  <2>1. Good(q)
    BY <1>3
  <2>2. ASSUME cmd[q].op = "get", NEW k \in 1..Len(responses[q])
        PROVE  Right(log', Questions', cmd[q].question, responses[q][k])
    BY <1>4, <2>1, <2>2
  <2>3. QED
    BY <1>5, <2>2
<1>6. ASSUME NEW q \in Procs, responses'[q] = <<>> PROVE Good(q)'
  <2>1. Len(responses'[q]) = 0
    BY <1>6, EmptySeq
  <2>2. QED
    BY <2>1
<1>7. CASE Get(p)
  <2>1. PICK e : /\ responses'[p] = Append(responses[p], e)
                 /\ e.at = Len(log) /\ Right(log, Questions, cmd[p].question, e)
    BY <1>7, GetAnswers
  <2>2. cmd' = cmd /\ log' = log /\ cmd[p].op = "get"
    BY <1>7 DEF Get
  <2> DEFINE new == Append(responses[p], e)
  <2>3. /\ Len(responses[p]) \in Nat /\ Len(new) = Len(responses[p]) + 1
        /\ \A k \in 1..Len(responses[p]) : new[k] = responses[p][k]
        /\ new[Len(responses[p]) + 1] = e
    BY <1>1, AppendAny
  <2> HIDE DEF new
  <2>4. ASSUME NEW k \in 1..Len(new)
        PROVE  Right(log, Questions, cmd[p].question, new[k])
    <3>1. CASE k = Len(responses[p]) + 1
      BY <2>1, <2>3, <3>1
    <3>2. CASE k # Len(responses[p]) + 1
      <4>1. k \in 1..Len(responses[p])
        BY <2>3, <3>2
      <4>2. QED
        BY <1>3, <2>2, <2>3, <4>1
    <3>3. QED
      BY <3>1, <3>2
  <2>5. responses'[p] = new
    BY <2>1 DEF new
  <2>6. Good(p)'
    BY <1>2, <2>2, <2>4, <2>5
  <2> HIDE DEF Good
  <2>7. ASSUME NEW q \in Procs, q # p PROVE Good(q)'
    BY <1>0, <1>1, <1>5, <2>7, OthersStay
  <2>8. \A q \in Procs : Good(q)'
    BY <2>6, <2>7
  <2>9. QED
    BY <2>8 DEF Good, AnswersInv
<1>8. ASSUME ~Get(p) PROVE Good(p)'
  <2>1. CASE Start(p) \/ Kill(p)
    <3>1. responses'[p] = <<>>
      BY <1>1, <2>1 DEF Start, Kill
    <3>2. QED
      BY <1>6, <3>1
  <2>2. CASE NoStrings(p) \/ SetRefused(p) \/ WriteFails(p)
    <3>1. Fail(p)
      BY <2>2 DEF NoStrings, SetRefused, WriteFails
    <3>2. responses'[p] = <<>>
      BY <1>1, <3>1 DEF Fail
    <3>3. QED
      BY <1>6, <3>2
  <2>3. CASE NotFound(p) \/ Set(p) \/ SetNowhere(p) \/ Write(p) \/ Finish(p)
    <3>1. responses' = responses /\ cmd' = cmd
      BY <2>3 DEF NotFound, Set, SetNowhere, Write, Finish
    <3>2. QED
      BY <1>5, <3>1
  <2>4. CASE Report(p)
    <3>1. pc[p] = "written" /\ cmd' = cmd
      BY <2>4 DEF Report
    <3>2. cmd[p].op = "set"
      BY <1>1, <3>1 DEF TargetInv, NewAnswer
    <3>3. QED
      BY <3>1, <3>2
  <2>5. QED
    BY <1>0, <1>8, <2>1, <2>2, <2>3, <2>4 DEF Step
<1>9. CASE ~Get(p)
  <2>1. Good(p)'
    BY <1>8, <1>9
  <2>2. ASSUME NEW q \in Procs, q # p PROVE Good(q)'
    BY <1>0, <1>1, <1>5, <2>2, OthersStay
  <2> HIDE DEF Good
  <2>3. \A q \in Procs : Good(q)'
    BY <2>1, <2>2
  <2>4. QED
    BY <2>3 DEF Good, AnswersInv
<1>10. QED
  BY <1>7, <1>9

LEMMA InitAnswers == Init => AnswersInv
<1>1. ASSUME Init, NEW p \in Procs PROVE cmd[p].op # "get"
  BY <1>1 DEF Init, NoCommand
<1>2. QED
  BY <1>1 DEF AnswersInv

LEMMA StepAnswers ==
  /\ HiiInv /\ FieldsInv /\ AnswersInv
  /\ Apart(machine) /\ Readable(machine) /\ Untranslated(machine)
  /\ [Next]_vars
  => AnswersInv'
<1>1. CASE Next
  BY <1>1, NextAnswers
<1>2. ASSUME UNCHANGED vars, AnswersInv PROVE AnswersInv'
  <2>1. UNCHANGED <<machine, cmd, responses, log>>
    BY <1>2 DEF vars
  <2>2. Questions' = Questions
    BY <2>1, MachineStays
  <2>3. QED
    BY <1>2, <2>1, <2>2 DEF AnswersInv
<1>3. QED
  BY <1>1, <1>2
(* What a get has found in a field, at the time it looked.                 *)
LEMMA AnswersInvariance ==
  ASSUME \A m \in Machines : Apart(m) /\ Numbered(m) /\ Readable(m) /\ Untranslated(m)
  PROVE  Spec => [](HiiInv /\ FieldsInv /\ AnswersInv)
<1>1. HiiInv => /\ Apart(machine) /\ Numbered(machine)
                /\ Readable(machine) /\ Untranslated(machine)
  BY DEF HiiInv, HiiType
<1>2. HiiInv /\ FieldsInv /\ [Next]_vars => FieldsInv'
  BY <1>1, StepFields
<1>3. HiiInv /\ FieldsInv /\ AnswersInv /\ [Next]_vars => AnswersInv'
  BY <1>1, StepAnswers
<1>4. QED
  BY <1>2, <1>3, HiiInvariance, InitFields, InitAnswers, PTL DEF Spec

LEMMA OptionsToldApart ==
  ASSUME NEW m, Distinct(m), NEW q \in QuestionsOn(m), NEW o \in Range(q.options),
         NEW r \in Range(q.options),
         \/ OptionValue(o) = OptionValue(r)
         \/ \E c \in m.commands : Same(TranslateResponse(c.question, Trim(o.text)),
                                      TranslateResponse(c.question, Trim(r.text)))
  PROVE  o = r
BY DEF Distinct

(* Options have different values: the one a number stands for is found.    *)
LEMMA OptionShown ==
  ASSUME machine \in Machines, Distinct(machine), NEW q \in Questions, q.kind = "OneOf",
         NEW o \in Range(q.options), NEW bytes, OptionValue(o) = Decode(bytes)
  PROVE  AnswerIn(q, bytes) = Trim(o.text)
<1> DEFINE hits == {i \in DOMAIN q.options : OptionValue(q.options[i]) = Decode(bytes)}
<1>1. q.options \in Seq(OptionType)
  BY QuestionsTyped
<1>2. hits \in SUBSET Nat
  BY <1>1, LenProperties
<1>3. hits # {}
  <2>1. PICK i \in DOMAIN q.options : o = q.options[i]
    BY DEF Range
  <2>2. QED
    BY <2>1
<1>4. AnswerIn(q, bytes) = IF hits = {} \/ Trim(q.options[Min(hits)].text) = "" THEN "Unknown"
                           ELSE Trim(q.options[Min(hits)].text)
  BY DEF AnswerIn
<1>5. \A i \in hits : q.options[i] \in Range(q.options)
                      /\ OptionValue(q.options[i]) = Decode(bytes)
  BY DEF Range
<1> HIDE DEF hits
<1>6. Min(hits) \in hits
  BY <1>2, <1>3, MinIsLeast
<1>7. q.options[Min(hits)] = o /\ Trim(o.text) # ""
  <2>1. PICK x \in Range(q.options) : x = q.options[Min(hits)] /\ OptionValue(x) = Decode(bytes)
    BY <1>5, <1>6
  <2>2. q \in QuestionsOn(machine)
    BY DEF Questions
  <2>3. OptionValue(x) = OptionValue(o)
    BY <2>1
  <2>4. x = o
    BY <2>2, <2>3, OptionsToldApart
  <2>5. Trim(o.text) # ""
    BY <2>2 DEF Distinct
  <2>6. QED
    BY <2>1, <2>4, <2>5
<1>8. QED
  BY <1>3, <1>4, <1>7

(* The option a set chooses is one of those it looks for.                  *)
LEMMA FirstOptionFound ==
  ASSUME machine \in Machines, NEW q \in Questions, NEW variations,
         OptionFor(q, variations) # {}
  PROVE  FirstOption(q, variations) \in OptionFor(q, variations)
<1> DEFINE hits == {i \in DOMAIN q.options : q.options[i] \in OptionFor(q, variations)}
<1>1. q.options \in Seq(OptionType)
  BY QuestionsTyped
<1>2. hits \in SUBSET Nat
  BY <1>1, LenProperties
<1>3. hits # {}
  BY DEF OptionFor, Range
<1> HIDE DEF hits
<1>4. Min(hits) \in hits
  BY <1>2, <1>3, MinIsLeast
<1>5. QED
  BY <1>4 DEF FirstOption, hits

(* The value in a field when a get looked: of the question's width, and    *)
(* one the question allows.                                                *)
LEMMA FieldAtLegal ==
  ASSUME HiiInv, Apart(machine), Numbered(machine), InitiallyLegal(machine),
         NEW q \in Questions, NEW n \in 0..Len(log)
  PROVE  LET field == FieldAt(log, q, n)
         IN  /\ field \in Seq(Byte) /\ Len(field) = q.width
             /\ IF q.kind = "OneOf" THEN \E o \in Range(q.options) : OptionValue(o) = Decode(field)
                ELSE Decode(field) <= q.max
<1> DEFINE last == LastIn(log, q, n)
<1>0. HiiType /\ machine \in Machines /\ LogInv /\ Len(log) \in Nat /\ log \in Seq(Entry)
  BY LenProperties DEF HiiInv, HiiType
<1>1. last \in 0..n /\ (last # 0 => log[last].question = q)
  BY <1>0, LastInTyped
<1>2. FieldAt(log, q, n) = IF last = 0 THEN FieldOf(q, InitContents[q.store]) ELSE log[last].data
  BY DEF FieldAt
<1> HIDE DEF last
<1>3. CASE last = 0
  <2> DEFINE bytes == InitContents[q.store]
             from == HeaderLen + q.offset
             to == HeaderLen + q.offset + q.width
  <2>1. q.store \in Files
    BY <1>0, QuestionsTyped
  <2>2. bytes \in Seq(Byte) /\ Len(bytes) = HeaderLen + Size[q.store] /\ Size[q.store] \in Nat
    BY <2>1, StoresAssumption DEF HeaderLen
  <2>3. from \in Nat /\ to \in Nat /\ from < to /\ to <= HeaderLen + Size[q.store]
        /\ FieldOf(q, bytes) = SubSeq(bytes, from + 1, to)
    BY <1>0, FieldFrame
  <2>4. to - from = q.width
    <3>1. q.offset \in Nat /\ q.width \in Nat
      BY <1>0, QuestionNumbers
    <3>2. QED
      BY <3>1 DEF HeaderLen
  <2> HIDE DEF from, to, bytes
  <2>5. SubSeq(bytes, from + 1, to) \in Seq(Byte)
        /\ Len(SubSeq(bytes, from + 1, to)) = q.width
    BY <2>2, <2>3, <2>4, PartBytes
  <2>6. LegalIn(q, bytes)
    BY DEF InitiallyLegal, Questions, bytes
  <2>7. QED
    BY <1>2, <1>3, <2>3, <2>5, <2>6 DEF LegalIn, bytes
<1>4. CASE last # 0
  <2>1. last \in 1..Len(log)
    BY <1>0, <1>1, <1>4
  <2>2. log[last] \in Entry
    BY <1>0, <2>1, ElementOfSeq
  <2>3. log[last].cmd \in machine.commands
        /\ NewAnswer(q, log[last].cmd, log[last].data)
    BY <1>0, <1>1, <1>4, <2>1, <2>2 DEF LogInv, Entry
  <2>4. QED
    BY <1>0, <1>2, <1>4, <2>3, NewAnswerLegal
<1>5. QED
  BY <1>3, <1>4

(* What has been written is shown again.                                   *)
LEMMA WrittenIsShown ==
  ASSUME WordsApart, machine \in Machines, Numbered(machine), Legible(machine),
         Untranslated(machine), Distinct(machine),
         NEW q \in Questions, NEW c \in machine.commands, NEW data, NewAnswer(q, c, data),
         NEW answer, answer = TranslateResponse(c.question, AnswerIn(q, data))
  PROVE  IF q.kind = "OneOf"
         THEN Same(answer, TranslateResponse(c.question, Trim(c.value)))
         ELSE Number(answer) = Number(c.value)
<1>1. Acceptable(q, c) /\ data = NewBytes(q, c)
  BY DEF NewAnswer
<1>2. q.width \in Widths /\ q.store # "none" /\ (q.kind # "OneOf" => q.options = <<>>)
  BY QuestionsTyped
<1>3. CASE q.options = <<>>
  <2>1. /\ q.kind # "OneOf" /\ Number(c.value) \in Nat
        /\ Fits(Number(c.value), q.width) /\ Number(c.value) <= q.max
        /\ data = Encode(Number(c.value), q.width)
    BY <1>1, <1>3, NumberWritten
  <2>2. Decode(data) = Number(c.value)
    BY <1>2, <2>1, AnswerDecoded
  <2>3. AnswerIn(q, data) = Decimal(Number(c.value))
    BY <2>1, <2>2 DEF AnswerIn
  <2>4. Number(c.value) \in NumbersOf(machine)
    <3>1. q.max \in Nat
      BY QuestionsTyped
    <3>2. q \in {r \in QuestionsOn(machine) : r.kind # "OneOf"} /\ Number(c.value) \in 0..q.max
      BY <2>1, <3>1 DEF Questions
    <3>3. QED
      BY <3>2 DEF NumbersOf
  <2>5. TranslateResponse(c.question, Decimal(Number(c.value))) = Decimal(Number(c.value))
    BY <2>4 DEF Untranslated
  <2>6. Number(Decimal(Number(c.value))) = Number(c.value)
    BY <2>4 DEF Legible
  <2>7. QED
    BY <2>1, <2>3, <2>5, <2>6
<1>4. CASE q.options # <<>>
  <2> DEFINE variations == AnswerVariations(c.question, c.value)
             o == FirstOption(q, variations)
  <2>1. OptionFor(q, variations) # {} /\ data = OptionBytes(o)
    BY <1>1, <1>4 DEF Acceptable, NewBytes
  <2> HIDE DEF variations
  <2>2. o \in Range(q.options) \cap OptionType /\ o \in OptionFor(q, variations)
    BY <2>1, FirstOptionTyped, FirstOptionFound
  <2> HIDE DEF o
  <2>3. o.type = "num" /\ o.width = q.width /\ Fits(o.value, q.width)
    BY <2>2 DEF Numbered, Questions
  <2>4. o.value \in Nat /\ data = Encode(o.value, q.width)
    BY <2>1, <2>2, <2>3 DEF OptionBytes, OptionType
  <2>5. Decode(data) = OptionValue(o)
    BY <1>2, <2>3, <2>4, AnswerDecoded DEF OptionValue
  <2>6. q.kind = "OneOf"
    BY <1>2, <1>4
  <2>7. AnswerIn(q, data) = Trim(o.text)
    BY <2>2, <2>5, <2>6, OptionShown
  <2>8. PICK v \in variations : Same(v, o.text)
    BY <2>2 DEF OptionFor
  <2>9. Same(TranslateResponse(c.question, Trim(o.text)),
             TranslateResponse(c.question, Trim(c.value)))
    BY <2>2, <2>8, FoundIsShown DEF variations, Questions
  <2>10. QED
    BY <2>6, <2>7, <2>9
<1>5. QED
  BY <1>3, <1>4

LEMMA AnswersRoundTrip ==
  ASSUME HiiInv, AnswersInv, WordsApart, Numbered(machine), Legible(machine),
         Untranslated(machine), Distinct(machine)
  PROVE  RoundTrip
<1>0. /\ HiiType /\ machine \in Machines /\ LogInv /\ Len(log) \in Nat /\ log \in Seq(Entry)
      /\ \A p \in Procs : responses[p] \in Seq(Range(responses[p]))
      /\ \A p \in Procs : \A k \in 1..Len(responses[p]) : responses[p][k].at \in 0..Len(log)
  BY LenProperties DEF HiiInv, HiiType, ResponsesInv
<1> SUFFICES ASSUME NEW p \in Procs, cmd[p].op = "get", NEW k \in DOMAIN responses[p],
                    NEW r, r = responses[p][k], NEW w, w = LastTo(r.question, r.at),
                    w # 0, log[w].cmd.question = cmd[p].question, IsAnswer(r.answer)
             PROVE  IF r.question.kind = "OneOf"
                    THEN Same(r.answer, TranslateResponse(cmd[p].question,
                                                          Trim(log[w].cmd.value)))
                    ELSE Number(r.answer) = Number(log[w].cmd.value)
  BY DEF RoundTrip
<1>1. k \in 1..Len(responses[p])
  BY <1>0, LenProperties
<1>2. r.at \in 0..Len(log) /\ Right(log, Questions, cmd[p].question, r)
  BY <1>0, <1>1 DEF AnswersInv
<1>3. w = LastIn(log, r.question, r.at)
  BY DEF LastTo, LastIn
<1>4. w \in 0..r.at /\ log[w].question = r.question
  BY <1>0, <1>2, <1>3, LastInTyped
<1>5. w \in 1..Len(log)
  BY <1>0, <1>2, <1>4
<1>6. log[w].cmd \in machine.commands
  <2>1. log[w] \in Entry
    BY <1>0, <1>5, ElementOfSeq
  <2>2. QED
    BY <2>1 DEF Entry
<1>7. NewAnswer(r.question, log[w].cmd, log[w].data)
  BY <1>0, <1>4, <1>5 DEF LogInv
<1>8. r.question \in Questions
      /\ r.answer = TranslateResponse(cmd[p].question, AnswerIn(r.question, log[w].data))
  BY <1>2, <1>3 DEF Right, FieldAt
<1>9. PICK c \in machine.commands : c = log[w].cmd
  BY <1>6
<1>10. PICK q \in Questions : q = r.question
  BY <1>8
<1>11. NewAnswer(q, c, log[w].data)
       /\ r.answer = TranslateResponse(c.question, AnswerIn(q, log[w].data))
       /\ c.question = cmd[p].question
  BY <1>7, <1>8, <1>9, <1>10
<1>12. IF q.kind = "OneOf"
       THEN Same(r.answer, TranslateResponse(c.question, Trim(c.value)))
       ELSE Number(r.answer) = Number(c.value)
  BY <1>0, <1>11, WrittenIsShown
<1>13. QED
  BY <1>9, <1>10, <1>11, <1>12

(* What a get answers is what the last set by the same name has asked for, *)
(* whoever ran it and whatever ran or failed between: the vendors'         *)
(* spellings, the encoding into bytes and the way back cancel out          *)
(* (exports.rs:54-56, 180-260).  It asks that the questions' fields lie    *)
(* apart and where a read reaches them, that options have numbers and      *)
(* texts that are told apart, and that the spellings of the database are   *)
(* told apart.                                                             *)
THEOREM SetIsAnsweredBack ==
  ASSUME WordsApart,
         \A m \in Machines : /\ Apart(m) /\ Numbered(m) /\ Readable(m)
                             /\ Legible(m) /\ Untranslated(m) /\ Distinct(m)
  PROVE  Spec => []RoundTrip
<1>1. Spec => [](HiiInv /\ FieldsInv /\ AnswersInv)
  BY AnswersInvariance
<1>2. HiiInv => Numbered(machine) /\ Legible(machine) /\ Untranslated(machine) /\ Distinct(machine)
  BY DEF HiiInv, HiiType
<1>3. HiiInv /\ AnswersInv => RoundTrip
  BY <1>2, AnswersRoundTrip
<1>4. QED
  BY <1>1, <1>3, PTL

LEMMA FoundAreShownAlike ==
  ASSUME WordsApart, NEW m, Legible(m), NEW q \in QuestionsOn(m), NEW o \in Range(q.options),
         Trim(o.text) = o.text, NEW question, NEW answer,
         answer = TranslateResponse(question, o.text),
         NEW r \in OptionFor(q, AnswerVariations(question, answer))
  PROVE  Same(TranslateResponse(question, Trim(r.text)), answer)
BY ShownIsFound

(* What is shown finds the option again that it was shown for.             *)
LEMMA ShownFinds ==
  ASSUME WordsApart, machine \in Machines, Numbered(machine), Legible(machine),
         Distinct(machine),
         NEW q \in Questions, q.kind = "OneOf", NEW o \in Range(q.options), Trim(o.text) = o.text,
         NEW field \in Seq(Byte), Len(field) = q.width, OptionValue(o) = Decode(field),
         NEW c \in machine.commands, NEW again,
         again.question = c.question /\ again.value = TranslateResponse(c.question, o.text)
  PROVE  Acceptable(q, again) /\ NewBytes(q, again) = field
<1> DEFINE variations == AnswerVariations(again.question, again.value)
           r == FirstOption(q, variations)
<1>1. q \in QuestionsOn(machine) /\ q.width \in Widths
  BY QuestionsTyped DEF Questions
<1>2. /\ o \in OptionFor(q, variations)
      /\ \A x \in OptionFor(q, variations) :
           Same(TranslateResponse(c.question, Trim(x.text)), TranslateResponse(c.question, o.text))
  <2>1. PICK answer : answer = TranslateResponse(c.question, o.text)
    OBVIOUS
  <2>2. variations = AnswerVariations(c.question, answer)
    BY <2>1
  <2> HIDE DEF variations
  <2>3. q \in QuestionsOn(machine)
    BY <1>1
  <2>4. o \in OptionFor(q, AnswerVariations(c.question, answer))
    BY <2>1, <2>3, ShownIsFound
  <2>5. ASSUME NEW x \in OptionFor(q, AnswerVariations(c.question, answer))
        PROVE  Same(TranslateResponse(c.question, Trim(x.text)), answer)
    BY <2>1, <2>3, FoundAreShownAlike
  <2>6. QED
    BY <2>1, <2>2, <2>4, <2>5
<1> HIDE DEF variations
<1>3. OptionFor(q, variations) # {}
  BY <1>2
<1>4. r \in OptionFor(q, variations) /\ r \in Range(q.options)
  BY <1>3, FirstOptionFound, FirstOptionTyped
<1> HIDE DEF r
<1>5. Same(TranslateResponse(c.question, Trim(r.text)), TranslateResponse(c.question, Trim(o.text)))
  BY <1>2, <1>4
<1>6. r = o
  BY <1>1, <1>4, <1>5, OptionsToldApart
<1>7. q.options # <<>>
  <2>1. PICK i \in DOMAIN q.options : o = q.options[i]
    BY DEF Range
  <2>2. DOMAIN <<>> = {}
    BY EmptySeq
  <2>3. QED
    BY <2>1, <2>2
<1>8. NewBytes(q, again) = OptionBytes(o)
  BY <1>6, <1>7 DEF NewBytes, r, variations
<1>9. OptionBytes(o) = Encode(Decode(field), q.width)
  <2>1. o.type = "num" /\ o.width = q.width
    BY <1>1 DEF Numbered
  <2>2. QED
    BY <2>1 DEF OptionBytes, OptionValue
<1>10. Encode(Decode(field), q.width) = field
  BY <1>1, AnswerEncodedAgain
<1>11. Acceptable(q, again)
  BY <1>3, <1>7 DEF Acceptable, variations
<1>12. QED
  BY <1>8, <1>9, <1>10, <1>11

(* No spelling changes a printed number, and it is read back as it is.     *)
LEMMA NumberStands ==
  ASSUME Legible(machine), Untranslated(machine),
         NEW c \in machine.commands, NEW n \in NumbersOf(machine)
  PROVE  TranslateResponse(c.question, Decimal(n)) = Decimal(n) /\ Number(Decimal(n)) = n
<1>1. Number(Decimal(n)) = n
  BY DEF Legible
<1>2. PICK text : text = Decimal(n) /\ text \in {Decimal(k) : k \in NumbersOf(machine)}
  OBVIOUS
<1>3. TranslateResponse(c.question, text) = text
  BY <1>2 DEF Untranslated
<1>4. QED
  BY <1>1, <1>2, <1>3

(* What every answer shows puts back what it was read from.                *)
LEMMA AnswersCanBeSet ==
  ASSUME HiiInv, AnswersInv, WordsApart, Apart(machine), Numbered(machine),
         InitiallyLegal(machine), Legible(machine), Untranslated(machine), Distinct(machine)
  PROVE  ShownCanBeSet
<1>0. /\ HiiType /\ machine \in Machines /\ Len(log) \in Nat
      /\ \A p \in Procs : responses[p] \in Seq(Range(responses[p]))
      /\ \A p \in Procs : \A k \in 1..Len(responses[p]) : responses[p][k].at \in 0..Len(log)
  BY LenProperties DEF HiiInv, HiiType, ResponsesInv
<1> SUFFICES ASSUME NEW p \in Procs, cmd[p].op = "get", NEW k \in DOMAIN responses[p],
                    NEW r, r = responses[p][k], IsAnswer(r.answer), r.answer # "Unknown",
                    \A o \in Range(r.question.options) :
                      TranslateResponse(cmd[p].question, Trim(o.text)) = r.answer
                        => Trim(o.text) = o.text,
                    NEW again,
                    again = [op |-> "set", question |-> cmd[p].question, value |-> r.answer],
                    NEW field,
                    field = IF LastTo(r.question, r.at) # 0
                            THEN log[LastTo(r.question, r.at)].data
                            ELSE FieldOf(r.question, InitContents[r.question.store])
             PROVE  Acceptable(r.question, again) /\ NewBytes(r.question, again) = field
  BY DEF ShownCanBeSet
<1> DEFINE q == r.question
           c == cmd[p]
<1>1. k \in 1..Len(responses[p])
  BY <1>0, LenProperties
<1>2. r.at \in 0..Len(log) /\ Right(log, Questions, c.question, r)
  BY <1>0, <1>1 DEF AnswersInv
<1>3. field = FieldAt(log, q, r.at)
  BY DEF FieldAt, LastTo, LastIn
<1>4. q \in Questions /\ r.answer = TranslateResponse(c.question, AnswerIn(q, field))
  BY <1>2, <1>3 DEF Right
<1>5. /\ field \in Seq(Byte) /\ Len(field) = q.width
      /\ IF q.kind = "OneOf" THEN \E o \in Range(q.options) : OptionValue(o) = Decode(field)
         ELSE Decode(field) <= q.max
  BY <1>2, <1>3, <1>4, FieldAtLegal
<1>6. c \in machine.commands
  <2>1. NoCommand.op # "get"
    BY DEF NoCommand
  <2>2. c \in machine.commands \cup {NoCommand}
    BY <1>0 DEF HiiType
  <2>3. QED
    BY <2>1, <2>2
<1>7. again.question = c.question /\ again.value = r.answer
  OBVIOUS
<1>8. /\ q.width \in Widths /\ q.max \in Nat /\ q.store # "none"
      /\ q.kind # "OneOf" => q.options = <<>>
  BY <1>0, <1>4, QuestionsTyped
<1> HIDE DEF q, c
<1>9. CASE q.kind = "OneOf"
  <2>1. PICK o \in Range(q.options) : OptionValue(o) = Decode(field)
    BY <1>5, <1>9
  <2>2. AnswerIn(q, field) = Trim(o.text)
    BY <1>0, <1>4, <1>9, <2>1, OptionShown
  <2>3. Trim(o.text) = o.text
    BY <1>4, <2>1, <2>2 DEF q, c
  <2>4. again.value = TranslateResponse(c.question, o.text)
    BY <1>4, <1>7, <2>2, <2>3
  <2>5. PICK question \in Questions : question = q
    BY <1>4
  <2>6. PICK bytes \in Seq(Byte) : bytes = field
    BY <1>5
  <2>7. PICK command \in machine.commands : command = c
    BY <1>6
  <2>8. Len(bytes) = question.width /\ o \in Range(question.options)
        /\ question.kind = "OneOf" /\ OptionValue(o) = Decode(bytes)
    BY <1>5, <1>9, <2>1, <2>5, <2>6
  <2>9. again.question = command.question
        /\ again.value = TranslateResponse(command.question, o.text)
    BY <1>7, <2>4, <2>7
  <2>10. Acceptable(question, again) /\ NewBytes(question, again) = bytes
    BY <1>0, <2>3, <2>8, <2>9, ShownFinds
  <2>11. QED
    BY <2>5, <2>6, <2>10 DEF q
<1>10. CASE q.kind # "OneOf"
  <2> DEFINE n == Decode(field)
  <2>1. n \in Nat /\ n <= q.max /\ Fits(n, q.width) /\ Encode(n, q.width) = field
    BY <1>5, <1>8, <1>10, AnswerEncodedAgain
  <2>2. n \in NumbersOf(machine)
    <3>1. q \in QuestionsOn(machine)
      BY <1>4 DEF Questions
    <3>2. n \in 0..q.max
      <4> HIDE DEF n
      <4>1. QED
        BY <1>8, <2>1
    <3>3. QED
      BY <1>10, <3>1, <3>2 DEF NumbersOf
  <2>3. AnswerIn(q, field) = Decimal(n)
    BY <1>10 DEF AnswerIn
  <2> HIDE DEF n
  <2>4. r.answer = Decimal(n) /\ Number(r.answer) = n
    BY <1>4, <1>6, <2>2, <2>3, NumberStands
  <2>5. Acceptable(q, again)
    BY <1>7, <1>8, <1>10, <2>1, <2>4 DEF Acceptable, Legal
  <2>6. NewBytes(q, again) = Encode(n, q.width)
    BY <1>7, <1>8, <1>10, <2>4 DEF NewBytes
  <2>7. QED
    BY <2>1, <2>5, <2>6 DEF q
<1>11. QED
  BY <1>9, <1>10

(* What a get shows for a question can be set again by the same name, and  *)
(* that puts back the bytes the get has read, whatever the processes have  *)
(* done before: reading an answer and choosing one agree (exports.rs:206,  *)
(* forms.rs:1318), but for options with blanks around their texts.  It     *)
(* asks what SetIsAnsweredBack asks, and that the stores start out legal.  *)
THEOREM WhatIsShownCanBeSet ==
  ASSUME WordsApart,
         \A m \in Machines : /\ Apart(m) /\ Numbered(m) /\ Readable(m) /\ InitiallyLegal(m)
                             /\ Legible(m) /\ Untranslated(m) /\ Distinct(m)
  PROVE  Spec => []ShownCanBeSet
<1>1. Spec => [](HiiInv /\ FieldsInv /\ AnswersInv)
  BY AnswersInvariance
<1>2. HiiInv => /\ Apart(machine) /\ Numbered(machine) /\ InitiallyLegal(machine)
                /\ Legible(machine) /\ Untranslated(machine) /\ Distinct(machine)
  BY DEF HiiInv, HiiType
<1>3. HiiInv /\ AnswersInv => ShownCanBeSet
  BY <1>2, AnswersCanBeSet
<1>4. QED
  BY <1>1, <1>3, PTL

=============================================================================
