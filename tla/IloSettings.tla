------------------------------ MODULE IloSettings ------------------------------
(***************************************************************************)
(* IloBackend of src/src/lib/exports.rs over src/src/lib/ilorest/          *)
(* requests.rs: get, set, show_attributes and show_pending_attributes as   *)
(* sequences of REST calls to the BMC, run by any number of processes.     *)
(*                                                                         *)
(* The BMC keeps settings in collections.  A PATCH changes the pending     *)
(* settings, which become the current ones when the host reboots.  A REST  *)
(* call is what RestCall specifies and BlobTransport implements: the BMC   *)
(* executes it any number of times (there are retries), the caller gets    *)
(* the reply to an execution or an error, and a packet of an attempt given *)
(* up may still be executed later.                                         *)
(***************************************************************************)
EXTENDS Integers, Sequences, FiniteSets, FiniteSetsExt

CONSTANTS
  Procs,          \* uefisettings processes
  Commands,       \* what they may be asked: [op, question, value]
  MaxCommands,    \* commands per process
  MaxBoots,       \* reboots of the host
  Settings,       \* IloDevice -> its collections -> their attributes -> values
  StringAttrs,    \* the attributes whose values are JSON strings
  translation_db, \* canonical question -> [question, replacements]
  Fold(_),        \* what eq_ignore_ascii_case compares
  Faulty          \* "lost": calls fail; "late": and are executed afterwards;
                  \* "refused": the BMC says no

ASSUME MachineAssumption ==
  DOMAIN Settings \subseteq {"Ilo4", "Ilo5", "Ilo5Gen10Plus"}
(* Redfish has these for every later one (requests.rs:97-175).             *)
ASSUME CollectionsAssumption ==
  \A m \in DOMAIN Settings \ {"Ilo4"} : {"debug", "service"} \subseteq DOMAIN Settings[m]
ASSUME SpellingsAssumption ==
  \A q \in DOMAIN translation_db : DOMAIN translation_db[q].replacements \subseteq Nat
ASSUME FaultsAssumption == Faulty \subseteq {"lost", "late", "refused"}

VARIABLES
  machine,    \* what identify_hpe_machine_type finds
  current,    \* current settings
  pending,    \* pending settings
  author,     \* the PATCH each pending setting is from, or NoPatch
  origin,     \* the PATCH each current setting is from, or NoPatch
  executed,   \* the PATCHes executed
  stray,      \* PATCHes of attempts given up, which may still be executed
  boots,      \* reboots so far
  pc,         \* the REST call a process is in, or "idle"
  cmd,        \* its command
  coll,       \* the place of the collection at hand
  reply,      \* the reply of the call's last execution
  seen,       \* current settings, while it waits for the pending ones
  responses,  \* the response list
  outcome,    \* "none", "ok" or "err"
  ran         \* commands started

bmcVars  == <<current, pending, author, origin, executed>>
procVars == <<pc, cmd, coll, reply, seen, responses, outcome, ran>>
vars == <<machine, bmcVars, stray, boots, procVars>>

MayFail(what) == what \in Faulty

NoCommand == [op |-> "none", question |-> "", value |-> ""]
NoReply   == [status |-> "none", attrs |-> <<>>]
NoPatch   == [by |-> <<>>, coll |-> "none", cmd |-> NoCommand]

-----------------------------------------------------------------------------
(* TRANSLATION                                                             *)

Same(s, t) == Fold(s) = Fold(t)

Translated(question) == question \in DOMAIN translation_db

Replacements(question) == translation_db[question].replacements

(* get_qa_variations_ilo                                                   *)
IloQuestion(question) ==
  IF Translated(question) THEN translation_db[question].question ELSE question

IloAnswer(question, answer) ==
  LET keys == IF Translated(question)
              THEN {k \in DOMAIN Replacements(question) :
                      Same(Replacements(question)[k].key, answer)} ELSE {}
  IN  IF keys = {} THEN answer ELSE Replacements(question)[Min(keys)].value

(* translate_response                                                      *)
TranslateResponse_Forward(question, answer) == IloAnswer(question, answer)

TranslateResponse(question, answer) ==
  LET keys == IF Translated(question)
              THEN {k \in DOMAIN Replacements(question) :
                      Same(Replacements(question)[k].value, answer)} ELSE {}
  IN  IF keys = {} THEN answer ELSE Replacements(question)[Min(keys)].key

-----------------------------------------------------------------------------
(* Ilo4Dev takes the keys of a whole Redfish object for settings, but for  *)
(* these; Ilo5Dev takes what is under Attributes.                          *)
ILO4_IGNORED_KEYS ==
  {"links", "Type", "SettingsResult", "Modified", "Description",
   "AttributeRegistry", "SettingsObject", "Name"}

Visible(c, settings) ==
  [a \in DOMAIN settings[c] \ (IF machine = "Ilo4" THEN ILO4_IGNORED_KEYS ELSE {})
     |-> settings[c][a]]

(* Debug and service settings exist from iLO 5 on.                         *)
Collections_All == <<"bios", "debug", "service">>

Collections ==
  IF machine = "Ilo4" THEN <<"bios">> ELSE <<"bios", "debug", "service">>

Coll(p) == Collections[coll[p]]

(* The settings the machine came with.                                     *)
Shipped == Settings[machine]

(* The Value::String test of set and get.                                  *)
Settable_AnyType(attrs, a) == a \in DOMAIN attrs

Settable(attrs, a) == a \in DOMAIN attrs /\ a \in StringAttrs

OnlyStrings(attrs) == [a \in DOMAIN attrs \cap StringAttrs |-> attrs[a]]

(* compare_redfish_attributes                                              *)
Changed_Old(old, new) ==
  [a \in {k \in DOMAIN OnlyStrings(old) \cap DOMAIN OnlyStrings(new) :
            old[k] # new[k]} |-> old[a]]

Changed(old, new) ==
  [a \in {k \in DOMAIN OnlyStrings(old) \cap DOMAIN OnlyStrings(new) :
            old[k] # new[k]} |-> new[a]]

-----------------------------------------------------------------------------
Init ==
  /\ machine \in DOMAIN Settings
  /\ current = Shipped
  /\ pending = Shipped
  /\ author = [c \in DOMAIN Shipped |-> [a \in DOMAIN Shipped[c] |-> NoPatch]]
  /\ origin = author
  /\ executed = {}
  /\ stray = {}
  /\ boots = 0
  /\ pc = [p \in Procs |-> "idle"]
  /\ cmd = [p \in Procs |-> NoCommand]
  /\ coll = [p \in Procs |-> 1]
  /\ reply = [p \in Procs |-> NoReply]
  /\ seen = [p \in Procs |-> <<>>]
  /\ responses = [p \in Procs |-> <<>>]
  /\ outcome = [p \in Procs |-> "none"]
  /\ ran = [p \in Procs |-> 0]

Start(p) ==
  /\ pc[p] = "idle" /\ ran[p] < MaxCommands
  /\ \E c \in Commands : cmd' = [cmd EXCEPT ![p] = c]
  /\ pc' = [pc EXCEPT ![p] = "identify"]
  /\ coll' = [coll EXCEPT ![p] = 1]
  /\ responses' = [responses EXCEPT ![p] = <<>>]
  /\ outcome' = [outcome EXCEPT ![p] = "none"]
  /\ ran' = [ran EXCEPT ![p] = @ + 1]
  /\ UNCHANGED <<bmcVars, stray, boots, reply, seen>>

-----------------------------------------------------------------------------
(* THE BMC                                                                 *)

(* update_bios_setting, update_debug_setting, update_service_setting       *)
Patch(p) == [by |-> <<p, ran[p]>>, coll |-> Coll(p), cmd |-> cmd[p]]

Apply(w) ==
  LET a == IloQuestion(w.cmd.question)
  IN  /\ pending' = [pending EXCEPT ![w.coll][a] = IloAnswer(w.cmd.question, w.cmd.value)]
      /\ author' = [author EXCEPT ![w.coll][a] = w]
      /\ executed' = executed \cup {w}

(* What a GET of the collection returns.  The hidden collections have one  *)
(* address on Gen10 and another on Gen10 Plus machines.                    *)
Source(p) == IF pc[p] = "pending" THEN pending ELSE current

Replies(p, r) == reply' = [reply EXCEPT ![p] = r]

Calling(p) == pc[p] # "idle" /\ (reply[p] = NoReply \/ MayFail("lost"))

Exists(c) == c \in DOMAIN Shipped

ExecuteGet(p) ==
  /\ Calling(p) /\ pc[p] \in {"identify", "current", "pending"} /\ Exists(Coll(p))
  /\ Replies(p, [status |-> "ok",
                 attrs |-> IF pc[p] = "identify" THEN <<>>
                           ELSE Visible(Coll(p), Source(p))])
  /\ UNCHANGED bmcVars

ExecutePatch(p) ==
  /\ Calling(p) /\ pc[p] = "patch"
  /\ Apply(Patch(p))
  /\ Replies(p, [status |-> "ok", attrs |-> <<>>])
  /\ UNCHANGED <<current, origin>>

(* A status other than 200, or no SystemResetRequired among the messages;  *)
(* or the machine has no such collection.                                  *)
Refuse(p) ==
  /\ Calling(p) /\ (MayFail("refused") \/ ~Exists(Coll(p)))
  /\ Replies(p, [status |-> "refused", attrs |-> <<>>])
  /\ UNCHANGED bmcVars

Bmc(p) ==
  /\ ExecuteGet(p) \/ ExecutePatch(p) \/ Refuse(p)
  /\ UNCHANGED <<stray, boots, pc, cmd, coll, seen, responses, outcome, ran>>

ExecuteStray ==
  /\ \E w \in stray : Apply(w) /\ stray' = stray \ {w}
  /\ UNCHANGED <<current, origin, boots, procVars>>

-----------------------------------------------------------------------------
(* THE CLIENT                                                              *)

Goto(p, label) == pc' = [pc EXCEPT ![p] = label]

Answered(p, call) == pc[p] = call /\ reply[p].status = "ok"

(* On to the next collection, or the command is done.                      *)
NextCollection_Past(p) ==
  IF coll[p] <= Len(Collections)
  THEN /\ coll' = [coll EXCEPT ![p] = @ + 1]
       /\ Goto(p, "current")
       /\ UNCHANGED outcome
  ELSE /\ outcome' = [outcome EXCEPT ![p] = "ok"]
       /\ Goto(p, "idle")
       /\ UNCHANGED coll

NextCollection(p) ==
  IF coll[p] < Len(Collections)
  THEN /\ coll' = [coll EXCEPT ![p] = @ + 1]
       /\ Goto(p, "current")
       /\ UNCHANGED outcome
  ELSE /\ outcome' = [outcome EXCEPT ![p] = "ok"]
       /\ Goto(p, "idle")
       /\ UNCHANGED coll

Respond(p, attrs) ==
  responses' = [responses EXCEPT ![p] = Append(@, [coll |-> Coll(p), attrs |-> attrs])]

One(a, value) == [x \in {a} |-> value]

Identified(p) ==
  /\ Answered(p, "identify")
  /\ Goto(p, "current")
  /\ UNCHANGED <<coll, seen, responses, outcome>>

(* set: the collection does not have the attribute, or not as a string ... *)
SetSkips(p) ==
  /\ Answered(p, "current") /\ cmd[p].op = "set"
  /\ ~Settable(reply[p].attrs, IloQuestion(cmd[p].question))
  /\ NextCollection(p)
  /\ UNCHANGED <<seen, responses>>

(* ... or it does, and update_*_setting follows.                           *)
SetPatches(p) ==
  /\ Answered(p, "current") /\ cmd[p].op = "set"
  /\ Settable(reply[p].attrs, IloQuestion(cmd[p].question))
  /\ Goto(p, "patch")
  /\ UNCHANGED <<coll, seen, responses, outcome>>

SetAccepted_AnyStatus(p) ==
  /\ pc[p] = "patch" /\ reply[p].status # "none"
  /\ Respond(p, One(IloQuestion(cmd[p].question), cmd[p].value))
  /\ NextCollection(p)
  /\ UNCHANGED seen

SetAccepted(p) ==
  /\ Answered(p, "patch")
  /\ Respond(p, One(IloQuestion(cmd[p].question), cmd[p].value))
  /\ NextCollection(p)
  /\ UNCHANGED seen

GetAnswers(p) ==
  LET a == IloQuestion(cmd[p].question)
  IN  /\ Answered(p, "current") /\ cmd[p].op = "get"
      /\ IF Settable(reply[p].attrs, a)
         THEN Respond(p, One(a, TranslateResponse(cmd[p].question, reply[p].attrs[a])))
         ELSE UNCHANGED responses
      /\ NextCollection(p)
      /\ UNCHANGED seen

ShowAnswers(p) ==
  /\ Answered(p, "current") /\ cmd[p].op = "show"
  /\ Respond(p, OnlyStrings(reply[p].attrs))
  /\ NextCollection(p)
  /\ UNCHANGED seen

(* show_pending_attributes: the current settings, then the pending ones.   *)
PendingFirst(p) ==
  /\ Answered(p, "current") /\ cmd[p].op = "pending"
  /\ seen' = [seen EXCEPT ![p] = reply[p].attrs]
  /\ Goto(p, "pending")
  /\ UNCHANGED <<coll, responses, outcome>>

PendingAnswers(p) ==
  /\ Answered(p, "pending")
  /\ Respond(p, Changed(seen[p], reply[p].attrs))
  /\ seen' = [seen EXCEPT ![p] = <<>>]
  /\ NextCollection(p)

(* A refusal or the end of all retries: the responses so far are gone, the *)
(* PATCHes so far are not.                                                 *)
Fails(p) ==
  /\ pc[p] # "idle"
  /\ reply[p].status = "refused" \/ MayFail("lost")
  /\ Goto(p, "idle")
  /\ outcome' = [outcome EXCEPT ![p] = "err"]
  /\ responses' = [responses EXCEPT ![p] = <<>>]
  /\ seen' = [seen EXCEPT ![p] = <<>>]
  /\ UNCHANGED coll

(* Whatever exec returns, a packet of an earlier attempt may still be on   *)
(* its way to the BMC.                                                     *)
Returns(p) ==
  /\ \/ Identified(p) \/ SetSkips(p) \/ SetPatches(p) \/ SetAccepted(p)
     \/ GetAnswers(p) \/ ShowAnswers(p) \/ PendingFirst(p) \/ PendingAnswers(p)
     \/ Fails(p)
  /\ stray' = IF pc[p] = "patch" /\ MayFail("late")
              THEN stray \cup {Patch(p)} ELSE stray
  /\ reply' = [reply EXCEPT ![p] = NoReply]
  /\ UNCHANGED <<bmcVars, boots, cmd, ran>>

(* The host reboots: the pending settings become current.                  *)
Reboot ==
  /\ boots < MaxBoots
  /\ boots' = boots + 1
  /\ current' = pending
  /\ origin' = author
  /\ pc' = [p \in Procs |-> "idle"]
  /\ cmd' = [p \in Procs |-> NoCommand]
  /\ reply' = [p \in Procs |-> NoReply]
  /\ seen' = [p \in Procs |-> <<>>]
  /\ responses' = [p \in Procs |-> <<>>]
  /\ outcome' = [p \in Procs |-> "none"]
  /\ UNCHANGED <<pending, author, executed, stray, coll, ran>>

Next ==
  /\ \/ \E p \in Procs : Start(p) \/ Bmc(p) \/ Returns(p)
     \/ ExecuteStray \/ Reboot
  /\ UNCHANGED machine

Spec == Init /\ [][Next]_vars

-----------------------------------------------------------------------------
(* PROPERTIES                                                              *)

(* No command asks a machine for collections it does not have, and so no   *)
(* command of an iLO 4 fails with "Invalid ilo_machine_type"               *)
(* (requests.rs:98-206).                                                   *)
TypeOK ==
  /\ DOMAIN current = DOMAIN Shipped /\ DOMAIN pending = DOMAIN Shipped
  /\ \A c \in DOMAIN Shipped :
       DOMAIN current[c] = DOMAIN Shipped[c] /\ DOMAIN pending[c] = DOMAIN Shipped[c]
  /\ pc \in [Procs -> {"idle", "identify", "current", "patch", "pending"}]
  /\ coll \in [Procs -> DOMAIN Collections]
  /\ outcome \in [Procs -> {"none", "ok", "err"}]
  /\ \A p \in Procs :
       /\ pc[p] = "patch" => cmd[p].op = "set"
       /\ pc[p] \in {"current", "patch", "pending"} => Exists(Coll(p))

(* Only settings that are strings ever differ from what the machine came   *)
(* with, and on iLO 4 none of the keys that are no settings: whatever is   *)
(* asked, refused, repeated or late (requests.rs:26-37, exports.rs:430,    *)
(* 452, 478).                                                              *)
OnlySettingsChange ==
  \A c \in DOMAIN Shipped : \A a \in DOMAIN Shipped[c] :
    pending[c][a] # Shipped[c][a] =>
      /\ a \in StringAttrs
      /\ machine = "Ilo4" => a \notin ILO4_IGNORED_KEYS

(* What show_pending_attributes reports is not what is in force, and some  *)
(* set has asked for exactly that value of that setting of that collection *)
(* (exports.rs:364-406, 625-640).                                          *)
PendingWasAsked ==
  \A p \in Procs : cmd[p].op = "pending" =>
    \A k \in DOMAIN responses[p] :
      LET r == responses[p][k]
      IN  \A a \in DOMAIN r.attrs :
            /\ r.attrs[a] # current[r.coll][a]
            /\ \E w \in executed :
                 /\ w.coll = r.coll /\ IloQuestion(w.cmd.question) = a
                 /\ IloAnswer(w.cmd.question, w.cmd.value) = r.attrs[a]

(* get answers what is in force, never what is pending (exports.rs:526-538)*)
(* and in the canonical spelling: after a reboot, the value that was asked *)
(* for by the same name (translation.rs:122-124).                          *)
GetAnswersOrigin ==
  \A p \in Procs : cmd[p].op = "get" =>
    \A k \in DOMAIN responses[p] :
      LET r == responses[p][k]
          a == IloQuestion(cmd[p].question)
          w == origin[r.coll][a]
      IN  IF w = NoPatch
          THEN r.attrs[a] = TranslateResponse(cmd[p].question, Shipped[r.coll][a])
          ELSE w.cmd.question = cmd[p].question => Same(r.attrs[a], w.cmd.value)

(* A response with modified: true is about a PATCH of this very command    *)
(* that the BMC has executed (requests.rs:327-347); what is pending is     *)
(* still what it asked for, unless the PATCH of another command is.        *)
ModifiedMeansAccepted ==
  \A p \in Procs : cmd[p].op = "set" =>
    \A k \in DOMAIN responses[p] :
      LET r == responses[p][k]
          w == author[r.coll][IloQuestion(cmd[p].question)]
      IN  /\ [by |-> <<p, ran[p]>>, coll |-> r.coll, cmd |-> cmd[p]] \in executed
          /\ w.by # <<p, ran[p]>> => w.by # <<>>

(* A set works through the collections in order and stops at the first     *)
(* error: a PATCH of a command is executed, be it late or in vain, only    *)
(* when those of the collections before have been (exports.rs:450-503).    *)
PatchedInOrder ==
  \A w \in executed : \A i, j \in DOMAIN Collections :
    /\ i < j /\ Collections[j] = w.coll
    /\ Settable(Shipped[Collections[i]], IloQuestion(w.cmd.question))
    => [w EXCEPT !.coll = Collections[i]] \in executed

-----------------------------------------------------------------------------
(* What the proof of GetAnswersOrigin asks of the spellings of an answer:  *)
(* it survives the way to the BMC and back.  Names of one vendor value are *)
(* spellings of each other, and it is no vendor value unless it is a name  *)
(* as well.                                                                *)
Canonical(question, answer) ==
  Translated(question) =>
    \A i \in DOMAIN Replacements(question) :
      /\ \A j \in DOMAIN Replacements(question) :
           Same(Replacements(question)[i].value, Replacements(question)[j].value)
             => Same(Replacements(question)[i].key, Replacements(question)[j].key)
      /\ Same(Replacements(question)[i].value, answer)
           => \E j \in DOMAIN Replacements(question) :
                Same(Replacements(question)[j].key, answer)

=============================================================================
