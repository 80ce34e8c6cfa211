--------------------------- MODULE IloSettingsProofs ---------------------------
(***************************************************************************)
(* The iLO settings backend, for any number of processes, commands and     *)
(* reboots, any settings and any spellings database.                       *)
(***************************************************************************)
EXTENDS IloSettings, SequenceTheorems, WellFoundedInduction, TLAPS

(* The settings of a collection that set can change.                       *)
Settables(c) ==
  {a \in DOMAIN Shipped[c] \cap StringAttrs :
     machine = "Ilo4" => a \notin ILO4_IGNORED_KEYS}

Target(w) == IloQuestion(w.cmd.question)

Wish(w) == IloAnswer(w.cmd.question, w.cmd.value)

LegalPatch(w) ==
  w.by # <<>> /\ w.coll \in DOMAIN Shipped /\ Target(w) \in Settables(w.coll)

Shaped(settings) ==
  /\ DOMAIN settings = DOMAIN Shipped
  /\ \A c \in DOMAIN Shipped : DOMAIN settings[c] = DOMAIN Shipped[c]

Labels == {"idle", "identify", "current", "patch", "pending"}

(* What the BMC stores has the shape of what was shipped, and every patch  *)
(* is one of a setting that set can change.                                *)
BmcType ==
  /\ machine \in DOMAIN Settings
  /\ Shaped(current) /\ Shaped(pending) /\ Shaped(author) /\ Shaped(origin)
  /\ \A w \in executed \cup stray : LegalPatch(w)

ProcType ==
  /\ pc \in [Procs -> Labels]
  /\ coll \in [Procs -> DOMAIN Collections]
  /\ outcome \in [Procs -> {"none", "ok", "err"}]
  /\ DOMAIN cmd = Procs /\ DOMAIN reply = Procs /\ DOMAIN seen = Procs
  /\ DOMAIN responses = Procs /\ DOMAIN ran = Procs

(* Each setting is as shipped or as the patch it is from wants it.         *)
From(settings, source) ==
  \A c \in DOMAIN Shipped : \A a \in DOMAIN Shipped[c] :
    IF source[c][a] = NoPatch THEN settings[c][a] = Shipped[c][a]
    ELSE /\ source[c][a] \in executed
         /\ source[c][a].coll = c /\ Target(source[c][a]) = a
         /\ settings[c][a] = Wish(source[c][a])

StoredInv ==
  /\ From(pending, author) /\ From(current, origin)
  /\ \A c \in DOMAIN Shipped : \A a \in DOMAIN Shipped[c] :
       author[c][a] = NoPatch => origin[c][a] = NoPatch
  /\ \A w \in executed : author[w.coll][Target(w)] # NoPatch

(* Some set has asked for this value of a setting.                         *)
Asked(c, a, value) ==
  \E w \in executed : w.coll = c /\ Target(w) = a /\ Wish(w) = value

(* What a process knows of the BMC.                                        *)
CallInv(p) ==
  /\ pc[p] = "idle" => reply[p] = NoReply
  /\ pc[p] \in {"current", "patch", "pending"} => Exists(Coll(p))
  /\ pc[p] = "identify" => coll[p] = 1
  /\ Answered(p, "identify") => Exists(Coll(p))
  /\ Answered(p, "current") => reply[p].attrs = Visible(Coll(p), current)
  /\ pc[p] = "patch" => cmd[p].op = "set" /\ LegalPatch(Patch(p))
  /\ Answered(p, "patch") => Patch(p) \in executed
  /\ pc[p] = "pending" => cmd[p].op = "pending" /\ seen[p] = Visible(Coll(p), current)
  /\ Answered(p, "pending") =>
       /\ DOMAIN reply[p].attrs = DOMAIN Visible(Coll(p), current)
       /\ \A a \in DOMAIN reply[p].attrs :
            \/ reply[p].attrs[a] = current[Coll(p)][a]
            \/ Asked(Coll(p), a, reply[p].attrs[a])

PatchOf(p, c) == [by |-> <<p, ran[p]>>, coll |-> c, cmd |-> cmd[p]]

(* The collections before a patch's have been patched.                     *)
InOrder(w) ==
  \A i, j \in DOMAIN Collections :
    /\ i < j /\ Collections[j] = w.coll
    /\ Settable(Shipped[Collections[i]], Target(w))
    => [w EXCEPT !.coll = Collections[i]] \in executed

OrderInv == \A w \in executed \cup stray : InOrder(w)

(* A set has dealt with the collections before the one at hand.            *)
DealtWith(p) ==
  pc[p] \in {"current", "patch"} /\ cmd[p].op = "set" =>
    \A i \in DOMAIN Collections :
      i < coll[p] /\ Settable(Shipped[Collections[i]], IloQuestion(cmd[p].question))
        => PatchOf(p, Collections[i]) \in executed

(* A response of each command.                                             *)
ResponseOf(p, r) ==
  /\ r.coll \in DOMAIN Shipped
  /\ cmd[p].op = "set" =>
       /\ PatchOf(p, r.coll) \in executed
       /\ IloQuestion(cmd[p].question) \in Settables(r.coll)
  /\ cmd[p].op = "get" =>
       /\ IloQuestion(cmd[p].question) \in DOMAIN Shipped[r.coll]
       /\ r.attrs[IloQuestion(cmd[p].question)] =
            TranslateResponse(cmd[p].question,
                              current[r.coll][IloQuestion(cmd[p].question)])
  /\ cmd[p].op = "pending" => \A x \in DOMAIN r.attrs :
       r.attrs[x] # current[r.coll][x] /\ Asked(r.coll, x, r.attrs[x])

(* A sequence, of whatever.                                                *)
IsList(s) == s \in Seq({s[k] : k \in DOMAIN s})

ResponsesInv(p) ==
  IsList(responses[p]) /\ \A k \in DOMAIN responses[p] : ResponseOf(p, responses[p][k])

ProcInv(p) == CallInv(p) /\ DealtWith(p) /\ ResponsesInv(p)

IloInv ==
  /\ BmcType /\ ProcType /\ StoredInv /\ OrderInv
  /\ \A p \in Procs : ProcInv(p)

-----------------------------------------------------------------------------
LEMMA CollectionFacts ==
  /\ DOMAIN Collections \subseteq 1..3 /\ 1 \in DOMAIN Collections
  /\ Len(Collections) \in {1, 3} /\ DOMAIN Collections = 1..Len(Collections)
  /\ machine = "Ilo4" => DOMAIN Collections = {1}
  /\ \A i \in DOMAIN Collections : i > 1 => Collections[i] \in {"debug", "service"}
  /\ \A i, j \in DOMAIN Collections : Collections[i] = Collections[j] => i = j
<1>1. CASE machine = "Ilo4"
  BY <1>1 DEF Collections
<1>2. CASE machine # "Ilo4"
  <2>1. Collections = <<"bios", "debug", "service">>
    BY <1>2 DEF Collections
  <2>2. QED
    BY <1>2, <2>1
<1>3. QED
  BY <1>1, <1>2

LEMMA ListAppend ==
  ASSUME NEW s, IsList(s), NEW e
  PROVE  /\ IsList(Append(s, e))
         /\ \A k \in DOMAIN Append(s, e) :
              Append(s, e)[k] = e \/ (k \in DOMAIN s /\ Append(s, e)[k] = s[k])
<1> DEFINE S == {s[k] : k \in DOMAIN s} \cup {e}
           t == Append(s, e)
<1>1. s \in Seq(S)
  <2>1. {s[k] : k \in DOMAIN s} \subseteq S
    OBVIOUS
  <2>2. QED
    BY <2>1 DEF IsList
<1>2. /\ t \in Seq(S) /\ Len(t) = Len(s) + 1 /\ Len(s) \in Nat
      /\ \A i \in 1..Len(s) : t[i] = s[i]
      /\ t[Len(s) + 1] = e
  BY <1>1, AppendProperties, LenProperties
<1>3. DOMAIN t = 1..Len(s) + 1 /\ DOMAIN s = 1..Len(s)
  BY <1>1, <1>2, LenProperties
<1>4. S \subseteq {t[k] : k \in DOMAIN t}
  <2>1. Len(s) + 1 \in DOMAIN t /\ DOMAIN s \subseteq DOMAIN t
    BY <1>2, <1>3
  <2>2. QED
    BY <1>2, <1>3, <2>1
<1>5. IsList(t)
  BY <1>2, <1>4 DEF IsList
<1>6. QED
  BY <1>2, <1>3, <1>5

LEMMA EmptyList == IsList(<<>>) /\ DOMAIN <<>> = {}
<1>1. <<>> \in Seq({<<>>[k] : k \in DOMAIN <<>>})
  BY EmptySeq
<1>2. QED
  BY <1>1 DEF IsList

(* A patch with an author is not NoPatch.                                  *)
LEMMA PatchHasAuthor ==
  ASSUME NEW p, NEW c PROVE PatchOf(p, c) # NoPatch /\ PatchOf(p, c).by # <<>>
<1>1. Len(<<p, ran[p]>>) = 2 /\ Len(<<>>) = 0
  OBVIOUS
<1>2. QED
  BY <1>1 DEF PatchOf, NoPatch

LEMMA InitIlo == Init => IloInv
<1> SUFFICES ASSUME Init PROVE IloInv
  OBVIOUS
<1>1. BmcType /\ ProcType
  BY CollectionFacts DEF Init, BmcType, ProcType, Shaped, Shipped, Labels
<1>2. StoredInv
  BY DEF Init, StoredInv, From
<1>3. OrderInv
  BY DEF Init, OrderInv
<1>4. \A p \in Procs : ProcInv(p)
  BY EmptyList DEF Init, ProcInv, CallInv, DealtWith, ResponsesInv, Answered
<1>5. QED
  BY <1>1, <1>2, <1>3, <1>4 DEF IloInv

-----------------------------------------------------------------------------
(* While the machine stays what it is, so does what it is shipped with.    *)
LEMMA Fixed ==
  ASSUME UNCHANGED machine
  PROVE  /\ Shipped' = Shipped /\ Collections' = Collections
         /\ \A c : Settables(c)' = Settables(c)
         /\ \A w : LegalPatch(w)' = LegalPatch(w)
         /\ \A c, s : Visible(c, s)' = Visible(c, s)
<1>1. Shipped' = Shipped /\ Collections' = Collections
  BY DEF Shipped, Collections
<1>2. \A c : Settables(c)' = Settables(c)
  BY <1>1 DEF Settables
<1>3. QED
  BY <1>1, <1>2 DEF LegalPatch, Visible

(* What is asked for stays asked for.                                      *)
LEMMA AskedStays ==
  ASSUME executed \subseteq executed', NEW c, NEW a, NEW value, Asked(c, a, value)
  PROVE  Asked(c, a, value)'
  BY DEF Asked, Target, Wish

LEMMA ResponseKeeps ==
  ASSUME NEW q, NEW r, ResponseOf(q, r), UNCHANGED <<machine, current>>,
         executed \subseteq executed', cmd'[q] = cmd[q], ran'[q] = ran[q]
  PROVE  ResponseOf(q, r)'
<1> DEFINE a == IloQuestion(cmd[q].question)
<1>1. /\ Shipped' = Shipped /\ Settables(r.coll)' = Settables(r.coll)
      /\ PatchOf(q, r.coll)' = PatchOf(q, r.coll)
  BY Fixed DEF PatchOf
<1>2. r.coll \in DOMAIN Shipped'
  BY <1>1 DEF ResponseOf
<1>3. cmd'[q].op = "set" =>
        /\ PatchOf(q, r.coll)' \in executed'
        /\ IloQuestion(cmd'[q].question) \in Settables(r.coll)'
  BY <1>1 DEF ResponseOf
<1>4. cmd'[q].op = "get" =>
        /\ IloQuestion(cmd'[q].question) \in DOMAIN Shipped'[r.coll]
        /\ r.attrs[IloQuestion(cmd'[q].question)] =
             TranslateResponse(cmd'[q].question,
                               current'[r.coll][IloQuestion(cmd'[q].question)])
  BY <1>1 DEF ResponseOf
<1>5. cmd'[q].op = "pending" => \A x \in DOMAIN r.attrs :
        r.attrs[x] # current'[r.coll][x] /\ Asked(r.coll, x, r.attrs[x])'
  BY AskedStays DEF ResponseOf
<1>6. QED
  BY <1>2, <1>3, <1>4, <1>5 DEF ResponseOf

(* So do a process's responses and what it has dealt with, as long as it   *)
(* does not go on.                                                         *)
LEMMA WorkKeeps ==
  ASSUME NEW q, ProcInv(q), UNCHANGED <<machine, current>>, executed \subseteq executed',
         pc'[q] = pc[q], cmd'[q] = cmd[q], coll'[q] = coll[q],
         responses'[q] = responses[q], ran'[q] = ran[q]
  PROVE  DealtWith(q)' /\ ResponsesInv(q)'
<1>1. \A c : PatchOf(q, c)' = PatchOf(q, c)
  BY DEF PatchOf
<1>2. DealtWith(q)'
  BY <1>1, Fixed DEF ProcInv, DealtWith, Settable
<1>3. ResponsesInv(q)'
  <2>1. \A k \in DOMAIN responses[q] : ResponseOf(q, responses[q][k])
    BY DEF ProcInv, ResponsesInv
  <2>2. ASSUME NEW r, ResponseOf(q, r) PROVE ResponseOf(q, r)'
    BY <2>2, ResponseKeeps
  <2>3. \A k \in DOMAIN responses'[q] : ResponseOf(q, responses[q][k])'
    BY <2>1, <2>2 DEF ResponseOf, Asked
  <2>4. QED
    BY <2>3 DEF ProcInv, ResponsesInv, IsList
<1>4. QED
  BY <1>2, <1>3

(* What a process knows stays true while others act on the BMC.            *)
LEMMA ProcKeeps ==
  ASSUME NEW q, ProcInv(q), UNCHANGED <<machine, current>>, executed \subseteq executed',
         pc'[q] = pc[q], cmd'[q] = cmd[q], coll'[q] = coll[q], reply'[q] = reply[q],
         seen'[q] = seen[q], responses'[q] = responses[q], ran'[q] = ran[q]
  PROVE  ProcInv(q)'
<1>1. /\ Coll(q)' = Coll(q) /\ Patch(q)' = Patch(q)
      /\ \A c : Exists(c)' = Exists(c)
      /\ \A l : Answered(q, l)' = Answered(q, l)
  BY Fixed DEF Coll, Patch, Exists, Answered
<1>2. Visible(Coll(q), current)' = Visible(Coll(q), current)
  BY <1>1 DEF Visible
<1>3. LegalPatch(Patch(q))' = LegalPatch(Patch(q))
  BY <1>1, Fixed DEF LegalPatch, Target
<1>4. Answered(q, "pending") =>
        \A a \in DOMAIN reply[q].attrs :
           \/ reply[q].attrs[a] = current[Coll(q)][a]
           \/ Asked(Coll(q), a, reply[q].attrs[a])'
  BY AskedStays, <1>1 DEF ProcInv, CallInv, Asked
<1>5. CallInv(q)'
  BY <1>1, <1>2, <1>3, <1>4 DEF ProcInv, CallInv, Asked
<1>6. QED
  BY <1>5, WorkKeeps DEF ProcInv

(* A patch changes the one setting it is about.                            *)
LEMMA ApplyStores ==
  ASSUME BmcType, StoredInv, NEW w, LegalPatch(w), Apply(w),
         UNCHANGED <<machine, current, origin>>
  PROVE  StoredInv' /\ Shaped(pending)' /\ Shaped(author)'
<1> DEFINE c == w.coll
           a == Target(w)
<1>1. /\ pending' = [pending EXCEPT ![c][a] = Wish(w)]
      /\ author' = [author EXCEPT ![c][a] = w]
      /\ executed' = executed \cup {w}
  BY DEF Apply, Target, Wish
<1>2. c \in DOMAIN Shipped /\ a \in DOMAIN Shipped[c] /\ w # NoPatch
  BY DEF LegalPatch, Settables, NoPatch
<1>3. Shaped(pending) /\ Shaped(author) /\ Shipped' = Shipped
  BY Fixed DEF BmcType
<1> HIDE DEF c, a
<1>4. Shaped(pending)' /\ Shaped(author)'
  BY <1>1, <1>3 DEF Shaped
<1>5. /\ pending'[c][a] = Wish(w) /\ author'[c][a] = w
      /\ \A d \in DOMAIN Shipped : \A b \in DOMAIN Shipped[d] :
           d # c \/ b # a => pending'[d][b] = pending[d][b] /\ author'[d][b] = author[d][b]
  BY <1>1, <1>2, <1>3 DEF Shaped
<1>6. From(pending, author)'
  <2> SUFFICES ASSUME NEW d \in DOMAIN Shipped, NEW b \in DOMAIN Shipped[d]
               PROVE  IF author'[d][b] = NoPatch THEN pending'[d][b] = Shipped[d][b]
                      ELSE /\ author'[d][b] \in executed'
                           /\ author'[d][b].coll = d /\ Target(author'[d][b]) = b
                           /\ pending'[d][b] = Wish(author'[d][b])
    BY <1>3 DEF From, Target, Wish
  <2>1. CASE d = c /\ b = a
    BY <1>1, <1>2, <1>5, <2>1 DEF c, a
  <2>2. CASE d # c \/ b # a
    BY <1>1, <1>5, <2>2 DEF StoredInv, From
  <2>3. QED
    BY <2>1, <2>2
<1>7. From(current, origin)'
  BY <1>1, <1>3 DEF StoredInv, From, Target, Wish
<1>8. \A d \in DOMAIN Shipped' : \A b \in DOMAIN Shipped'[d] :
        author'[d][b] = NoPatch => origin'[d][b] = NoPatch
  BY <1>2, <1>3, <1>5 DEF StoredInv
<1>9. ASSUME NEW v \in executed' PROVE author'[v.coll][Target(v)] # NoPatch
  <2>1. CASE v.coll = c /\ Target(v) = a
    BY <1>2, <1>5, <2>1
  <2>2. CASE v.coll # c \/ Target(v) # a
    <3>1. v \in executed
      BY <1>1, <2>2 DEF c, a
    <3>2. v.coll \in DOMAIN Shipped /\ Target(v) \in DOMAIN Shipped[v.coll]
      BY <3>1 DEF BmcType, LegalPatch, Settables
    <3>3. QED
      BY <1>5, <2>2, <3>1, <3>2 DEF StoredInv
  <2>3. QED
    BY <2>1, <2>2
<1>10. QED
  BY <1>4, <1>6, <1>7, <1>8, <1>9 DEF StoredInv, Target

LEMMA OrderKeeps ==
  ASSUME NEW w, InOrder(w), UNCHANGED machine, executed \subseteq executed'
  PROVE  InOrder(w)'
  BY Fixed DEF InOrder, Settable, Target

(* The patch a process is about to make.                                   *)
LEMMA PatchReady ==
  ASSUME ProcType, NEW p \in Procs, ProcInv(p), pc[p] = "patch"
  PROVE  /\ LegalPatch(Patch(p)) /\ InOrder(Patch(p))
         /\ Patch(p) = PatchOf(p, Coll(p)) /\ cmd[p].op = "set"
<1>1. LegalPatch(Patch(p)) /\ cmd[p].op = "set" /\ Patch(p) = PatchOf(p, Coll(p))
  BY DEF ProcInv, CallInv, Patch, PatchOf
<1>2. ASSUME NEW i \in DOMAIN Collections, NEW j \in DOMAIN Collections,
             i < j, Collections[j] = Patch(p).coll,
             Settable(Shipped[Collections[i]], Target(Patch(p)))
      PROVE  [Patch(p) EXCEPT !.coll = Collections[i]] \in executed
  <2>1. Collections[j] = Collections[coll[p]] /\ coll[p] \in DOMAIN Collections
    BY <1>2 DEF Patch, Coll, ProcType
  <2>2. j = coll[p]
    BY <2>1, CollectionFacts
  <2>3. PatchOf(p, Collections[i]) \in executed
    BY <1>1, <1>2, <2>2 DEF ProcInv, DealtWith, Target, Patch
  <2>4. [Patch(p) EXCEPT !.coll = Collections[i]] = PatchOf(p, Collections[i])
    BY DEF Patch, PatchOf
  <2>5. QED
    BY <2>3, <2>4
<1>3. QED
  BY <1>1, <1>2 DEF InOrder

(* What the BMC stores when it executes a patch, and that all processes    *)
(* but the one whose call it is know as much as before.                    *)
LEMMA ApplyKeeps ==
  ASSUME BmcType, StoredInv, OrderInv, NEW w, LegalPatch(w), InOrder(w), Apply(w),
         UNCHANGED <<machine, current, origin>>, stray' \subseteq stray
  PROVE  BmcType' /\ StoredInv' /\ OrderInv' /\ executed \subseteq executed'
<1>1. executed' = executed \cup {w} /\ executed \subseteq executed'
  BY DEF Apply
<1>2. StoredInv' /\ Shaped(pending)' /\ Shaped(author)'
  BY ApplyStores
<1>3. Shaped(current)' /\ Shaped(origin)'
  BY Fixed DEF BmcType, Shaped
<1>4. \A v \in executed' \cup stray' : LegalPatch(v)'
  BY <1>1, Fixed DEF BmcType
<1>5. \A v \in executed' \cup stray' : InOrder(v)'
  BY <1>1, OrderKeeps DEF OrderInv
<1>6. QED
  BY <1>1, <1>2, <1>3, <1>4, <1>5 DEF BmcType, OrderInv

LEMMA StrayKeeps ==
  ASSUME IloInv, ExecuteStray, UNCHANGED machine
  PROVE  IloInv'
<1>1. PICK w \in stray : Apply(w) /\ stray' = stray \ {w}
  BY DEF ExecuteStray
<1>2. UNCHANGED <<current, origin, boots, procVars>>
  BY DEF ExecuteStray
<1>3. LegalPatch(w) /\ InOrder(w)
  BY DEF IloInv, BmcType, OrderInv
<1>4. BmcType' /\ StoredInv' /\ OrderInv' /\ executed \subseteq executed'
  BY <1>1, <1>2, <1>3, ApplyKeeps DEF IloInv
<1>5. ProcType'
  BY <1>2, Fixed DEF IloInv, ProcType, procVars
<1>6. \A q \in Procs : ProcInv(q)'
  BY <1>2, <1>4, ProcKeeps DEF IloInv, procVars
<1>7. QED
  BY <1>4, <1>5, <1>6 DEF IloInv

(* The host reboots: nobody is left to know anything.                      *)
LEMMA RebootKeeps ==
  ASSUME IloInv, Reboot, UNCHANGED machine
  PROVE  IloInv'
<1>1. /\ current' = pending /\ origin' = author
      /\ UNCHANGED <<pending, author, executed, stray, coll, ran>>
  BY DEF Reboot
<1>2. BmcType' /\ OrderInv'
  <2>1. BmcType'
    BY <1>1, Fixed DEF IloInv, BmcType, Shaped
  <2>2. \A w \in executed' \cup stray' : InOrder(w)'
    BY <1>1, OrderKeeps DEF IloInv, OrderInv
  <2>3. QED
    BY <2>1, <2>2 DEF OrderInv
<1>3. StoredInv'
  BY <1>1, Fixed DEF IloInv, StoredInv, From, Target, Wish
<1>4. ProcType'
  BY <1>1, Fixed DEF IloInv, ProcType, Reboot, Labels
<1>5. ASSUME NEW q \in Procs PROVE ProcInv(q)'
  <2>1. /\ pc'[q] = "idle" /\ reply'[q] = NoReply /\ responses'[q] = <<>>
    BY DEF Reboot
  <2>2. NoReply.status # "ok"
    BY DEF NoReply
  <2>3. CallInv(q)' /\ DealtWith(q)'
    BY <2>1 DEF CallInv, DealtWith, Answered
  <2>4. ResponsesInv(q)'
    BY <2>1, EmptyList DEF ResponsesInv, IsList
  <2>5. QED
    BY <2>3, <2>4 DEF ProcInv
<1>6. QED
  BY <1>2, <1>3, <1>4, <1>5 DEF IloInv

LEMMA StartKeeps ==
  ASSUME IloInv, NEW p \in Procs, Start(p), UNCHANGED machine
  PROVE  IloInv'
<1>1. UNCHANGED <<bmcVars, stray, reply, seen>> /\ pc[p] = "idle"
  BY DEF Start
<1>2. ProcType
  BY DEF IloInv
<1>3. BmcType' /\ OrderInv' /\ StoredInv'
  <2>1. BmcType'
    BY <1>1, Fixed DEF IloInv, BmcType, Shaped, bmcVars
  <2>2. \A w \in executed' \cup stray' : InOrder(w)'
    BY <1>1, OrderKeeps DEF IloInv, OrderInv, bmcVars
  <2>3. StoredInv'
    BY <1>1, Fixed DEF IloInv, StoredInv, From, Target, Wish, bmcVars
  <2>4. QED
    BY <2>1, <2>2, <2>3 DEF OrderInv
<1>4. ProcType'
  BY <1>1, <1>2, Fixed, CollectionFacts DEF ProcType, Start, Labels
<1>5. ProcInv(p)'
  <2>1. /\ pc'[p] = "identify" /\ reply'[p] = reply[p] /\ responses'[p] = <<>>
        /\ coll'[p] = 1
    BY <1>1, <1>2 DEF Start, ProcType
  <2>2. reply[p] = NoReply /\ NoReply.status # "ok"
    BY <1>1 DEF IloInv, ProcInv, CallInv, NoReply
  <2>3. CallInv(p)' /\ DealtWith(p)'
    BY <2>1, <2>2 DEF CallInv, DealtWith, Answered
  <2>4. ResponsesInv(p)'
    BY <2>1, EmptyList DEF ResponsesInv, IsList
  <2>5. QED
    BY <2>3, <2>4 DEF ProcInv
<1>6. ASSUME NEW q \in Procs \ {p} PROVE ProcInv(q)'
  <2>1. /\ pc'[q] = pc[q] /\ cmd'[q] = cmd[q] /\ coll'[q] = coll[q]
        /\ responses'[q] = responses[q] /\ ran'[q] = ran[q]
    BY <1>2 DEF Start, ProcType
  <2>2. QED
    BY <1>1, <2>1, ProcKeeps DEF IloInv, bmcVars
<1>7. QED
  BY <1>3, <1>4, <1>5, <1>6 DEF IloInv

(* A call is executed: the BMC's reply says what is true.                  *)
LEMMA BmcKeeps ==
  ASSUME IloInv, NEW p \in Procs, Bmc(p), UNCHANGED machine
  PROVE  IloInv'
<1>1. /\ UNCHANGED <<stray, boots, pc, cmd, coll, seen, responses, outcome, ran>>
      /\ pc[p] # "idle" /\ UNCHANGED <<current, origin>>
      /\ \E r : reply' = [reply EXCEPT ![p] = r]
  BY DEF Bmc, ExecuteGet, ExecutePatch, Refuse, Calling, Replies, bmcVars
<1>2. ProcType /\ ProcInv(p)
  BY DEF IloInv
<1>3. BmcType' /\ OrderInv' /\ StoredInv' /\ executed \subseteq executed'
  <2>1. CASE ExecutePatch(p)
    <3>1. Apply(Patch(p)) /\ pc[p] = "patch"
      BY <2>1 DEF ExecutePatch
    <3>2. QED
      BY <1>1, <1>2, <3>1, PatchReady, ApplyKeeps DEF IloInv
  <2>2. CASE UNCHANGED bmcVars
    <3>1. BmcType'
      BY <1>1, <2>2, Fixed DEF IloInv, BmcType, Shaped, bmcVars
    <3>2. \A w \in executed' \cup stray' : InOrder(w)'
      BY <1>1, <2>2, OrderKeeps DEF IloInv, OrderInv, bmcVars
    <3>3. StoredInv'
      BY <1>1, <2>2, Fixed DEF IloInv, StoredInv, From, Target, Wish, bmcVars
    <3>4. QED
      BY <2>2, <3>1, <3>2, <3>3 DEF OrderInv, bmcVars
  <2>3. QED
    BY <2>1, <2>2 DEF Bmc, ExecuteGet, Refuse
<1>4. ProcType'
  BY <1>1, <1>2, Fixed DEF ProcType
<1>5. ProcInv(p)'
  <2>1. DealtWith(p)' /\ ResponsesInv(p)'
    BY <1>1, <1>2, <1>3, WorkKeeps
  <2>2. /\ Coll(p)' = Coll(p) /\ Patch(p)' = Patch(p) /\ Shipped' = Shipped
        /\ LegalPatch(Patch(p))' = LegalPatch(Patch(p))
        /\ Exists(Coll(p))' = Exists(Coll(p))
        /\ Visible(Coll(p), current)' = Visible(Coll(p), current)
    BY <1>1, Fixed DEF Coll, Patch, Exists, LegalPatch, Target, Visible
  <2>3. CASE ExecuteGet(p)
    <3>1. /\ Exists(Coll(p)) /\ pc[p] \in {"identify", "current", "pending"}
          /\ reply'[p].attrs = IF pc[p] = "identify" THEN <<>>
                               ELSE Visible(Coll(p), Source(p))
          /\ UNCHANGED bmcVars
      BY <1>2, <2>3 DEF ExecuteGet, Replies, ProcType
    <3>2. ASSUME pc[p] = "pending"
          PROVE  /\ DOMAIN reply'[p].attrs = DOMAIN Visible(Coll(p), current)
                 /\ \A a \in DOMAIN reply'[p].attrs :
                      \/ reply'[p].attrs[a] = current[Coll(p)][a]
                      \/ Asked(Coll(p), a, reply'[p].attrs[a])
      <4>1. reply'[p].attrs = Visible(Coll(p), pending)
        BY <3>1, <3>2 DEF Source
      <4>2. /\ Coll(p) \in DOMAIN Shipped
            /\ DOMAIN pending[Coll(p)] = DOMAIN Shipped[Coll(p)]
            /\ DOMAIN current[Coll(p)] = DOMAIN Shipped[Coll(p)]
        BY <3>1 DEF Exists, IloInv, BmcType, Shaped
      <4>3. DOMAIN Visible(Coll(p), pending) = DOMAIN Visible(Coll(p), current)
        BY <4>2 DEF Visible
      <4>4. ASSUME NEW a \in DOMAIN Visible(Coll(p), pending)
            PROVE  \/ pending[Coll(p)][a] = current[Coll(p)][a]
                   \/ Asked(Coll(p), a, pending[Coll(p)][a])
        <5>1. a \in DOMAIN Shipped[Coll(p)]
          BY <4>2 DEF Visible
        <5>2. CASE author[Coll(p)][a] = NoPatch
          BY <4>2, <5>1, <5>2 DEF IloInv, StoredInv, From
        <5>3. CASE author[Coll(p)][a] # NoPatch
          BY <4>2, <5>1, <5>3 DEF IloInv, StoredInv, From, Asked
        <5>4. QED
          BY <5>2, <5>3
      <4>5. \A a \in DOMAIN Visible(Coll(p), pending) :
              Visible(Coll(p), pending)[a] = pending[Coll(p)][a]
        BY DEF Visible
      <4>6. QED
        BY <4>1, <4>3, <4>4, <4>5
    <3>3. pc[p] = "current" => reply'[p].attrs = Visible(Coll(p), current)
      BY <3>1 DEF Source
    <3>4. ASSUME pc[p] = "pending"
          PROVE  (/\ DOMAIN reply[p].attrs = DOMAIN Visible(Coll(p), current)
                  /\ \A a \in DOMAIN reply[p].attrs :
                       \/ reply[p].attrs[a] = current[Coll(p)][a]
                       \/ Asked(Coll(p), a, reply[p].attrs[a]))'
      BY <1>1, <2>2, <3>1, <3>2, <3>4 DEF Asked, bmcVars
    <3>5. CallInv(p)'
      BY <1>1, <1>2, <2>2, <3>1, <3>3, <3>4 DEF ProcInv, CallInv, Answered
    <3>6. QED
      BY <2>1, <3>5 DEF ProcInv
  <2>4. CASE ExecutePatch(p)
    <3>1. pc[p] = "patch" /\ executed' = executed \cup {Patch(p)}
      BY <2>4 DEF ExecutePatch, Apply
    <3>2. CallInv(p)'
      BY <1>1, <1>2, <2>2, <3>1 DEF ProcInv, CallInv, Answered
    <3>3. QED
      BY <2>1, <3>2 DEF ProcInv
  <2>5. CASE Refuse(p)
    <3>1. reply'[p].status = "refused"
      BY <1>2, <2>5 DEF Refuse, Replies, ProcType
    <3>2. CallInv(p)'
      BY <1>1, <1>2, <2>2, <3>1 DEF ProcInv, CallInv, Answered
    <3>3. QED
      BY <2>1, <3>2 DEF ProcInv
  <2>6. QED
    BY <2>3, <2>4, <2>5 DEF Bmc
<1>6. ASSUME NEW q \in Procs \ {p} PROVE ProcInv(q)'
  <2>1. reply'[q] = reply[q]
    BY <1>1, <1>2 DEF ProcType
  <2>2. QED
    BY <1>1, <1>3, <2>1, ProcKeeps DEF IloInv
<1>7. QED
  BY <1>3, <1>4, <1>5, <1>6 DEF IloInv

-----------------------------------------------------------------------------
LEMMA CollectionExists ==
  ASSUME BmcType, NEW i \in DOMAIN Collections, i > 1
  PROVE  Exists(Collections[i])
<1>1. machine # "Ilo4" /\ Collections[i] \in {"debug", "service"}
  BY CollectionFacts
<1>2. QED
  BY <1>1, CollectionsAssumption DEF Exists, Shipped, BmcType

(* On to the next collection: the one at hand is dealt with.               *)
LEMMA NextKeeps ==
  ASSUME BmcType, ProcType, NEW p \in Procs, ProcInv(p), NextCollection(p),
         UNCHANGED <<machine, cmd, ran, executed>>, reply'[p] = NoReply,
         cmd[p].op = "set" =>
           /\ pc[p] \in {"current", "patch"}
           /\ /\ coll[p] < Len(Collections)
              /\ Settable(Shipped[Coll(p)], IloQuestion(cmd[p].question))
              => PatchOf(p, Coll(p)) \in executed
  PROVE  CallInv(p)' /\ DealtWith(p)'
<1>1. NoReply.status # "ok" /\ Shipped' = Shipped /\ Collections' = Collections
  BY Fixed DEF NoReply
<1>2. CASE coll[p] < Len(Collections)
  <2>1. pc'[p] = "current" /\ coll'[p] = coll[p] + 1
    BY <1>2 DEF NextCollection, Goto, ProcType
  <2>2. coll[p] \in Nat /\ coll[p] + 1 \in DOMAIN Collections /\ coll[p] + 1 > 1
    BY <1>2, CollectionFacts DEF ProcType
  <2>3. Exists(Coll(p))'
    BY <1>1, <2>1, <2>2, CollectionExists DEF Coll, Exists
  <2>4. CallInv(p)'
    BY <1>1, <2>1, <2>3 DEF CallInv, Answered
  <2>5. ASSUME cmd[p].op = "set", NEW i \in DOMAIN Collections, i < coll[p] + 1,
               Settable(Shipped[Collections[i]], IloQuestion(cmd[p].question))
        PROVE  PatchOf(p, Collections[i]) \in executed
    <3>1. i < coll[p] \/ i = coll[p]
      BY <2>2, <2>5, CollectionFacts
    <3>2. QED
      BY <1>2, <2>5, <3>1 DEF ProcInv, DealtWith, Coll
  <2>6. DealtWith(p)'
    BY <1>1, <2>1, <2>5 DEF DealtWith, PatchOf, Settable
  <2>7. QED
    BY <2>4, <2>6
<1>3. CASE ~(coll[p] < Len(Collections))
  <2>1. pc'[p] = "idle"
    BY <1>3 DEF NextCollection, Goto, ProcType
  <2>2. QED
    BY <1>1, <2>1 DEF CallInv, DealtWith, Answered
<1>4. QED
  BY <1>2, <1>3

LEMMA RespondKeeps ==
  ASSUME ProcType, NEW p \in Procs, ProcInv(p), NEW attrs, Respond(p, attrs),
         ResponseOf(p, [coll |-> Coll(p), attrs |-> attrs]),
         UNCHANGED <<machine, current, cmd, ran, executed>>
  PROVE  ResponsesInv(p)'
<1> DEFINE new == [coll |-> Coll(p), attrs |-> attrs]
<1>1. responses'[p] = Append(responses[p], new) /\ IsList(responses[p])
  BY DEF Respond, ProcType, ProcInv, ResponsesInv
<1>2. ResponseOf(p, new) /\ \A k \in DOMAIN responses[p] : ResponseOf(p, responses[p][k])
  BY DEF ProcInv, ResponsesInv
<1> HIDE DEF new
<1>3. /\ IsList(responses'[p])
      /\ \A k \in DOMAIN responses'[p] : ResponseOf(p, responses'[p][k])
  BY <1>1, <1>2, ListAppend
<1>4. ASSUME NEW r, ResponseOf(p, r) PROVE ResponseOf(p, r)'
  BY <1>4, ResponseKeeps
<1>5. \A k \in DOMAIN responses'[p] : ResponseOf(p, responses[p][k])'
  BY <1>3, <1>4 DEF ResponseOf, Asked
<1>6. QED
  BY <1>3, <1>5 DEF ResponsesInv, IsList

(* What a GET of the current settings tells of a setting.                  *)
LEMMA VisibleFacts ==
  ASSUME BmcType, NEW c \in DOMAIN Shipped
  PROVE  /\ \A a : Settable(Visible(c, current), a) <=> a \in Settables(c)
         /\ \A a \in DOMAIN Visible(c, current) :
              a \in DOMAIN Shipped[c] /\ Visible(c, current)[a] = current[c][a]
         /\ machine # "Ilo4" =>
              \A a : Settable(Visible(c, current), a) <=> Settable(Shipped[c], a)
<1>1. DOMAIN current[c] = DOMAIN Shipped[c]
  BY DEF BmcType, Shaped
<1>2. QED
  BY <1>1 DEF Visible, Settable, Settables

(* A call returns: what the process does with the reply.                   *)
LEMMA ReturnsOwn ==
  ASSUME BmcType, ProcType, StoredInv, NEW p \in Procs, ProcInv(p), Returns(p),
         UNCHANGED machine
  PROVE  ProcInv(p)'
<1>1. /\ UNCHANGED <<current, executed, cmd, ran>> /\ reply'[p] = NoReply
      /\ NoReply.status # "ok"
  BY DEF Returns, bmcVars, ProcType, NoReply
<1>2. /\ Shipped' = Shipped /\ Collections' = Collections
      /\ CallInv(p) /\ DealtWith(p) /\ ResponsesInv(p)
  BY Fixed DEF ProcInv
<1>3. ASSUME responses'[p] = responses[p] PROVE ResponsesInv(p)'
  <2>1. \A k \in DOMAIN responses[p] : ResponseOf(p, responses[p][k])
    BY <1>2 DEF ResponsesInv
  <2>2. ASSUME NEW r, ResponseOf(p, r) PROVE ResponseOf(p, r)'
    BY <1>1, <2>2, ResponseKeeps
  <2>3. \A k \in DOMAIN responses'[p] : ResponseOf(p, responses[p][k])'
    BY <1>3, <2>1, <2>2 DEF ResponseOf, Asked
  <2>4. QED
    BY <1>2, <1>3, <2>3 DEF ResponsesInv, IsList
<1>4. Answered(p, "current") =>
        /\ Coll(p) \in DOMAIN Shipped /\ reply[p].attrs = Visible(Coll(p), current)
  BY <1>2 DEF CallInv, Answered, Exists
<1>5. CASE Identified(p)
  <2>1. /\ pc'[p] = "current" /\ coll'[p] = coll[p] /\ responses'[p] = responses[p]
        /\ pc[p] = "identify" /\ Answered(p, "identify")
    BY <1>5 DEF Identified, Goto, ProcType, Answered
  <2>2. Exists(Coll(p)) /\ coll[p] = 1
    BY <1>2, <2>1 DEF CallInv
  <2>3. CallInv(p)'
    BY <1>1, <1>2, <2>1, <2>2 DEF CallInv, Answered, Exists, Coll
  <2>4. DealtWith(p)'
    <3>1. ASSUME NEW i \in DOMAIN Collections PROVE ~(i < 1)
      BY CollectionFacts
    <3>2. QED
      BY <1>2, <2>1, <2>2, <3>1 DEF DealtWith
  <2>5. QED
    BY <1>3, <2>1, <2>3, <2>4 DEF ProcInv
<1>6. CASE SetSkips(p)
  <2>1. /\ pc[p] = "current" /\ NextCollection(p) /\ UNCHANGED responses
        /\ ~Settable(Visible(Coll(p), current), IloQuestion(cmd[p].question))
        /\ Coll(p) \in DOMAIN Shipped
    BY <1>4, <1>6 DEF SetSkips, Answered
  <2>2. coll[p] < Len(Collections) =>
          ~Settable(Shipped[Coll(p)], IloQuestion(cmd[p].question))
    <3>1. ASSUME coll[p] < Len(Collections) PROVE machine # "Ilo4"
      BY <3>1, CollectionFacts DEF ProcType
    <3>2. QED
      BY <2>1, <3>1, VisibleFacts
  <2>3. CallInv(p)' /\ DealtWith(p)'
    BY <1>1, <2>1, <2>2, NextKeeps
  <2>4. QED
    BY <1>3, <2>1, <2>3 DEF ProcInv
<1>7. CASE SetPatches(p)
  <2>1. /\ pc[p] = "current" /\ cmd[p].op = "set"
        /\ pc'[p] = "patch" /\ coll'[p] = coll[p] /\ responses'[p] = responses[p]
        /\ Settable(Visible(Coll(p), current), IloQuestion(cmd[p].question))
        /\ Coll(p) \in DOMAIN Shipped
    BY <1>4, <1>7 DEF SetPatches, Answered, Goto, ProcType
  <2>2. IloQuestion(cmd[p].question) \in Settables(Coll(p))
    BY <2>1, VisibleFacts
  <2>3. LegalPatch(Patch(p))
    <3>1. Patch(p) = PatchOf(p, Coll(p)) /\ Target(Patch(p)) = IloQuestion(cmd[p].question)
      BY DEF Patch, PatchOf, Target
    <3>2. Patch(p).coll = Coll(p)
      BY DEF Patch
    <3>3. QED
      BY <2>1, <2>2, <3>1, <3>2, PatchHasAuthor DEF LegalPatch
  <2>4. Coll(p)' = Coll(p) /\ Patch(p)' = Patch(p) /\ LegalPatch(Patch(p))'
    <3>1. Coll(p)' = Coll(p)
      BY <1>2, <2>1 DEF Coll
    <3>2. Patch(p)' = Patch(p)
      BY <1>1, <3>1 DEF Patch
    <3>3. QED
      BY <2>3, <3>1, <3>2, Fixed DEF LegalPatch, Target
  <2>5. CallInv(p)'
    BY <1>1, <1>2, <2>1, <2>4 DEF CallInv, Answered, Exists
  <2>6. DealtWith(p)'
    BY <1>1, <1>2, <2>1 DEF DealtWith, PatchOf, Settable
  <2>7. QED
    BY <1>3, <2>1, <2>5, <2>6 DEF ProcInv
<1>8. CASE SetAccepted(p)
  <2>1. /\ pc[p] = "patch" /\ NextCollection(p) /\ Answered(p, "patch")
        /\ Respond(p, One(IloQuestion(cmd[p].question), cmd[p].value))
    BY <1>8 DEF SetAccepted, Answered
  <2>2. /\ LegalPatch(Patch(p)) /\ Patch(p) = PatchOf(p, Coll(p))
        /\ cmd[p].op = "set" /\ Patch(p) \in executed
    BY <1>2, <2>1, PatchReady DEF CallInv
  <2>3. IloQuestion(cmd[p].question) \in Settables(Coll(p)) /\ Coll(p) \in DOMAIN Shipped
    BY <2>2 DEF LegalPatch, Target, Patch
  <2>4. ASSUME NEW attrs PROVE ResponseOf(p, [coll |-> Coll(p), attrs |-> attrs])
    BY <2>2, <2>3 DEF ResponseOf
  <2>5. ResponsesInv(p)'
    BY <1>1, <2>1, <2>4, RespondKeeps
  <2>6. CallInv(p)' /\ DealtWith(p)'
    BY <1>1, <2>1, <2>2, NextKeeps
  <2>7. QED
    BY <2>5, <2>6 DEF ProcInv
<1>9. CASE GetAnswers(p)
  <2> DEFINE a == IloQuestion(cmd[p].question)
             answer == TranslateResponse(cmd[p].question, reply[p].attrs[a])
  <2>1. /\ pc[p] = "current" /\ cmd[p].op = "get" /\ NextCollection(p)
        /\ IF Settable(reply[p].attrs, a) THEN Respond(p, One(a, answer))
           ELSE UNCHANGED responses
        /\ Coll(p) \in DOMAIN Shipped /\ reply[p].attrs = Visible(Coll(p), current)
    BY <1>4, <1>9 DEF GetAnswers, Answered
  <2>2. CallInv(p)' /\ DealtWith(p)'
    BY <1>1, <2>1, NextKeeps
  <2>3. CASE Settable(reply[p].attrs, a)
    <3>1. a \in DOMAIN Shipped[Coll(p)] /\ reply[p].attrs[a] = current[Coll(p)][a]
      BY <2>1, <2>3, VisibleFacts DEF Settable
    <3>2. One(a, answer)[a] = answer
      BY DEF One
    <3>3. ResponseOf(p, [coll |-> Coll(p), attrs |-> One(a, answer)])
      BY <2>1, <3>1, <3>2 DEF ResponseOf
    <3>4. ResponsesInv(p)'
      BY <1>1, <2>1, <2>3, <3>3, RespondKeeps
    <3>5. QED
      BY <2>2, <3>4 DEF ProcInv
  <2>4. CASE ~Settable(reply[p].attrs, a)
    BY <1>3, <2>1, <2>2, <2>4 DEF ProcInv
  <2>5. QED
    BY <2>3, <2>4
<1>10. CASE ShowAnswers(p)
  <2>1. /\ pc[p] = "current" /\ cmd[p].op = "show" /\ NextCollection(p)
        /\ Respond(p, OnlyStrings(reply[p].attrs)) /\ Coll(p) \in DOMAIN Shipped
    BY <1>4, <1>10 DEF ShowAnswers, Answered
  <2>2. CallInv(p)' /\ DealtWith(p)'
    BY <1>1, <2>1, NextKeeps
  <2>3. ASSUME NEW attrs PROVE ResponseOf(p, [coll |-> Coll(p), attrs |-> attrs])
    BY <2>1 DEF ResponseOf
  <2>4. ResponsesInv(p)'
    BY <1>1, <2>1, <2>3, RespondKeeps
  <2>5. QED
    BY <2>2, <2>4 DEF ProcInv
<1>11. CASE PendingFirst(p)
  <2>1. /\ pc[p] = "current" /\ cmd[p].op = "pending"
        /\ pc'[p] = "pending" /\ seen'[p] = Visible(Coll(p), current)
        /\ coll'[p] = coll[p] /\ responses'[p] = responses[p] /\ Coll(p) \in DOMAIN Shipped
    BY <1>4, <1>11 DEF PendingFirst, Answered, Goto, ProcType
  <2>2. /\ Coll(p)' = Coll(p)
        /\ Visible(Coll(p), current)' = Visible(Coll(p), current)
    BY <1>1, <1>2, <2>1 DEF Coll, Visible
  <2>3. CallInv(p)' /\ DealtWith(p)'
    BY <1>1, <1>2, <2>1, <2>2 DEF CallInv, DealtWith, Answered, Exists
  <2>4. QED
    BY <1>3, <2>1, <2>3 DEF ProcInv
<1>12. CASE PendingAnswers(p)
  <2> DEFINE new == reply[p].attrs
  <2>1. /\ pc[p] = "pending" /\ Answered(p, "pending") /\ NextCollection(p)
        /\ Respond(p, Changed(seen[p], new))
    BY <1>12 DEF PendingAnswers, Answered
  <2>2. /\ cmd[p].op = "pending" /\ seen[p] = Visible(Coll(p), current)
        /\ Coll(p) \in DOMAIN Shipped
        /\ \A a \in DOMAIN new : new[a] = current[Coll(p)][a] \/ Asked(Coll(p), a, new[a])
    BY <1>2, <2>1 DEF CallInv, Exists
  <2>3. \A a \in DOMAIN Changed(seen[p], new) :
          /\ Changed(seen[p], new)[a] = new[a] /\ a \in DOMAIN new
          /\ a \in DOMAIN seen[p] /\ seen[p][a] # new[a]
    BY DEF Changed, OnlyStrings
  <2>4. \A a \in DOMAIN Changed(seen[p], new) :
          /\ Changed(seen[p], new)[a] # current[Coll(p)][a]
          /\ Asked(Coll(p), a, Changed(seen[p], new)[a])
    BY <2>2, <2>3, VisibleFacts
  <2>5. ResponseOf(p, [coll |-> Coll(p), attrs |-> Changed(seen[p], new)])
    BY <2>2, <2>4 DEF ResponseOf
  <2>6. ResponsesInv(p)'
    BY <1>1, <2>1, <2>5, RespondKeeps
  <2>7. CallInv(p)' /\ DealtWith(p)'
    BY <1>1, <2>1, <2>2, NextKeeps
  <2>8. QED
    BY <2>6, <2>7 DEF ProcInv
<1>13. CASE Fails(p)
  <2>1. pc'[p] = "idle" /\ responses'[p] = <<>>
    BY <1>13 DEF Fails, Goto, ProcType
  <2>2. CallInv(p)' /\ DealtWith(p)'
    BY <1>1, <2>1 DEF CallInv, DealtWith, Answered
  <2>3. ResponsesInv(p)'
    BY <2>1, EmptyList DEF ResponsesInv, IsList
  <2>4. QED
    BY <2>2, <2>3 DEF ProcInv
<1>14. QED
  BY <1>5, <1>6, <1>7, <1>8, <1>9, <1>10, <1>11, <1>12, <1>13 DEF Returns

LEMMA ReturnsType ==
  ASSUME ProcType, NEW p \in Procs, Returns(p), UNCHANGED machine
  PROVE  /\ ProcType'
         /\ \A q \in Procs \ {p} :
              /\ pc'[q] = pc[q] /\ coll'[q] = coll[q] /\ reply'[q] = reply[q]
              /\ seen'[q] = seen[q] /\ responses'[q] = responses[q]
<1> DEFINE Moves ==
      /\ \E l \in Labels : pc' = [pc EXCEPT ![p] = l]
      /\ \E k \in DOMAIN Collections : coll' = [coll EXCEPT ![p] = k]
      /\ \E o \in {"none", "ok", "err"} : outcome' = [outcome EXCEPT ![p] = o]
<1>1. /\ Collections' = Collections
      /\ coll[p] \in DOMAIN Collections /\ coll = [coll EXCEPT ![p] = coll[p]]
      /\ outcome[p] \in {"none", "ok", "err"} /\ outcome = [outcome EXCEPT ![p] = outcome[p]]
  BY Fixed DEF ProcType
<1>2. ASSUME NextCollection(p) PROVE Moves
  <2>1. coll[p] < Len(Collections) => coll[p] + 1 \in DOMAIN Collections
    BY <1>1, CollectionFacts
  <2>2. QED
    BY <1>1, <1>2, <2>1 DEF NextCollection, Goto, Labels
<1>3. ASSUME NEW l \in Labels, Goto(p, l), UNCHANGED <<coll, outcome>> PROVE Moves
  BY <1>1, <1>3 DEF Goto
<1>4. ASSUME Fails(p) PROVE Moves
  BY <1>1, <1>4 DEF Fails, Goto, Labels
<1>5. Moves
  BY <1>2, <1>3, <1>4 DEF Returns, Identified, SetSkips, SetPatches, SetAccepted,
     GetAnswers, ShowAnswers, PendingFirst, PendingAnswers, Labels
<1>6. /\ UNCHANGED seen \/ \E v : seen' = [seen EXCEPT ![p] = v]
      /\ UNCHANGED responses \/ \E v : responses' = [responses EXCEPT ![p] = v]
  BY DEF Returns, Identified, SetSkips, SetPatches, SetAccepted, GetAnswers, ShowAnswers,
     PendingFirst, PendingAnswers, Fails, Respond
<1>7. reply' = [reply EXCEPT ![p] = NoReply] /\ UNCHANGED <<cmd, ran>>
  BY DEF Returns
<1>8. QED
  BY <1>1, <1>5, <1>6, <1>7 DEF ProcType

LEMMA ReturnsKeeps ==
  ASSUME IloInv, NEW p \in Procs, Returns(p), UNCHANGED machine
  PROVE  IloInv'
<1>1. UNCHANGED <<current, pending, author, origin, executed, cmd, ran>>
  BY DEF Returns, bmcVars
<1>2. ASSUME NEW w \in stray' PROVE w \in stray \/ (LegalPatch(w) /\ InOrder(w))
  BY <1>2, PatchReady DEF Returns, IloInv
<1>3. BmcType' /\ OrderInv' /\ StoredInv'
  <2>1. BmcType'
    BY <1>1, <1>2, Fixed DEF IloInv, BmcType, Shaped
  <2>2. \A w \in executed' \cup stray' : InOrder(w)'
    BY <1>1, <1>2, OrderKeeps DEF IloInv, OrderInv
  <2>3. StoredInv'
    BY <1>1, Fixed DEF IloInv, StoredInv, From, Target, Wish
  <2>4. QED
    BY <2>1, <2>2, <2>3 DEF OrderInv
<1>4. ProcType' /\ ProcInv(p)'
  BY ReturnsType, ReturnsOwn DEF IloInv
<1>5. ASSUME NEW q \in Procs \ {p} PROVE ProcInv(q)'
  BY <1>1, ReturnsType, ProcKeeps DEF IloInv
<1>6. QED
  BY <1>3, <1>4, <1>5 DEF IloInv

LEMMA NextIlo == IloInv /\ [Next]_vars => IloInv'
<1> SUFFICES ASSUME IloInv, [Next]_vars PROVE IloInv'
  OBVIOUS
<1>1. CASE UNCHANGED vars
  <2>1. UNCHANGED <<machine, current, pending, author, origin, executed, stray, pc, cmd,
                    coll, reply, seen, responses, outcome, ran>>
    BY <1>1 DEF vars, bmcVars, procVars
  <2>2. BmcType' /\ ProcType'
    BY <2>1, Fixed DEF IloInv, BmcType, ProcType, Shaped
  <2>3. StoredInv'
    BY <2>1, Fixed DEF IloInv, StoredInv, From, Target, Wish
  <2>4. \A w \in executed' \cup stray' : InOrder(w)'
    BY <2>1, OrderKeeps DEF IloInv, OrderInv
  <2>5. \A q \in Procs : ProcInv(q)'
    BY <2>1, ProcKeeps DEF IloInv
  <2>6. QED
    BY <2>2, <2>3, <2>4, <2>5 DEF IloInv, OrderInv
<1>2. QED
  BY <1>1, StartKeeps, BmcKeeps, ReturnsKeeps, StrayKeeps, RebootKeeps DEF Next

LEMMA IloAlways == Spec => []IloInv
  BY InitIlo, NextIlo, PTL DEF Spec

-----------------------------------------------------------------------------
(* Type correctness of every reachable state: nothing is asked of a        *)
(* machine that has no such collection.                                    *)
THEOREM IloTypeCorrect == Spec => []TypeOK
<1>1. IloInv => TypeOK
  BY DEF IloInv, BmcType, ProcType, Shaped, ProcInv, CallInv, TypeOK, Labels
<1>2. QED
  BY <1>1, IloAlways, PTL

(* Whatever is asked, refused, repeated or late, only settings that are    *)
(* strings ever differ from what the machine came with.                    *)
THEOREM OnlySettingsEverChange == Spec => []OnlySettingsChange
<1>1. ASSUME IloInv, NEW c \in DOMAIN Shipped, NEW a \in DOMAIN Shipped[c],
             pending[c][a] # Shipped[c][a]
      PROVE  a \in Settables(c)
  <2>1. /\ author[c][a] \in executed
        /\ author[c][a].coll = c /\ Target(author[c][a]) = a
    BY <1>1 DEF IloInv, StoredInv, From
  <2>2. LegalPatch(author[c][a])
    BY <1>1, <2>1 DEF IloInv, BmcType
  <2>3. QED
    BY <2>1, <2>2 DEF LegalPatch
<1>2. IloInv => OnlySettingsChange
  BY <1>1 DEF OnlySettingsChange, Settables
<1>3. QED
  BY <1>2, IloAlways, PTL

(* What is reported as pending is not in force, and a set has asked for    *)
(* it.                                                                     *)
THEOREM PendingIsAsked == Spec => []PendingWasAsked
<1>1. IloInv => PendingWasAsked
  BY DEF IloInv, ProcInv, ResponsesInv, ResponseOf, Asked, Target, Wish, PendingWasAsked
<1>2. QED
  BY <1>1, IloAlways, PTL

(* A set that reports a setting as modified has had its own PATCH of it    *)
(* executed.                                                               *)
THEOREM ModifiedIsAccepted == Spec => []ModifiedMeansAccepted
<1>1. ASSUME IloInv, NEW p \in Procs, cmd[p].op = "set", NEW k \in DOMAIN responses[p]
      PROVE  LET r == responses[p][k]
                 w == author[r.coll][IloQuestion(cmd[p].question)]
             IN  PatchOf(p, r.coll) \in executed /\ w.by # <<>>
  <2> DEFINE c == responses[p][k].coll
             a == IloQuestion(cmd[p].question)
  <2>1. PatchOf(p, c) \in executed /\ a \in DOMAIN Shipped[c] /\ c \in DOMAIN Shipped
    BY <1>1 DEF IloInv, ProcInv, ResponsesInv, ResponseOf, Settables
  <2>2. PatchOf(p, c).coll = c /\ Target(PatchOf(p, c)) = a
    BY DEF PatchOf, Target
  <2>3. author[c][a] # NoPatch
    BY <1>1, <2>1, <2>2 DEF IloInv, StoredInv
  <2>4. author[c][a] \in executed
    BY <1>1, <2>1, <2>3 DEF IloInv, StoredInv, From
  <2>5. author[c][a].by # <<>>
    BY <1>1, <2>4 DEF IloInv, BmcType, LegalPatch
  <2>6. QED
    BY <2>1, <2>5
<1>2. IloInv => ModifiedMeansAccepted
  BY <1>1 DEF ModifiedMeansAccepted, PatchOf
<1>3. QED
  BY <1>2, IloAlways, PTL

(* A PATCH is executed only when those of the collections before have been.*)
THEOREM PatchesInOrder == Spec => []PatchedInOrder
<1>1. IloInv => PatchedInOrder
  BY DEF IloInv, OrderInv, InOrder, Target, PatchedInOrder
<1>2. QED
  BY <1>1, IloAlways, PTL

-----------------------------------------------------------------------------
(* Of a set of places there is a first.                                    *)
LEMMA FirstPlace ==
  ASSUME NEW S \in SUBSET Nat, S # {}
  PROVE  Min(S) \in S
<1> DEFINE less == {ss \in Nat \X Nat : ss[1] < ss[2]}
<1>1. IsWellFoundedOn(less, Nat)
  BY NatLessThanWellFounded DEF OpToRel
<1> HIDE DEF less
<1>2. PICK x \in S : \A y \in S : ~(<<y, x>> \in less)
  BY <1>1, WFMin
<1>3. \A y \in S : ~(y < x)
  BY <1>2 DEF less
<1>4. \A y \in S : x <= y
  BY <1>3
<1>5. QED
  BY <1>4 DEF Min

(* translate_response undoes get_qa_variations_ilo.                        *)
LEMMA TranslationRoundTrip ==
  ASSUME NEW question, NEW answer, Canonical(question, answer)
  PROVE  Same(TranslateResponse(question, IloAnswer(question, answer)), answer)
<1>1. CASE ~Translated(question)
  BY <1>1 DEF TranslateResponse, IloAnswer, Same
<1>2. CASE Translated(question)
  <2> DEFINE R == Replacements(question)
             Names == {k \in DOMAIN R : Same(R[k].key, answer)}
             sent == IloAnswer(question, answer)
             Back == {k \in DOMAIN R : Same(R[k].value, sent)}
  <2>1. DOMAIN R \subseteq Nat
    BY <1>2, SpellingsAssumption DEF Replacements, Translated
  <2>2. /\ sent = IF Names = {} THEN answer ELSE R[Min(Names)].value
        /\ TranslateResponse(question, sent) =
             IF Back = {} THEN sent ELSE R[Min(Back)].key
    BY <1>2 DEF IloAnswer, TranslateResponse
  <2>3. /\ \A i, j \in DOMAIN R : Same(R[i].value, R[j].value) => Same(R[i].key, R[j].key)
        /\ \A i \in DOMAIN R : Same(R[i].value, answer) =>
             \E j \in DOMAIN R : Same(R[j].key, answer)
    BY <1>2 DEF Canonical
  <2>4. /\ Names # {} => Min(Names) \in Names
        /\ Back # {} => Min(Back) \in Back
    BY <2>1, FirstPlace
  <2> HIDE DEF R, sent
  <2>5. CASE Names = {}
    <3>1. Back = {}
      BY <2>2, <2>3, <2>5
    <3>2. QED
      BY <2>2, <2>5, <3>1 DEF sent, Same
  <2>6. CASE Names # {}
    <3>1. Min(Names) \in Back
      BY <2>2, <2>4, <2>6 DEF Same
    <3>2. Min(Back) \in DOMAIN R /\ Same(R[Min(Back)].value, R[Min(Names)].value)
      BY <2>2, <2>4, <2>6, <3>1
    <3>3. Same(R[Min(Back)].key, R[Min(Names)].key) /\ Same(R[Min(Names)].key, answer)
      BY <2>3, <2>4, <2>6, <3>2
    <3>4. QED
      BY <2>2, <3>1, <3>3 DEF sent, Same
  <2>7. QED
    BY <2>5, <2>6
<1>3. QED
  BY <1>1, <1>2

(* Patches come from commands.                                             *)
CommandInv ==
  /\ \A p \in Procs : cmd[p] \in Commands \cup {NoCommand}
  /\ \A w \in executed \cup stray : w.cmd \in Commands /\ w.cmd.op = "set"

LEMMA InitCommands == Init => CommandInv
  BY DEF Init, CommandInv

LEMMA NextCommands == IloInv /\ CommandInv /\ [Next]_vars => CommandInv'
<1> SUFFICES ASSUME IloInv, CommandInv, [Next]_vars PROVE CommandInv'
  OBVIOUS
<1>1. ASSUME NEW p \in Procs, pc[p] = "patch"
      PROVE  Patch(p).cmd \in Commands /\ Patch(p).cmd.op = "set"
  <2>1. cmd[p].op = "set" /\ NoCommand.op = "none"
    BY <1>1 DEF IloInv, ProcInv, CallInv, NoCommand
  <2>2. QED
    BY <2>1 DEF CommandInv, Patch
<1>2. ASSUME NEW p \in Procs, Start(p) PROVE CommandInv'
  <2>1. PICK c \in Commands : cmd' = [cmd EXCEPT ![p] = c]
    BY <1>2 DEF Start
  <2>2. UNCHANGED <<executed, stray>> /\ DOMAIN cmd = Procs
    BY <1>2 DEF Start, bmcVars, IloInv, ProcType
  <2>3. QED
    BY <2>1, <2>2 DEF CommandInv
<1>3. ASSUME NEW p \in Procs, Bmc(p) PROVE CommandInv'
  <2>1. UNCHANGED <<cmd, stray>>
    BY <1>3 DEF Bmc
  <2>2. UNCHANGED executed \/ (pc[p] = "patch" /\ executed' = executed \cup {Patch(p)})
    BY <1>3 DEF Bmc, ExecuteGet, ExecutePatch, Refuse, Apply, bmcVars
  <2>3. QED
    BY <1>1, <2>1, <2>2 DEF CommandInv
<1>4. ASSUME NEW p \in Procs, Returns(p) PROVE CommandInv'
  BY <1>1, <1>4 DEF Returns, CommandInv, bmcVars
<1>5. CASE ExecuteStray
  BY <1>5 DEF ExecuteStray, Apply, CommandInv, procVars
<1>6. CASE Reboot
  BY <1>6 DEF Reboot, CommandInv
<1>7. CASE UNCHANGED vars
  BY <1>7 DEF vars, bmcVars, procVars, CommandInv
<1>8. QED
  BY <1>2, <1>3, <1>4, <1>5, <1>6, <1>7 DEF Next

(* A get answers what is in force, in the spelling in which it was asked   *)
(* for, if the spellings of what is asked can be told apart.               *)
THEOREM GetsAreCanonical ==
  ASSUME \A c \in Commands : c.op = "set" => Canonical(c.question, c.value)
  PROVE  Spec => []GetAnswersOrigin
<1>1. ASSUME IloInv, CommandInv PROVE GetAnswersOrigin
  <2> SUFFICES ASSUME NEW p \in Procs, cmd[p].op = "get", NEW k \in DOMAIN responses[p]
               PROVE  LET r == responses[p][k]
                          a == IloQuestion(cmd[p].question)
                          w == origin[r.coll][a]
                      IN  IF w = NoPatch
                          THEN r.attrs[a] =
                                 TranslateResponse(cmd[p].question, Shipped[r.coll][a])
                          ELSE w.cmd.question = cmd[p].question =>
                                 Same(r.attrs[a], w.cmd.value)
    BY DEF GetAnswersOrigin
  <2> DEFINE r == responses[p][k]
             a == IloQuestion(cmd[p].question)
             w == origin[r.coll][a]
  <2>1. /\ r.coll \in DOMAIN Shipped /\ a \in DOMAIN Shipped[r.coll]
        /\ r.attrs[a] = TranslateResponse(cmd[p].question, current[r.coll][a])
    BY <1>1 DEF IloInv, ProcInv, ResponsesInv, ResponseOf
  <2>2. CASE w = NoPatch
    <3>1. current[r.coll][a] = Shipped[r.coll][a]
      BY <1>1, <2>1, <2>2 DEF IloInv, StoredInv, From
    <3>2. QED
      BY <2>1, <2>2, <3>1
  <2>3. CASE w # NoPatch /\ w.cmd.question = cmd[p].question
    <3>1. w \in executed /\ current[r.coll][a] = Wish(w)
      BY <1>1, <2>1, <2>3 DEF IloInv, StoredInv, From
    <3>2. Canonical(w.cmd.question, w.cmd.value)
      BY <1>1, <3>1 DEF CommandInv
    <3>3. Same(TranslateResponse(w.cmd.question, IloAnswer(w.cmd.question, w.cmd.value)),
               w.cmd.value)
      BY <3>2, TranslationRoundTrip
    <3>4. QED
      BY <2>1, <2>3, <3>1, <3>3 DEF Wish
  <2>4. QED
    BY <2>2, <2>3
<1>2. QED
  BY <1>1, InitIlo, InitCommands, NextIlo, NextCommands, PTL DEF Spec

=============================================================================
