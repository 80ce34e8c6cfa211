------------------------------- MODULE HiiLayout -------------------------------
(***************************************************************************)
(* What a firmware's HII database is before it is bytes, the bytes its     *)
(* firmware lays it out in, and what a listing of it should say.           *)
(*                                                                         *)
(* A database is a sequence of package lists [guid, packages, padding],    *)
(* where padding is what follows the End package in a list.  A package has *)
(* a type and                                                              *)
(*   blocks,  if it holds strings: [kind, text, count], kind "text",       *)
(*            "skip1", "skip2" or "other",                                 *)
(*   data,    otherwise.                                                   *)
(* Either has claims if it states a length that is shorter than its header.*)
(***************************************************************************)
EXTENDS HiiDatabase

EncodeText(text, width) ==
  FlattenSeq([i \in 1..(Len(text) + 1) |->
                Encode(IF i > Len(text) THEN 0 ELSE text[i], width)])

BlockTag(b) ==
  IF b.kind = "text" THEN Ucs2 ELSE IF b.kind = "skip1" THEN Skip1
  ELSE IF b.kind = "skip2" THEN Skip2 ELSE Ucs2 + 1

CountLen(b) == IF b.kind = "skip2" THEN 2 ELSE 1

EncodeBlock(b) ==
  <<BlockTag(b)>>
    \o (IF b.kind = "text" THEN EncodeText(b.text, CharLen) ELSE Encode(b.count, CountLen(b)))

(* The header carries a name of the language, "e" here.                    *)
EncodeStrings(blocks) ==
  [i \in 1..StringHeaderLen |-> 0] \o EncodeText(<<101>>, 1)
    \o FlattenSeq([i \in DOMAIN blocks |-> EncodeBlock(blocks[i])]) \o <<EndBlock>>

Lies(x) == "claims" \in DOMAIN x

Stated(x, length) == IF Lies(x) THEN x.claims ELSE length

EncodePackage(package) ==
  LET data == IF package.type = Strings THEN EncodeStrings(package.blocks) ELSE package.data
  IN  Encode(Stated(package, PackageHeaderLen + Len(data)), PackageLengthLen) \o <<package.type>> \o data

EncodeList(list) ==
  LET packages == list.packages \o <<[type |-> End, data |-> <<>>]>>
      data == FlattenSeq([i \in DOMAIN packages |-> EncodePackage(packages[i])])
                \o list.padding
  IN  list.guid \o Encode(Stated(list, ListHeaderLen + Len(data)), ListLengthLen) \o data

EncodeDb(db) == FlattenSeq([i \in DOMAIN db |-> EncodeList(db[i])])

-----------------------------------------------------------------------------
(* A string's id is one more than the number of texts before it and of the *)
(* ids skipped.                                                            *)
Ids(b) == IF b.kind = "text" THEN 1 ELSE b.count

IdOf(blocks, k) ==
  LET id[j \in DOMAIN blocks] == IF j = 1 THEN 1 ELSE id[j - 1] + Ids(blocks[j - 1])
  IN  id[k]

TextsOf(blocks) ==
  LET texts == {k \in DOMAIN blocks : blocks[k].kind = "text"}
  IN  [id \in {IdOf(blocks, k) : k \in texts} |->
         blocks[CHOOSE k \in texts : IdOf(blocks, k) = id].text]

ListsWith(db, type) == {list \in Range(db) : OfType(list.packages, type) # <<>>}

StringsIn(list) ==
  LET packages == OfType(list.packages, Strings)
  IN  [i \in DOMAIN packages |-> TextsOf(packages[i].blocks)]

(* The text of the first language of the list that has one.                *)
PromptIn(list, id) ==
  LET maps == StringsIn(list)
      with == {i \in DOMAIN maps : id \in DOMAIN maps[i]}
  IN  IF with = {} THEN <<>> ELSE maps[CHOOSE i \in with : \A j \in with : i <= j][id]

IdsIn(form) == FormOf(form.data).value

QuestionsIn(list) ==
  LET forms == OfType(list.packages, Form)
  IN  [f \in DOMAIN forms |->
         [q \in DOMAIN IdsIn(forms[f]) |-> PromptIn(list, IdsIn(forms[f])[q])]]

(* All of a database can be read, or none of it.                           *)
WellFormed(db) ==
  \A list \in Range(db) :
    /\ ~Lies(list)
    /\ \A package \in Range(list.packages) :
         /\ ~Lies(package)
         /\ package.type = Strings => \A b \in Range(package.blocks) : b.kind # "other"
         /\ package.type = Form => FormOf(package.data).ok

(* "List all strings-id, string pairs in HiiDB" (main.rs:121): those of    *)
(* every package list, and the questions of every one that has forms, with *)
(* prompts from its own strings.                                           *)
Meaning(db, what) ==
  IF ~WellFormed(db) THEN Failed
  ELSE IF what = "strings"
  THEN Parsed({Listed(list.guid, StringsIn(list)) : list \in ListsWith(db, Strings)})
  ELSE IF ~(ListsWith(db, Form) \subseteq ListsWith(db, Strings)) THEN Failed
  ELSE Parsed({Listed(list.guid, QuestionsIn(list)) : list \in ListsWith(db, Form)})

(* "package lists (with unique guids)" (package.rs:194): nothing in the    *)
(* bytes makes them so.                                                    *)
UniqueGuids(db) == \A i, j \in DOMAIN db : db[i].guid = db[j].guid => i = j

(* What a listing says of a database: its meaning, if its lists have GUIDs *)
(* of their own or if it is to be refused.  Of lists with one GUID the     *)
(* code keeps the last, in silence and against main.rs:121; then the       *)
(* strings listed are still those of one list each.                        *)
Says(listing, db, what) ==
  /\ UniqueGuids(db) \/ ~WellFormed(db) => listing = Meaning(db, what)
  /\ what = "strings" /\ WellFormed(db)
       => listing.ok /\ listing.value \subseteq Meaning(db, what).value

-----------------------------------------------------------------------------
(* WHAT CAN BE LAID OUT.  The hypothesis of the theorems on listings:      *)
(* lengths, counts and characters fit the fields they are put into, and a  *)
(* length that is shorter than its header becomes, in u32, one that goes   *)
(* beyond the database.                                                    *)

LengthFits(x, length, header, width) ==
  IF Lies(x) THEN x.claims \in 0..(header - 1) /\ Fits(x.claims, width)
  ELSE Fits(length, width)

BlockLaidOut(b) ==
  /\ b.kind \in {"text", "skip1", "skip2", "other"}
  /\ IF b.kind = "text"
     THEN b.text \in Seq(Nat) /\ \A c \in Range(b.text) : c > 0 /\ Fits(c, CharLen)
     ELSE b.count \in Nat /\ Fits(b.count, CountLen(b))

PackageLaidOut(package) ==
  /\ package.type \in Byte \ {End}
  /\ IF package.type = Strings
     THEN /\ package.blocks \in Seq(Range(package.blocks))
          /\ \A b \in Range(package.blocks) : BlockLaidOut(b)
     ELSE package.data \in Seq(Byte)
  /\ LengthFits(package, Len(EncodePackage(package)), PackageHeaderLen, PackageLengthLen)

ListLaidOut(list) ==
  /\ list.guid \in Seq(Byte) /\ Len(list.guid) = GuidLen
  /\ list.padding \in Seq(Byte)
  /\ list.packages \in Seq(Range(list.packages))
  /\ \A package \in Range(list.packages) : PackageLaidOut(package)
  /\ LengthFits(list, Len(EncodeList(list)), ListHeaderLen, ListLengthLen)

LaidOut(db) ==
  /\ db \in Seq(Range(db))
  /\ \A list \in Range(db) : ListLaidOut(list)
  /\ Len(EncodeDb(db)) + ListHeaderLen + PackageHeaderLen <= Greatest(ListLengthLen)

=============================================================================
