------------------------------ MODULE HiiDatabase ------------------------------
(***************************************************************************)
(* read_db of src/src/lib/hii/package.rs and handle_string_package of      *)
(* hii/strings.rs: from the bytes of an HII database to the strings and    *)
(* forms of each package list; and what list_strings and list_questions of *)
(* exports.rs make of them.  What a form package parses to is FormPackage. *)
(*                                                                         *)
(* A database is a sequence of package lists, a package list a header and  *)
(* packages up to an End package, a string package a header and blocks up  *)
(* to an End block.  Positions in byte sequences start with 1.             *)
(***************************************************************************)
EXTENDS Bytes, FiniteSets, FiniteSetsExt, SequencesExt

CONSTANTS
  GuidLen,            \* widths of the fields, in bytes: 16 in the code,
  ListLengthLen,      \* 4,
  PackageLengthLen,   \* 3,
  StringHeaderLen,    \* 42, the language's name not included
  FormOf(_)           \* handle_form_package: the prompts' string ids, or Failed

ASSUME WidthsAssumption ==
  /\ GuidLen \in Nat \ {0} /\ StringHeaderLen \in Nat
  /\ {ListLengthLen, PackageLengthLen} \subseteq 1..8

Failed == [ok |-> FALSE]
Parsed(value) == [ok |-> TRUE, value |-> value]

-----------------------------------------------------------------------------
(* FIELDS                                                                  *)

Within(s, at, n) == at + n - 1 <= Len(s)

NumberAt(s, at, width) == Decode(SubSeq(s, at, at + width - 1))

(* A UTF-16 character.                                                     *)
CharLen == 2

(* NullString and NullWideString: characters up to a zero.                 *)
Terminators(s, at, width) ==
  {k \in 0..Len(s) : /\ Within(s, at + k * width, width)
                     /\ NumberAt(s, at + k * width, width) = 0}

HasText(s, at, width) == Terminators(s, at, width) # {}

TextLen(s, at, width) == Min(Terminators(s, at, width))

TextAt(s, at, width) ==
  [k \in 1..TextLen(s, at, width) |-> NumberAt(s, at + (k - 1) * width, width)]

(* length - 16 - 4 and length - 4, in u32: a length shorter than its own   *)
(* header becomes one that no file can hold.                               *)
DataLen_Saturating(length, header) == IF length < header THEN 0 ELSE length - header

Greatest(width) == Decode([i \in 1..width |-> 255])

DataLen(length, header) ==
  IF length < header THEN length - header + Greatest(ListLengthLen) + 1
  ELSE length - header

-----------------------------------------------------------------------------
(* PACKAGE LISTS AND PACKAGES                                              *)

Form    == 2
Strings == 4
End     == 223

ListHeaderLen == GuidLen + ListLengthLen

ListDataLen_WithHeader(s, at) == NumberAt(s, at + GuidLen, ListLengthLen)

ListDataLen(s, at) ==
  DataLen(NumberAt(s, at + GuidLen, ListLengthLen), ListHeaderLen)

ListReadable(s, at) ==
  Within(s, at, ListHeaderLen) /\ Within(s, at + ListHeaderLen, ListDataLen(s, at))

Unreadable == [ok |-> FALSE, guid |-> <<>>, type |-> End, data |-> <<>>]

Cut_Here == <<>>

Cut == <<Unreadable>>

(* get_package_lists: the lists up to the end of the source; the last one  *)
(* is Unreadable when an error ends it.                                    *)
PackageLists(s) ==
  LET data(at) == at + ListHeaderLen
      next(at) == data(at) + ListDataLen(s, at)
      from[at \in 1..(Len(s) + 1)] ==
        IF at > Len(s) THEN <<>>
        ELSE IF ~ListReadable(s, at) THEN Cut
        ELSE <<[ok |-> TRUE, guid |-> SubSeq(s, at, at + GuidLen - 1),
                data |-> SubSeq(s, data(at), next(at) - 1)]>> \o from[next(at)]
  IN  from[1]

PackageHeaderLen == PackageLengthLen + 1

PackageDataLen(s, at) == DataLen(NumberAt(s, at, PackageLengthLen), PackageHeaderLen)

PackageReadable(s, at) ==
  Within(s, at, PackageHeaderLen) /\ Within(s, at + PackageHeaderLen, PackageDataLen(s, at))

(* get_packages: the packages before the End package; without one the last *)
(* is Unreadable.                                                          *)
Packages(s) ==
  LET type(at) == s[at + PackageLengthLen]
      data(at) == at + PackageHeaderLen
      next(at) == data(at) + PackageDataLen(s, at)
      from[at \in 1..(Len(s) + 1)] ==
        IF ~PackageReadable(s, at) THEN Cut
        ELSE IF type(at) = End THEN <<>>
        ELSE <<[ok |-> TRUE, type |-> type(at),
                data |-> SubSeq(s, data(at), next(at) - 1)]>> \o from[next(at)]
  IN  from[1]

-----------------------------------------------------------------------------
(* STRING PACKAGES                                                         *)

EndBlock == 0
Ucs2     == 20
Skip2    == 33
Skip1    == 34

SkipLen(block) == IF block = Skip1 THEN 1 ELSE 2

IdAfterSkip_Short(id, count) == id + count - 1

IdAfterSkip(id, count) == id + count

IsBlock(s, at, block) == Within(s, at, 1) /\ s[at] = block

IsSkip(s, at) == IsBlock(s, at, Skip1) \/ IsBlock(s, at, Skip2)

(* The texts with their ids, from the first block on; Failed is among them *)
(* when a block is of another type or is cut off.                          *)
BlocksFrom(s, first) ==
  LET text(at) == TextAt(s, at + 1, CharLen)
      skip(at) == SkipLen(s[at])
      from[at \in 1..(Len(s) + 1)] == [id \in Nat |->
        IF IsBlock(s, at, EndBlock) THEN {}
        ELSE IF IsBlock(s, at, Ucs2) /\ HasText(s, at + 1, CharLen)
        THEN {Parsed([id |-> id, text |-> text(at)])}
             \cup from[at + 1 + (Len(text(at)) + 1) * CharLen][id + 1]
        ELSE IF IsSkip(s, at) /\ Within(s, at + 1, skip(at))
        THEN from[at + 1 + skip(at)][IdAfterSkip(id, NumberAt(s, at + 1, skip(at)))]
        ELSE {Failed}]
  IN  from[first][1]

(* handle_string_package                                                   *)
StringsOf(s) ==
  LET language == StringHeaderLen + 1
      blocks == BlocksFrom(s, language + TextLen(s, language, 1) + 1)
  IN  IF ~HasText(s, language, 1) \/ Failed \in blocks THEN Failed
      ELSE Parsed([id \in {b.value.id : b \in blocks} |->
                     (CHOOSE b \in blocks : b.value.id = id).value.text])

-----------------------------------------------------------------------------
(* read_db                                                                 *)

Interesting(package) == package.ok /\ package.type \in {Form, Strings}

Contents(package) ==
  IF package.type = Strings THEN StringsOf(package.data) ELSE FormOf(package.data)

(* The packages of a type, in order.                                       *)
OfType(packages, type) ==
  LET upTo[i \in 0..Len(packages)] ==
        IF i = 0 THEN <<>>
        ELSE IF packages[i].type = type THEN Append(upTo[i - 1], packages[i])
        ELSE upTo[i - 1]
  IN  upTo[Len(packages)]

Kept(list, type) ==
  LET packages == OfType(Packages(list.data), type)
  IN  [i \in DOMAIN packages |-> Contents(packages[i]).value]

Sound(list) ==
  /\ list.ok
  /\ \A package \in Range(Packages(list.data)) :
       package.ok /\ (Interesting(package) => Contents(package).ok)

(* HashMap::insert: of the lists with a GUID that have packages of the     *)
(* type the last one stays.                                                *)
Inserted(having) == Max(having)

ByGuid(lists, type) ==
  LET having(guid) ==
        {i \in DOMAIN lists : lists[i].guid = guid /\ Kept(lists[i], type) # <<>>}
  IN  [guid \in {g \in {lists[i].guid : i \in DOMAIN lists} : having(g) # {}} |->
         Kept(lists[Inserted(having(guid))], type)]

ReadDb(s) ==
  LET lists == PackageLists(s)
  IN  IF \E i \in DOMAIN lists : ~Sound(lists[i]) THEN Failed
      ELSE Parsed([strings |-> ByGuid(lists, Strings), forms |-> ByGuid(lists, Form)])

-----------------------------------------------------------------------------
(* LISTINGS                                                                *)

(* find_corresponding_string: the first string package that has the id.    *)
FindString_Last(id, packages) ==
  LET with == {i \in DOMAIN packages : id \in DOMAIN packages[i]}
  IN  IF with = {} THEN <<>> ELSE packages[Max(with)][id]

FindString(id, packages) ==
  LET with == {i \in DOMAIN packages : id \in DOMAIN packages[i]}
  IN  IF with = {} THEN <<>> ELSE packages[Min(with)][id]

(* list_strings                                                            *)
Listed(guid, shows) == [guid |-> guid, shows |-> shows]

ListStrings(db) == Parsed({Listed(guid, db.strings[guid]) : guid \in DOMAIN db.strings})

(* list_questions, as far as prompts go, of questions that have an answer, *)
(* options or help and so are shown even without one; show_ifr goes the    *)
(* same way.                                                               *)
ListQuestions(db) ==
  IF ~(DOMAIN db.forms \subseteq DOMAIN db.strings) THEN Failed
  ELSE LET shown(guid) ==
             [f \in DOMAIN db.forms[guid] |->
               [q \in DOMAIN db.forms[guid][f] |->
                  FindString(db.forms[guid][f][q], db.strings[guid])]]
       IN  Parsed({Listed(guid, shown(guid)) : guid \in DOMAIN db.forms})

Listing(s, what) ==
  LET db == ReadDb(s)
  IN  IF ~db.ok THEN Failed
      ELSE IF what = "strings" THEN ListStrings(db.value) ELSE ListQuestions(db.value)

=============================================================================
