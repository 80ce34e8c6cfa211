------------------------------ MODULE FormPackage ------------------------------
(***************************************************************************)
(* handle_form_package of src/src/lib/hii/forms.rs turns the opcodes of a  *)
(* form package, which come as a list, into a tree: an opcode that opens a *)
(* scope becomes the parent of what follows until the matching End.        *)
(* list_questions, find_question, find_corresponding_varstore and          *)
(* find_corresponding_string then answer queries about that tree.          *)
(*                                                                         *)
(* A node is named by its place among the opcodes other than End, so that  *)
(* node numbers grow in the order of the list; 0 is the root.              *)
(***************************************************************************)
EXTENDS Integers, Sequences, FiniteSets, FiniteSetsExt

CONSTANTS
  Opcodes,   \* opcodes a package may have: [op, open, prompt, store]
  Strings,   \* string packages: a sequence of maps from string ids to texts
  NoText,    \* the empty text
  MaxOps,    \* opcodes per package
  Faulty     \* what may be wrong with a package: "short", "data"

ASSUME OpcodesAssumption ==
  Opcodes \subseteq [op : STRING, open : BOOLEAN, prompt : Nat, store : Nat]
ASSUME MaxOpsAssumption == MaxOps \in Nat

VARIABLES
  pc,      \* "reading", "done" or "err"
  stream,  \* the opcodes read so far
  nodes,   \* the tree: the opcodes other than End, each with its parent
  scope    \* current_scope

vars == <<pc, stream, nodes, scope>>

QuestionOps == {"Numeric", "OneOf", "CheckBox"}
StoreOps    == {"VarStore", "VarStoreEfi"}

(* The opcodes whose data handle_opcode parses into a structure.           *)
ParsedOps == QuestionOps \cup StoreOps \cup
  {"FormSet", "OneOfOption", "DefaultStore", "Default", "Form", "Text",
   "Subtitle", "QuestionRef1", "EqIdVal", "EqIdValList"}

(* The root has an opcode no package should have.                          *)
DUMMY_OPCODE == "0xFF"

OpOf(n) == IF n = 0 THEN DUMMY_OPCODE ELSE nodes[n].op

-----------------------------------------------------------------------------
Init ==
  /\ pc = "reading"
  /\ stream = <<>>
  /\ nodes = <<>>
  /\ scope = 0

(* End closes the current scope.  The root has no parent and stays.        *)
Outer == IF scope = 0 THEN 0 ELSE nodes[scope].parent

ReadEnd(o) ==
  /\ o.op = "End"
  /\ scope' = Outer
  /\ pc' = IF OpOf(Outer) = DUMMY_OPCODE THEN "done" ELSE "reading"
  /\ UNCHANGED nodes

Inner_Always(o) == Len(nodes) + 1

Inner_OffByOne(o) == IF o.open THEN Len(nodes) + 2 ELSE scope

Inner(o) == IF o.open THEN Len(nodes) + 1 ELSE scope

ReadNode(o) ==
  /\ o.op # "End"
  /\ \/ /\ nodes' = Append(nodes, [op |-> o.op, open |-> o.open, parent |-> scope,
                                   prompt |-> o.prompt, store |-> o.store])
        /\ scope' = Inner(o)
        /\ UNCHANGED pc
     \/ /\ "data" \in Faulty /\ o.op \in ParsedOps
        /\ pc' = "err"
        /\ UNCHANGED <<nodes, scope>>

Read ==
  /\ pc = "reading"
  /\ Len(stream) < MaxOps
  /\ \E o \in Opcodes :
       /\ stream' = Append(stream, o)
       /\ ReadEnd(o) \/ ReadNode(o)

(* The package ends before its scopes do.                                  *)
Short ==
  /\ pc = "reading"
  /\ "short" \in Faulty \/ Len(stream) = MaxOps
  /\ pc' = "err"
  /\ UNCHANGED <<stream, nodes, scope>>

Next == Read \/ Short

Spec == Init /\ [][Next]_vars

-----------------------------------------------------------------------------
(* QUERIES                                                                 *)

Nodes == 1..Len(nodes)

Children(n) == {c \in Nodes : nodes[c].parent = n}

IsQuestion(n) == nodes[n].op \in QuestionOps

(* find_corresponding_string: the first string package that knows the id.  *)
Text(id) ==
  LET knowing == {k \in DOMAIN Strings : id \in DOMAIN Strings[k]}
  IN  IF knowing = {} THEN NoText ELSE Strings[Min(knowing)][id]

Found_ChildrenFirst(phrases) ==
  LET find[n \in 0..Len(nodes)] ==
        LET hits == {c \in Children(n) : find[c] # 0}
        IN  IF hits # {} THEN find[Min(hits)]
            ELSE IF n # 0 /\ IsQuestion(n) /\ Text(nodes[n].prompt) \in phrases
                 THEN n ELSE 0
  IN  find[0]

(* find_question: the node itself, then each child's subtree in turn.      *)
Found(phrases) ==
  LET find[n \in 0..Len(nodes)] ==
        LET hits == {c \in Children(n) : find[c] # 0}
        IN  IF n # 0 /\ IsQuestion(n) /\ Text(nodes[n].prompt) \in phrases THEN n
            ELSE IF hits = {} THEN 0 ELSE find[Min(hits)]
  IN  find[0]

(* list_questions: the same walk, collecting.                              *)
Listed ==
  LET list[n \in 0..Len(nodes)] ==
        LET self == IF n # 0 /\ IsQuestion(n) THEN <<n>> ELSE <<>>
            rest[k \in 0..Len(nodes)] ==
              IF k = 0 THEN <<>>
              ELSE rest[k - 1] \o (IF k \in Children(n) THEN list[k] ELSE <<>>)
        IN  self \o rest[Len(nodes)]
  IN  list[0]

StoreOf_AnyFormSet(q) ==
  LET declared == {c \in Nodes :
                     nodes[c].op \in StoreOps /\ nodes[c].store = nodes[q].store}
  IN  IF declared = {} THEN 0 ELSE Min(declared)

(* find_corresponding_varstore: up to a FormSet, then the first of its     *)
(* children that declares the id; 0 when there is none.                    *)
StoreOf(q) ==
  LET up[n \in 0..Len(nodes)] ==
        IF n = 0 \/ OpOf(n) = "FormSet" THEN n ELSE up[nodes[n].parent]
      declared == {c \in Children(up[q]) :
                     nodes[c].op \in StoreOps /\ nodes[c].store = nodes[q].store}
  IN  IF up[q] = 0 \/ declared = {} THEN 0 ELSE Min(declared)

-----------------------------------------------------------------------------
(* PROPERTIES                                                              *)

(* A parent comes before its children and has opened a scope: the walk of  *)
(* find_corresponding_varstore up the tree (forms.rs:1773-1781) ends.      *)
TypeOK ==
  /\ pc \in {"reading", "done", "err"}
  /\ stream \in Seq(Opcodes)
  /\ nodes \in Seq([op : STRING, open : BOOLEAN, parent : Nat, prompt : Nat,
                    store : Nat])
  /\ \A n \in Nodes : nodes[n].parent \in 0..n - 1
  /\ \A n \in {scope} \cup {nodes[m].parent : m \in Nodes} :
       n # 0 => n \in Nodes /\ nodes[n].open

(* Where node n stands in the list, and how many scopes are open there.    *)
Position(n) ==
  CHOOSE k \in DOMAIN stream :
    /\ stream[k].op # "End"
    /\ Cardinality({j \in 1..k : stream[j].op # "End"}) = n

Level(k) ==
  Cardinality({j \in 1..k : stream[j].op # "End" /\ stream[j].open})
  - Cardinality({j \in 1..k : stream[j].op = "End"})

(* Node m's scope is still open where n begins.                            *)
Encloses(m, n) ==
  /\ m < n /\ nodes[m].open
  /\ \A k \in Position(m)..Position(n) - 1 : Level(k) >= Level(Position(m))

(* The tree is the one the opens and Ends of the list spell out: a node's  *)
(* parent is the innermost scope around it (forms.rs:254-257, 793-843).    *)
NestingMatches ==
  \A n \in Nodes :
    nodes[n].parent = Max({0} \cup {m \in Nodes : Encloses(m, n)})

(* Walking the tree visits the questions in the order of the list, and     *)
(* finding one is finding the first that list_questions would show with    *)
(* one of the phrases (forms.rs:1085-1087, 1177-1183).                     *)
FirstInOrder ==
  pc = "done" =>
    /\ LET listed == Listed
       IN  /\ {listed[i] : i \in DOMAIN listed} = {n \in Nodes : IsQuestion(n)}
           /\ \A i, j \in DOMAIN listed : i < j => listed[i] < listed[j]
    /\ \A phrases \in SUBSET UNION {{Strings[k][i] : i \in DOMAIN Strings[k]}
                                    : k \in DOMAIN Strings} :
         LET matching == {n \in Nodes : IsQuestion(n)
                                        /\ Text(nodes[n].prompt) \in phrases}
         IN  Found(phrases) = IF matching = {} THEN 0 ELSE Min(matching)

(* A question's store is one that a FormSet around the question declares,  *)
(* and that FormSet is the innermost (forms.rs:1744-1771).                 *)
StoreOfOwnFormSet ==
  pc = "done" =>
    \A q \in Nodes :
      IsQuestion(q) /\ StoreOf(q) # 0 =>
        LET around == {m \in Nodes : Encloses(m, q) /\ nodes[m].op = "FormSet"}
        IN  /\ around # {}
            /\ nodes[StoreOf(q)].parent = Max(around)
            /\ nodes[StoreOf(q)].store = nodes[q].store

=============================================================================
