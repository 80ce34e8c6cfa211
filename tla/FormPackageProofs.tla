-------------------------- MODULE FormPackageProofs --------------------------
(***************************************************************************)
(* The tree of a form package, for packages of any length and any opcodes. *)
(* NestingMatches speaks of the list, current_scope only of the tree: the  *)
(* link is that the scopes that are open in the list are a stack with      *)
(* current_scope on top and a level of its own for each (ScopeInv).        *)
(***************************************************************************)
EXTENDS FormPackage, BytesProofs, FiniteSetTheorems

(* The opcodes among the first k of a list, by what they do to scopes.     *)
NonEnds(s, k) == {j \in 1..k : s[j].op # "End"}
Opens(s, k) == {j \in 1..k : s[j].op # "End" /\ s[j].open}
Ends(s, k) == {j \in 1..k : s[j].op = "End"}

LevelAt(s, k) == Cardinality(Opens(s, k)) - Cardinality(Ends(s, k))

(* Node n comes from the k-th opcode.                                      *)
IsPlace(s, n, k) == k \in DOMAIN s /\ s[k].op # "End" /\ Cardinality(NonEnds(s, k)) = n

PositionAt(s, n) == CHOOSE k \in DOMAIN s : s[k].op # "End" /\ Cardinality(NonEnds(s, k)) = n

(* The level of the scope a node opens, what scopes of the nodes ns enclose *)
(* a node, and which are open where list s ends.                           *)
Height(s, n) == LevelAt(s, PositionAt(s, n))

Enclosing(s, ns, m, n) ==
  /\ m < n /\ ns[m].open
  /\ \A k \in PositionAt(s, m)..PositionAt(s, n) - 1 : LevelAt(s, k) >= Height(s, m)

StillOpen(s, ns) ==
  {m \in 1..Len(ns) :
     ns[m].open /\ \A k \in PositionAt(s, m)..Len(s) : LevelAt(s, k) >= Height(s, m)}

LEMMA InTermsOfLists ==
  /\ \A n : Position(n) = PositionAt(stream, n)
  /\ \A k : Level(k) = LevelAt(stream, k)
  /\ \A m, n : Encloses(m, n) <=> Enclosing(stream, nodes, m, n)
<1>1. /\ \A n : Position(n) = PositionAt(stream, n)
      /\ \A k : Level(k) = LevelAt(stream, k)
  BY DEF Position, PositionAt, NonEnds, Level, LevelAt, Opens, Ends
<1>2. QED
  BY <1>1 DEF Encloses, Enclosing, Height
-----------------------------------------------------------------------------
(* COUNTING                                                                *)

LEMMA CountTyped ==
  ASSUME NEW s, NEW k \in Nat
  PROVE  /\ IsFiniteSet(NonEnds(s, k)) /\ Cardinality(NonEnds(s, k)) \in Nat
         /\ IsFiniteSet(Opens(s, k)) /\ Cardinality(Opens(s, k)) \in Nat
         /\ IsFiniteSet(Ends(s, k)) /\ Cardinality(Ends(s, k)) \in Nat
         /\ LevelAt(s, k) \in Int
<1>1. IsFiniteSet(1..k)
  BY FS_Interval
<1>2. IsFiniteSet(NonEnds(s, k)) /\ IsFiniteSet(Opens(s, k)) /\ IsFiniteSet(Ends(s, k))
  <2>1. /\ NonEnds(s, k) \in SUBSET (1..k) /\ Opens(s, k) \in SUBSET (1..k)
        /\ Ends(s, k) \in SUBSET (1..k)
    BY DEF NonEnds, Opens, Ends
  <2>2. QED
    BY <1>1, <2>1, FS_Subset
<1>3. /\ Cardinality(NonEnds(s, k)) \in Nat /\ Cardinality(Opens(s, k)) \in Nat
      /\ Cardinality(Ends(s, k)) \in Nat
  BY <1>2, FS_CardinalityType
<1>4. LevelAt(s, k) \in Int
  BY <1>3 DEF LevelAt
<1>5. QED
  BY <1>2, <1>3, <1>4

(* Reading one more opcode opens a scope, closes one or does neither.      *)
LEMMA CountAppended ==
  ASSUME NEW T, NEW s \in Seq(T), NEW o \in T
  PROVE  LET t == Append(s, o)
             n == Len(s)
         IN  /\ \A k \in 0..n : NonEnds(t, k) = NonEnds(s, k) /\ LevelAt(t, k) = LevelAt(s, k)
             /\ Cardinality(NonEnds(t, n + 1))
                  = Cardinality(NonEnds(s, n)) + (IF o.op = "End" THEN 0 ELSE 1)
             /\ LevelAt(t, n + 1)
                  = LevelAt(s, n) + (IF o.op = "End" THEN 0 - 1 ELSE IF o.open THEN 1 ELSE 0)
<1> DEFINE t == Append(s, o)
           n == Len(s)
<1>1. n \in Nat /\ t[n + 1] = o /\ \A i \in 1..n : t[i] = s[i]
  BY AppendProperties, LenProperties
<1> HIDE DEF t, n
<1>2. \A k \in 0..n : NonEnds(t, k) = NonEnds(s, k) /\ Opens(t, k) = Opens(s, k)
                      /\ Ends(t, k) = Ends(s, k)
  BY <1>1 DEF NonEnds, Opens, Ends
<1>3. NonEnds(t, n + 1) = IF o.op = "End" THEN NonEnds(s, n) ELSE NonEnds(s, n) \cup {n + 1}
  BY <1>1 DEF NonEnds
<1>4. Opens(t, n + 1) = IF o.op # "End" /\ o.open THEN Opens(s, n) \cup {n + 1} ELSE Opens(s, n)
  BY <1>1 DEF Opens
<1>5. Ends(t, n + 1) = IF o.op = "End" THEN Ends(s, n) \cup {n + 1} ELSE Ends(s, n)
  BY <1>1 DEF Ends
<1>6. n + 1 \notin NonEnds(s, n) /\ n + 1 \notin Opens(s, n) /\ n + 1 \notin Ends(s, n)
  BY <1>1 DEF NonEnds, Opens, Ends
<1>7. /\ Cardinality(NonEnds(s, n) \cup {n + 1}) = Cardinality(NonEnds(s, n)) + 1
      /\ Cardinality(Opens(s, n) \cup {n + 1}) = Cardinality(Opens(s, n)) + 1
      /\ Cardinality(Ends(s, n) \cup {n + 1}) = Cardinality(Ends(s, n)) + 1
  BY <1>1, <1>6, CountTyped, FS_AddElement
<1>8. /\ Cardinality(NonEnds(s, n)) \in Nat /\ Cardinality(Opens(s, n)) \in Nat
      /\ Cardinality(Ends(s, n)) \in Nat
  BY <1>1, CountTyped
<1>9. \A k \in 0..n : LevelAt(t, k) = LevelAt(s, k)
  BY <1>2 DEF LevelAt
<1>10. Cardinality(NonEnds(t, n + 1))
         = Cardinality(NonEnds(s, n)) + (IF o.op = "End" THEN 0 ELSE 1)
  BY <1>3, <1>7, <1>8
<1>11. LevelAt(t, n + 1)
         = LevelAt(s, n) + (IF o.op = "End" THEN 0 - 1 ELSE IF o.open THEN 1 ELSE 0)
  <2>1. /\ LevelAt(t, n + 1) = Cardinality(Opens(t, n + 1)) - Cardinality(Ends(t, n + 1))
        /\ LevelAt(s, n) = Cardinality(Opens(s, n)) - Cardinality(Ends(s, n))
    BY DEF LevelAt
  <2>2. Cardinality(Opens(t, n + 1))
          = Cardinality(Opens(s, n)) + (IF o.op # "End" /\ o.open THEN 1 ELSE 0)
    BY <1>4, <1>7, <1>8
  <2>3. Cardinality(Ends(t, n + 1))
          = Cardinality(Ends(s, n)) + (IF o.op = "End" THEN 1 ELSE 0)
    BY <1>5, <1>7, <1>8
  <2>4. QED
    BY <1>8, <2>1, <2>2, <2>3
<1>12. QED
  BY <1>2, <1>9, <1>10, <1>11 DEF t, n

(* Nodes are numbered in the order of their places.                        *)
LEMMA PlacesGrow ==
  ASSUME NEW T, NEW s \in Seq(T), NEW n, NEW k, NEW m, NEW j,
         IsPlace(s, n, k), IsPlace(s, m, j), j < k
  PROVE  m < n
<1>1. DOMAIN s = 1..Len(s) /\ Len(s) \in Nat
  BY LenProperties
<1>2. k \in Nat /\ j \in Nat /\ j \in 1..k /\ k \in 1..k
  BY <1>1 DEF IsPlace
<1>3. NonEnds(s, j) \in SUBSET NonEnds(s, k) /\ k \in NonEnds(s, k) /\ k \notin NonEnds(s, j)
  BY <1>2 DEF IsPlace, NonEnds
<1>4. IsFiniteSet(NonEnds(s, k))
  BY <1>2, CountTyped
<1>5. Cardinality(NonEnds(s, j)) <= Cardinality(NonEnds(s, k))
      /\ Cardinality(NonEnds(s, j)) # Cardinality(NonEnds(s, k))
  BY <1>3, <1>4, FS_Subset
<1>6. Cardinality(NonEnds(s, j)) \in Nat /\ Cardinality(NonEnds(s, k)) \in Nat
  BY <1>2, CountTyped
<1>7. QED
  BY <1>5, <1>6 DEF IsPlace

LEMMA PlaceFound ==
  ASSUME NEW T, NEW s \in Seq(T), NEW n, NEW k, IsPlace(s, n, k)
  PROVE  PositionAt(s, n) = k
<1> DEFINE j == PositionAt(s, n)
<1>1. IsPlace(s, n, j)
  BY DEF PositionAt, IsPlace
<1>2. j \in Nat /\ k \in Nat
  BY <1>1, LenProperties DEF IsPlace
<1>3. n \in Nat
  BY <1>2, CountTyped DEF IsPlace
<1> HIDE DEF j
<1>4. ~(j < k)
  <2>1. ASSUME j < k PROVE n < n
    BY <1>1, <2>1, PlacesGrow
  <2>2. QED
    BY <1>3, <2>1
<1>5. ~(k < j)
  <2>1. ASSUME k < j PROVE n < n
    BY <1>1, <2>1, PlacesGrow
  <2>2. QED
    BY <1>3, <2>1
<1>6. QED
  BY <1>2, <1>4, <1>5 DEF j
-----------------------------------------------------------------------------
(* THE INVARIANT                                                           *)

NodeType == [op : STRING, open : BOOLEAN, parent : Nat, prompt : Nat, store : Nat]

(* Every node has its opcode in the list, at its place.                    *)
Placed(s, ns) ==
  \A n \in 1..Len(ns) :
    IsPlace(s, n, PositionAt(s, n)) /\ ns[n].open = s[PositionAt(s, n)].open

PlacesInv ==
  /\ pc = "reading" => Cardinality(NonEnds(stream, Len(stream))) = Len(nodes)
  /\ Placed(stream, nodes)

(* They are a stack: current_scope is on top, each is one level above its  *)
(* parent, and its parent is the one below it.                             *)
IsStack(open, s, ns, top) ==
  /\ top \in {0} \cup open /\ \A m \in open : m <= top
  /\ top # 0 => Height(s, top) = LevelAt(s, Len(s))
  /\ \A m, x \in open : x < m => x <= ns[m].parent /\ Height(s, x) < Height(s, m)
  /\ \A m \in open :
       ns[m].parent # 0 => /\ ns[m].parent \in open
                           /\ Height(s, m) = Height(s, ns[m].parent) + 1

ScopeInv == pc = "reading" => IsStack(StillOpen(stream, nodes), stream, nodes, scope)

NestInv ==
  \A n \in Nodes :
    /\ nodes[n].parent = 0 \/ Enclosing(stream, nodes, nodes[n].parent, n)
    /\ \A m \in Nodes : Enclosing(stream, nodes, m, n) => m <= nodes[n].parent

PackageInv == TypeOK /\ PlacesInv /\ ScopeInv /\ NestInv

LEMMA InitPackage == Init => PackageInv
<1> SUFFICES ASSUME Init PROVE PackageInv
  OBVIOUS
<1>1. Len(nodes) = 0 /\ Len(stream) = 0 /\ Nodes = {}
  BY EmptySeq DEF Init, Nodes
<1>2. TypeOK
  BY <1>1, EmptySeq DEF Init, TypeOK
<1>3. PlacesInv
  <2>1. NonEnds(stream, Len(stream)) = {}
    BY <1>1 DEF NonEnds
  <2>2. QED
    BY <1>1, <2>1, FS_EmptySet DEF PlacesInv, Placed
<1>4. StillOpen(stream, nodes) = {}
  BY <1>1 DEF StillOpen
<1>5. ScopeInv
  BY <1>4 DEF ScopeInv, IsStack, Init
<1>6. QED
  BY <1>1, <1>2, <1>3, <1>5 DEF PackageInv, NestInv

(* What is known of the sequences.                                         *)
LEMMA Sizes ==
  ASSUME TypeOK
  PROVE  /\ Len(nodes) \in Nat /\ Len(stream) \in Nat /\ Nodes = 1..Len(nodes)
         /\ DOMAIN nodes = 1..Len(nodes) /\ DOMAIN stream = 1..Len(stream)
         /\ scope \in Nat /\ scope \in {0} \cup Nodes
         /\ \A n \in Nodes : nodes[n].parent \in Nat /\ nodes[n].parent < n
                             /\ nodes[n].open \in BOOLEAN
<1>1. /\ Len(nodes) \in Nat /\ Len(stream) \in Nat /\ DOMAIN nodes = 1..Len(nodes)
      /\ DOMAIN stream = 1..Len(stream)
  BY LenProperties DEF TypeOK
<1>2. Nodes = 1..Len(nodes)
  BY DEF Nodes
<1>3. scope \in {0} \cup Nodes
  BY DEF TypeOK
<1>4. ASSUME NEW n \in Nodes
      PROVE  nodes[n].parent \in Nat /\ nodes[n].parent < n /\ nodes[n].open \in BOOLEAN
  <2>1. nodes[n] \in NodeType
    BY <1>2, ElementOfSeq DEF TypeOK, NodeType
  <2>2. nodes[n].parent \in 0..n - 1
    BY DEF TypeOK
  <2>3. QED
    BY <1>1, <1>2, <2>1, <2>2 DEF NodeType
<1>5. scope \in Nat
  BY <1>1, <1>2, <1>3
<1>6. QED
  BY <1>1, <1>2, <1>3, <1>4, <1>5

LEMMA OpcodeTyped ==
  ASSUME NEW o \in Opcodes
  PROVE  o.op \in STRING /\ o.open \in BOOLEAN /\ o.prompt \in Nat /\ o.store \in Nat
BY OpcodesAssumption

LEMMA TypePreserved ==
  ASSUME TypeOK, [Next]_vars
  PROVE  TypeOK'
<1>1. CASE UNCHANGED vars
  BY <1>1 DEF vars, TypeOK, Nodes
<1>2. CASE Short
  BY <1>2 DEF Short, TypeOK, Nodes
<1>3. ASSUME NEW o \in Opcodes, stream' = Append(stream, o), pc = "reading",
             ReadEnd(o) \/ ReadNode(o)
      PROVE  TypeOK'
  <2>1. stream' \in Seq(Opcodes)
    BY <1>3, AppendProperties DEF TypeOK
  <2>2. CASE ReadEnd(o)
    <3>1. scope' = IF scope = 0 THEN 0 ELSE nodes[scope].parent
      BY <2>2 DEF ReadEnd, Outer
    <3>2. nodes' = nodes /\ Nodes' = Nodes
      BY <2>2 DEF ReadEnd, Nodes
    <3>3. pc' \in {"reading", "done", "err"}
      BY <2>2 DEF ReadEnd
    <3>4. scope' # 0 => scope' \in Nodes /\ nodes[scope'].open
      BY <3>1 DEF TypeOK
    <3>5. QED
      BY <2>1, <3>2, <3>3, <3>4 DEF TypeOK
  <2>3. CASE nodes' = nodes /\ scope' = scope /\ pc' = "err"
    BY <2>1, <2>3 DEF TypeOK, Nodes
  <2>4. CASE /\ nodes' = Append(nodes, [op |-> o.op, open |-> o.open, parent |-> scope,
                                        prompt |-> o.prompt, store |-> o.store])
             /\ scope' = Inner(o) /\ pc' = pc
    <3> DEFINE n == Len(nodes)
               node == [op |-> o.op, open |-> o.open, parent |-> scope,
                        prompt |-> o.prompt, store |-> o.store]
    <3>1. node \in NodeType
      BY Sizes, OpcodeTyped DEF NodeType
    <3>2. nodes \in Seq(NodeType)
      BY DEF TypeOK, NodeType
    <3> HIDE DEF node
    <3>3. /\ nodes' \in Seq(NodeType) /\ Len(nodes') = n + 1 /\ nodes'[n + 1] = node
          /\ \A i \in 1..n : nodes'[i] = nodes[i]
      BY <2>4, <3>1, <3>2, AppendProperties DEF node
    <3>4. n \in Nat /\ Nodes = 1..n /\ Nodes' = 1..n + 1
      BY <3>3, Sizes DEF Nodes
    <3>5. node.parent = scope /\ node.open = o.open
      BY DEF node
    <3>6. scope \in 0..n /\ (scope # 0 => scope \in Nodes /\ nodes[scope].open)
      <4>1. scope # 0 => scope \in Nodes /\ nodes[scope].open
        BY DEF TypeOK
      <4>2. QED
        BY <3>4, <4>1
    <3>7. ASSUME NEW m \in Nodes' PROVE nodes'[m].parent \in 0..m - 1
      <4>1. CASE m = n + 1
        BY <3>3, <3>4, <3>5, <3>6, <4>1
      <4>2. CASE m # n + 1
        <5>1. m \in Nodes /\ nodes'[m] = nodes[m]
          BY <3>3, <3>4, <4>2
        <5>2. QED
          BY <5>1 DEF TypeOK
      <4>3. QED
        BY <4>1, <4>2
    <3>8. \A m \in Nodes : nodes[m].parent # 0 =>
            nodes[m].parent \in Nodes /\ nodes[nodes[m].parent].open
      BY DEF TypeOK
    <3>9. scope' # 0 => scope' \in Nodes' /\ nodes'[scope'].open
      BY <2>4, <3>3, <3>4, <3>5, <3>6 DEF Inner
    <3>10. ASSUME NEW m \in Nodes', nodes'[m].parent # 0
           PROVE  nodes'[m].parent \in Nodes' /\ nodes'[nodes'[m].parent].open
      <4>1. CASE m = n + 1
        BY <3>3, <3>4, <3>5, <3>6, <3>10, <4>1
      <4>2. CASE m # n + 1
        <5>1. m \in Nodes /\ nodes'[m] = nodes[m]
          BY <3>3, <3>4, <4>2
        <5>2. nodes[m].parent \in Nodes /\ nodes[nodes[m].parent].open
          BY <3>8, <3>10, <5>1
        <5>3. QED
          BY <3>3, <3>4, <5>1, <5>2
      <4>3. QED
        BY <4>1, <4>2
    <3>11. QED
      <4>1. pc' \in {"reading", "done", "err"}
        BY <2>4 DEF TypeOK
      <4>2. nodes' \in Seq([op : STRING, open : BOOLEAN, parent : Nat, prompt : Nat,
                            store : Nat])
        BY <3>3 DEF NodeType
      <4>3. \A k \in {scope'} \cup {nodes'[m].parent : m \in Nodes'} :
              k # 0 => k \in Nodes' /\ nodes'[k].open
        BY <3>9, <3>10
      <4>4. QED
        BY <2>1, <3>7, <4>1, <4>2, <4>3 DEF TypeOK
  <2>5. QED
    BY <1>3, <2>2, <2>3, <2>4 DEF ReadNode
<1>4. QED
  BY <1>1, <1>2, <1>3 DEF Next, Read
-----------------------------------------------------------------------------
(* STEPS                                                                   *)

(* Places and levels that there are already stay when the list grows.      *)
LEMMA ListGrows ==
  ASSUME TypeOK, PlacesInv, NEW o \in Opcodes, stream' = Append(stream, o)
  PROVE  LET n == Len(stream)
         IN  /\ Len(stream') = n + 1 /\ stream'[n + 1] = o
             /\ \A k \in 0..n : LevelAt(stream', k) = LevelAt(stream, k)
             /\ LevelAt(stream', n + 1)
                  = LevelAt(stream, n) + (IF o.op = "End" THEN 0 - 1 ELSE IF o.open THEN 1 ELSE 0)
             /\ Cardinality(NonEnds(stream', n + 1))
                  = Cardinality(NonEnds(stream, n)) + (IF o.op = "End" THEN 0 ELSE 1)
             /\ \A m \in Nodes :
                  /\ PositionAt(stream, m) \in 1..n
                  /\ PositionAt(stream', m) = PositionAt(stream, m)
                  /\ IsPlace(stream', m, PositionAt(stream, m))
                  /\ stream'[PositionAt(stream, m)].open = nodes[m].open
<1> DEFINE n == Len(stream)
<1>1. /\ n \in Nat /\ Len(stream') = n + 1 /\ stream'[n + 1] = o
      /\ \A i \in 1..n : stream'[i] = stream[i]
      /\ stream' \in Seq(Opcodes) /\ stream \in Seq(Opcodes)
  BY AppendProperties, Sizes DEF TypeOK
<1>2. /\ \A k \in 0..n : NonEnds(stream', k) = NonEnds(stream, k)
                         /\ LevelAt(stream', k) = LevelAt(stream, k)
      /\ LevelAt(stream', n + 1)
           = LevelAt(stream, n) + (IF o.op = "End" THEN 0 - 1 ELSE IF o.open THEN 1 ELSE 0)
      /\ Cardinality(NonEnds(stream', n + 1))
           = Cardinality(NonEnds(stream, n)) + (IF o.op = "End" THEN 0 ELSE 1)
  BY <1>1, CountAppended
<1>3. ASSUME NEW m \in Nodes
      PROVE  /\ PositionAt(stream, m) \in 1..n /\ PositionAt(stream', m) = PositionAt(stream, m)
             /\ IsPlace(stream', m, PositionAt(stream, m))
             /\ stream'[PositionAt(stream, m)].open = nodes[m].open
  <2> DEFINE k == PositionAt(stream, m)
  <2>1. IsPlace(stream, m, k) /\ nodes[m].open = stream[k].open
    BY DEF PlacesInv, Placed, Nodes
  <2> HIDE DEF k
  <2>2. k \in 1..n
    BY <2>1, Sizes DEF IsPlace
  <2>3. stream'[k] = stream[k] /\ NonEnds(stream', k) = NonEnds(stream, k)
        /\ k \in DOMAIN stream'
    BY <1>1, <1>2, <2>2, LenProperties
  <2>4. IsPlace(stream', m, k)
    BY <2>1, <2>3 DEF IsPlace
  <2>5. PositionAt(stream', m) = k
    BY <1>1, <2>4, PlaceFound
  <2>6. QED
    BY <2>1, <2>2, <2>3, <2>4, <2>5 DEF k
<1>4. QED
  BY <1>1, <1>2, <1>3

LEMMA PlacesOrdered ==
  ASSUME TypeOK, PlacesInv, NEW m \in Nodes, NEW n \in Nodes, m < n
  PROVE  PositionAt(stream, m) \in 1..Len(stream) /\ PositionAt(stream, n) \in 1..Len(stream)
         /\ PositionAt(stream, m) < PositionAt(stream, n)
<1>1. IsPlace(stream, m, PositionAt(stream, m)) /\ IsPlace(stream, n, PositionAt(stream, n))
  BY DEF PlacesInv, Placed, Nodes
<1>2. PositionAt(stream, m) \in 1..Len(stream) /\ PositionAt(stream, n) \in 1..Len(stream)
  BY <1>1, Sizes DEF IsPlace
<1>3. m \in Nat /\ n \in Nat /\ Len(stream) \in Nat
  BY Sizes
<1>4. PositionAt(stream, n) # PositionAt(stream, m)
  BY <1>1, <1>3 DEF IsPlace
<1>5. ~(PositionAt(stream, n) < PositionAt(stream, m))
  <2>1. ASSUME PositionAt(stream, n) < PositionAt(stream, m) PROVE n < m
    BY <1>1, <2>1, PlacesGrow DEF TypeOK
  <2>2. QED
    BY <1>3, <2>1
<1>6. QED
  BY <1>2, <1>3, <1>4, <1>5

(* What encloses a node does not change any more.                          *)
LEMMA EnclosureStays ==
  ASSUME TypeOK, PlacesInv, NEW o \in Opcodes, stream' = Append(stream, o),
         \A m \in Nodes : nodes'[m].open = nodes[m].open
  PROVE  \A m, n \in Nodes : Enclosing(stream', nodes', m, n) <=> Enclosing(stream, nodes, m, n)
<1> TAKE m, n \in Nodes
<1>1. CASE ~(m < n)
  BY <1>1 DEF Enclosing
<1>2. CASE m < n
  <2> DEFINE i == PositionAt(stream, m)
             j == PositionAt(stream, n)
  <2>1. i \in 1..Len(stream) /\ j \in 1..Len(stream) /\ i < j /\ Len(stream) \in Nat
    BY <1>2, PlacesOrdered, Sizes
  <2>2. PositionAt(stream', m) = i /\ PositionAt(stream', n) = j
    BY ListGrows
  <2>3. \A k \in 0..Len(stream) : LevelAt(stream', k) = LevelAt(stream, k)
    BY ListGrows
  <2> HIDE DEF i, j
  <2>4. Enclosing(stream', nodes', m, n) <=> /\ m < n /\ nodes'[m].open
                            /\ \A k \in i..j - 1 : LevelAt(stream', k) >= LevelAt(stream', i)
    BY <2>2 DEF Enclosing, Height
  <2>5. Enclosing(stream, nodes, m, n) <=> /\ m < n /\ nodes[m].open
                           /\ \A k \in i..j - 1 : LevelAt(stream, k) >= LevelAt(stream, i)
    BY DEF Enclosing, Height, i, j
  <2>6. \A k \in i..j - 1 : k \in 0..Len(stream) /\ i \in 0..Len(stream)
    BY <2>1
  <2>7. QED
    BY <2>3, <2>4, <2>5, <2>6
<1>3. QED
  BY <1>1, <1>2

(* Steps that add no node.                                                 *)
LEMMA NodesStay ==
  ASSUME PackageInv, NEW o \in Opcodes, stream' = Append(stream, o), nodes' = nodes
  PROVE  NestInv' /\ Placed(stream', nodes')
<1>1. TypeOK /\ PlacesInv /\ NestInv /\ Nodes' = Nodes
  BY DEF PackageInv, Nodes
<1>2. \A m, n \in Nodes : Enclosing(stream', nodes', m, n) <=> Enclosing(stream, nodes, m, n)
  BY <1>1, EnclosureStays
<1>3. NestInv'
  <2>1. ASSUME NEW n \in Nodes
        PROVE  /\ nodes[n].parent = 0 \/ Enclosing(stream', nodes', nodes[n].parent, n)
               /\ \A m \in Nodes : Enclosing(stream', nodes', m, n) => m <= nodes[n].parent
    <3>1. nodes[n].parent # 0 => nodes[n].parent \in Nodes
      BY <1>1 DEF TypeOK
    <3>2. nodes[n].parent = 0 \/ Enclosing(stream, nodes, nodes[n].parent, n)
      BY <1>1 DEF NestInv
    <3>3. \A m \in Nodes : Enclosing(stream, nodes, m, n) => m <= nodes[n].parent
      BY <1>1 DEF NestInv
    <3>4. QED
      BY <1>2, <3>1, <3>2, <3>3
  <2>2. QED
    BY <1>1, <2>1 DEF NestInv
<1>4. Placed(stream', nodes')
  BY <1>1, Sizes, ListGrows DEF Placed
<1>5. QED
  BY <1>3, <1>4

(* An End closes the scope on top of the stack.                            *)
LEMMA ScopeClosed ==
  ASSUME PackageInv, pc = "reading", NEW o \in Opcodes, o.op = "End",
         stream' = Append(stream, o), nodes' = nodes, scope # 0,
         scope' = nodes[scope].parent, scope' # 0
  PROVE  IsStack(StillOpen(stream', nodes'), stream', nodes', scope')
<1> DEFINE n == Len(stream)
           open == StillOpen(stream, nodes)
           height == [m \in Nodes |-> Height(stream, m)]
<1>1. TypeOK /\ PlacesInv /\ IsStack(open, stream, nodes, scope)
  BY DEF PackageInv, ScopeInv
<1>2. n \in Nat /\ Nodes = 1..Len(nodes) /\ Len(nodes) \in Nat /\ open \in SUBSET Nodes
  BY <1>1, Sizes DEF StillOpen
<1>3. /\ Len(stream') = n + 1
      /\ \A k \in 0..n : LevelAt(stream', k) = LevelAt(stream, k)
      /\ LevelAt(stream', n + 1) = LevelAt(stream, n) - 1
      /\ \A m \in Nodes : PositionAt(stream, m) \in 1..n /\ PositionAt(stream', m) = PositionAt(stream, m)
  <2>1. LevelAt(stream, n) \in Int
    BY <1>2, CountTyped
  <2>2. QED
    BY <1>1, <2>1, ListGrows
<1>4. ASSUME NEW m \in Nodes
      PROVE  /\ Height(stream, m) = height[m] /\ Height(stream', m) = height[m]
             /\ height[m] \in Int /\ height[m] = LevelAt(stream, PositionAt(stream, m))
  <2>1. LevelAt(stream, PositionAt(stream, m)) \in Int
    BY <1>2, <1>3, CountTyped
  <2>2. QED
    BY <1>2, <1>3, <2>1 DEF Height
<1>5. \A k \in 0..n + 1 : LevelAt(stream, k) \in Int /\ LevelAt(stream', k) \in Int
  BY <1>2, CountTyped
<1>6. scope \in open /\ height[scope] = LevelAt(stream, n)
  BY <1>1, <1>2, <1>4 DEF IsStack
<1> HIDE DEF height, open
<1>7. ASSUME NEW m \in open PROVE m \in Nodes /\ m \in Nat /\ height[m] \in Int
  BY <1>2, <1>4
<1>8. StillOpen(stream', nodes') = open \ {scope}
  <2>1. ASSUME NEW m \in Nodes
        PROVE  m \in StillOpen(stream', nodes') <=> m \in open /\ m # scope
    <3>1. m \in StillOpen(stream', nodes')
            <=> /\ nodes[m].open
                /\ \A k \in PositionAt(stream, m)..n + 1 : LevelAt(stream', k) >= height[m]
      BY <1>2, <1>3, <1>4 DEF StillOpen
    <3>2. m \in open
            <=> /\ nodes[m].open
                /\ \A k \in PositionAt(stream, m)..n : LevelAt(stream, k) >= height[m]
      BY <1>2, <1>3, <1>4 DEF StillOpen, open
    <3>3. /\ \A k \in PositionAt(stream, m)..n : LevelAt(stream', k) = LevelAt(stream, k)
          /\ n + 1 \in PositionAt(stream, m)..n + 1 /\ PositionAt(stream, m) \in 1..n
          /\ \A k \in PositionAt(stream, m)..n + 1 : k = n + 1 \/ k \in PositionAt(stream, m)..n
      BY <1>2, <1>3
    <3>4. ASSUME m \in StillOpen(stream', nodes') PROVE m \in open /\ m # scope
      <4>1. \A k \in PositionAt(stream, m)..n : k \in PositionAt(stream, m)..n + 1
        BY <1>2, <3>3
      <4>2. m \in open
        BY <3>1, <3>2, <3>3, <3>4, <4>1
      <4>3. LevelAt(stream, n) - 1 >= height[m]
        BY <1>3, <3>1, <3>3, <3>4
      <4>4. m # scope
        BY <1>4, <1>6, <4>3
      <4>5. QED
        BY <4>2, <4>4
    <3>5. ASSUME m \in open, m # scope PROVE m \in StillOpen(stream', nodes')
      <4>1. m < scope
        BY <1>1, <1>6, <1>7, <3>5 DEF IsStack
      <4>2. height[m] < height[scope]
        BY <1>1, <1>4, <1>6, <1>7, <3>5, <4>1 DEF IsStack
      <4>3. LevelAt(stream', n + 1) >= height[m]
        BY <1>3, <1>6, <1>7, <3>5, <4>2
      <4>4. QED
        BY <3>1, <3>2, <3>3, <3>5, <4>3
    <3>6. QED
      BY <3>4, <3>5
  <2>2. StillOpen(stream', nodes') \in SUBSET Nodes
    BY <1>2 DEF StillOpen
  <2>3. QED
    BY <1>2, <2>1, <2>2
<1> PICK top : top = scope'
  OBVIOUS
<1>9. top \in open \ {scope} /\ height[scope] = height[top] + 1 /\ top < scope
  <2>1. top \in open /\ Height(stream, scope) = Height(stream, top) + 1
    BY <1>1, <1>6 DEF IsStack
  <2>2. top < scope /\ scope \in Nat
    BY <1>1, <1>6, <1>7, Sizes
  <2>3. QED
    BY <1>4, <1>6, <1>7, <2>1, <2>2
<1>10. ASSUME NEW m \in open \ {scope} PROVE m <= top
  <2>1. m < scope
    BY <1>1, <1>6, <1>7 DEF IsStack
  <2>2. QED
    BY <1>1, <1>6, <2>1 DEF IsStack
<1>11. Height(stream', top) = LevelAt(stream', n + 1)
  BY <1>3, <1>4, <1>6, <1>7, <1>9
<1>12. ASSUME NEW m \in open \ {scope}, NEW x \in open \ {scope}, x < m
       PROVE  x <= nodes[m].parent /\ Height(stream', x) < Height(stream', m)
  BY <1>1, <1>4, <1>7, <1>12 DEF IsStack
<1>13. ASSUME NEW m \in open \ {scope}, nodes[m].parent # 0
       PROVE  /\ nodes[m].parent \in open \ {scope}
              /\ Height(stream', m) = Height(stream', nodes[m].parent) + 1
  <2>1. nodes[m].parent \in open /\ Height(stream, m) = Height(stream, nodes[m].parent) + 1
    BY <1>1, <1>13 DEF IsStack
  <2>2. nodes[m].parent < m /\ m < scope
    BY <1>1, <1>6, <1>7, Sizes DEF IsStack
  <2>3. nodes[m].parent # scope
    BY <1>6, <1>7, <2>1, <2>2
  <2>4. QED
    BY <1>4, <1>7, <2>1, <2>3
<1>14. QED
  BY <1>3, <1>8, <1>9, <1>10, <1>11, <1>12, <1>13 DEF IsStack

(* A new node is enclosed by the scopes that are open, and may be a new    *)
(* top of the stack.                                                       *)
LEMMA NodeAdded ==
  ASSUME PackageInv, pc = "reading", NEW o \in Opcodes, o.op # "End",
         stream' = Append(stream, o), pc' = pc, scope' = Inner(o),
         nodes' = Append(nodes, [op |-> o.op, open |-> o.open, parent |-> scope,
                                 prompt |-> o.prompt, store |-> o.store])
  PROVE  PlacesInv' /\ ScopeInv' /\ NestInv'
<1> DEFINE n == Len(stream)
           open == StillOpen(stream, nodes)
           level == LevelAt(stream, n)
           node == [op |-> o.op, open |-> o.open, parent |-> scope,
                    prompt |-> o.prompt, store |-> o.store]
           height == [m \in Nodes |-> Height(stream, m)]
<1>0. PICK new : new = Len(nodes) + 1
  OBVIOUS
<1>1. TypeOK /\ PlacesInv /\ NestInv /\ IsStack(open, stream, nodes, scope)
  BY DEF PackageInv, ScopeInv
<1>2. /\ n \in Nat /\ Nodes = 1..new - 1 /\ new \in Nat \ {0} /\ open \in SUBSET Nodes
      /\ scope \in Nat /\ o.open \in BOOLEAN
  BY <1>0, <1>1, Sizes, OpcodeTyped DEF StillOpen
<1>3. /\ Len(nodes') = new /\ nodes'[new].parent = scope /\ nodes'[new].open = o.open
      /\ \A m \in Nodes : nodes'[m] = nodes[m]
  <2>1. node \in NodeType
    BY <1>2, OpcodeTyped DEF NodeType
  <2>2. nodes \in Seq(NodeType)
    BY <1>1 DEF TypeOK, NodeType
  <2>3. node.parent = scope /\ node.open = o.open
    OBVIOUS
  <2> HIDE DEF node
  <2>4. nodes' = Append(nodes, node)
    BY DEF node
  <2>5. QED
    BY <1>0, <1>2, <2>1, <2>2, <2>3, <2>4, AppendProperties
<1>4. Nodes' = Nodes \cup {new} /\ new \notin Nodes
  BY <1>2, <1>3 DEF Nodes
<1>5. /\ Len(stream') = n + 1 /\ stream'[n + 1] = o
      /\ \A k \in 0..n : LevelAt(stream', k) = LevelAt(stream, k)
      /\ LevelAt(stream', n + 1) = level + (IF o.open THEN 1 ELSE 0)
      /\ Cardinality(NonEnds(stream', n + 1)) = new
      /\ \A m \in Nodes :
           /\ PositionAt(stream, m) \in 1..n /\ PositionAt(stream', m) = PositionAt(stream, m)
           /\ IsPlace(stream', m, PositionAt(stream, m)) /\ stream'[PositionAt(stream, m)].open = nodes[m].open
  <2>1. Cardinality(NonEnds(stream, n)) = Len(nodes)
    BY <1>1 DEF PlacesInv
  <2>2. QED
    BY <1>0, <1>1, <1>2, <2>1, ListGrows
<1>6. IsPlace(stream', new, n + 1) /\ PositionAt(stream', new) = n + 1
  <2>1. stream' \in Seq(Opcodes)
    BY <1>1, AppendProperties DEF TypeOK
  <2>2. n + 1 \in DOMAIN stream'
    BY <1>2, <1>5, <2>1, LenProperties
  <2>3. IsPlace(stream', new, n + 1)
    BY <1>5, <2>2 DEF IsPlace
  <2>4. QED
    BY <2>1, <2>3, PlaceFound
<1>7. PlacesInv'
  <2>1. ASSUME NEW m \in Nodes \cup {new}
        PROVE  /\ IsPlace(stream', m, PositionAt(stream', m))
               /\ nodes'[m].open = stream'[PositionAt(stream', m)].open
    <3>1. CASE m = new
      BY <1>3, <1>5, <1>6, <3>1
    <3>2. CASE m # new
      BY <1>3, <1>5, <3>2
    <3>3. QED
      BY <3>1, <3>2
  <2>2. Placed(stream', nodes')
    <3>1. 1..Len(nodes') = Nodes \cup {new}
      BY <1>2, <1>3
    <3>2. QED
      BY <2>1, <3>1 DEF Placed
  <2>3. Cardinality(NonEnds(stream', Len(stream'))) = Len(nodes')
    BY <1>3, <1>5
  <2>4. QED
    BY <2>2, <2>3 DEF PlacesInv
<1> HIDE DEF node
<1>8. level \in Int
  BY <1>2, CountTyped
<1>9. ASSUME NEW m \in Nodes
      PROVE  /\ Height(stream, m) = height[m] /\ Height(stream', m) = height[m]
             /\ height[m] \in Int /\ height[m] = LevelAt(stream, PositionAt(stream, m))
             /\ m \in Nat /\ m < new
  <2>1. LevelAt(stream, PositionAt(stream, m)) \in Int
    BY <1>2, <1>5, CountTyped
  <2>2. QED
    BY <1>2, <1>5, <2>1 DEF Height
<1> HIDE DEF height
<1>10. ASSUME NEW m \in Nodes
       PROVE  m \in open <=> /\ nodes[m].open
                             /\ \A k \in PositionAt(stream, m)..n : LevelAt(stream, k) >= height[m]
  BY <1>0, <1>2, <1>5, <1>9 DEF StillOpen
<1>11. NestInv'
  <2>1. ASSUME NEW m \in Nodes PROVE Enclosing(stream', nodes', m, new) <=> m \in open
    <3>1. (n + 1) - 1 = n /\ Height(stream', m) = height[m] /\ m < new
      BY <1>2, <1>9
    <3>2. Enclosing(stream', nodes', m, new)
            <=> /\ nodes'[m].open
                /\ \A k \in PositionAt(stream, m)..n : LevelAt(stream', k) >= height[m]
      BY <1>5, <1>6, <3>1 DEF Enclosing
    <3>3. \A k \in PositionAt(stream, m)..n : LevelAt(stream', k) = LevelAt(stream, k)
      BY <1>2, <1>5
    <3>4. QED
      BY <1>3, <1>10, <3>2, <3>3
  <2>2. \A m, k \in Nodes : Enclosing(stream', nodes', m, k) <=> Enclosing(stream, nodes, m, k)
    BY <1>1, <1>3, EnclosureStays
  <2>3. ASSUME NEW k \in Nodes
        PROVE  /\ nodes'[k].parent = 0 \/ Enclosing(stream', nodes', nodes'[k].parent, k)
               /\ \A m \in Nodes' : Enclosing(stream', nodes', m, k) => m <= nodes'[k].parent
    <3>1. nodes[k].parent # 0 => nodes[k].parent \in Nodes
      BY <1>1 DEF TypeOK
    <3>2. nodes[k].parent = 0 \/ Enclosing(stream, nodes, nodes[k].parent, k)
      BY <1>1 DEF NestInv
    <3>3. \A m \in Nodes : Enclosing(stream, nodes, m, k) => m <= nodes[k].parent
      BY <1>1 DEF NestInv
    <3>4. ~Enclosing(stream', nodes', new, k)
      BY <1>2, <1>9 DEF Enclosing
    <3>5. nodes'[k] = nodes[k]
      BY <1>3
    <3>6. \A m \in Nodes' : Enclosing(stream', nodes', m, k) => m <= nodes'[k].parent
      BY <1>4, <2>2, <3>3, <3>4, <3>5
    <3>7. QED
      BY <2>2, <3>1, <3>2, <3>5, <3>6
  <2>4. /\ nodes'[new].parent = 0 \/ Enclosing(stream', nodes', nodes'[new].parent, new)
        /\ \A m \in Nodes' : Enclosing(stream', nodes', m, new) => m <= nodes'[new].parent
    <3>1. scope # 0 => scope \in open
      BY <1>1 DEF IsStack
    <3>2. ~Enclosing(stream', nodes', new, new)
      BY <1>2 DEF Enclosing
    <3>3. \A m \in open : m <= scope
      BY <1>1 DEF IsStack
    <3>4. \A m \in Nodes' : Enclosing(stream', nodes', m, new) => m <= scope
      BY <1>4, <2>1, <3>2, <3>3
    <3>5. scope # 0 => Enclosing(stream', nodes', scope, new)
      BY <1>2, <2>1, <3>1
    <3>6. QED
      BY <1>3, <3>4, <3>5
  <2>5. QED
    BY <1>4, <2>3, <2>4 DEF NestInv
<1>12. ASSUME NEW m \in Nodes PROVE m \in StillOpen(stream', nodes') <=> m \in open
  <2>1. m \in StillOpen(stream', nodes')
          <=> /\ nodes[m].open
              /\ \A k \in PositionAt(stream, m)..n + 1 : LevelAt(stream', k) >= height[m]
    <3>1. m \in 1..Len(nodes')
      BY <1>2, <1>3
    <3>2. QED
      BY <1>3, <1>5, <1>9, <3>1 DEF StillOpen
  <2>2. /\ \A k \in PositionAt(stream, m)..n : LevelAt(stream', k) = LevelAt(stream, k)
        /\ n \in PositionAt(stream, m)..n /\ n + 1 \in PositionAt(stream, m)..n + 1
        /\ \A k \in PositionAt(stream, m)..n + 1 : k = n + 1 \/ k \in PositionAt(stream, m)..n
        /\ \A k \in PositionAt(stream, m)..n : k \in PositionAt(stream, m)..n + 1
    BY <1>2, <1>5
  <2>3. LevelAt(stream', n + 1) >= level
    BY <1>2, <1>5, <1>8
  <2>4. ASSUME m \in open PROVE LevelAt(stream', n + 1) >= height[m]
    <3>1. level >= height[m]
      BY <1>10, <2>2, <2>4
    <3>2. LevelAt(stream', n + 1) \in Int
      BY <1>2, CountTyped
    <3>3. QED
      BY <1>8, <1>9, <2>3, <3>1, <3>2
  <2>5. QED
    BY <1>10, <2>1, <2>2, <2>4
<1>13. Height(stream', new) = LevelAt(stream', n + 1)
  BY <1>6 DEF Height
<1>14. new \in StillOpen(stream', nodes') <=> o.open
  <2>1. new \in 1..Len(nodes')
    BY <1>2, <1>3
  <2>2. LevelAt(stream', n + 1) \in Int
    BY <1>2, CountTyped
  <2>3. \A k \in n + 1..n + 1 : k = n + 1
    BY <1>2
  <2>4. QED
    BY <1>3, <1>5, <1>6, <1>13, <2>1, <2>2, <2>3 DEF StillOpen
<1>15. StillOpen(stream', nodes') = IF o.open THEN open \cup {new} ELSE open
  <2>1. StillOpen(stream', nodes') \in SUBSET (Nodes \cup {new})
    BY <1>2, <1>3 DEF StillOpen
  <2> HIDE DEF open
  <2>2. ASSUME NEW m
        PROVE  m \in StillOpen(stream', nodes')
                 <=> m \in IF o.open THEN open \cup {new} ELSE open
    BY <1>2, <1>4, <1>12, <1>14, <2>1
  <2>3. QED
    BY <2>2
<1>16. ASSUME NEW m \in open
       PROVE  /\ m \in Nodes /\ m \in Nat /\ m < new /\ m <= scope
              /\ nodes'[m].parent = nodes[m].parent
              /\ nodes[m].parent # 0 => /\ nodes[m].parent \in open
                                        /\ height[m] = height[nodes[m].parent] + 1
              /\ \A x \in open : x < m => x <= nodes[m].parent /\ height[x] < height[m]
  <2>1. m \in Nodes
    BY <1>2
  <2>2. /\ m <= scope
        /\ nodes[m].parent # 0 => /\ nodes[m].parent \in open
                                  /\ Height(stream, m) = Height(stream, nodes[m].parent) + 1
        /\ \A x \in open : x < m =>
             x <= nodes[m].parent /\ Height(stream, x) < Height(stream, m)
    BY <1>1 DEF IsStack
  <2> HIDE DEF open
  <2>3. QED
    BY <1>2, <1>3, <1>9, <2>1, <2>2
<1>17. scope # 0 => scope \in open /\ height[scope] = level
  BY <1>1, <1>2, <1>9 DEF IsStack
<1>18. ScopeInv'
  <2> HIDE DEF open, level
  <2>1. \A m \in open : Height(stream', m) = height[m] /\ height[m] \in Int
    BY <1>9, <1>16
  <2>2. CASE o.open
    <3>1. scope' = new /\ Height(stream', new) = level + 1
      BY <1>0, <1>5, <1>13, <2>2 DEF Inner
    <3>2. \A m \in open \cup {new} : m <= new
      BY <1>2, <1>16
    <3>3. ASSUME NEW m \in open \cup {new}, NEW x \in open \cup {new}, x < m
          PROVE  x <= nodes'[m].parent /\ Height(stream', x) < Height(stream', m)
      <4>1. x \in open
        BY <1>2, <1>16, <3>3
      <4>2. CASE m = new
        <5>1. x <= scope /\ nodes'[m].parent = scope /\ scope # 0
          BY <1>2, <1>3, <1>9, <1>16, <4>1, <4>2, Sizes, <1>1
        <5>2. scope \in open /\ height[scope] = level
          BY <1>17, <5>1
        <5>3. height[x] <= height[scope]
          <6>1. CASE x = scope
            BY <2>1, <5>2, <6>1
          <6>2. CASE x # scope
            <7>1. x < scope
              BY <1>2, <1>16, <4>1, <5>1, <6>2
            <7>2. height[x] < height[scope]
              BY <1>16, <4>1, <5>2, <7>1
            <7>3. QED
              BY <2>1, <4>1, <5>2, <7>2
          <6>3. QED
            BY <6>1, <6>2
        <5>4. Height(stream', x) = height[x] /\ height[x] \in Int
          BY <2>1, <4>1
        <5>5. Height(stream', x) < Height(stream', new)
          BY <1>8, <3>1, <5>2, <5>3, <5>4
        <5>6. QED
          BY <4>2, <5>1, <5>5
      <4>3. CASE m # new
        BY <1>16, <2>1, <3>3, <4>1, <4>3
      <4>4. QED
        BY <4>2, <4>3
    <3>4. ASSUME NEW m \in open \cup {new}, nodes'[m].parent # 0
          PROVE  /\ nodes'[m].parent \in open \cup {new}
                 /\ Height(stream', m) = Height(stream', nodes'[m].parent) + 1
      <4>1. CASE m = new
        BY <1>3, <1>17, <2>1, <3>1, <3>4, <4>1
      <4>2. CASE m # new
        <5>1. m \in open
          BY <4>2
        <5> DEFINE above == nodes[m].parent
        <5>2. nodes'[m].parent = above /\ above \in open /\ height[m] = height[above] + 1
          BY <1>16, <3>4, <5>1
        <5>3. Height(stream', m) = height[m] /\ Height(stream', above) = height[above]
          BY <2>1, <5>1, <5>2
        <5> HIDE DEF above, height
        <5>4. QED
          BY <5>2, <5>3
      <4>3. QED
        BY <4>1, <4>2
    <3>5. Height(stream', new) = LevelAt(stream', Len(stream'))
      BY <1>5, <1>13
    <3>6. IsStack(open \cup {new}, stream', nodes', new)
      BY <3>2, <3>3, <3>4, <3>5 DEF IsStack
    <3>7. QED
      BY <1>15, <2>2, <3>1, <3>6 DEF ScopeInv
  <2>3. CASE ~o.open
    <3>1. scope' = scope
      BY <2>3 DEF Inner
    <3>2. scope # 0 => Height(stream', scope) = LevelAt(stream', Len(stream'))
      BY <1>5, <1>8, <1>17, <2>1, <2>3 DEF level
    <3>3. ASSUME NEW m \in open, nodes'[m].parent # 0
          PROVE  /\ nodes'[m].parent \in open
                 /\ Height(stream', m) = Height(stream', nodes'[m].parent) + 1
      <4> DEFINE above == nodes[m].parent
      <4>1. nodes'[m].parent = above /\ above \in open /\ height[m] = height[above] + 1
        BY <1>16, <3>3
      <4>2. Height(stream', m) = height[m] /\ Height(stream', above) = height[above]
        BY <2>1, <4>1
      <4> HIDE DEF above, height
      <4>3. QED
        BY <4>1, <4>2
    <3>4. ASSUME NEW m \in open, NEW x \in open, x < m
          PROVE  x <= nodes'[m].parent /\ Height(stream', x) < Height(stream', m)
      BY <1>16, <2>1, <3>4
    <3>5. IsStack(open, stream', nodes', scope)
      BY <1>16, <1>17, <3>2, <3>3, <3>4 DEF IsStack
    <3>6. QED
      BY <1>15, <2>3, <3>1, <3>5 DEF ScopeInv
  <2>4. QED
    BY <1>2, <2>2, <2>3
<1>19. QED
  BY <1>7, <1>11, <1>18

LEMMA StepPackage == PackageInv /\ [Next]_vars => PackageInv'
<1> SUFFICES ASSUME PackageInv, [Next]_vars PROVE PackageInv'
  OBVIOUS
<1>1. TypeOK'
  BY TypePreserved DEF PackageInv
<1>2. CASE UNCHANGED <<stream, nodes>> /\ (pc' = "reading" => pc' = pc /\ scope' = scope)
  <2>1. NestInv' /\ PlacesInv' /\ ScopeInv'
    BY <1>2 DEF PackageInv, NestInv, PlacesInv, ScopeInv, Nodes
  <2>2. QED
    BY <1>1, <2>1 DEF PackageInv
<1>3. ASSUME NEW o \in Opcodes, pc = "reading", stream' = Append(stream, o), ReadEnd(o)
      PROVE  PackageInv'
  <2>1. o.op = "End" /\ nodes' = nodes /\ scope' = Outer
        /\ pc' = IF OpOf(Outer) = DUMMY_OPCODE THEN "done" ELSE "reading"
    BY <1>3 DEF ReadEnd
  <2>2. NestInv' /\ Placed(stream', nodes')
    BY <1>3, <2>1, NodesStay
  <2>3. Cardinality(NonEnds(stream', Len(stream'))) = Len(nodes')
    <3>1. TypeOK /\ PlacesInv
      BY DEF PackageInv
    <3>2. Cardinality(NonEnds(stream, Len(stream))) = Len(nodes) /\ Len(nodes) \in Nat
      BY <1>3, <3>1, Sizes DEF PlacesInv
    <3>3. QED
      BY <1>3, <2>1, <3>1, <3>2, ListGrows
  <2>4. PlacesInv'
    BY <2>2, <2>3 DEF PlacesInv
  <2>5. ScopeInv'
    <3>1. CASE scope = 0 \/ nodes[scope].parent = 0
      BY <2>1, <3>1 DEF Outer, OpOf, ScopeInv
    <3>2. CASE scope # 0 /\ nodes[scope].parent # 0
      BY <1>3, <2>1, <3>2, ScopeClosed DEF Outer, ScopeInv
    <3>3. QED
      BY <3>1, <3>2
  <2>6. QED
    BY <1>1, <2>2, <2>4, <2>5 DEF PackageInv
<1>4. ASSUME NEW o \in Opcodes, pc = "reading", stream' = Append(stream, o), ReadNode(o)
      PROVE  PackageInv'
  <2>1. CASE pc' = "err" /\ UNCHANGED <<nodes, scope>>
    <3>1. NestInv' /\ Placed(stream', nodes')
      BY <1>4, <2>1, NodesStay
    <3>2. PlacesInv'
      BY <2>1, <3>1 DEF PlacesInv
    <3>3. QED
      BY <1>1, <2>1, <3>1, <3>2 DEF PackageInv, ScopeInv
  <2>2. CASE ~(pc' = "err" /\ UNCHANGED <<nodes, scope>>)
    <3>1. /\ nodes' = Append(nodes, [op |-> o.op, open |-> o.open, parent |-> scope,
                                     prompt |-> o.prompt, store |-> o.store])
          /\ o.op # "End" /\ scope' = Inner(o) /\ pc' = pc
      BY <1>4, <2>2 DEF ReadNode
    <3>2. PlacesInv' /\ ScopeInv' /\ NestInv'
      BY <1>4, <3>1, NodeAdded
    <3>3. QED
      BY <1>1, <3>2 DEF PackageInv
  <2>3. QED
    BY <2>1, <2>2
<1>5. CASE Short
  BY <1>2, <1>5 DEF Short
<1>6. CASE UNCHANGED vars
  BY <1>2, <1>6 DEF vars
<1>7. QED
  BY <1>3, <1>4, <1>5, <1>6 DEF Next, Read
-----------------------------------------------------------------------------
(* WHAT FOLLOWS                                                            *)

LEMMA PackageAlways == Spec => []PackageInv
BY InitPackage, StepPackage, PTL DEF Spec

(* A parent comes before its children and is a scope that was opened, for  *)
(* packages of any length: every walk of find_corresponding_varstore up    *)
(* the tree ends (forms.rs:1773-1781).                                     *)
THEOREM PackageTypeCorrect == Spec => []TypeOK
<1>1. PackageInv => TypeOK
  BY DEF PackageInv
<1>2. QED
  BY <1>1, PackageAlways, PTL

(* Max, by what it has to satisfy.                                         *)
LEMMA GreatestIs ==
  ASSUME NEW n \in Nat, NEW S \in SUBSET (0..n), NEW x \in S, \A y \in S : y <= x
  PROVE  Max(S) = x
<1>1. Max(S) \in S /\ \A y \in S : y <= Max(S)
  BY MaxIsGreatest
<1>2. Max(S) \in 0..n /\ x \in 0..n /\ Max(S) <= x /\ x <= Max(S)
  BY <1>1
<1>3. QED
  BY <1>2

LEMMA ParentIsInnermost ==
  ASSUME PackageInv, NEW n \in Nodes
  PROVE  nodes[n].parent = Max({0} \cup {m \in Nodes : Encloses(m, n)})
<1> DEFINE p == nodes[n].parent
           S == {0} \cup {m \in Nodes : Encloses(m, n)}
<1>1. TypeOK /\ NestInv
  BY DEF PackageInv
<1>2. p = 0 \/ Encloses(p, n)
  BY <1>1, InTermsOfLists DEF NestInv
<1>3. \A m \in Nodes : Encloses(m, n) => m <= p
  BY <1>1, InTermsOfLists DEF NestInv
<1>4. p \in Nat /\ (p # 0 => p \in Nodes)
  BY <1>1, Sizes DEF TypeOK
<1>5. S \in SUBSET (0..Len(nodes)) /\ Len(nodes) \in Nat
  BY <1>1, Sizes
<1>6. p \in S /\ \A y \in S : y <= p
  BY <1>2, <1>3, <1>4
<1> HIDE DEF p, S
<1>7. p = Max(S)
  BY <1>5, <1>6, GreatestIs
<1>8. QED
  BY <1>7 DEF p, S

(* Nodes hang in the tree as their scopes are nested in the list, however  *)
(* the scopes open and close and wherever the package ends or fails        *)
(* (forms.rs:254-257, 793-843).                                            *)
THEOREM TreeIsNesting == Spec => []NestingMatches
<1>1. PackageInv => NestingMatches
  BY ParentIsInnermost DEF NestingMatches
<1>2. QED
  BY <1>1, PackageAlways, PTL
-----------------------------------------------------------------------------
(* An opcode other than End does not lower the level.                      *)
LEMMA LevelHeld ==
  ASSUME NEW T, NEW s \in Seq(T), NEW k \in 1..Len(s), s[k].op # "End"
  PROVE  LevelAt(s, k - 1) <= LevelAt(s, k)
<1>1. k \in Nat /\ k - 1 \in Nat /\ \A j \in 1..k : j = k \/ j \in 1..k - 1
  BY LenProperties
<1>2. Ends(s, k) = Ends(s, k - 1)
  BY <1>1 DEF Ends
<1>3. Opens(s, k - 1) \in SUBSET Opens(s, k)
  BY <1>1 DEF Opens
<1>4. Cardinality(Opens(s, k - 1)) <= Cardinality(Opens(s, k))
  BY <1>1, <1>3, CountTyped, FS_Subset
<1>5. /\ Cardinality(Opens(s, k - 1)) \in Nat /\ Cardinality(Opens(s, k)) \in Nat
      /\ Cardinality(Ends(s, k)) \in Nat
  BY <1>1, CountTyped
<1>6. QED
  BY <1>2, <1>4, <1>5 DEF LevelAt

(* What encloses a node is its parent and what encloses its parent.        *)
LEMMA EnclosersOfParent ==
  ASSUME PackageInv, NEW n \in Nodes, NEW m \in Nodes
  PROVE  Encloses(m, n) <=> /\ nodes[n].parent # 0
                            /\ m = nodes[n].parent \/ Encloses(m, nodes[n].parent)
<1> PICK p : p = nodes[n].parent
  OBVIOUS
<1>1. TypeOK /\ PlacesInv /\ NestInv
  BY DEF PackageInv
<1>2. /\ p = 0 \/ (p \in Nodes /\ Encloses(p, n))
      /\ \A j \in Nodes : Encloses(j, n) => j <= p
      /\ p \in Nat /\ p < n /\ m \in Nat /\ n \in Nat /\ (m # 0) /\ m >= 0
  <2>1. p = 0 \/ Encloses(p, n)
    BY <1>1, InTermsOfLists DEF NestInv
  <2>2. \A j \in Nodes : Encloses(j, n) => j <= p
    BY <1>1, InTermsOfLists DEF NestInv
  <2>3. p # 0 => p \in Nodes
    BY <1>1 DEF TypeOK
  <2>4. p \in Nat /\ p < n /\ m \in Nat /\ n \in Nat /\ m # 0 /\ m >= 0
    BY <1>1, Sizes
  <2>5. QED
    BY <2>1, <2>2, <2>3, <2>4
<1>3. CASE p = 0
  BY <1>2, <1>3
<1>4. CASE p # 0 /\ ~(m < p)
  BY <1>2, <1>4 DEF Encloses
<1>5. CASE p # 0 /\ m < p
  <2> DEFINE a == PositionAt(stream, m)
             b == PositionAt(stream, p)
             c == PositionAt(stream, n)
             level(k) == LevelAt(stream, k)
  <2>1. /\ a \in 1..Len(stream) /\ b \in 1..Len(stream) /\ c \in 1..Len(stream)
        /\ a < b /\ b < c /\ Len(stream) \in Nat
    BY <1>1, <1>2, <1>5, PlacesOrdered, Sizes
  <2>2. stream[b].op # "End"
    BY <1>1, <1>2, <1>5 DEF PlacesInv, Placed, IsPlace, Nodes
  <2>3. level(b - 1) <= level(b)
    BY <1>1, <2>1, <2>2, LevelHeld DEF TypeOK
  <2>4. \A k \in 0..Len(stream) : level(k) \in Int
    BY <2>1, CountTyped
  <2> HIDE DEF a, b, c, level
  <2>5. /\ Encloses(m, n) <=> nodes[m].open /\ \A k \in a..c - 1 : level(k) >= level(a)
        /\ Encloses(m, p) <=> nodes[m].open /\ \A k \in a..b - 1 : level(k) >= level(a)
        /\ Encloses(p, n) <=> nodes[p].open /\ \A k \in b..c - 1 : level(k) >= level(b)
    BY <1>2, <1>5, InTermsOfLists DEF Enclosing, Height, a, b, c, level
  <2>6. Encloses(m, n) => Encloses(m, p)
    <3>1. \A k \in a..b - 1 : k \in a..c - 1
      BY <2>1
    <3>2. QED
      BY <2>5, <3>1
  <2>7. ASSUME Encloses(m, p) PROVE Encloses(m, n)
    <3>1. b - 1 \in a..b - 1 /\ b - 1 \in 0..Len(stream) /\ a \in 0..Len(stream)
          /\ b \in 0..Len(stream)
      BY <2>1
    <3>2. level(b) >= level(a)
      BY <2>3, <2>4, <2>5, <2>7, <3>1
    <3>3. ASSUME NEW k \in a..c - 1 PROVE level(k) >= level(a)
      <4>1. CASE k \in a..b - 1
        BY <2>5, <2>7, <4>1
      <4>2. CASE k \notin a..b - 1
        <5>1. k \in b..c - 1 /\ k \in 0..Len(stream)
          BY <2>1, <4>2
        <5>2. level(k) >= level(b)
          BY <1>2, <1>5, <2>5, <5>1
        <5>3. QED
          BY <2>4, <3>1, <3>2, <5>1, <5>2
      <4>3. QED
        BY <4>1, <4>2
    <3>4. QED
      BY <2>5, <2>7, <3>3
  <2>8. QED
    BY <1>2, <1>5, <2>6, <2>7
<1>6. QED
  BY <1>3, <1>4, <1>5

(* The form set a node belongs to.                                         *)
FormSets(n) == {m \in Nodes : OpOf(m) = "FormSet" /\ (m = n \/ Encloses(m, n))}

Climbed(up) == up = [n \in 0..Len(nodes) |->
                       IF n = 0 \/ OpOf(n) = "FormSet" THEN n ELSE up[nodes[n].parent]]

(* Walking up the tree finds the innermost form set.                       *)
LEMMA ClimbsToFormSet ==
  ASSUME PackageInv
  PROVE  /\ Climbed([n \in 0..Len(nodes) |-> Max({0} \cup FormSets(n))])
         /\ \A up : Climbed(up) =>
              \A n \in 0..Len(nodes) : up[n] = Max({0} \cup FormSets(n))
<1> DEFINE N == Len(nodes)
           top == [n \in 0..N |-> Max({0} \cup FormSets(n))]
<1>1. N \in Nat /\ Nodes = 1..N /\ \A n \in Nodes : nodes[n].parent \in 0..n - 1
  BY Sizes DEF PackageInv, TypeOK
<1>2. \A n : {0} \cup FormSets(n) \in SUBSET (0..N)
  BY <1>1 DEF FormSets
<1>3. ASSUME NEW n \in 0..N
      PROVE  top[n] = IF n = 0 \/ OpOf(n) = "FormSet" THEN n ELSE top[nodes[n].parent]
  <2>1. CASE n = 0
    <3>1. FormSets(n) = {}
      BY <1>1, <2>1 DEF FormSets, Encloses
    <3>2. Max({0}) = 0
      BY GreatestIs
    <3>3. QED
      BY <2>1, <3>1, <3>2
  <2>2. CASE n # 0 /\ OpOf(n) = "FormSet"
    <3>1. n \in {0} \cup FormSets(n)
      BY <1>1, <2>2 DEF FormSets
    <3>2. \A m \in {0} \cup FormSets(n) : m <= n
      BY <1>1, <2>2 DEF FormSets, Encloses
    <3>3. Max({0} \cup FormSets(n)) = n
      BY <1>1, <1>2, <3>1, <3>2, GreatestIs
    <3>4. QED
      BY <2>2, <3>3
  <2>3. CASE n # 0 /\ OpOf(n) # "FormSet"
    <3> PICK p : p = nodes[n].parent
      OBVIOUS
    <3>1. n \in Nodes /\ p \in 0..n - 1 /\ p \in 0..N
      BY <1>1, <2>3
    <3>2. ASSUME NEW m PROVE m \in FormSets(n) <=> m \in FormSets(p)
      <4>1. CASE m \notin Nodes
        BY <4>1 DEF FormSets
      <4>2. CASE m \in Nodes
        <5>1. Encloses(m, n) <=> p # 0 /\ (m = p \/ Encloses(m, p))
          BY <3>1, <4>2, EnclosersOfParent
        <5>2. p = 0 => m # p /\ ~Encloses(m, p)
          BY <1>1, <4>2 DEF Encloses
        <5>3. m = n => OpOf(m) # "FormSet"
          BY <2>3
        <5>4. QED
          BY <4>2, <5>1, <5>2, <5>3 DEF FormSets
      <4>3. QED
        BY <4>1, <4>2
    <3>3. FormSets(n) = FormSets(p)
      <4>1. FormSets(n) \subseteq Nodes /\ FormSets(p) \subseteq Nodes
        BY DEF FormSets
      <4>2. QED
        BY <3>2, <4>1
    <3>4. QED
      BY <2>3, <3>1, <3>3
  <2>4. QED
    BY <2>1, <2>2, <2>3
<1>4. Climbed(top)
  <2>1. top = [n \in 0..N |-> top[n]]
    OBVIOUS
  <2> HIDE DEF top
  <2>2. QED
    BY <1>3, <2>1 DEF Climbed
<1>5. ASSUME NEW up, Climbed(up) PROVE \A n \in 0..N : up[n] = top[n]
  <2> DEFINE Bad == {n \in 0..N : up[n] # top[n]}
  <2>1. \A n \in 0..N :
          up[n] = IF n = 0 \/ OpOf(n) = "FormSet" THEN n ELSE up[nodes[n].parent]
    BY <1>5 DEF Climbed
  <2> HIDE DEF top
  <2>2. ASSUME Bad # {} PROVE FALSE
    <3>1. Bad \in SUBSET Nat
      BY <1>1
    <3> HIDE DEF Bad
    <3>2. PICK n \in Bad : \A m \in Bad : n <= m
      BY <2>2, <3>1, LeastNumber
    <3>3. n \in 0..N /\ up[n] # top[n]
      BY <3>2 DEF Bad
    <3>4. n # 0 /\ up[n] = up[nodes[n].parent] /\ top[n] = top[nodes[n].parent]
      BY <1>3, <2>1, <3>3
    <3>5. nodes[n].parent \in 0..N /\ ~(n <= nodes[n].parent)
      BY <1>1, <3>3, <3>4
    <3>6. nodes[n].parent \notin Bad
      BY <3>2, <3>5
    <3>7. QED
      BY <3>3, <3>4, <3>5, <3>6 DEF Bad
  <2>3. QED
    BY <2>2
<1>6. QED
  BY <1>4, <1>5

LEMMA OwnStore == PackageInv => StoreOfOwnFormSet
<1> SUFFICES ASSUME PackageInv, NEW q \in Nodes, IsQuestion(q), StoreOf(q) # 0
             PROVE  LET around == {m \in Nodes : Encloses(m, q) /\ nodes[m].op = "FormSet"}
                    IN  /\ around # {}
                        /\ nodes[StoreOf(q)].parent = Max(around)
                        /\ nodes[StoreOf(q)].store = nodes[q].store
  BY DEF StoreOfOwnFormSet
<1> DEFINE up == CHOOSE f : Climbed(f)
           declared == {c \in Children(up[q]) :
                          nodes[c].op \in StoreOps /\ nodes[c].store = nodes[q].store}
           around == {m \in Nodes : Encloses(m, q) /\ nodes[m].op = "FormSet"}
<1>1. Len(nodes) \in Nat /\ Nodes = 1..Len(nodes)
  BY Sizes DEF PackageInv
<1>2. Climbed(up)
  BY ClimbsToFormSet
<1>3. StoreOf(q) = IF up[q] = 0 \/ declared = {} THEN 0 ELSE Min(declared)
  BY DEF StoreOf, Climbed
<1> HIDE DEF up
<1>4. up[q] = Max({0} \cup FormSets(q))
  BY <1>1, <1>2, ClimbsToFormSet
<1>5. up[q] # 0 /\ declared # {} /\ StoreOf(q) = Min(declared)
  BY <1>3
<1>6. StoreOf(q) \in declared
  <2>1. declared \in SUBSET Nat
    BY <1>1 DEF Children
  <2> HIDE DEF declared
  <2>2. QED
    BY <1>5, <2>1, MinIsLeast
<1>7. nodes[StoreOf(q)].parent = up[q] /\ nodes[StoreOf(q)].store = nodes[q].store
  BY <1>6 DEF Children
<1>8. FormSets(q) = around
  <2>1. nodes[q].op # "FormSet" /\ \A m \in Nodes : OpOf(m) = nodes[m].op
    BY <1>1 DEF IsQuestion, QuestionOps, OpOf
  <2>2. QED
    BY <2>1 DEF FormSets
<1>9. around \in SUBSET (0..Len(nodes)) /\ {0} \cup around \in SUBSET (0..Len(nodes))
      /\ 0 \notin around
  BY <1>1
<1> HIDE DEF around
<1>10. up[q] \in around /\ \A m \in around : m <= up[q]
  <2>1. up[q] \in {0} \cup around /\ \A m \in {0} \cup around : m <= up[q]
    BY <1>1, <1>4, <1>8, <1>9, MaxIsGreatest
  <2>2. QED
    BY <1>5, <2>1
<1>11. up[q] = Max(around)
  BY <1>1, <1>9, <1>10, GreatestIs
<1>12. QED
  BY <1>7, <1>10, <1>11 DEF around

(* The store find_corresponding_varstore finds is declared by the          *)
(* innermost form set around the question, whatever other form sets use    *)
(* the same id (forms.rs:1744-1771).                                       *)
THEOREM StoreInInnermostFormSet == Spec => []StoreOfOwnFormSet
BY OwnStore, PackageAlways, PTL

-----------------------------------------------------------------------------
(* THE QUERIES                                                             *)

(* The subtree of a node, the whole tree for the root.                     *)
Under(n) == {m \in Nodes : n = 0 \/ m = n \/ Encloses(n, m)}

(* A scope that encloses a node encloses what is between them.             *)
LEMMA EnclosesBetween ==
  ASSUME PackageInv, NEW m \in Nodes, NEW k \in Nodes, NEW n \in Nodes,
         Encloses(m, n), m < k, k < n
  PROVE  Encloses(m, k)
<1>1. TypeOK /\ PlacesInv
  BY DEF PackageInv
<1> DEFINE a == PositionAt(stream, m)
           b == PositionAt(stream, k)
           c == PositionAt(stream, n)
<1>2. /\ a \in 1..Len(stream) /\ b \in 1..Len(stream) /\ c \in 1..Len(stream)
      /\ b < c /\ Len(stream) \in Nat
  BY <1>1, PlacesOrdered, Sizes
<1>3. nodes[m].open /\ \A i \in a..c - 1 : LevelAt(stream, i) >= Height(stream, m)
  BY InTermsOfLists DEF Enclosing
<1>4. \A i \in a..b - 1 : i \in a..c - 1
  BY <1>2
<1>5. Enclosing(stream, nodes, m, k)
  BY <1>3, <1>4 DEF Enclosing
<1>6. QED
  BY <1>5, InTermsOfLists

(* A child's subtree is part of its parent's.                              *)
LEMMA UnderChild ==
  ASSUME PackageInv, NEW n \in 0..Len(nodes), NEW c \in Children(n)
  PROVE  n < c /\ c \in Nodes /\ Under(c) \subseteq Under(n)
<1>1. TypeOK /\ NestInv /\ Nodes = 1..Len(nodes) /\ Len(nodes) \in Nat
  BY Sizes DEF PackageInv
<1>2. c \in Nodes /\ nodes[c].parent = n /\ n < c
  BY <1>1, Sizes DEF Children
<1>3. CASE n = 0
  BY <1>2, <1>3 DEF Under
<1>4. CASE n # 0
  <2>1. n \in Nodes
    BY <1>1, <1>4
  <2>2. Encloses(n, c)
    BY <1>2, <1>4, <2>1, EnclosersOfParent
  <2> DEFINE Bad == {m \in Nodes : Encloses(c, m) /\ ~Encloses(n, m)}
  <2>3. ASSUME Bad # {} PROVE FALSE
    <3>1. Bad \in SUBSET Nat
      BY <1>1
    <3> HIDE DEF Bad
    <3>2. PICK m \in Bad : \A k \in Bad : m <= k
      BY <2>3, <3>1, LeastNumber
    <3>3. m \in Nodes /\ Encloses(c, m) /\ ~Encloses(n, m)
      BY <3>2 DEF Bad
    <3>4. PICK p : p = nodes[m].parent
      OBVIOUS
    <3>5. p # 0 /\ (c = p \/ Encloses(c, p)) /\ ~(n = p \/ Encloses(n, p))
      BY <1>2, <2>1, <3>3, <3>4, EnclosersOfParent
    <3>6. p \in Nodes /\ ~(m <= p)
      <4>1. nodes[m].parent \in Nat /\ nodes[m].parent < m /\ m \in 1..Len(nodes)
        BY <1>1, <3>3, Sizes
      <4>2. QED
        BY <1>1, <3>4, <3>5, <4>1
    <3>7. p \notin Bad
      BY <3>2, <3>6
    <3>8. QED
      BY <2>2, <3>5, <3>6, <3>7 DEF Bad
  <2>4. QED
    BY <1>2, <2>2, <2>3 DEF Under
<1>5. QED
  BY <1>2, <1>3, <1>4

(* Every node of a subtree is its root or in the subtree of a child.       *)
LEMMA UnderSplits ==
  ASSUME PackageInv, NEW n \in 0..Len(nodes), NEW m \in Under(n), m # n
  PROVE  \E c \in Children(n) : m \in Under(c)
<1>1. TypeOK /\ Nodes = 1..Len(nodes) /\ Len(nodes) \in Nat
  BY Sizes DEF PackageInv
<1> DEFINE Split(k) == \E c \in Children(n) : k \in Under(c)
           Bad == {k \in Under(n) : k # n /\ ~Split(k)}
<1>2. ASSUME Bad # {} PROVE FALSE
  <2>1. Bad \in SUBSET Nat
    BY <1>1 DEF Under
  <2> HIDE DEF Bad
  <2>2. PICK k \in Bad : \A x \in Bad : k <= x
    BY <1>2, <2>1, LeastNumber
  <2>3. k \in Nodes /\ k \in Under(n) /\ k # n /\ ~Split(k)
    BY <2>2 DEF Bad, Under
  <2> HIDE DEF Split
  <2>4. PICK p : p = nodes[k].parent
    OBVIOUS
  <2>5. p \in 0..Len(nodes) /\ ~(k <= p) /\ (p # 0 => p \in Nodes)
    <3>1. nodes[k].parent \in Nat /\ nodes[k].parent < k /\ k \in 1..Len(nodes)
      BY <1>1, <2>3, Sizes
    <3>2. QED
      BY <1>1, <2>4, <3>1
  <2>6. p # n
    <3>1. p = n => k \in Children(n) /\ k \in Under(k)
      BY <2>3, <2>4 DEF Children, Under
    <3>2. QED
      BY <2>3, <3>1 DEF Split
  <2>7. p \in Under(n)
    <3>1. CASE n = 0
      BY <2>5, <2>6, <3>1 DEF Under
    <3>2. CASE n # 0
      <4>1. n \in Nodes /\ Encloses(n, k)
        BY <1>1, <2>3, <3>2 DEF Under
      <4>2. p # 0 /\ Encloses(n, p)
        BY <2>3, <2>4, <2>6, <4>1, EnclosersOfParent
      <4>3. QED
        BY <2>5, <4>2 DEF Under
    <3>3. QED
      BY <3>1, <3>2
  <2>8. p \notin Bad
    BY <2>2, <2>5
  <2>9. PICK c \in Children(n) : p \in Under(c)
    BY <2>6, <2>7, <2>8 DEF Bad, Split
  <2>10. c \in Nodes /\ c # 0 /\ p # 0
    BY <1>1, <2>9 DEF Children, Under
  <2>11. c = p \/ Encloses(c, p)
    BY <2>9, <2>10 DEF Under
  <2>12. Encloses(c, k)
    BY <2>3, <2>4, <2>10, <2>11, EnclosersOfParent
  <2>13. QED
    BY <2>3, <2>9, <2>12 DEF Under, Split
<1>3. QED
  BY <1>2

(* The subtrees of two children: all of the one before all of the other.   *)
LEMMA SubtreesApart ==
  ASSUME PackageInv, NEW n \in 0..Len(nodes), NEW c \in Children(n), NEW d \in Children(n),
         c < d, NEW x \in Under(c), NEW y \in Under(d)
  PROVE  x < y
<1>1. TypeOK /\ NestInv /\ Nodes = 1..Len(nodes) /\ Len(nodes) \in Nat
  BY Sizes DEF PackageInv
<1>2. c \in Nodes /\ d \in Nodes /\ nodes[d].parent = n /\ n < c /\ x \in Nodes /\ y \in Nodes
  BY UnderChild DEF Children, Under
<1>3. d <= y
  BY <1>1, <1>2 DEF Under, Encloses
<1>4. ~Encloses(c, d)
  BY <1>1, <1>2, InTermsOfLists DEF NestInv
<1>5. x < d
  <2>1. SUFFICES ASSUME ~(x < d) PROVE FALSE
    OBVIOUS
  <2>2. Encloses(c, x)
    BY <1>1, <1>2, <2>1 DEF Under
  <2>3. d # x /\ d < x
    BY <1>1, <1>2, <1>4, <2>1, <2>2
  <2>4. QED
    BY <1>2, <1>4, <2>2, <2>3, EnclosesBetween
<1>6. QED
  BY <1>1, <1>2, <1>3, <1>5

-----------------------------------------------------------------------------
(* find_question on the subtree of n, by what it finds in the children's;  *)
(* and what it should find.                                                *)
FindIn(phrases, find, n) ==
  LET hits == {c \in Children(n) : find[c] # 0}
  IN  IF n # 0 /\ IsQuestion(n) /\ Text(nodes[n].prompt) \in phrases THEN n
      ELSE IF hits = {} THEN 0 ELSE find[Min(hits)]

Finds(phrases, find) == find = [n \in 0..Len(nodes) |-> FindIn(phrases, find, n)]

MatchingIn(phrases, n) ==
  {m \in Under(n) : IsQuestion(m) /\ Text(nodes[m].prompt) \in phrases}

FirstIn(phrases, n) ==
  IF MatchingIn(phrases, n) = {} THEN 0 ELSE Min(MatchingIn(phrases, n))

LEMMA LeastIs ==
  ASSUME NEW S \in SUBSET Nat, NEW x \in S, \A y \in S : x <= y
  PROVE  Min(S) = x
<1>1. Min(S) \in S /\ \A y \in S : Min(S) <= y
  BY MinIsLeast
<1>2. Min(S) \in Nat /\ x \in Nat /\ Min(S) <= x /\ x <= Min(S)
  BY <1>1
<1>3. QED
  BY <1>2

LEMMA FindsFirst ==
  ASSUME PackageInv, NEW phrases, NEW find, NEW n \in 0..Len(nodes),
         \A c \in Children(n) : find[c] = FirstIn(phrases, c)
  PROVE  FindIn(phrases, find, n) = FirstIn(phrases, n)
<1> DEFINE M(m) == MatchingIn(phrases, m)
           Hits == {c \in Children(n) : find[c] # 0}
           Here == n # 0 /\ IsQuestion(n) /\ Text(nodes[n].prompt) \in phrases
<1>1. Nodes = 1..Len(nodes) /\ Len(nodes) \in Nat
  BY Sizes DEF PackageInv
<1>2. \A m : M(m) \in SUBSET Nat /\ M(m) \subseteq Nodes /\ M(m) \subseteq Under(m)
  BY <1>1 DEF Under, MatchingIn
<1>3. CASE Here
  <2>1. n \in M(n)
    BY <1>1, <1>3 DEF Under, MatchingIn
  <2>2. \A m \in M(n) : n <= m
    BY <1>1, <1>3 DEF Under, MatchingIn, Encloses
  <2> HIDE DEF M
  <2>3. Min(M(n)) = n
    BY <1>2, <2>1, <2>2, LeastIs
  <2>4. QED
    BY <1>3, <2>1, <2>3 DEF FindIn, FirstIn, M
<1>4. CASE ~Here
  <2>1. ASSUME NEW c \in Children(n) PROVE M(c) \subseteq M(n) /\ c \in Nodes
    BY UnderChild DEF MatchingIn
  <2>2. ASSUME NEW m \in M(n) PROVE \E c \in Children(n) : m \in M(c)
    <3>1. m # n
      BY <1>1, <1>2, <1>4 DEF MatchingIn
    <3>2. PICK c \in Children(n) : m \in Under(c)
      BY <1>2, <3>1, UnderSplits
    <3>3. QED
      BY <3>2 DEF MatchingIn
  <2>3. ASSUME NEW c \in Children(n) PROVE c \in Hits <=> M(c) # {}
    <3>1. CASE M(c) = {}
      BY <3>1 DEF FirstIn
    <3>2. CASE M(c) # {}
      <4> HIDE DEF M
      <4>1. Min(M(c)) \in M(c)
        BY <1>2, <3>2, MinIsLeast
      <4>2. Min(M(c)) # 0
        BY <1>1, <1>2, <4>1
      <4>3. QED
        BY <3>2, <4>2 DEF FirstIn, M
    <3>3. QED
      BY <3>1, <3>2
  <2>4. CASE Hits = {}
    <3>1. M(n) = {}
      BY <2>2, <2>3, <2>4
    <3>2. QED
      BY <1>4, <2>4, <3>1 DEF FindIn, FirstIn
  <2>5. CASE Hits # {}
    <3> DEFINE c == Min(Hits)
    <3>1. Hits \in SUBSET Nat
      BY <1>1, <2>1
    <3> HIDE DEF Hits, M
    <3>2. c \in Hits /\ \A d \in Hits : c <= d
      BY <2>5, <3>1, MinIsLeast
    <3>3. c \in Children(n) /\ c \in Nat
      BY <3>1, <3>2 DEF Hits
    <3> HIDE DEF c
    <3>4. M(c) # {}
      BY <2>3, <3>2, <3>3
    <3>5. Min(M(c)) \in M(c) /\ \A m \in M(c) : Min(M(c)) <= m
      BY <1>2, <3>4, MinIsLeast
    <3>6. Min(M(c)) \in M(n)
      BY <2>1, <3>3, <3>5
    <3>7. ASSUME NEW m \in M(n) PROVE Min(M(c)) <= m
      <4>1. PICK d \in Children(n) : m \in M(d)
        BY <2>2
      <4>2. d \in Hits /\ d \in Nat
        BY <2>3, <3>1, <4>1
      <4>3. CASE d = c
        BY <3>5, <4>1, <4>3
      <4>4. CASE d # c
        <5>1. c < d
          BY <3>2, <3>3, <4>2, <4>4
        <5>2. Min(M(c)) \in Under(c) /\ m \in Under(d)
          BY <1>2, <3>5, <4>1
        <5>3. Min(M(c)) < m
          BY <3>3, <4>1, <5>1, <5>2, SubtreesApart
        <5>4. Min(M(c)) \in Nat /\ m \in Nat
          BY <1>2, <3>5
        <5>5. QED
          BY <5>3, <5>4
      <4>5. QED
        BY <4>3, <4>4
    <3>8. Min(M(n)) = Min(M(c))
      BY <1>2, <3>6, <3>7, LeastIs
    <3>9. find[c] = Min(M(c))
      BY <3>3, <3>4 DEF FirstIn, M
    <3>10. FindIn(phrases, find, n) = find[c]
      BY <1>4, <2>5 DEF FindIn, Hits, c
    <3>11. FirstIn(phrases, n) = Min(M(n))
      BY <3>6 DEF FirstIn, M
    <3>12. QED
      BY <3>8, <3>9, <3>10, <3>11
  <2>6. QED
    BY <2>4, <2>5
<1>5. QED
  BY <1>3, <1>4

(* find_question finds the first question of the list that matches.        *)
LEMMA FoundIsFirst ==
  ASSUME PackageInv, NEW phrases
  PROVE  Found(phrases) = FirstIn(phrases, 0)
<1> DEFINE N == Len(nodes)
           first == [n \in 0..N |-> FirstIn(phrases, n)]
           find == CHOOSE f : Finds(phrases, f)
<1>1. N \in Nat /\ Nodes = 1..N
  BY Sizes DEF PackageInv
<1>2. Finds(phrases, first)
  <2>1. ASSUME NEW n \in 0..N PROVE FindIn(phrases, first, n) = FirstIn(phrases, n)
    <3>1. \A c \in Children(n) : first[c] = FirstIn(phrases, c)
      BY <1>1 DEF Children
    <3> HIDE DEF first
    <3>2. QED
      BY <3>1, FindsFirst
  <2>2. first = [n \in 0..N |-> FindIn(phrases, first, n)]
    BY <2>1
  <2> HIDE DEF first
  <2>3. QED
    BY <2>2 DEF Finds
<1> HIDE DEF first
<1>3. Finds(phrases, find)
  BY <1>2
<1>4. Found(phrases) = find[0]
  BY DEF Found, Finds, FindIn
<1> HIDE DEF find
<1>5. \A n \in 0..N : find[n] = FindIn(phrases, find, n)
  BY <1>3 DEF Finds
<1> DEFINE Bad == {k \in 0..N : find[N - k] # FirstIn(phrases, N - k)}
<1>6. ASSUME Bad # {} PROVE FALSE
  <2>1. Bad \in SUBSET Nat
    BY <1>1
  <2> HIDE DEF Bad
  <2>2. PICK k \in Bad : \A j \in Bad : k <= j
    BY <1>6, <2>1, LeastNumber
  <2>3. k \in 0..N /\ find[N - k] # FirstIn(phrases, N - k)
    BY <2>2 DEF Bad
  <2>4. PICK n \in 0..N : n = N - k
    BY <1>1, <2>3
  <2>5. ASSUME NEW c \in Children(n) PROVE find[c] = FirstIn(phrases, c)
    <3>1. c \in 0..N /\ n < c
      BY <1>1, UnderChild
    <3>2. N - c \in 0..N /\ ~(k <= N - c) /\ N - (N - c) = c
      BY <1>1, <2>3, <2>4, <3>1
    <3>3. N - c \notin Bad
      BY <2>2, <3>2
    <3>4. QED
      BY <3>2, <3>3 DEF Bad
  <2>6. FindIn(phrases, find, n) = FirstIn(phrases, n)
    BY <2>5, FindsFirst
  <2>7. QED
    BY <1>5, <2>3, <2>4, <2>6
<1>7. find[0] = FirstIn(phrases, 0)
  <2>1. N \in 0..N /\ N - N = 0
    BY <1>1
  <2>2. N \notin Bad
    BY <1>6
  <2>3. QED
    BY <2>1, <2>2
<1>8. QED
  BY <1>4, <1>7

-----------------------------------------------------------------------------
(* The elements of a set of numbers, in order.                             *)
Lists(s, S) ==
  /\ s \in Seq(Nat)
  /\ \A i \in 1..Len(s) : s[i] \in S
  /\ \A x \in S : \E i \in 1..Len(s) : s[i] = x
  /\ \A i, j \in 1..Len(s) : i < j => s[i] < s[j]

InOrder(S) == CHOOSE s : Lists(s, S)

LEMMA NothingListed == Lists(<<>>, {})
BY EmptySeq DEF Lists

LEMMA OneListed == ASSUME NEW n \in Nat PROVE Lists(<<n>>, {n})
<1>1. <<n>> \in Seq(Nat) /\ Len(<<n>>) = 1 /\ <<n>>[1] = n
  OBVIOUS
<1>2. QED
  BY <1>1 DEF Lists

LEMMA ListedAfter ==
  ASSUME NEW s, NEW t, NEW S, NEW T, Lists(s, S), Lists(t, T),
         \A x \in S : \A y \in T : x < y
  PROVE  Lists(s \o t, S \cup T)
<1> DEFINE u == s \o t
           m == Len(s)
           n == Len(t)
<1>1. /\ s \in Seq(Nat) /\ t \in Seq(Nat) /\ m \in Nat /\ n \in Nat
      /\ \A i \in 1..m : s[i] \in S
      /\ \A i \in 1..n : t[i] \in T
  BY LenProperties DEF Lists
<1>2. /\ u \in Seq(Nat) /\ Len(u) = m + n
      /\ \A i \in 1..m + n : u[i] = IF i <= m THEN s[i] ELSE t[i - m]
  BY <1>1, ConcatProperties
<1> HIDE DEF u
<1>3. \A i \in 1..m : u[i] = s[i] /\ i \in 1..m + n
  <2>1. \A i \in 1..m : i \in 1..m + n /\ i <= m
    BY <1>1
  <2>2. QED
    BY <1>2, <2>1
<1>4. \A i \in 1..n : u[m + i] = t[i] /\ m + i \in 1..m + n
  <2>1. ASSUME NEW i \in 1..n PROVE u[m + i] = t[i] /\ m + i \in 1..m + n
    <3>1. m + i \in 1..m + n /\ ~(m + i <= m) /\ (m + i) - m = i
      BY <1>1
    <3>2. QED
      BY <1>2, <3>1
  <2>2. QED
    BY <2>1
<1>5. ASSUME NEW i \in 1..m + n PROVE i \in 1..m \/ \E j \in 1..n : i = m + j
  <2>1. CASE i <= m
    BY <1>1, <2>1
  <2>2. CASE ~(i <= m)
    <3>1. i - m \in 1..n /\ i = m + (i - m)
      BY <1>1, <2>2
    <3>2. QED
      BY <3>1
  <2>3. QED
    BY <2>1, <2>2
<1>6. \A i \in 1..m + n : u[i] \in S \cup T
  BY <1>1, <1>3, <1>4, <1>5
<1>7. ASSUME NEW x \in S \cup T PROVE \E i \in 1..m + n : u[i] = x
  <2>1. CASE x \in S
    BY <1>3, <2>1 DEF Lists
  <2>2. CASE x \in T
    <3>1. PICK i \in 1..n : t[i] = x
      BY <2>2 DEF Lists
    <3>2. QED
      BY <1>4, <3>1
  <2>3. QED
    BY <2>1, <2>2
<1>8. ASSUME NEW i \in 1..m + n, NEW j \in 1..m + n, i < j PROVE u[i] < u[j]
  <2>1. CASE i \in 1..m /\ j \in 1..m
    BY <1>3, <1>8, <2>1 DEF Lists
  <2>2. CASE i \in 1..m /\ j \notin 1..m
    <3>1. PICK l \in 1..n : j = m + l
      BY <1>5, <2>2
    <3>2. u[i] \in S /\ u[j] \in T
      BY <1>1, <1>3, <1>4, <2>2, <3>1
    <3>3. QED
      BY <3>2
  <2>3. CASE i \notin 1..m
    <3>1. PICK k \in 1..n : i = m + k
      BY <1>5, <2>3
    <3>2. j \notin 1..m
      BY <1>1, <1>8, <2>3
    <3>3. PICK l \in 1..n : j = m + l
      BY <1>5, <3>2
    <3>4. k < l
      BY <1>1, <1>8, <3>1, <3>3
    <3>5. t[k] < t[l]
      BY <3>4 DEF Lists
    <3>6. u[i] = t[k] /\ u[j] = t[l]
      BY <1>4, <3>1, <3>3
    <3>7. QED
      BY <3>5, <3>6
  <2>4. QED
    BY <2>1, <2>2, <2>3
<1>9. QED
  BY <1>2, <1>6, <1>7, <1>8 DEF Lists, u

LEMMA ListExists ==
  ASSUME NEW n \in Nat, NEW S \in SUBSET (1..n)
  PROVE  \E s : Lists(s, S)
<1> DEFINE Good(k) == \A R \in SUBSET (1..k) : \E s : Lists(s, R)
           Bad == {k \in 0..n : ~Good(k)}
<1>1. ASSUME Bad # {} PROVE FALSE
  <2>1. Bad \in SUBSET Nat
    OBVIOUS
  <2> HIDE DEF Bad
  <2>2. PICK k \in Bad : \A j \in Bad : k <= j
    BY <1>1, <2>1, LeastNumber
  <2>3. k \in 0..n /\ ~Good(k)
    BY <2>2 DEF Bad
  <2>4. PICK R \in SUBSET (1..k) : ~\E s : Lists(s, R)
    BY <2>3
  <2>5. k # 0
    <3>1. k = 0 => R = {}
      BY <2>4
    <3>2. QED
      BY <2>4, <3>1, NothingListed
  <2>6. k - 1 \in 0..n /\ ~(k <= k - 1)
    BY <2>3, <2>5
  <2>7. k - 1 \notin Bad
    BY <2>2, <2>6
  <2>8. Good(k - 1)
    BY <2>6, <2>7 DEF Bad
  <2>9. R \ {k} \in SUBSET (1..k - 1)
    BY <2>3, <2>4
  <2>10. PICK s : Lists(s, R \ {k})
    BY <2>8, <2>9
  <2>11. CASE k \notin R
    <3>1. R \ {k} = R
      BY <2>11
    <3>2. QED
      BY <2>4, <2>10, <3>1
  <2>12. CASE k \in R
    <3> DEFINE below == R \ {k}
               here == {k}
    <3>1. \A x \in below : \A y \in here : x < y
      BY <2>3, <2>9
    <3>2. Lists(s, below) /\ Lists(<<k>>, here)
      BY <2>3, <2>10, OneListed
    <3>3. below \cup here = R
      BY <2>12
    <3> HIDE DEF below, here
    <3>4. Lists(s \o <<k>>, below \cup here)
      BY <3>1, <3>2, ListedAfter
    <3>5. QED
      BY <2>4, <3>3, <3>4
  <2>13. QED
    BY <2>11, <2>12
<1>2. Good(n)
  <2>1. n \in 0..n /\ n \notin Bad
    BY <1>1
  <2>2. QED
    BY <2>1
<1>3. QED
  BY <1>2

LEMMA ListUnique ==
  ASSUME NEW s, NEW t, NEW S, Lists(s, S), Lists(t, S)
  PROVE  s = t
<1>1. /\ s \in Seq(Nat) /\ t \in Seq(Nat) /\ Len(s) \in Nat /\ Len(t) \in Nat
      /\ \A i \in 1..Len(s) : s[i] \in S /\ s[i] \in Nat
      /\ \A i \in 1..Len(t) : t[i] \in S /\ t[i] \in Nat
  <2>1. s \in Seq(Nat) /\ t \in Seq(Nat)
    BY DEF Lists
  <2>2. QED
    BY <2>1, LenProperties, ElementOfSeq DEF Lists
<1> DEFINE Same(i) == i \in 1..Len(s) /\ i \in 1..Len(t) /\ s[i] = t[i]
           Bad == {i \in Nat \ {0} : (i <= Len(s) \/ i <= Len(t)) /\ ~Same(i)}
<1>2. ASSUME Bad # {} PROVE FALSE
  <2>1. Bad \in SUBSET Nat
    OBVIOUS
  <2> HIDE DEF Bad
  <2>2. PICK i \in Bad : \A j \in Bad : i <= j
    BY <1>2, <2>1, LeastNumber
  <2>3. i \in Nat /\ i # 0 /\ (i <= Len(s) \/ i <= Len(t)) /\ ~Same(i)
    BY <2>2 DEF Bad
  <2>4. ASSUME NEW j \in Nat, j # 0, j < i PROVE Same(j)
    <3>1. j \notin Bad /\ (j <= Len(s) \/ j <= Len(t))
      BY <1>1, <2>2, <2>3, <2>4
    <3>2. QED
      BY <2>4, <3>1 DEF Bad
  <2>5. ASSUME i \in 1..Len(s), NEW j \in 1..Len(t), t[j] = s[i] PROVE i <= j /\ i <= Len(t)
    <3>1. ~(j < i)
      <4>1. SUFFICES ASSUME j < i PROVE FALSE
        OBVIOUS
      <4>2. s[j] = t[j] /\ j \in 1..Len(s)
        BY <2>4, <4>1
      <4>3. s[j] < s[i] /\ s[i] \in Nat
        BY <1>1, <2>5, <4>1, <4>2 DEF Lists
      <4>4. QED
        BY <2>5, <4>2, <4>3
    <3>2. QED
      BY <1>1, <2>3, <3>1
  <2>6. ASSUME i \in 1..Len(t), NEW j \in 1..Len(s), s[j] = t[i] PROVE i <= j /\ i <= Len(s)
    <3>1. ~(j < i)
      <4>1. SUFFICES ASSUME j < i PROVE FALSE
        OBVIOUS
      <4>2. s[j] = t[j] /\ j \in 1..Len(t)
        BY <2>4, <4>1
      <4>3. t[j] < t[i] /\ t[i] \in Nat
        BY <1>1, <2>6, <4>1, <4>2 DEF Lists
      <4>4. QED
        BY <2>6, <4>2, <4>3
    <3>2. QED
      BY <1>1, <2>3, <3>1
  <2>7. i \in 1..Len(s) /\ i \in 1..Len(t)
    <3>1. CASE i <= Len(s)
      <4>1. i \in 1..Len(s)
        BY <1>1, <2>3, <3>1
      <4>2. PICK j \in 1..Len(t) : t[j] = s[i]
        BY <1>1, <4>1 DEF Lists
      <4>3. QED
        BY <1>1, <2>3, <2>5, <4>1, <4>2
    <3>2. CASE i <= Len(t)
      <4>1. i \in 1..Len(t)
        BY <1>1, <2>3, <3>2
      <4>2. PICK j \in 1..Len(s) : s[j] = t[i]
        BY <1>1, <4>1 DEF Lists
      <4>3. QED
        BY <1>1, <2>3, <2>6, <4>1, <4>2
    <3>3. QED
      BY <2>3, <3>1, <3>2
  <2>8. PICK j \in 1..Len(t) : t[j] = s[i]
    BY <1>1, <2>7 DEF Lists
  <2>9. PICK k \in 1..Len(s) : s[k] = t[i]
    BY <1>1, <2>7 DEF Lists
  <2>10. t[i] <= s[i]
    <3>1. i <= j
      BY <2>5, <2>7, <2>8
    <3>2. i = j \/ t[i] < t[j]
      BY <1>1, <2>7, <2>8, <3>1 DEF Lists
    <3>3. t[i] \in Nat /\ s[i] \in Nat
      BY <1>1, <2>7
    <3>4. QED
      BY <2>8, <3>2, <3>3
  <2>11. s[i] <= t[i]
    <3>1. i <= k
      BY <2>6, <2>7, <2>9
    <3>2. i = k \/ s[i] < s[k]
      BY <1>1, <2>7, <2>9, <3>1 DEF Lists
    <3>3. t[i] \in Nat /\ s[i] \in Nat
      BY <1>1, <2>7
    <3>4. QED
      BY <2>9, <3>2, <3>3
  <2>12. s[i] = t[i]
    <3>1. t[i] \in Nat /\ s[i] \in Nat
      BY <1>1, <2>7
    <3>2. QED
      BY <2>10, <2>11, <3>1
  <2>13. QED
    BY <2>3, <2>7, <2>12
<1>3. \A i \in Nat \ {0} : i <= Len(s) \/ i <= Len(t) => Same(i)
  BY <1>2
<1> HIDE DEF Bad
<1>4. Len(s) = Len(t)
  <2>1. Len(s) # 0 => Len(s) <= Len(t)
    BY <1>1, <1>3
  <2>2. Len(t) # 0 => Len(t) <= Len(s)
    BY <1>1, <1>3
  <2>3. QED
    BY <1>1, <2>1, <2>2
<1>5. \A i \in 1..Len(s) : s[i] = t[i]
  BY <1>1, <1>3
<1>6. QED
  BY <1>1, <1>4, <1>5, SeqEqual

LEMMA InOrderIs ==
  ASSUME NEW n \in Nat, NEW S \in SUBSET (1..n)
  PROVE  Lists(InOrder(S), S) /\ \A s : Lists(s, S) => s = InOrder(S)
<1>1. Lists(InOrder(S), S)
  BY ListExists DEF InOrder
<1>2. QED
  BY <1>1, ListUnique

-----------------------------------------------------------------------------
(* list_questions on the subtree of n, by what it lists of the children's; *)
(* and what it should list: of the subtree, and of the first children.     *)
Rests(list, n, rest) ==
  rest = [k \in 0..Len(nodes) |->
            IF k = 0 THEN <<>>
            ELSE rest[k - 1] \o (IF k \in Children(n) THEN list[k] ELSE <<>>)]

ListIn(list, n) ==
  (IF n # 0 /\ IsQuestion(n) THEN <<n>> ELSE <<>>)
    \o (CHOOSE rest : Rests(list, n, rest))[Len(nodes)]

ListsAll(list) == list = [n \in 0..Len(nodes) |-> ListIn(list, n)]

Asked(n) == {m \in Under(n) : IsQuestion(m)}

AskedBelow(n, k) == {m \in Nodes : \E c \in Children(n) : c <= k /\ m \in Asked(c)}

LEMMA RestGrows ==
  ASSUME PackageInv, NEW n \in 0..Len(nodes), NEW k \in 1..Len(nodes)
  PROVE  InOrder(AskedBelow(n, k)) =
           InOrder(AskedBelow(n, k - 1))
             \o (IF k \in Children(n) THEN InOrder(Asked(k)) ELSE <<>>)
<1> DEFINE B == AskedBelow(n, k - 1)
           C == AskedBelow(n, k)
<1>1. Nodes = 1..Len(nodes) /\ Len(nodes) \in Nat /\ Children(n) \subseteq Nodes
  BY Sizes DEF PackageInv, Children
<1>2. B \in SUBSET (1..Len(nodes)) /\ C \in SUBSET (1..Len(nodes))
      /\ Asked(k) \in SUBSET (1..Len(nodes))
  BY <1>1 DEF AskedBelow, Asked, Under
<1>3. \A c \in Children(n) : c <= k <=> c <= k - 1 \/ c = k
  BY <1>1
<1>4. CASE k \in Children(n)
  <2>1. C = B \cup Asked(k)
    BY <1>1, <1>2, <1>3, <1>4 DEF AskedBelow
  <2>2. ASSUME NEW x \in B, NEW y \in Asked(k) PROVE x < y
    <3>1. PICK c \in Children(n) : c <= k - 1 /\ x \in Asked(c)
      BY DEF AskedBelow
    <3>2. c < k /\ x \in Under(c) /\ y \in Under(k)
      BY <1>1, <3>1 DEF Asked
    <3>3. QED
      BY <1>4, <3>2, SubtreesApart
  <2> HIDE DEF B, C
  <2>3. Lists(InOrder(B), B) /\ Lists(InOrder(Asked(k)), Asked(k))
    BY <1>1, <1>2, InOrderIs
  <2>4. Lists(InOrder(B) \o InOrder(Asked(k)), B \cup Asked(k))
    BY <2>2, <2>3, ListedAfter
  <2>5. InOrder(B) \o InOrder(Asked(k)) = InOrder(C)
    BY <1>1, <1>2, <2>1, <2>4, InOrderIs
  <2>6. QED
    BY <1>4, <2>5 DEF B, C
<1>5. CASE k \notin Children(n)
  <2>1. C = B
    BY <1>1, <1>3, <1>5 DEF AskedBelow
  <2> HIDE DEF B, C
  <2>2. InOrder(B) \in Seq(Nat)
    BY <1>1, <1>2, InOrderIs DEF Lists
  <2>3. InOrder(B) \o <<>> = InOrder(B)
    BY <2>2, ConcatEmptySeq
  <2>4. QED
    BY <1>5, <2>1, <2>3 DEF B, C
<1>6. QED
  BY <1>4, <1>5

LEMMA RestInOrder ==
  ASSUME PackageInv, NEW list, NEW n \in 0..Len(nodes),
         \A c \in Children(n) : list[c] = InOrder(Asked(c))
  PROVE  (CHOOSE rest : Rests(list, n, rest))[Len(nodes)]
           = InOrder(AskedBelow(n, Len(nodes)))
<1> DEFINE N == Len(nodes)
           want == [k \in 0..N |-> InOrder(AskedBelow(n, k))]
           rest == CHOOSE f : Rests(list, n, f)
           Step(f, k) == IF k = 0 THEN <<>>
                         ELSE f[k - 1] \o (IF k \in Children(n) THEN list[k] ELSE <<>>)
<1>1. N \in Nat /\ Nodes = 1..N
  BY Sizes DEF PackageInv
<1>2. ASSUME NEW k \in 0..N PROVE want[k] = Step(want, k)
  <2>1. CASE k = 0
    <3>1. AskedBelow(n, 0) = {}
      BY <1>1 DEF AskedBelow, Children
    <3>2. <<>> = InOrder({})
      BY NothingListed, InOrderIs
    <3>3. QED
      BY <2>1, <3>1, <3>2
  <2>2. CASE k # 0
    <3>1. k \in 1..N /\ k - 1 \in 0..N
      BY <1>1, <2>2
    <3>2. want[k] = InOrder(AskedBelow(n, k)) /\ want[k - 1] = InOrder(AskedBelow(n, k - 1))
      BY <3>1
    <3> HIDE DEF want
    <3>3. InOrder(AskedBelow(n, k)) =
            InOrder(AskedBelow(n, k - 1))
              \o (IF k \in Children(n) THEN InOrder(Asked(k)) ELSE <<>>)
      BY <3>1, RestGrows
    <3>4. (IF k \in Children(n) THEN InOrder(Asked(k)) ELSE <<>>)
            = (IF k \in Children(n) THEN list[k] ELSE <<>>)
      OBVIOUS
    <3>5. QED
      BY <2>2, <3>2, <3>3, <3>4
  <2>3. QED
    BY <2>1, <2>2
<1>3. Rests(list, n, want)
  <2>1. want = [k \in 0..N |-> want[k]]
    OBVIOUS
  <2> HIDE DEF want
  <2>2. want = [k \in 0..N |-> Step(want, k)]
    BY <1>2, <2>1
  <2>3. QED
    BY <2>2 DEF Rests
<1>4. Rests(list, n, rest)
  BY <1>3
<1> HIDE DEF rest
<1>5. \A k \in 0..N : rest[k] = Step(rest, k)
  BY <1>4 DEF Rests
<1> HIDE DEF want
<1> DEFINE Bad == {k \in 0..N : rest[k] # want[k]}
<1>6. ASSUME Bad # {} PROVE FALSE
  <2>1. Bad \in SUBSET Nat
    BY <1>1
  <2> HIDE DEF Bad
  <2>2. PICK k \in Bad : \A j \in Bad : k <= j
    BY <1>6, <2>1, LeastNumber
  <2>3. k \in 0..N /\ rest[k] # want[k]
    BY <2>2 DEF Bad
  <2>4. Step(rest, k) # Step(want, k)
    BY <1>2, <1>5, <2>3
  <2>5. k # 0 /\ rest[k - 1] # want[k - 1]
    BY <2>4
  <2>6. k - 1 \in 0..N /\ ~(k <= k - 1)
    BY <1>1, <2>3, <2>5
  <2>7. QED
    BY <2>2, <2>5, <2>6 DEF Bad
<1>7. N \in 0..N /\ rest[N] = want[N]
  BY <1>1, <1>6
<1>8. QED
  BY <1>7 DEF want, rest

LEMMA ListsInOrder ==
  ASSUME PackageInv, NEW list, NEW n \in 0..Len(nodes),
         \A c \in Children(n) : list[c] = InOrder(Asked(c))
  PROVE  ListIn(list, n) = InOrder(Asked(n))
<1> DEFINE N == Len(nodes)
           B == AskedBelow(n, N)
           Here == n # 0 /\ IsQuestion(n)
           self == IF Here THEN {n} ELSE {}
<1>1. N \in Nat /\ Nodes = 1..N /\ Children(n) \subseteq Nodes
  BY Sizes DEF PackageInv, Children
<1>2. B \in SUBSET (1..N) /\ Asked(n) \in SUBSET (1..N)
  BY <1>1 DEF AskedBelow, Asked, Under
<1>3. Asked(n) = self \cup B
  <2>1. ASSUME NEW m \in Asked(n) PROVE m \in self \cup B
    <3>1. CASE m = n
      BY <1>1, <1>2, <3>1 DEF Asked
    <3>2. CASE m # n
      <4>1. PICK c \in Children(n) : m \in Under(c)
        BY <3>2, UnderSplits DEF Asked
      <4>2. c <= N /\ m \in Nodes
        BY <1>1, <1>2, <4>1
      <4>3. QED
        BY <4>1, <4>2 DEF AskedBelow, Asked
    <3>3. QED
      BY <3>1, <3>2
  <2>2. self \subseteq Asked(n)
    BY <1>1 DEF Asked, Under
  <2>3. B \subseteq Asked(n)
    BY UnderChild DEF AskedBelow, Asked
  <2>4. QED
    BY <2>1, <2>2, <2>3
<1>4. ASSUME NEW x \in self, NEW y \in B PROVE x < y
  <2>1. PICK c \in Children(n) : y \in Under(c)
    BY DEF AskedBelow, Asked
  <2>2. n < c /\ y \in Nodes /\ c <= y
    BY <1>1, <2>1, UnderChild DEF Under, Encloses
  <2>3. QED
    BY <1>1, <2>2
<1>5. Lists(IF Here THEN <<n>> ELSE <<>>, self)
  BY OneListed, NothingListed
<1>6. ListIn(list, n) = (IF Here THEN <<n>> ELSE <<>>) \o InOrder(B)
  BY RestInOrder DEF ListIn
<1> HIDE DEF B, self, Here
<1>7. Lists(InOrder(B), B)
  BY <1>1, <1>2, InOrderIs
<1>8. Lists((IF Here THEN <<n>> ELSE <<>>) \o InOrder(B), self \cup B)
  BY <1>4, <1>5, <1>7, ListedAfter
<1>9. QED
  BY <1>1, <1>2, <1>3, <1>6, <1>8, InOrderIs

(* list_questions lists every question, in order.                          *)
LEMMA ListedInOrder ==
  ASSUME PackageInv
  PROVE  Lists(Listed, {n \in Nodes : IsQuestion(n)})
<1> DEFINE N == Len(nodes)
           want == [n \in 0..N |-> InOrder(Asked(n))]
           list == CHOOSE f : ListsAll(f)
<1>1. N \in Nat /\ Nodes = 1..N
  BY Sizes DEF PackageInv
<1>2. ListsAll(want)
  <2>1. ASSUME NEW n \in 0..N PROVE ListIn(want, n) = InOrder(Asked(n))
    <3>1. \A c \in Children(n) : want[c] = InOrder(Asked(c))
      BY <1>1 DEF Children
    <3> HIDE DEF want
    <3>2. QED
      BY <3>1, ListsInOrder
  <2>2. want = [n \in 0..N |-> ListIn(want, n)]
    BY <2>1
  <2> HIDE DEF want
  <2>3. QED
    BY <2>2 DEF ListsAll
<1> HIDE DEF want
<1>3. ListsAll(list)
  BY <1>2
<1>4. Listed = list[0]
  BY DEF Listed, ListsAll, ListIn, Rests
<1> HIDE DEF list
<1>5. \A n \in 0..N : list[n] = ListIn(list, n)
  BY <1>3 DEF ListsAll
<1> DEFINE Bad == {k \in 0..N : list[N - k] # InOrder(Asked(N - k))}
<1>6. ASSUME Bad # {} PROVE FALSE
  <2>1. Bad \in SUBSET Nat
    BY <1>1
  <2> HIDE DEF Bad
  <2>2. PICK k \in Bad : \A j \in Bad : k <= j
    BY <1>6, <2>1, LeastNumber
  <2>3. k \in 0..N /\ list[N - k] # InOrder(Asked(N - k))
    BY <2>2 DEF Bad
  <2>4. PICK n \in 0..N : n = N - k
    BY <1>1, <2>3
  <2>5. ASSUME NEW c \in Children(n) PROVE list[c] = InOrder(Asked(c))
    <3>1. c \in 0..N /\ n < c
      BY <1>1, UnderChild
    <3>2. N - c \in 0..N /\ ~(k <= N - c) /\ N - (N - c) = c
      BY <1>1, <2>3, <2>4, <3>1
    <3>3. N - c \notin Bad
      BY <2>2, <3>2
    <3>4. QED
      BY <3>2, <3>3 DEF Bad
  <2>6. ListIn(list, n) = InOrder(Asked(n))
    BY <2>5, ListsInOrder
  <2>7. QED
    BY <1>5, <2>3, <2>4, <2>6
<1>7. list[0] = InOrder(Asked(0))
  <2>1. N \in 0..N /\ N - N = 0
    BY <1>1
  <2>2. N \notin Bad
    BY <1>6
  <2>3. QED
    BY <2>1, <2>2
<1>8. Asked(0) = {n \in Nodes : IsQuestion(n)} /\ Asked(0) \in SUBSET (1..N)
  BY <1>1 DEF Asked, Under
<1>9. QED
  BY <1>1, <1>4, <1>7, <1>8, InOrderIs

LEMMA FirstOfOrder == PackageInv => FirstInOrder
<1> SUFFICES ASSUME PackageInv PROVE FirstInOrder
  OBVIOUS
<1> DEFINE listed == Listed
<1>1. /\ {listed[i] : i \in DOMAIN listed} = {n \in Nodes : IsQuestion(n)}
      /\ \A i, j \in DOMAIN listed : i < j => listed[i] < listed[j]
  <2>1. Lists(listed, {n \in Nodes : IsQuestion(n)})
    BY ListedInOrder
  <2> HIDE DEF listed
  <2>2. DOMAIN listed = 1..Len(listed)
    BY <2>1, LenProperties DEF Lists
  <2>3. QED
    BY <2>1, <2>2 DEF Lists
<1>2. ASSUME NEW phrases
      PROVE  LET matching == {n \in Nodes : IsQuestion(n)
                                            /\ Text(nodes[n].prompt) \in phrases}
             IN  Found(phrases) = IF matching = {} THEN 0 ELSE Min(matching)
  <2>1. MatchingIn(phrases, 0) = {n \in Nodes : IsQuestion(n)
                                                /\ Text(nodes[n].prompt) \in phrases}
    BY DEF MatchingIn, Under
  <2>2. QED
    BY <2>1, FoundIsFirst DEF FirstIn
<1>3. QED
  BY <1>1, <1>2 DEF FirstInOrder

(* Walking the tree visits every question in the order of the list, and    *)
(* find_question finds the first of them that has one of the phrases       *)
(* (forms.rs:1085-1087, 1177-1183).                                        *)
THEOREM QuestionsInOrder == Spec => []FirstInOrder
BY FirstOfOrder, PackageAlways, PTL

=============================================================================
