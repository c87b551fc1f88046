--------------------------- MODULE ScopeTreeProofs ---------------------------
(***************************************************************************)
(* TLAPS proofs about ScopeTree, for every set of ids and keys, every      *)
(* snapshot and every request.                                             *)
(***************************************************************************)
EXTENDS ScopeTree, FiniteSetTheorems, WellFoundedInduction, TLAPS

-----------------------------------------------------------------------------
(* Least elements                                                          *)

(* Every set of numbers has a least one.                                   *)
LEMMA LeastNatural ==
  ASSUME NEW T \in SUBSET Nat, T # {}
  PROVE  \E x \in T : \A y \in T : x <= y
<1> DEFINE R == {p \in Nat \X Nat : p[1] < p[2]}
<1>1. IsWellFoundedOn(R, Nat)
  BY NatLessThanWellFounded DEF OpToRel
<1>2. PICK x \in T : \A y \in T : <<y, x>> \notin R
  BY <1>1, WFMin, T \subseteq Nat
<1>3. ASSUME NEW y \in T
      PROVE  x <= y
  <2>1. y < x => <<y, x>> \in R
    OBVIOUS
  <2>2. QED
    BY <1>2, <2>1
<1>4. QED
  BY <1>3

-----------------------------------------------------------------------------
(* The inductive invariant                                                 *)

(* The table: no name calls two scopes, and every parent is there.         *)
ParentsThere == \A s \in scopes : s.parent # None => Find(s.parent) # {}
TableInv == Unambiguous /\ ParentsThere

(* Every scope is further from a root than its parent; so are the scopes   *)
(* under visit, each of which is the parent of the one it was visited for. *)
Ranks(r) ==
  /\ \A s \in scopes : \A p \in ParentsOf(s) : r[p] < r[s]
  /\ \A i, j \in DOMAIN stack : i < j => r[stack[i]] < r[stack[j]]
Ranked == \E r \in [scopes -> Nat] : Ranks(r)
Chained ==
  /\ \A i \in DOMAIN stack : stack[i] \in scopes
  /\ \A i \in DOMAIN stack : i > 1 => stack[i - 1] \in ParentsOf(stack[i])
  /\ stack # <<>> => name = stack[1].parent
StackInv == Ranked /\ Chained

(* What is listed: rows of the table, closed under parents, each asked for *)
(* or the parent of another, each after its parent.                        *)
Listed == {s \in scopes : s.id \in seen}
SeenListed == seen = Range(out) /\ \A x \in seen : \E s \in scopes : s.id = x
Closed == \A s \in Listed : ParentsOf(s) \subseteq Listed
Named(s) == \E n \in Range(asked) : s \in Find(n)
Exact == \A s \in Listed : Named(s) \/ \E t \in Listed : s \in ParentsOf(t)
Ordered(list) ==
  \A s \in scopes : s.id \in Range(list) =>
    \A p \in ParentsOf(s) :
      p.id \in Range(list) /\ Place(list, p.id) < Place(list, s.id)
Outermost == stack[Len(stack)]
Asked ==
  /\ stack # <<>> => Named(Outermost)
  /\ stack = <<>> /\ name # None => name \in Range(asked)
Complete ==
  \A n \in Range(asked) :
    \/ n \in Range(todo)
    \/ stack = <<>> /\ name = n
    \/ stack # <<>> /\ Outermost \in Find(n)
    \/ Find(n) \cap Listed # {}
ListInv == SeenListed /\ Closed /\ Exact /\ Ordered(out) /\ Asked /\ Complete

(* The second expansion goes through the first one's list, in which every  *)
(* ancestor comes before: it meets nothing new but the scope it is at.     *)
Passed == Len(asked) - Len(todo)
Cursor == Len(todo) <= Len(asked) /\ \A i \in DOMAIN todo : todo[i] = asked[Passed + i]
Second == pc \in {"RetrieveMemories", "done"}
Idle == stack = <<>> /\ name = None
FollowsFirst ==
  Second =>
    /\ asked = first /\ Ordered(first)
    /\ \A x \in Range(first) : \E s \in scopes : s.id = x
    /\ \A x \in seen : \E i \in 1 .. Passed : first[i] = x
    /\ \A i \in 1 .. Passed : Idle \/ i < Passed => first[i] \in seen
    /\ ~Idle => Passed > 0
    /\ stack = <<>> /\ name # None => name = first[Passed]
    /\ stack # <<>> => Outermost.id = first[Passed]
    /\ \A i \in DOMAIN stack : i < Len(stack) => stack[i].id \in seen
    /\ \A x, y \in seen :
         (Place(out, x) < Place(out, y)) <=> (Place(first, x) < Place(first, y))

Done == pc = "done" => Expanded
WalkInv == TableInv /\ StackInv /\ ListInv /\ Cursor /\ FollowsFirst /\ Done
TreeInv == TypeOK /\ IsFiniteSet(scopes) /\ (Founded => WalkInv)

-----------------------------------------------------------------------------
(* Lemmas about lists                                                      *)

(* The place of a scope is where a list has it first.                      *)
LEMMA FirstPlace ==
  ASSUME NEW S, NEW l \in Seq(S), NEW x \in Range(l)
  PROVE  /\ Place(l, x) \in DOMAIN l /\ l[Place(l, x)] = x
         /\ \A j \in DOMAIN l : l[j] = x => Place(l, x) <= j
<1> DEFINE T == {i \in DOMAIN l : l[i] = x}
<1>1. DOMAIN l = 1 .. Len(l) /\ Len(l) \in Nat
  OBVIOUS
<1>2. T \in SUBSET Nat /\ T # {}
  BY <1>1 DEF Range
<1>3. PICK i \in T : \A j \in T : i <= j
  BY <1>2, LeastNatural
<1>4. i \in DOMAIN l /\ l[i] = x /\ \A j \in 1 .. i - 1 : l[j] # x
  BY <1>1, <1>3
<1>5. Place(l, x) \in DOMAIN l /\ l[Place(l, x)] = x
      /\ \A j \in 1 .. Place(l, x) - 1 : l[j] # x
  BY <1>4 DEF Place
<1>6. QED
  BY <1>1, <1>5

(* An element is at the place where it stands first.                       *)
LEMMA PlaceIs ==
  ASSUME NEW S, NEW l \in Seq(S), NEW i \in DOMAIN l,
         \A j \in DOMAIN l : l[j] = l[i] => i <= j
  PROVE  Place(l, l[i]) = i
<1>1. l[i] \in Range(l)
  BY DEF Range
<1>2. /\ Place(l, l[i]) \in DOMAIN l /\ Place(l, l[i]) <= i
      /\ i <= Place(l, l[i])
  BY <1>1, FirstPlace
<1>3. DOMAIN l = 1 .. Len(l) /\ Len(l) \in Nat
  OBVIOUS
<1>4. QED
  BY <1>2, <1>3

(* What a concatenation has, and where.                                    *)
LEMMA Joined ==
  ASSUME NEW S, NEW l \in Seq(S), NEW m \in Seq(S)
  PROVE  /\ l \o m \in Seq(S) /\ Len(l \o m) = Len(l) + Len(m)
         /\ DOMAIN l = 1 .. Len(l) /\ DOMAIN m = 1 .. Len(m)
         /\ DOMAIN (l \o m) = 1 .. Len(l) + Len(m)
         /\ Len(l) \in Nat /\ Len(m) \in Nat
         /\ \A i \in DOMAIN l : (l \o m)[i] = l[i]
         /\ \A i \in DOMAIN m : (l \o m)[Len(l) + i] = m[i]
         /\ Range(l \o m) = Range(l) \cup Range(m)
<1>1. /\ l \o m \in Seq(S) /\ Len(l \o m) = Len(l) + Len(m)
      /\ DOMAIN l = 1 .. Len(l) /\ DOMAIN m = 1 .. Len(m)
      /\ DOMAIN (l \o m) = 1 .. Len(l) + Len(m)
      /\ Len(l) \in Nat /\ Len(m) \in Nat
  OBVIOUS
<1>2. \A i \in DOMAIN l : (l \o m)[i] = l[i]
  OBVIOUS
<1>3. \A i \in DOMAIN m : (l \o m)[Len(l) + i] = m[i]
  BY <1>1
<1>4. Range(l) \subseteq Range(l \o m)
  BY <1>1, <1>2 DEF Range
<1>5. ASSUME NEW i \in DOMAIN m
      PROVE  Len(l) + i \in DOMAIN (l \o m)
  BY <1>1
<1>6. Range(m) \subseteq Range(l \o m)
  BY <1>3, <1>5 DEF Range
<1>7. ASSUME NEW i \in DOMAIN (l \o m)
      PROVE  (l \o m)[i] \in Range(l) \cup Range(m)
  <2>1. CASE i \in DOMAIN l
    BY <1>2, <2>1 DEF Range
  <2>2. CASE i \notin DOMAIN l
    <3>1. i - Len(l) \in DOMAIN m /\ Len(l) + (i - Len(l)) = i
      BY <1>1, <1>7, <2>2
    <3>2. (l \o m)[i] = m[i - Len(l)]
      BY <1>3, <3>1
    <3>3. QED
      BY <3>1, <3>2 DEF Range
  <2>3. QED
    BY <2>1, <2>2
<1>8. Range(l \o m) \subseteq Range(l) \cup Range(m)
  BY <1>7 DEF Range
<1>9. QED
  BY <1>1, <1>2, <1>3, <1>4, <1>6, <1>8

(* What is appended to a list changes no place and comes after all of it.  *)
LEMMA PlacesKept ==
  ASSUME NEW S, NEW l \in Seq(S), NEW m \in Seq(S), NEW x \in Range(l)
  PROVE  Place(l \o m, x) = Place(l, x)
<1> DEFINE i == Place(l, x)
<1>1. i \in DOMAIN l /\ l[i] = x /\ \A j \in DOMAIN l : l[j] = x => i <= j
  BY FirstPlace
<1>2. (l \o m) \in Seq(S) /\ i \in DOMAIN (l \o m) /\ (l \o m)[i] = x
  BY <1>1, Joined
<1>3. ASSUME NEW j \in DOMAIN (l \o m), (l \o m)[j] = x
      PROVE  i <= j
  <2>1. CASE j \in DOMAIN l
    BY <1>1, <1>3, <2>1, Joined
  <2>2. CASE j \notin DOMAIN l
    BY <1>1, <2>2, Joined
  <2>3. QED
    BY <2>1, <2>2
<1>4. QED
  BY <1>2, <1>3, PlaceIs

(* What only the second of two lists has is found in it.                   *)
LEMMA PlacesAdded ==
  ASSUME NEW S, NEW l \in Seq(S), NEW m \in Seq(S), NEW x \in Range(m), x \notin Range(l)
  PROVE  Place(l \o m, x) = Len(l) + Place(m, x)
<1> DEFINE i == Place(m, x)
<1>1. i \in DOMAIN m /\ m[i] = x /\ \A j \in DOMAIN m : m[j] = x => i <= j
  BY FirstPlace
<1>2. /\ (l \o m) \in Seq(S) /\ Len(l) + i \in DOMAIN (l \o m)
      /\ (l \o m)[Len(l) + i] = x
  BY <1>1, Joined
<1>3. ASSUME NEW j \in DOMAIN (l \o m), (l \o m)[j] = x
      PROVE  Len(l) + i <= j
  <2>1. j \notin DOMAIN l
    BY <1>3, Joined DEF Range
  <2>2. j - Len(l) \in DOMAIN m /\ Len(l) + (j - Len(l)) = j
    BY <2>1, Joined
  <2>3. m[j - Len(l)] = x
    BY <1>3, <2>2, Joined
  <2>4. i <= j - Len(l)
    BY <1>1, <2>2, <2>3
  <2>5. QED
    BY <1>1, <2>2, <2>4, Joined
<1>4. QED
  BY <1>2, <1>3, PlaceIs

(* What a stack is once an element is put on it.                           *)
LEMMA Pushed ==
  ASSUME NEW S, NEW l \in Seq(S), NEW x \in S
  PROVE  /\ <<x>> \o l \in Seq(S) /\ Len(<<x>> \o l) = Len(l) + 1
         /\ DOMAIN (<<x>> \o l) = 1 .. Len(l) + 1
         /\ (<<x>> \o l)[1] = x
         /\ \A i \in DOMAIN l : (<<x>> \o l)[i + 1] = l[i]
         /\ \A i \in 2 .. Len(l) + 1 : i - 1 \in DOMAIN l /\ (<<x>> \o l)[i] = l[i - 1]
OBVIOUS

-----------------------------------------------------------------------------
(* Lemmas about the table                                                  *)

(* An unambiguous name calls one scope at most.                            *)
LEMMA FindOne ==
  ASSUME Unambiguous, NEW n, NEW s \in Find(n), NEW t \in Find(n)
  PROVE  s = t
<1>1. s \in scopes /\ t \in scopes /\ n \in Called(s) \cap Called(t)
  BY DEF Find
<1>2. QED
  BY <1>1 DEF Unambiguous

(* The rows of CreateScope, and of Import while the table stays founded.   *)
Adds(s) ==
  /\ Insertable(s) /\ ParentExists(s.parent)
  /\ scopes' = scopes \cup {s}
  /\ Unambiguous'
  /\ UNCHANGED <<pc, walk>>

(* A name that is taken leads to the same scope for good.                  *)
LEMMA NamesStay ==
  ASSUME NEW s \in Scope, Adds(s), NEW n, Find(n) # {}
  PROVE  Find(n)' = Find(n)
<1>1. PICK t \in scopes : n \in Called(t)
  BY DEF Find
<1>2. t \in scopes' /\ s \in scopes' /\ t # s
  BY DEF Adds, Insertable
<1>3. Called(t) \cap Called(s) = {}
  BY <1>2 DEF Adds, Unambiguous
<1>4. n \notin Called(s)
  BY <1>1, <1>3
<1>5. QED
  BY <1>4 DEF Adds, Find

(* A new row takes nothing out of a look-up.                               *)
LEMMA FindGrows ==
  ASSUME NEW s, Adds(s), NEW n
  PROVE  Find(n) \subseteq Find(n)'
BY DEF Adds, Find

(* The rows that were there keep their parents; the new one's is there.    *)
LEMMA ParentsStay ==
  ASSUME TypeOK, TableInv, NEW s \in Scope, Adds(s)
  PROVE  /\ \A t \in scopes : ParentsOf(t)' = ParentsOf(t)
         /\ ParentsOf(s)' = ParentsOf(s) /\ ParentsOf(s) \subseteq scopes
         /\ s \notin scopes
<1>1. \A t \in scopes : ParentsOf(t)' = ParentsOf(t)
  BY NamesStay DEF TableInv, ParentsThere, ParentsOf
<1>2. ParentsOf(s)' = ParentsOf(s) /\ ParentsOf(s) \subseteq scopes
  BY NamesStay DEF Adds, ParentExists, ParentsOf, Find
<1>3. s \notin scopes
  BY DEF Adds, Insertable
<1>4. QED
  BY <1>1, <1>2, <1>3

(* A scope has at most one parent.                                         *)
LEMMA Parents ==
  ASSUME Unambiguous, NEW s \in scopes, NEW p \in ParentsOf(s), NEW q \in ParentsOf(s)
  PROVE  p = q /\ p \in scopes /\ s.parent # None /\ p \in Find(s.parent)
<1>1. s.parent # None /\ p \in Find(s.parent) /\ q \in Find(s.parent)
  BY DEF ParentsOf
<1>2. QED
  BY <1>1, FindOne DEF Find

(* A table that is founded was so before.                                  *)
LEMMA FoundedBefore ==
  ASSUME [Next]_vars, Founded'
  PROVE  Founded
<1>1. CASE UNCHANGED tables
  BY <1>1 DEF tables, Founded, Unambiguous
<1>2. CASE Create \/ ImportScope
  <2>1. scopes \subseteq scopes' /\ orphans \subseteq orphans'
    BY <1>2 DEF Create, CreateScope, ImportScope
  <2>2. QED
    BY <2>1 DEF Founded, Unambiguous
<1>3. CASE Walk
  BY <1>1, <1>3
  DEF Walk, NextName, Visit, NotFound, Return, ExpandAgain, Answer
<1>4. QED
  BY <1>1, <1>2, <1>3 DEF Next, vars

(* Both handlers that write the table.                                     *)
LEMMA Writers ==
  ASSUME Create \/ ImportScope, Founded'
  PROVE  \E s \in Scope : Adds(s)
<1>1. CASE Create
  BY <1>1 DEF Create, CreateScope, Adds, Founded
<1>2. CASE ImportScope
  <2>1. PICK s \in Snapshot :
          /\ Insertable(s) /\ scopes' = scopes \cup {s} /\ UNCHANGED <<pc, walk>>
          /\ orphans' = orphans \cup (IF s.parent # None /\ ParentsOf(s) = {} THEN {s} ELSE {})
    BY <1>2 DEF ImportScope
  <2>2. s.parent = None \/ ParentsOf(s) # {}
    BY <2>1 DEF Founded
  <2>3. ParentExists(s.parent)
    BY <2>2 DEF ParentExists, ParentsOf
  <2>4. s \in Scope
    BY <2>1, SnapshotAssumption
  <2>5. QED
    BY <2>1, <2>3, <2>4 DEF Adds, Founded
<1>3. QED
  BY <1>1, <1>2

LEMMA TableStep ==
  ASSUME TableInv, [Next]_vars, Founded'
  PROVE  TableInv'
<1>1. CASE UNCHANGED tables
  BY <1>1 DEF tables, TableInv, Unambiguous, ParentsThere, Find
<1>2. CASE Create \/ ImportScope
  <2>1. PICK s \in Scope : Adds(s)
    BY <1>2, Writers
  <2>2. ASSUME NEW t \in scopes', t.parent # None
        PROVE  Find(t.parent)' # {}
    <3>1. Find(t.parent) # {}
      BY <2>1, <2>2 DEF Adds, ParentExists, TableInv, ParentsThere
    <3>2. QED
      BY <2>1, <3>1, FindGrows
  <2>3. ParentsThere'
    BY <2>2 DEF ParentsThere
  <2>4. QED
    BY <2>3 DEF TableInv, Founded
<1>3. CASE Walk
  BY <1>1, <1>3
  DEF Walk, NextName, Visit, NotFound, Return, ExpandAgain, Answer
<1>4. QED
  BY <1>1, <1>2, <1>3 DEF Next, vars

(* Rows are added one by one.                                              *)
LEMMA FiniteStep ==
  ASSUME IsFiniteSet(scopes), [Next]_vars
  PROVE  IsFiniteSet(scopes)'
<1>1. CASE Create \/ ImportScope
  <2>1. PICK s : scopes' = scopes \cup {s}
    BY <1>1 DEF Create, CreateScope, ImportScope
  <2>2. QED
    BY <2>1, FS_AddElement
<1>2. CASE Walk \/ UNCHANGED vars
  BY <1>2
  DEF Walk, NextName, Visit, NotFound, Return, ExpandAgain, Answer, vars, tables
<1>3. QED
  BY <1>1, <1>2 DEF Next

-----------------------------------------------------------------------------
(* Type correctness                                                        *)

(* A request names scopes.                                                 *)
LEMMA AskedType ==
  ASSUME NEW l \in SeqOf(Names, MaxAsked)
  PROVE  l \in Seq(Names)
BY BoundAssumption DEF SeqOf

LEMMA TypeInit == Init => TypeOK
BY AskedType DEF Init, TypeOK, Pcs, Expanding

(* The ids on the stack, from the innermost call out.                      *)
LEMMA VisitedType ==
  ASSUME TypeOK
  PROVE  /\ Visited \in Seq(Ids) /\ DOMAIN Visited = DOMAIN stack
         /\ Len(Visited) = Len(stack)
         /\ \A i \in DOMAIN stack : Visited[i] = stack[i].id
<1>1. stack \in Seq(Scope) /\ DOMAIN stack = 1 .. Len(stack) /\ Len(stack) \in Nat
  BY DEF TypeOK
<1>2. ASSUME NEW i \in DOMAIN stack
      PROVE  stack[i].id \in Ids
  <2>1. stack[i] \in Scope
    BY <1>1
  <2>2. QED
    BY <2>1 DEF Scope
<1>3. QED
  BY <1>1, <1>2 DEF Visited

LEMMA TypeStep == TypeOK /\ [Next]_vars => TypeOK'
<1> SUFFICES ASSUME TypeOK, [Next]_vars
             PROVE  TypeOK'
  OBVIOUS
<1>1. CASE Create
  BY <1>1 DEF Create, CreateScope, TypeOK, walk
<1>2. CASE ImportScope
  <2>1. PICK s \in Snapshot :
          /\ scopes' = scopes \cup {s} /\ orphans' \subseteq orphans \cup {s}
          /\ UNCHANGED <<pc, walk>>
    BY <1>2 DEF ImportScope
  <2>2. s \in Scope
    BY <2>1, SnapshotAssumption
  <2>3. QED
    BY <2>1, <2>2 DEF TypeOK, walk
<1>3. CASE NextName
  BY <1>3 DEF NextName, TypeOK, tables
<1>4. CASE Visit
  <2>1. PICK s \in Find(name) : stack' = <<s>> \o stack /\ name' = s.parent
    BY <1>4 DEF Visit
  <2>2. s \in Scope /\ s.parent \in Names \cup {None}
    BY <2>1 DEF Find, TypeOK, Scope
  <2>3. stack' \in Seq(Scope)
    BY <2>1, <2>2, Pushed DEF TypeOK
  <2>4. QED
    BY <1>4, <2>1, <2>2, <2>3 DEF Visit, TypeOK, tables
<1>5. CASE NotFound
  BY <1>5 DEF NotFound, TypeOK, tables, walk, Pcs
<1>6. CASE Return
  <2>1. Range(Visited) \subseteq Ids
    BY VisitedType DEF Range
  <2>2. out' \in Seq(Ids)
    BY <1>6, VisitedType DEF Return, AfterParent, TypeOK
  <2>3. QED
    BY <1>6, <2>1, <2>2 DEF Return, TypeOK, tables
<1>7. CASE ExpandAgain
  <2>1. Ids \subseteq Names
    BY DEF Names
  <2>2. out \in Seq(Names)
    BY <2>1 DEF TypeOK
  <2>3. QED
    BY <1>7, <2>2 DEF ExpandAgain, Begin, TypeOK, tables, Pcs, Expanding
<1>8. CASE Answer
  BY <1>8 DEF Answer, TypeOK, tables, walk, Pcs
<1>9. CASE UNCHANGED vars
  BY <1>9 DEF vars, tables, walk, TypeOK
<1>10. QED
  BY <1>1, <1>2, <1>3, <1>4, <1>5, <1>6, <1>7, <1>8, <1>9 DEF Next, Walk

-----------------------------------------------------------------------------
(* The scopes under visit                                                  *)

LEMMA StackInit == Init => TableInv /\ StackInv
<1> SUFFICES ASSUME Init
             PROVE  TableInv /\ StackInv
  OBVIOUS
<1>1. TableInv
  BY DEF Init, TableInv, Unambiguous, ParentsThere
<1>2. Chained
  BY DEF Init, Chained
<1>3. [s \in scopes |-> 0] \in [scopes -> Nat] /\ Ranks([s \in scopes |-> 0])
  BY DEF Init, Ranks
<1>4. QED
  BY <1>1, <1>2, <1>3 DEF StackInv, Ranked

(* A new scope gets a rank above its parent's.                             *)
LEMMA RankedWider ==
  ASSUME TypeOK, TableInv, StackInv, NEW s \in Scope, Adds(s)
  PROVE  Ranked'
<1>1. PICK r \in [scopes -> Nat] : Ranks(r)
  BY DEF StackInv, Ranked
<1>2. PICK k \in Nat : \A p \in ParentsOf(s) : r[p] < k
  <2>1. CASE ParentsOf(s) = {}
    BY <2>1
  <2>2. CASE ParentsOf(s) # {}
    <3>1. PICK p \in ParentsOf(s) : TRUE
      BY <2>2
    <3>2. \A q \in ParentsOf(s) : q = p
      BY <3>1, FindOne DEF ParentsOf, TableInv
    <3>3. r[p] \in Nat
      BY <3>1, ParentsStay
    <3>4. r[p] + 1 \in Nat /\ \A q \in ParentsOf(s) : r[q] < r[p] + 1
      BY <3>2, <3>3
    <3>5. QED
      BY <3>4
  <2>3. QED
    BY <2>1, <2>2
<1>3. PICK q : q = [t \in scopes \cup {s} |-> IF t \in scopes THEN r[t] ELSE k]
  OBVIOUS
<1>4. q \in [scopes \cup {s} -> Nat] /\ \A t \in scopes : q[t] = r[t]
  BY <1>3
<1>5. q[s] = k
  BY <1>3, ParentsStay
<1>6. \A t \in scopes \cup {s} : \A p \in ParentsOf(t)' : q[p] < q[t]
  <2>1. ASSUME NEW t \in scopes, NEW p \in ParentsOf(t)'
        PROVE  q[p] < q[t]
    <3>1. p \in ParentsOf(t) /\ p \in scopes
      BY <2>1, ParentsStay, Parents DEF TableInv
    <3>2. QED
      BY <1>1, <1>4, <2>1, <3>1 DEF Ranks
  <2>2. ASSUME NEW p \in ParentsOf(s)'
        PROVE  q[p] < q[s]
    BY <1>2, <1>4, <1>5, <2>2, ParentsStay
  <2>3. QED
    BY <2>1, <2>2
<1>7. \A i, j \in DOMAIN stack : i < j => q[stack[i]] < q[stack[j]]
  BY <1>1, <1>4 DEF Ranks, StackInv, Chained
<1>8. Ranks(q)'
  <2>1. scopes' = scopes \cup {s} /\ stack' = stack
    BY DEF Adds, walk
  <2>2. QED
    BY <1>6, <1>7, <2>1 DEF Ranks
<1>9. q \in [scopes' -> Nat]
  BY <1>4 DEF Adds
<1>10. QED
  BY <1>8, <1>9 DEF Ranked

LEMMA StackStep ==
  ASSUME TypeOK, TableInv, StackInv, [Next]_vars, Founded'
  PROVE  StackInv'
<1>1. ASSUME NEW s \in Scope, Adds(s)
      PROVE  StackInv'
  <2>1. scopes' = scopes \cup {s} /\ stack' = stack /\ name' = name
    BY <1>1 DEF Adds, walk
  <2>2. \A t \in scopes : ParentsOf(t)' = ParentsOf(t)
    BY <1>1, ParentsStay
  <2>3. Chained'
    BY <2>1, <2>2 DEF StackInv, Chained
  <2>4. QED
    BY <1>1, <2>3, RankedWider DEF StackInv
<1>2. CASE UNCHANGED tables /\ stack' = stack /\ name' = name
  BY <1>2 DEF tables, StackInv, Ranked, Ranks, Chained, ParentsOf, Find
<1>3. CASE UNCHANGED tables /\ stack' = <<>>
  BY <1>3 DEF tables, StackInv, Ranked, Ranks, Chained, ParentsOf, Find
<1>4. CASE Visit
  <2>1. PICK s \in Find(name) : stack' = <<s>> \o stack /\ name' = s.parent
    BY <1>4 DEF Visit
  <2>2. s \in scopes /\ s \in Scope /\ stack \in Seq(Scope) /\ scopes' = scopes
    BY <1>4, <2>1 DEF Visit, Find, TypeOK, tables
  <2>3. /\ DOMAIN stack = 1 .. Len(stack) /\ Len(stack) \in Nat
        /\ DOMAIN stack' = 1 .. Len(stack) + 1 /\ stack'[1] = s
        /\ \A i \in 2 .. Len(stack) + 1 :
             i - 1 \in DOMAIN stack /\ stack'[i] = stack[i - 1]
    BY <2>1, <2>2, Pushed
  <2>4. stack # <<>> => s \in ParentsOf(stack[1])
    <3>1. ASSUME stack # <<>>
          PROVE  name = stack[1].parent /\ name # None
      BY <1>4, <3>1 DEF StackInv, Chained, Visit, Returns
    <3>2. QED
      BY <2>1, <3>1 DEF ParentsOf
  <2>5. PICK r \in [scopes -> Nat] : Ranks(r)
    BY DEF StackInv, Ranked
  <2>6. \A i \in DOMAIN stack : stack[i] \in scopes /\ r[stack[i]] \in Nat
    BY <2>5 DEF StackInv, Chained
  <2>7. ASSUME NEW i \in DOMAIN stack', NEW j \in DOMAIN stack', i < j
        PROVE  r[stack'[i]] < r[stack'[j]]
    <3>1. j - 1 \in DOMAIN stack /\ stack'[j] = stack[j - 1] /\ j \in Nat /\ i \in Nat
      BY <2>3, <2>7
    <3>2. CASE i = 1
      <4>1. stack # <<>> /\ 1 \in DOMAIN stack
        BY <2>3, <3>1
      <4>2. r[s] < r[stack[1]] /\ r[s] \in Nat
        BY <2>2, <2>4, <2>5, <2>6, <4>1 DEF Ranks
      <4>3. CASE j = 2
        BY <2>3, <3>1, <3>2, <4>2, <4>3
      <4>4. CASE j > 2
        <5>1. r[stack[1]] < r[stack[j - 1]]
          BY <2>5, <3>1, <4>1, <4>4 DEF Ranks
        <5>2. QED
          BY <2>3, <2>6, <3>1, <3>2, <4>1, <4>2, <5>1
      <4>5. QED
        BY <2>7, <3>1, <3>2, <4>3, <4>4
    <3>3. CASE i # 1
      <4>1. i - 1 \in DOMAIN stack /\ stack'[i] = stack[i - 1] /\ i - 1 < j - 1
        BY <2>3, <2>7, <3>1, <3>3
      <4>2. QED
        BY <2>5, <3>1, <4>1 DEF Ranks
    <3>4. QED
      BY <3>2, <3>3
  <2>8. \A t : ParentsOf(t)' = ParentsOf(t)
    BY <2>2 DEF ParentsOf, Find
  <2>9. Ranked'
    <3>1. Ranks(r)'
      BY <2>2, <2>5, <2>7, <2>8 DEF Ranks
    <3>2. QED
      BY <2>2, <2>5, <3>1 DEF Ranked
  <2>10. ASSUME NEW i \in DOMAIN stack'
         PROVE  /\ stack'[i] \in scopes
                /\ i > 1 => stack'[i - 1] \in ParentsOf(stack'[i])
    <3>1. CASE i = 1
      BY <2>2, <2>3, <3>1
    <3>2. CASE i = 2
      BY <2>3, <2>4, <2>6, <2>10, <3>2
    <3>3. CASE i > 2
      <4>1. /\ i - 1 \in DOMAIN stack /\ stack'[i] = stack[i - 1]
            /\ stack'[i - 1] = stack[(i - 1) - 1]
        BY <2>3, <2>10, <3>3
      <4>2. QED
        BY <2>6, <3>3, <4>1, <2>3, <2>10 DEF StackInv, Chained
    <3>4. QED
      BY <2>3, <2>10, <3>1, <3>2, <3>3
  <2>11. Chained'
    BY <2>1, <2>2, <2>3, <2>8, <2>10 DEF Chained
  <2>12. QED
    BY <2>9, <2>11 DEF StackInv
<1>5. CASE NextName
  BY <1>2, <1>3, <1>5 DEF NextName
<1>6. CASE NotFound \/ Answer
  BY <1>2, <1>6 DEF NotFound, Answer, walk
<1>7. CASE Return \/ ExpandAgain
  BY <1>3, <1>7 DEF Return, ExpandAgain, Begin
<1>8. CASE UNCHANGED vars
  BY <1>2, <1>8 DEF vars, walk
<1>9. CASE Create \/ ImportScope
  BY <1>1, <1>9, Writers
<1>10. QED
  BY <1>4, <1>5, <1>6, <1>7, <1>8, <1>9 DEF Next, Walk

-----------------------------------------------------------------------------
(* The list                                                                *)

LEMMA ListInit == Init => ListInv /\ Cursor /\ FollowsFirst /\ Done
<1> SUFFICES ASSUME Init
             PROVE  ListInv /\ Cursor /\ FollowsFirst /\ Done
  OBVIOUS
<1>1. SeenListed /\ Closed /\ Exact /\ Ordered(out)
  BY DEF Init, SeenListed, Listed, Closed, Exact, Ordered, Range
<1>2. Asked /\ Complete
  BY DEF Init, Asked, Complete
<1>3. asked \in Seq(Names)
  BY AskedType DEF Init
<1>4. Cursor
  BY <1>3 DEF Init, Cursor, Passed
<1>5. FollowsFirst /\ Done
  BY DEF Init, FollowsFirst, Second, Done
<1>6. QED
  BY <1>1, <1>2, <1>4, <1>5 DEF ListInv

(* A new scope is not in the list and is no scope's parent.                *)
LEMMA AddsKeepsList ==
  ASSUME TypeOK, TableInv, ListInv, NEW s \in Scope, Adds(s)
  PROVE  ListInv'
<1>1. /\ seen' = seen /\ out' = out /\ asked' = asked /\ todo' = todo
      /\ stack' = stack /\ name' = name /\ scopes' = scopes \cup {s}
  BY DEF Adds, walk
<1>2. s.id \notin seen
  BY DEF ListInv, SeenListed, Adds, Insertable
<1>3. Listed' = Listed
  BY <1>1, <1>2 DEF Listed
<1>4. \A t \in scopes : ParentsOf(t)' = ParentsOf(t)
  BY ParentsStay
<1>5. \A n : Find(n) \subseteq Find(n)'
  BY FindGrows
<1>6. SeenListed'
  BY <1>1 DEF ListInv, SeenListed
<1>7. Closed'
  BY <1>3, <1>4 DEF ListInv, Closed, Listed
<1>8. \A t : Named(t) => Named(t)'
  BY <1>1, <1>5 DEF Named
<1>9. Exact'
  BY <1>3, <1>4, <1>8 DEF ListInv, Exact, Listed
<1>10. Ordered(out)'
  BY <1>1, <1>2, <1>4 DEF ListInv, Ordered, SeenListed
<1>11. Asked'
  <2>1. Outermost' = Outermost
    BY <1>1 DEF Outermost
  <2>2. ASSUME stack # <<>>
        PROVE  Named(Outermost)'
    <3>1. PICK n \in Range(asked) : Outermost \in Find(n)
      BY <2>2 DEF ListInv, Asked, Named
    <3>2. QED
      BY <1>1, <1>5, <2>1, <3>1 DEF Named
  <2>3. QED
    BY <1>1, <2>2 DEF ListInv, Asked
<1>12. Complete'
  <2>1. Outermost' = Outermost
    BY <1>1 DEF Outermost
  <2>2. QED
    BY <1>1, <1>3, <1>5, <2>1 DEF ListInv, Complete
<1>13. QED
  BY <1>6, <1>7, <1>9, <1>10, <1>11, <1>12 DEF ListInv

(* A step of the walk that returns nothing leaves the list alone.          *)
LEMMA ListStays ==
  ASSUME SeenListed, Closed, Exact, Ordered(out), UNCHANGED <<scopes, seen, out, asked>>
  PROVE  SeenListed' /\ Closed' /\ Exact' /\ Ordered(out)'
<1>1. \A n : Find(n)' = Find(n)
  BY DEF Find
<1>2. \A t : ParentsOf(t)' = ParentsOf(t) /\ Named(t)' = Named(t)
  BY <1>1 DEF ParentsOf, Named
<1>3. Listed' = Listed
  BY DEF Listed
<1>4. SeenListed'
  BY DEF SeenListed
<1>5. Closed' /\ Exact'
  BY <1>2, <1>3 DEF Closed, Exact
<1>6. Ordered(out)'
  BY <1>2 DEF Ordered
<1>7. QED
  BY <1>4, <1>5, <1>6

(* The loop over the request goes on to its next name.                     *)
LEMMA NextNameList ==
  ASSUME TypeOK, ListInv, Cursor, NextName
  PROVE  ListInv'
<1>1. /\ UNCHANGED <<scopes, seen, out, asked>> /\ stack' = <<>> /\ stack = <<>>
      /\ name = None /\ todo # <<>> /\ name' = Head(todo) /\ todo' = Tail(todo)
  BY DEF NextName, tables
<1>2. asked \in Seq(Names) /\ todo \in Seq(Names)
  BY DEF TypeOK
<1>3. Head(todo) = todo[1] /\ 1 \in DOMAIN todo /\ Len(todo) >= 1
  BY <1>1, <1>2
<1>4. Passed + 1 \in DOMAIN asked /\ asked[Passed + 1] = Head(todo)
  BY <1>2, <1>3 DEF Cursor, Passed
<1>5. Asked'
  BY <1>1, <1>4 DEF Asked, Range
<1>6. ASSUME NEW n \in Range(asked)
      PROVE  n = name' \/ n \in Range(todo') \/ Find(n) \cap Listed # {}
  <2>1. n \in Names
    BY <1>2, <1>6 DEF Range
  <2>2. n \in Range(todo) \/ Find(n) \cap Listed # {}
    BY <1>1, <1>6, <2>1, NamesAssumption DEF ListInv, Complete
  <2>3. ASSUME n \in Range(todo), n # todo[1]
        PROVE  n \in Range(Tail(todo))
    <3>1. PICK i \in DOMAIN todo : todo[i] = n
      BY <2>3 DEF Range
    <3>2. i - 1 \in DOMAIN Tail(todo) /\ Tail(todo)[i - 1] = n
      BY <1>1, <1>2, <2>3, <3>1
    <3>3. QED
      BY <3>2 DEF Range
  <2>4. QED
    BY <1>1, <1>3, <2>2, <2>3
<1>7. Complete'
  <2>1. Listed' = Listed /\ \A n : Find(n)' = Find(n)
    BY <1>1 DEF Listed, Find
  <2>2. QED
    BY <1>1, <1>6, <2>1 DEF Complete
<1>8. QED
  BY <1>1, <1>5, <1>7, ListStays DEF ListInv

(* A query of ScopeAncestors lists nothing yet.                            *)
LEMMA VisitList ==
  ASSUME TypeOK, ListInv, Visit
  PROVE  ListInv'
<1>1. UNCHANGED <<scopes, seen, out, asked, todo>>
  BY DEF Visit, tables
<1>2. PICK s \in Find(name) : stack' = <<s>> \o stack /\ name' = s.parent
  BY DEF Visit
<1>3. stack \in Seq(Scope) /\ s \in Scope /\ name # None
  BY <1>2 DEF TypeOK, Find, Visit, Returns
<1>4. /\ Len(stack') = Len(stack) + 1 /\ stack'[1] = s /\ Len(stack) \in Nat
      /\ \A i \in 2 .. Len(stack) + 1 : stack'[i] = stack[i - 1]
      /\ stack' # <<>>
  BY <1>2, <1>3, Pushed
<1>5. CASE stack = <<>>
  <2>1. Outermost' = s
    BY <1>4, <1>5 DEF Outermost
  <2>2. name \in Range(asked)
    BY <1>3, <1>5 DEF ListInv, Asked
  <2>3. Named(Outermost)'
    BY <1>1, <1>2, <2>1, <2>2 DEF Named, Find
  <2>4. Asked'
    BY <1>4, <2>3 DEF Asked
  <2>5. Complete'
    BY <1>1, <1>2, <1>4, <1>5, <2>1 DEF ListInv, Complete, Find, Listed
  <2>6. QED
    BY <1>1, <2>4, <2>5, ListStays DEF ListInv
<1>6. CASE stack # <<>>
  <2>1. Outermost' = Outermost
    BY <1>3, <1>4, <1>6 DEF Outermost
  <2>2. Named(Outermost)
    BY <1>6 DEF ListInv, Asked
  <2>3. Named(Outermost)'
    BY <1>1, <2>1, <2>2 DEF Named, Find
  <2>4. Asked'
    BY <1>4, <2>3 DEF Asked
  <2>5. Complete'
    BY <1>1, <1>4, <1>6, <2>1 DEF ListInv, Complete, Find, Listed
  <2>6. QED
    BY <1>1, <2>4, <2>5, ListStays DEF ListInv
<1>7. QED
  BY <1>5, <1>6

(* What a return adds to the list, with the parents it has there.          *)
LEMMA Returned ==
  ASSUME TypeOK, TableInv, StackInv, ListInv, Return
  PROVE  /\ UNCHANGED <<scopes, asked, todo, pc, first>> /\ stack' = <<>> /\ name' = None
         /\ out' = out \o Visited /\ seen' = seen \cup Range(Visited)
         /\ Range(Visited) = {stack[i].id : i \in DOMAIN stack}
         /\ Listed' = Listed \cup Range(stack)
         /\ \A n : Find(n)' = Find(n)
         /\ \A t : ParentsOf(t)' = ParentsOf(t)
         /\ \A i \in DOMAIN stack : i > 1 => ParentsOf(stack[i]) = {stack[i - 1]}
         /\ stack # <<>> => ParentsOf(stack[1]) \subseteq Listed
         /\ DOMAIN stack = 1 .. Len(stack) /\ Len(stack) \in Nat
         /\ \A i, j \in DOMAIN stack : stack[i].id = stack[j].id => i = j
<1>1. /\ UNCHANGED <<scopes, asked, todo, pc, first>> /\ stack' = <<>> /\ name' = None
      /\ out' = out \o Visited /\ seen' = seen \cup Range(Visited)
      /\ Returns /\ ~(name = None /\ stack = <<>>)
  BY DEF Return, AfterParent, tables
<1>2. Range(Visited) = {stack[i].id : i \in DOMAIN stack}
  BY VisitedType DEF Range
<1>3. \A i \in DOMAIN stack : stack[i] \in scopes
  BY DEF StackInv, Chained
<1>4. Listed' = Listed \cup Range(stack)
  <2>1. \A s \in scopes : s.id \in Range(Visited) <=> s \in Range(stack)
    BY <1>2, <1>3 DEF TableInv, Unambiguous, Range, Called
  <2>2. Range(stack) \subseteq scopes
    BY <1>3 DEF Range
  <2>3. QED
    BY <1>1, <2>1, <2>2 DEF Listed
<1>5. /\ \A n : Find(n)' = Find(n)
      /\ \A t : ParentsOf(t)' = ParentsOf(t)
  BY <1>1 DEF Find, ParentsOf
<1>6. DOMAIN stack = 1 .. Len(stack) /\ Len(stack) \in Nat
  BY DEF TypeOK
<1>7. ASSUME NEW i \in DOMAIN stack, i > 1
      PROVE  ParentsOf(stack[i]) = {stack[i - 1]}
  <2>1. stack[i] \in scopes /\ stack[i - 1] \in ParentsOf(stack[i])
    BY <1>3, <1>7 DEF StackInv, Chained
  <2>2. QED
    BY <2>1, Parents DEF TableInv
<1>8. ASSUME stack # <<>>, NEW p \in ParentsOf(stack[1])
      PROVE  p \in Listed
  <2>1. 1 \in DOMAIN stack /\ stack[1] \in scopes /\ name = stack[1].parent
    <3>1. 1 \in DOMAIN stack
      BY <1>8 DEF TypeOK
    <3>2. QED
      BY <1>3, <1>8, <3>1 DEF StackInv, Chained
  <2>2. p \in scopes /\ p \in Find(name) /\ name # None
    BY <1>8, <2>1, Parents DEF TableInv
  <2>3. name \in seen
    BY <1>1, <2>2 DEF Returns
  <2>4. PICK t \in scopes : t.id = name
    BY <2>3 DEF ListInv, SeenListed
  <2>5. t \in Find(name)
    BY <2>4 DEF Find, Called
  <2>6. t = p
    BY <2>2, <2>5, FindOne DEF TableInv
  <2>7. QED
    BY <2>3, <2>4, <2>6 DEF Listed
<1>9. ASSUME NEW i \in DOMAIN stack, NEW j \in DOMAIN stack, stack[i].id = stack[j].id
      PROVE  i = j
  <2>1. stack[i] = stack[j]
    BY <1>3, <1>9 DEF TableInv, Unambiguous, Called
  <2>2. PICK r \in [scopes -> Nat] : Ranks(r)
    BY DEF StackInv, Ranked
  <2>3. ~(r[stack[i]] < r[stack[j]]) /\ ~(r[stack[j]] < r[stack[i]])
    BY <1>3, <2>1
  <2>4. ~(i < j) /\ ~(j < i)
    BY <2>2, <2>3 DEF Ranks
  <2>5. i \in Nat /\ j \in Nat
    BY <1>6
  <2>6. QED
    BY <2>4, <2>5
<1>10. QED
  BY <1>1, <1>2, <1>4, <1>5, <1>6, <1>7, <1>8, <1>9

(* A scope on the stack stands at one place.                               *)
LEMMA PlaceOnStack ==
  ASSUME TypeOK, \A i, j \in DOMAIN stack : stack[i].id = stack[j].id => i = j,
         NEW i \in DOMAIN stack
  PROVE  Place(Visited, stack[i].id) = i /\ stack[i].id \in Range(Visited)
<1>1. /\ Visited \in Seq(Ids) /\ DOMAIN Visited = DOMAIN stack
      /\ \A j \in DOMAIN stack : Visited[j] = stack[j].id
  BY VisitedType
<1>2. \A j \in DOMAIN Visited : Visited[j] = Visited[i] => j = i
  BY <1>1
<1>3. DOMAIN stack \subseteq Nat
  BY DEF TypeOK
<1>4. \A j \in DOMAIN Visited : Visited[j] = Visited[i] => i <= j
  BY <1>1, <1>2, <1>3
<1>5. Place(Visited, Visited[i]) = i
  BY <1>1, <1>4, PlaceIs
<1>6. QED
  BY <1>1, <1>5 DEF Range

(* The open calls return and list their scopes, ancestors first.           *)
LEMMA ReturnList ==
  ASSUME TypeOK, TableInv, StackInv, ListInv, Return
  PROVE  ListInv'
<1>1. /\ UNCHANGED <<scopes, asked, todo>> /\ stack' = <<>> /\ name' = None
      /\ out' = out \o Visited /\ seen' = seen \cup Range(Visited)
      /\ Range(Visited) = {stack[i].id : i \in DOMAIN stack}
      /\ Listed' = Listed \cup Range(stack)
      /\ \A n : Find(n)' = Find(n)
      /\ \A t : ParentsOf(t)' = ParentsOf(t)
      /\ \A i \in DOMAIN stack : i > 1 => ParentsOf(stack[i]) = {stack[i - 1]}
      /\ stack # <<>> => ParentsOf(stack[1]) \subseteq Listed
      /\ DOMAIN stack = 1 .. Len(stack) /\ Len(stack) \in Nat
      /\ \A i, j \in DOMAIN stack : stack[i].id = stack[j].id => i = j
  BY Returned
<1>2. out \in Seq(Ids) /\ Visited \in Seq(Ids) /\ Len(Visited) = Len(stack)
  BY VisitedType DEF TypeOK
<1>3. \A i \in DOMAIN stack : stack[i] \in scopes
  BY DEF StackInv, Chained
<1>4. SeenListed'
  <2>1. Range(out') = Range(out) \cup Range(Visited)
    BY <1>1, <1>2, Joined
  <2>2. QED
    BY <1>1, <1>3, <2>1 DEF ListInv, SeenListed
<1>5. ASSUME NEW i \in DOMAIN stack
      PROVE  ParentsOf(stack[i]) \subseteq Listed \cup Range(stack)
  <2>1. CASE i > 1
    <3>1. i - 1 \in DOMAIN stack
      BY <1>1, <1>5, <2>1
    <3>2. QED
      BY <1>1, <1>5, <2>1, <3>1 DEF Range
  <2>2. CASE i = 1
    BY <1>1, <1>5, <2>2
  <2>3. QED
    BY <1>1, <1>5, <2>1, <2>2
<1>6. Closed'
  BY <1>1, <1>5 DEF ListInv, Closed, Range
<1>7. Exact'
  <2>1. \A t : Named(t)' = Named(t)
    BY <1>1 DEF Named
  <2>2. ASSUME NEW i \in DOMAIN stack
        PROVE  Named(stack[i]) \/ \E t \in Range(stack) : stack[i] \in ParentsOf(t)
    <3>1. CASE i = Len(stack)
      <4>1. stack # <<>> /\ Named(Outermost)
        BY <1>1, <2>2 DEF ListInv, Asked
      <4>2. QED
        BY <3>1, <4>1 DEF Outermost
    <3>2. CASE i < Len(stack)
      <4>1. i + 1 \in DOMAIN stack /\ i + 1 > 1 /\ (i + 1) - 1 = i
        BY <1>1, <2>2, <3>2
      <4>2. stack[i] \in ParentsOf(stack[i + 1])
        BY <1>1, <4>1
      <4>3. QED
        BY <4>1, <4>2 DEF Range
    <3>3. QED
      BY <1>1, <2>2, <3>1, <3>2
  <2>3. QED
    BY <1>1, <2>1, <2>2 DEF ListInv, Exact, Range
<1>8. Ordered(out)'
  <2>1. ASSUME NEW s \in scopes, s.id \in Range(out'), NEW p \in ParentsOf(s)
        PROVE  p.id \in Range(out') /\ Place(out', p.id) < Place(out', s.id)
    <3>1. Range(out') = Range(out) \cup Range(Visited) /\ Range(out) = seen
      BY <1>1, <1>2, Joined DEF ListInv, SeenListed
    <3>2. CASE s.id \in Range(out)
      <4>1. p.id \in Range(out) /\ Place(out, p.id) < Place(out, s.id)
        BY <2>1, <3>2 DEF ListInv, Ordered
      <4>2. Place(out', p.id) = Place(out, p.id) /\ Place(out', s.id) = Place(out, s.id)
        BY <1>1, <1>2, <3>2, <4>1, PlacesKept
      <4>3. QED
        BY <3>1, <4>1, <4>2
    <3>3. CASE s.id \notin Range(out)
      <4>1. PICK i \in DOMAIN stack : s = stack[i]
        <5>1. PICK i \in DOMAIN stack : s.id = stack[i].id
          BY <1>1, <2>1, <3>1, <3>3
        <5>2. QED
          BY <1>3, <5>1 DEF TableInv, Unambiguous, Called
      <4>2. Place(Visited, s.id) = i
        BY <1>1, <4>1, PlaceOnStack
      <4>3. s.id \in Range(Visited)
        BY <1>1, <4>1
      <4>4. Place(out', s.id) = Len(out) + i
        BY <1>1, <1>2, <3>3, <4>2, <4>3, PlacesAdded
      <4>5. CASE p.id \in Range(out)
        <5>1. Place(out', p.id) = Place(out, p.id) /\ Place(out, p.id) \in DOMAIN out
          BY <1>1, <1>2, <4>5, PlacesKept, FirstPlace
        <5>2. DOMAIN out = 1 .. Len(out) /\ Len(out) \in Nat /\ i \in Nat /\ i >= 1
          BY <1>1, <1>2
        <5>3. QED
          BY <3>1, <4>4, <4>5, <5>1, <5>2
      <4>6. CASE p.id \notin Range(out)
        <5>1. p \in scopes
          BY <2>1, Parents DEF TableInv
        <5>2. i > 1
          <6>1. CASE i = 1
            <7>1. p \in Listed
              BY <1>1, <2>1, <4>1, <6>1
            <7>2. QED
              BY <3>1, <4>6, <7>1 DEF Listed
          <6>2. QED
            BY <1>1, <6>1
        <5>3. p = stack[i - 1] /\ i - 1 \in DOMAIN stack
          BY <1>1, <2>1, <4>1, <5>2
        <5>4. Place(Visited, p.id) = i - 1
          BY <1>1, <5>3, PlaceOnStack
        <5>5. p.id \in Range(Visited)
          BY <1>1, <5>3
        <5>6. Place(out', p.id) = Len(out) + (i - 1)
          BY <1>1, <1>2, <4>6, <5>4, <5>5, PlacesAdded
        <5>7. QED
          BY <1>1, <1>2, <3>1, <4>4, <5>5, <5>6
      <4>7. QED
        BY <4>5, <4>6
    <3>4. QED
      BY <3>2, <3>3
  <2>2. QED
    BY <1>1, <2>1 DEF Ordered
<1>9. Asked'
  BY <1>1 DEF Asked
<1>10. Complete'
  <2>1. ASSUME NEW n \in Range(asked)
        PROVE  n \in Range(todo) \/ Find(n) \cap (Listed \cup Range(stack)) # {}
    <3>1. CASE stack = <<>> /\ name = n
      <4>1. n \in seen
        BY <3>1 DEF Return, Returns
      <4>2. PICK t \in scopes : t.id = n
        BY <4>1 DEF ListInv, SeenListed
      <4>3. t \in Find(n) /\ t \in Listed
        BY <4>1, <4>2 DEF Find, Called, Listed
      <4>4. QED
        BY <4>3
    <3>2. CASE stack # <<>> /\ Outermost \in Find(n)
      <4>1. Len(stack) \in DOMAIN stack
        BY <1>1, <3>2 DEF TypeOK
      <4>2. QED
        BY <3>2, <4>1 DEF Outermost, Range
    <3>3. QED
      BY <2>1, <3>1, <3>2 DEF ListInv, Complete
  <2>2. QED
    BY <1>1, <2>1 DEF Complete
<1>11. QED
  BY <1>4, <1>6, <1>7, <1>8, <1>9, <1>10 DEF ListInv

(* The second expansion begins with an empty list.                         *)
LEMMA AgainList ==
  ASSUME TypeOK, ListInv, ExpandAgain
  PROVE  ListInv'
<1>1. /\ scopes' = scopes /\ asked' = out /\ todo' = out /\ name' = None /\ stack' = <<>>
      /\ seen' = {} /\ out' = <<>>
  BY DEF ExpandAgain, Begin, tables
<1>2. Range(out') = {} /\ Listed' = {}
  BY <1>1 DEF Range, Listed
<1>3. SeenListed' /\ Closed' /\ Exact'
  BY <1>1, <1>2 DEF SeenListed, Closed, Exact
<1>4. Ordered(out)'
  BY <1>2 DEF Ordered
<1>5. Asked' /\ Complete'
  BY <1>1 DEF Asked, Complete
<1>6. QED
  BY <1>3, <1>4, <1>5 DEF ListInv

(* What leaves the table and the walk alone leaves the list as it is.      *)
LEMMA StutterList ==
  ASSUME ListInv, UNCHANGED scopes, UNCHANGED walk
  PROVE  ListInv'
<1>1. Asked' /\ Complete'
  BY DEF walk, ListInv, Asked, Complete, Outermost, Named, Find, Listed
<1>2. QED
  BY <1>1, ListStays DEF walk, ListInv

LEMMA ListStep ==
  ASSUME TypeOK, TableInv, StackInv, ListInv, Cursor, [Next]_vars, Founded'
  PROVE  ListInv'
<1>1. CASE Create \/ ImportScope
  BY <1>1, Writers, AddsKeepsList
<1>2. CASE NotFound \/ Answer \/ UNCHANGED vars
  BY <1>2, StutterList DEF NotFound, Answer, vars, tables
<1>3. CASE NextName \/ Visit \/ Return \/ ExpandAgain
  BY <1>3, NextNameList, VisitList, ReturnList, AgainList
<1>4. QED
  BY <1>1, <1>2, <1>3 DEF Next, Walk

-----------------------------------------------------------------------------
(* The second expansion                                                    *)

LEMMA CursorStep ==
  ASSUME TypeOK, Cursor, [Next]_vars
  PROVE  Cursor'
<1>1. CASE UNCHANGED <<asked, todo>>
  BY <1>1 DEF Cursor, Passed
<1>2. CASE NextName
  <2>1. todo # <<>> /\ todo' = Tail(todo) /\ asked' = asked
    BY <1>2 DEF NextName
  <2>2. todo \in Seq(Names) /\ asked \in Seq(Names)
    BY DEF TypeOK
  <2>3. /\ Len(todo') = Len(todo) - 1 /\ Len(todo) \in Nat /\ Len(asked) \in Nat
        /\ \A i \in DOMAIN todo' : i \in Nat /\ i + 1 \in DOMAIN todo /\ todo'[i] = todo[i + 1]
    BY <2>1, <2>2
  <2>4. ASSUME NEW i \in DOMAIN todo'
        PROVE  todo'[i] = asked'[Passed' + i]
    <3>1. todo'[i] = asked[Passed + (i + 1)]
      BY <2>3, <2>4 DEF Cursor
    <3>2. Passed + (i + 1) = Passed' + i
      BY <2>1, <2>3, <2>4 DEF Passed
    <3>3. QED
      BY <2>1, <3>1, <3>2
  <2>5. QED
    BY <2>1, <2>3, <2>4 DEF Cursor
<1>3. CASE ExpandAgain
  <2>1. asked' = out /\ todo' = out /\ out \in Seq(Ids)
    BY <1>3 DEF ExpandAgain, Begin, TypeOK
  <2>2. QED
    BY <2>1 DEF Cursor, Passed
<1>4. CASE Create \/ ImportScope
  BY <1>1, <1>4 DEF Create, CreateScope, ImportScope, walk
<1>5. CASE Visit \/ Return
  BY <1>1, <1>5 DEF Visit, Return
<1>6. CASE NotFound \/ Answer \/ UNCHANGED vars
  BY <1>1, <1>6 DEF NotFound, Answer, vars, walk
<1>7. QED
  BY <1>2, <1>3, <1>4, <1>5, <1>6 DEF Next, Walk

LEMMA DoneStep ==
  ASSUME Done, [Next]_vars
  PROVE  Done'
<1>1. CASE UNCHANGED <<pc, walk>>
  BY <1>1 DEF Done, Expanded, walk
<1>2. CASE Create \/ ImportScope \/ UNCHANGED vars
  BY <1>1, <1>2 DEF Create, CreateScope, ImportScope, vars
<1>3. CASE NextName \/ Visit \/ Return
  BY <1>3 DEF NextName, Visit, Return, Done, Expanding
<1>4. CASE NotFound \/ ExpandAgain
  BY <1>4 DEF NotFound, ExpandAgain, Done
<1>5. CASE Answer
  BY <1>5 DEF Answer, Done, Expanded, walk
<1>6. QED
  BY <1>2, <1>3, <1>4, <1>5 DEF Next, Walk

(* The list an expansion has ended with keeps its order while scopes are   *)
(* created.                                                                *)
LEMMA FirstStays ==
  ASSUME TypeOK, TableInv, NEW s \in Scope, Adds(s), Ordered(first),
         \A x \in Range(first) : \E t \in scopes : t.id = x
  PROVE  Ordered(first)' /\ \A x \in Range(first) : \E t \in scopes' : t.id = x
<1>1. first' = first /\ scopes' = scopes \cup {s} /\ s.id \notin Range(first)
  BY DEF Adds, walk, Insertable
<1>2. \A t \in scopes : ParentsOf(t)' = ParentsOf(t)
  BY ParentsStay
<1>3. QED
  BY <1>1, <1>2 DEF Ordered

(* A row added beside the second expansion is none it lists.               *)
LEMMA FollowsAdds ==
  ASSUME TypeOK, TableInv, FollowsFirst, NEW s \in Scope, Adds(s)
  PROVE  FollowsFirst'
<1>1. /\ asked' = asked /\ todo' = todo /\ name' = name /\ stack' = stack /\ pc' = pc
      /\ seen' = seen /\ out' = out /\ first' = first
  BY DEF Adds, walk
<1>2. Passed' = Passed /\ Outermost' = Outermost /\ Idle' = Idle /\ Second' = Second
  BY <1>1 DEF Passed, Outermost, Idle, Second
<1>3. Second => Ordered(first)' /\ \A x \in Range(first') : \E t \in scopes' : t.id = x
  BY <1>1, FirstStays DEF FollowsFirst
<1>4. QED
  BY <1>1, <1>2, <1>3 DEF FollowsFirst

(* A list that is ordered stays so while the table does.                   *)
LEMMA OrderStays ==
  ASSUME UNCHANGED <<scopes, first>>, Ordered(first)
  PROVE  Ordered(first)'
BY DEF Ordered, ParentsOf, Find

(* So does the list the second expansion goes through.                     *)
LEMMA FirstListStays ==
  ASSUME FollowsFirst, Second, UNCHANGED <<scopes, asked, first>>
  PROVE  /\ asked' = first' /\ Ordered(first)'
         /\ \A x \in Range(first)' : \E s \in scopes' : s.id = x
<1>1. /\ asked = first /\ Ordered(first)
      /\ \A x \in Range(first) : \E s \in scopes : s.id = x
  BY DEF FollowsFirst
<1>2. Ordered(first)'
  BY <1>1, OrderStays
<1>3. Range(first)' = Range(first)
  BY DEF Range
<1>4. QED
  BY <1>1, <1>2, <1>3

(* The second expansion takes the next scope of the first list.            *)
LEMMA FollowsNextName ==
  ASSUME TypeOK, Cursor, FollowsFirst, NextName
  PROVE  FollowsFirst'
<1> SUFFICES ASSUME Second
             PROVE  FollowsFirst'
  BY DEF FollowsFirst, Second, NextName
<1>1. /\ UNCHANGED <<scopes, asked, seen, out, first, pc>>
      /\ stack' = <<>> /\ stack = <<>> /\ name = None
      /\ todo # <<>> /\ name' = Head(todo) /\ todo' = Tail(todo)
  BY DEF NextName, tables
<1>2. asked \in Seq(Names) /\ todo \in Seq(Names)
  BY DEF TypeOK
<1>3. /\ Len(todo') = Len(todo) - 1 /\ Len(todo) \in Nat /\ Len(asked) \in Nat
      /\ Head(todo) = todo[1] /\ 1 \in DOMAIN todo /\ Head(todo) \in Names
  BY <1>1, <1>2
<1>4. Passed' = Passed + 1 /\ Passed \in Nat /\ name' = first[Passed'] /\ name' # None
  BY <1>1, <1>3, NamesAssumption DEF Cursor, Passed, FollowsFirst
<1>5. Idle /\ ~Idle'
  BY <1>1, <1>4 DEF Idle
<1>6. /\ asked' = first' /\ Ordered(first)'
      /\ \A x \in Range(first)' : \E s \in scopes' : s.id = x
  BY <1>1, FirstListStays
<1>7. \A x \in seen : \E i \in 1 .. Passed' : first[i] = x
  BY <1>4 DEF FollowsFirst
<1>8. \A i \in 1 .. Passed' : i < Passed' => first[i] \in seen
  BY <1>4, <1>5 DEF FollowsFirst
<1>9. QED
  BY <1>1, <1>4, <1>5, <1>6, <1>7, <1>8 DEF FollowsFirst

(* The second expansion meets scopes it has listed, or the one it is at.   *)
LEMMA FollowsVisit ==
  ASSUME TypeOK, TableInv, StackInv, ListInv, Cursor, FollowsFirst, Visit
  PROVE  FollowsFirst'
<1> SUFFICES ASSUME Second
             PROVE  FollowsFirst'
  BY DEF FollowsFirst, Second, Visit
<1>1. UNCHANGED <<scopes, asked, todo, seen, out, first, pc>>
  BY DEF Visit, tables
<1>2. PICK s \in Find(name) : stack' = <<s>> \o stack /\ name' = s.parent
  BY DEF Visit
<1>3. /\ stack \in Seq(Scope) /\ s \in Scope /\ name # None /\ s \in scopes
      /\ first \in Seq(Ids)
  BY <1>2 DEF TypeOK, Find, Visit, Returns
<1>4. /\ Len(stack') = Len(stack) + 1 /\ stack'[1] = s /\ Len(stack) \in Nat
      /\ \A i \in 2 .. Len(stack) + 1 : stack'[i] = stack[i - 1]
      /\ stack' # <<>> /\ DOMAIN stack' = 1 .. Len(stack) + 1
      /\ DOMAIN stack = 1 .. Len(stack)
  BY <1>2, <1>3, Pushed
<1>5. Passed' = Passed /\ ~Idle' /\ ~Idle
  BY <1>1, <1>3, <1>4 DEF Passed, Idle
<1>6. /\ asked' = first' /\ Ordered(first)'
      /\ \A x \in Range(first)' : \E t \in scopes' : t.id = x
  BY <1>1, FirstListStays
<1>7. Passed \in DOMAIN first
  <2>1. Len(todo) \in Nat /\ Len(asked) \in Nat /\ Passed <= Len(asked)
    BY DEF Passed, TypeOK
  <2>2. asked = first /\ Passed > 0 /\ Passed \in Int
    BY <1>5, <2>1 DEF FollowsFirst, Passed
  <2>3. QED
    BY <1>3, <2>1, <2>2
<1>8. CASE stack = <<>>
  <2>1. Outermost' = s /\ Len(stack') = 1
    BY <1>3, <1>4, <1>8 DEF Outermost
  <2>2. name = first[Passed] /\ name \in Ids
    BY <1>3, <1>7, <1>8 DEF FollowsFirst
  <2>3. s.id = name
    <3>1. name \in Range(first)
      BY <1>7, <2>2 DEF Range
    <3>2. PICK t \in scopes : t.id = name
      BY <3>1 DEF FollowsFirst
    <3>3. t \in Find(name)
      BY <3>2 DEF Find, Called
    <3>4. QED
      BY <1>2, <3>2, <3>3, FindOne DEF TableInv
  <2>4. \A i \in DOMAIN stack' : ~(i < Len(stack'))
    <3>1. Len(stack) = 0 /\ DOMAIN stack' = 1 .. 1
      BY <1>4, <1>8
    <3>2. QED
      BY <2>1, <3>1
  <2>5. QED
    BY <1>1, <1>4, <1>5, <1>6, <2>1, <2>2, <2>3, <2>4 DEF FollowsFirst
<1>9. CASE stack # <<>>
  <2>1. Outermost' = Outermost /\ Outermost.id = first[Passed]
    BY <1>3, <1>4, <1>9 DEF Outermost, FollowsFirst
  <2>2. 1 \in DOMAIN stack /\ stack[1] \in scopes /\ s \in ParentsOf(stack[1])
    <3>1. 1 \in DOMAIN stack
      BY <1>3, <1>9
    <3>2. stack[1] \in scopes /\ name = stack[1].parent
      BY <1>9, <3>1 DEF StackInv, Chained
    <3>3. QED
      BY <1>2, <1>3, <3>1, <3>2 DEF ParentsOf
  <2>3. s.id \in seen
    <3>1. CASE Len(stack) = 1
      <4>1. stack[1].id = first[Passed] /\ first[Passed] \in Range(first)
        BY <1>7, <2>1, <3>1 DEF Outermost, Range
      <4>2. s.id \in Range(first) /\ Place(first, s.id) < Place(first, stack[1].id)
        BY <2>2, <4>1 DEF FollowsFirst, Ordered
      <4>3. /\ Place(first, s.id) \in DOMAIN first /\ first[Place(first, s.id)] = s.id
            /\ Place(first, stack[1].id) \in DOMAIN first
            /\ Place(first, stack[1].id) <= Passed
        BY <1>3, <1>7, <4>1, <4>2, FirstPlace
      <4>4. Place(first, s.id) \in 1 .. Passed /\ Place(first, s.id) < Passed
        BY <1>3, <1>7, <4>2, <4>3
      <4>5. QED
        BY <4>3, <4>4 DEF FollowsFirst
    <3>2. CASE Len(stack) > 1
      <4>1. stack[1] \in Listed
        BY <2>2, <3>2 DEF FollowsFirst, Listed
      <4>2. QED
        BY <2>2, <4>1 DEF ListInv, Closed, Listed
    <3>3. QED
      BY <1>4, <2>2, <3>1, <3>2
  <2>4. ASSUME NEW i \in DOMAIN stack', i < Len(stack')
        PROVE  stack'[i].id \in seen
    <3>1. CASE i = 1
      BY <1>4, <2>3, <3>1
    <3>2. CASE i # 1
      <4>1. i - 1 \in DOMAIN stack /\ i - 1 < Len(stack) /\ stack'[i] = stack[i - 1]
        BY <1>4, <2>4, <3>2
      <4>2. QED
        BY <4>1 DEF FollowsFirst
    <3>3. QED
      BY <3>1, <3>2
  <2>5. QED
    BY <1>1, <1>4, <1>5, <1>6, <2>1, <2>4 DEF FollowsFirst
<1>10. QED
  BY <1>8, <1>9

(* The second expansion adds the scope it is at, after all it has listed.  *)
LEMMA FollowsReturn ==
  ASSUME TypeOK, TableInv, StackInv, ListInv, Cursor, FollowsFirst, Return
  PROVE  FollowsFirst'
<1> SUFFICES ASSUME Second
             PROVE  FollowsFirst'
  BY DEF FollowsFirst, Second, Return
<1>1. /\ UNCHANGED <<scopes, asked, todo, first, pc>> /\ stack' = <<>> /\ name' = None
      /\ out' = out \o Visited /\ seen' = seen \cup Range(Visited)
      /\ Range(Visited) = {stack[i].id : i \in DOMAIN stack}
      /\ DOMAIN stack = 1 .. Len(stack) /\ Len(stack) \in Nat
      /\ \A i, j \in DOMAIN stack : stack[i].id = stack[j].id => i = j
  BY Returned
<1>2. /\ out \in Seq(Ids) /\ Visited \in Seq(Ids) /\ Len(Visited) = Len(stack)
      /\ first \in Seq(Ids) /\ seen = Range(out)
  BY VisitedType DEF TypeOK, ListInv, SeenListed
<1>3. Passed' = Passed /\ ~Idle /\ Idle'
  BY <1>1 DEF Passed, Idle, Return
<1>4. Passed \in DOMAIN first
  <2>1. Len(todo) \in Nat /\ Len(asked) \in Nat /\ Passed <= Len(asked)
    BY DEF Passed, TypeOK
  <2>2. asked = first /\ Passed > 0 /\ Passed \in Int
    BY <1>3, <2>1 DEF FollowsFirst, Passed
  <2>3. QED
    BY <1>2, <2>1, <2>2
<1>5. PICK f : f = first[Passed]
  OBVIOUS
<1>6. seen' = seen \cup {f}
  <2>1. CASE stack = <<>>
    <3>1. DOMAIN stack = {} /\ seen' = seen
      BY <1>1, <2>1
    <3>2. name \in seen /\ name = f
      BY <1>3, <1>5, <2>1 DEF Return, Returns, Idle, FollowsFirst
    <3>3. QED
      BY <3>1, <3>2
  <2>2. CASE stack # <<>>
    <3>1. Len(stack) \in DOMAIN stack /\ stack[Len(stack)].id = f
      BY <1>1, <1>5, <2>2 DEF FollowsFirst, Outermost, TypeOK
    <3>2. \A i \in DOMAIN stack : i # Len(stack) => stack[i].id \in seen
      BY <1>1 DEF FollowsFirst
    <3>3. QED
      BY <1>1, <3>1, <3>2
  <2>3. QED
    BY <2>1, <2>2
<1>7. \A x \in seen : Place(out', x) = Place(out, x) /\ Place(out, x) \in DOMAIN out
  BY <1>1, <1>2, PlacesKept, FirstPlace
<1>8. \A x \in seen \cup {f} : \E i \in 1 .. Passed : first[i] = x
  BY <1>2, <1>4, <1>5 DEF FollowsFirst
<1>9. \A i \in 1 .. Passed : first[i] \in seen \cup {f}
  <2>1. \A i \in 1 .. Passed : i < Passed \/ i = Passed
    BY <1>2, <1>4
  <2>2. QED
    BY <1>5, <2>1 DEF FollowsFirst
<1>10. ASSUME f \notin seen, NEW x \in seen
      PROVE  Place(out', x) < Place(out', f) /\ Place(first, x) < Place(first, f)
  <2>1. stack # <<>>
    BY <1>3, <1>10, <1>5 DEF Return, Returns, Idle, FollowsFirst
  <2>2. Len(stack) \in DOMAIN stack /\ stack[Len(stack)].id = f
    BY <1>1, <1>5, <2>1 DEF FollowsFirst, Outermost, TypeOK
  <2>3. Place(Visited, f) = Len(stack) /\ f \in Range(Visited)
    BY <1>1, <2>2, PlaceOnStack
  <2>4. Place(out', f) = Len(out) + Len(stack)
    <3>1. f \in Range(Visited) /\ f \notin Range(out)
      BY <1>2, <1>10, <2>3
    <3>2. Place(out \o Visited, f) = Len(out) + Place(Visited, f)
      BY <1>2, <3>1, PlacesAdded
    <3>3. QED
      BY <1>1, <2>3, <3>2
  <2>5. Place(out', x) < Place(out', f)
    BY <1>1, <1>2, <1>7, <2>2, <2>4
  <2>6. PICK i \in 1 .. Passed : first[i] = x
    BY <1>8
  <2>7. i # Passed
    BY <1>10, <1>5, <2>6
  <2>8. /\ i \in DOMAIN first /\ x \in Range(first) /\ f \in Range(first)
    BY <1>2, <1>4, <1>5, <2>6 DEF Range
  <2>9. /\ Place(first, x) <= i /\ Place(first, x) \in DOMAIN first
        /\ Place(first, f) \in DOMAIN first /\ first[Place(first, f)] = f
    BY <1>2, <2>6, <2>8, FirstPlace
  <2>10. ASSUME Place(first, f) < Passed
         PROVE  FALSE
    <3>1. Place(first, f) \in 1 .. Passed
      BY <1>2, <1>4, <2>9, <2>10
    <3>2. first[Place(first, f)] \in seen
      BY <2>10, <3>1 DEF FollowsFirst
    <3>3. QED
      BY <1>10, <2>9, <3>2
  <2>11. QED
    BY <1>2, <1>4, <2>5, <2>6, <2>7, <2>9, <2>10
<1>11. ASSUME NEW x \in seen \cup {f}, NEW y \in seen \cup {f}
       PROVE  (Place(out', x) < Place(out', y)) <=> (Place(first, x) < Place(first, y))
  <2>1. CASE x \in seen /\ y \in seen
    BY <1>7, <2>1 DEF FollowsFirst
  <2> DEFINE Whole(z) == Place(out', z) \in Nat /\ Place(first, z) \in Nat
  <2>2. Whole(x) /\ Whole(y)
    <3>1. out' \in Seq(Ids) /\ Range(out') = Range(out) \cup Range(Visited)
      BY <1>1, <1>2, Joined
    <3>2. x \in Range(out') /\ y \in Range(out')
      BY <1>1, <1>2, <1>6, <3>1
    <3>3. x \in Range(first) /\ y \in Range(first)
      BY <1>2, <1>4, <1>8, <1>11 DEF Range
    <3>4. /\ Place(out', x) \in DOMAIN out' /\ Place(out', y) \in DOMAIN out'
          /\ Place(first, x) \in DOMAIN first /\ Place(first, y) \in DOMAIN first
      BY <1>2, <3>1, <3>2, <3>3, FirstPlace
    <3>5. DOMAIN out' \subseteq Nat /\ DOMAIN first \subseteq Nat
      BY <1>2, <3>1
    <3>6. QED
      BY <3>4, <3>5
  <2>3. CASE x = y
    BY <2>2, <2>3
  <2>4. CASE x = f /\ f \notin seen /\ y \in seen
    BY <1>10, <2>2, <2>4
  <2>5. CASE y = f /\ f \notin seen /\ x \in seen
    BY <1>10, <2>2, <2>5
  <2>6. QED
    BY <2>1, <2>3, <2>4, <2>5
<1>12. /\ asked' = first' /\ Ordered(first)'
       /\ \A x \in Range(first)' : \E t \in scopes' : t.id = x
  BY <1>1, FirstListStays
<1>13. \A i \in DOMAIN stack' : FALSE
  BY <1>1
<1>14. QED
  BY <1>1, <1>3, <1>6, <1>8, <1>9, <1>11, <1>12, <1>13 DEF FollowsFirst

(* The second expansion begins with the list of the first.                 *)
LEMMA FollowsAgain ==
  ASSUME TypeOK, ListInv, ExpandAgain
  PROVE  FollowsFirst'
<1>1. /\ scopes' = scopes /\ asked' = out /\ todo' = out /\ name' = None /\ stack' = <<>>
      /\ seen' = {} /\ out' = <<>> /\ first' = out
  BY DEF ExpandAgain, Begin, tables
<1>2. Len(out) \in Nat
  BY DEF TypeOK
<1>3. Passed' = 0 /\ Idle'
  BY <1>1, <1>2 DEF Passed, Idle
<1>4. Ordered(first)'
  BY <1>1 DEF ListInv, Ordered, ParentsOf, Find
<1>5. \A x \in Range(first)' : \E s \in scopes' : s.id = x
  BY <1>1 DEF ListInv, SeenListed, Range
<1>6. \A i \in 1 .. Passed' : FALSE
  BY <1>3
<1>7. QED
  BY <1>1, <1>3, <1>4, <1>5, <1>6 DEF FollowsFirst

LEMMA FollowsStep ==
  ASSUME TypeOK, TableInv, StackInv, ListInv, Cursor, FollowsFirst, [Next]_vars, Founded'
  PROVE  FollowsFirst'
<1>1. CASE Create \/ ImportScope
  BY <1>1, Writers, FollowsAdds
<1>2. CASE NotFound
  BY <1>2 DEF NotFound, FollowsFirst, Second
<1>3. CASE NextName \/ Visit \/ Return \/ ExpandAgain
  BY <1>3, FollowsNextName, FollowsVisit, FollowsReturn, FollowsAgain
<1>4. CASE Answer \/ UNCHANGED vars
  <2>1. /\ UNCHANGED <<scopes, asked, todo, name, stack, seen, out, first>>
        /\ Second' => Second
    BY <1>4 DEF Answer, vars, tables, walk, Second
  <2>2. Second => Ordered(first)'
    BY <2>1, OrderStays DEF FollowsFirst
  <2>3. Passed' = Passed /\ Idle' = Idle /\ Outermost' = Outermost
    BY <2>1 DEF Passed, Idle, Outermost
  <2>4. QED
    BY <2>1, <2>2, <2>3 DEF FollowsFirst, Range
<1>5. QED
  BY <1>1, <1>2, <1>3, <1>4 DEF Next, Walk

-----------------------------------------------------------------------------
(* Theorems                                                                *)

LEMMA TreeStep == TreeInv /\ [Next]_vars => TreeInv'
<1> SUFFICES ASSUME TreeInv, [Next]_vars
             PROVE  TreeInv'
  OBVIOUS
<1>1. TypeOK' /\ IsFiniteSet(scopes)'
  BY TypeStep, FiniteStep DEF TreeInv
<1>2. ASSUME Founded'
      PROVE  WalkInv'
  <2>1. TypeOK /\ TableInv /\ StackInv /\ ListInv /\ Cursor /\ FollowsFirst /\ Done
    BY <1>2, FoundedBefore DEF TreeInv, WalkInv
  <2>2. TableInv' /\ StackInv' /\ ListInv' /\ FollowsFirst'
    BY <1>2, <2>1, TableStep, StackStep, ListStep, FollowsStep
  <2>3. Cursor' /\ Done'
    BY <2>1, CursorStep, DoneStep
  <2>4. QED
    BY <2>2, <2>3 DEF WalkInv
<1>3. QED
  BY <1>1, <1>2 DEF TreeInv

LEMMA TreeCorrect == Spec => []TreeInv
<1>1. Init => IsFiniteSet(scopes)
  BY FS_EmptySet DEF Init
<1>2. Init => TreeInv
  BY <1>1, TypeInit, StackInit, ListInit DEF TreeInv, WalkInv
<1>3. QED
  BY <1>2, TreeStep, PTL DEF Spec

(* The table, the calls and the lists keep their types, in every table:    *)
(* what a list or a mark holds are ids, what is under visit are rows.      *)
THEOREM TreeTypeCorrect == Spec => []TypeOK
<1>1. TreeInv => TypeOK
  BY DEF TreeInv
<1>2. QED
  BY <1>1, TreeCorrect, PTL

(* Each scope under visit is further from a root than the one it was       *)
(* visited for.                                                            *)
LEMMA StackDistinct ==
  ASSUME TreeInv, Founded
  PROVE  \A i, j \in DOMAIN stack : stack[i] = stack[j] => i = j
<1> SUFFICES ASSUME NEW i \in DOMAIN stack, NEW j \in DOMAIN stack, stack[i] = stack[j]
             PROVE  i = j
  OBVIOUS
<1>1. PICK r \in [scopes -> Nat] : Ranks(r)
  BY DEF TreeInv, WalkInv, StackInv, Ranked
<1>2. stack[i] \in scopes /\ stack[j] \in scopes
  BY DEF TreeInv, WalkInv, StackInv, Chained
<1>3. ~(r[stack[i]] < r[stack[j]]) /\ ~(r[stack[j]] < r[stack[i]])
  BY <1>2
<1>4. ~(i < j) /\ ~(j < i)
  BY <1>1, <1>3 DEF Ranks
<1>5. i \in Nat /\ j \in Nat
  BY DEF TreeInv, TypeOK
<1>6. QED
  BY <1>4, <1>5

(* While no name calls two scopes and every scope is put after its parent, *)
(* visit is never called for a scope it is still visiting the parents of,  *)
(* whatever is created and imported meanwhile and however the scopes are   *)
(* called.  Nothing is said of the tables in which CreateScope or Import   *)
(* has closed a circle.                                                    *)
THEOREM WalkNeverReenters == Spec => []NoReentry
<1>1. TreeInv => NoReentry
  BY StackDistinct DEF NoReentry
<1>2. QED
  BY <1>1, TreeCorrect, PTL

(* The calls of visit that are open are never more than the rows.          *)
NoDeeperThanTable == Founded => Len(stack) <= Cardinality(scopes)

(* Under the same condition the calls of visit that are open are never     *)
(* more than the rows of the table: the recursion of ScopeAncestors, which *)
(* has no limit of its own, has that one.                                  *)
THEOREM WalkNoDeeperThanTable == Spec => []NoDeeperThanTable
<1>1. ASSUME TreeInv, Founded
      PROVE  Len(stack) <= Cardinality(scopes)
  <2>1. stack \in Seq(Scope) /\ DOMAIN stack = 1 .. Len(stack) /\ Len(stack) \in Nat
    BY <1>1 DEF TreeInv, TypeOK
  <2>2. \A i \in DOMAIN stack : stack[i] \in scopes
    BY <1>1 DEF TreeInv, WalkInv, StackInv, Chained
  <2>3. stack \in [1 .. Len(stack) -> scopes]
    BY <2>1, <2>2
  <2>4. stack \in Injection(1 .. Len(stack), scopes)
    BY <1>1, <2>1, <2>3, StackDistinct DEF Injection, IsInjective
  <2>5. Cardinality(1 .. Len(stack)) <= Cardinality(scopes)
    BY <1>1, <2>4, FS_Injection DEF TreeInv
  <2>6. Cardinality(1 .. Len(stack)) = Len(stack)
    BY <2>1, FS_Interval
  <2>7. QED
    BY <2>5, <2>6
<1>2. TreeInv => NoDeeperThanTable
  BY <1>1 DEF NoDeeperThanTable
<1>3. QED
  BY <1>2, TreeCorrect, PTL

(* While the table is founded, an expansion that ends lists the scopes     *)
(* asked for and their ancestors and no other, each after its parent,      *)
(* although clients create scopes between its queries and it may list a    *)
(* scope twice.                                                            *)
THEOREM ExpansionListsAncestorsFirst == Spec => []AncestorsFirst
<1>1. ASSUME TreeInv, Founded, Expanded
      PROVE  Expands(out, asked)
  <2>1. /\ {s \in scopes : s.id \in Range(out)} = Listed
        /\ Closed /\ Exact /\ Ordered(out) /\ Complete /\ Unambiguous /\ TypeOK
    BY <1>1 DEF TreeInv, WalkInv, TableInv, ListInv, SeenListed, Listed
  <2>2. ASSUME NEW n \in Range(asked)
        PROVE  Find(n) \subseteq Listed
    <3>1. n \in Names /\ Range(todo) = {}
      BY <1>1, <2>1, <2>2 DEF Range, TypeOK, Expanded
    <3>2. Find(n) \cap Listed # {}
      BY <1>1, <2>1, <2>2, <3>1, NamesAssumption DEF Complete, Expanded
    <3>3. QED
      BY <2>1, <3>2, FindOne
  <2>3. UNION {Find(n) : n \in Range(asked)} \subseteq Listed
    BY <2>2
  <2>4. \A s \in Listed : ParentsOf(s) \subseteq Listed
    BY <2>1 DEF Closed
  <2>5. \A s \in Listed \ UNION {Find(n) : n \in Range(asked)} :
          \E t \in Listed : s \in ParentsOf(t)
    BY <2>1 DEF Exact, Named
  <2>6. \A s \in Listed : \A p \in ParentsOf(s) : Place(out, p.id) < Place(out, s.id)
    BY <2>1 DEF Ordered, Listed
  <2>7. QED
    BY <2>1, <2>3, <2>4, <2>5, <2>6 DEF Expands
<1>2. TreeInv => AncestorsFirst
  BY <1>1 DEF AncestorsFirst
<1>3. QED
  BY <1>2, TreeCorrect, PTL

(* While the table is founded, expanding the result of an expansion gives  *)
(* the same scopes in the same order of their first places: the artifacts  *)
(* and the memories of a context are ranked alike.                         *)
THEOREM SecondExpansionAgrees == Spec => []ExpansionStable
<1>1. ASSUME TreeInv, Founded, pc = "done"
      PROVE  /\ Range(out) = Range(first)
             /\ \A x, y \in Range(out) :
                  (Place(out, x) < Place(out, y)) <=> (Place(first, x) < Place(first, y))
  <2>1. /\ FollowsFirst /\ Second /\ Idle /\ todo = <<>> /\ seen = Range(out)
        /\ first \in Seq(Ids)
    BY <1>1 DEF TreeInv, WalkInv, Done, Expanded, Idle, Second, ListInv, SeenListed, TypeOK
  <2>2. asked = first /\ Passed = Len(first) /\ DOMAIN first = 1 .. Passed
    BY <2>1 DEF FollowsFirst, Passed
  <2>3. Range(first) \subseteq seen
    BY <2>1, <2>2 DEF FollowsFirst, Range
  <2>4. seen \subseteq Range(first)
    BY <2>1, <2>2 DEF FollowsFirst, Range
  <2>5. QED
    BY <2>1, <2>3, <2>4 DEF FollowsFirst
<1>2. TreeInv => ExpansionStable
  BY <1>1 DEF ExpansionStable
<1>3. QED
  BY <1>2, TreeCorrect, PTL
=============================================================================
