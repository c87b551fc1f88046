------------------------------ MODULE ScopeTree ------------------------------
(***************************************************************************)
(* The tree of scopes and its expansion.  CreateScope adds a scope below   *)
(* an existing one; ScopeAncestors walks from the scopes a request names   *)
(* to the roots with one query per scope, while clients go on creating     *)
(* scopes and a snapshot is being imported.  Service.Context expands the   *)
(* scopes of its request and RetrieveMemories expands the result again:    *)
(* the position of a scope in what the second walk returns is what         *)
(* scopeScore ranks a memory by.                                           *)
(*                                                                         *)
(* Data.  A scope is called by its id or by its canonical key, in a        *)
(* request and in parent_id alike, and a client may give it an id that is  *)
(* another one's key.  The calls of a depth-first walk are the frames of   *)
(* `stack`.                                                                *)
(***************************************************************************)
EXTENDS Naturals, FiniteSets, Sequences, SequencesExt, Functions

CONSTANTS
  Ids,       \* the ids of scopes
  Keys,      \* their canonical keys, some of which may be ids too
  None,      \* no parent
  Snapshot,  \* the scopes of an imported snapshot
  MaxAsked,  \* bound: scopes in a request
  MaxDepth   \* bound: open calls of visit

(* GetScope looks for one string in both columns.                          *)
Names == Ids \cup Keys
Called(s) == {s.id, s.key}
Scope == [id : Ids, key : Keys, parent : Names \cup {None}]

ASSUME NamesAssumption == None \notin Names
ASSUME BoundAssumption == MaxAsked \in Nat /\ MaxDepth \in Nat
ASSUME SnapshotAssumption == Snapshot \subseteq Scope

Expanding == {"Context", "RetrieveMemories"}
Pcs == Expanding \cup {"done", "failed"}

VARIABLES
  scopes,   \* the rows of the table
  orphans,  \* history: the rows that were put before their parent
  pc,       \* who has called ScopeAncestors
  asked,    \* its argument
  todo,     \* the rest of its loop
  name,     \* the argument of visit, None once it has returned
  stack,    \* the rows whose parents are being visited, innermost first
  seen, out,
  first     \* what the first expansion has returned

tables == <<scopes, orphans>>
walk == <<asked, todo, name, stack, seen, out, first>>
vars == <<tables, pc, walk>>

-----------------------------------------------------------------------------
(* The table                                                               *)

Find(n) == {s \in scopes : n \in Called(s)}
ParentsOf(s) == IF s.parent = None THEN {} ELSE Find(s.parent)

(* PRIMARY KEY(id), UNIQUE(workspace_id,canonical_key).                    *)
Insertable(s) == \A t \in scopes : t.id # s.id /\ t.key # s.key

(* The parent is taken as it comes.                                        *)
AnyParent(p) == TRUE
ParentExists(p) == p = None \/ Find(p) # {}

(* The check of the parent and the insert are two statements; scopes are   *)
(* never removed, so nothing can come between them.                        *)
CreateScope(s) ==
  /\ ParentExists(s.parent) /\ Insertable(s)
  /\ scopes' = scopes \cup {s}
  /\ UNCHANGED <<orphans, pc, walk>>

(* Import puts the scopes without looking for their parents, by the text   *)
(* of occurred_at, which need not be the order they were written in        *)
(* (SnapshotOrder): any order, up to one it cannot insert.                 *)
ImportScope == \E s \in Snapshot :
  /\ Insertable(s)
  /\ scopes' = scopes \cup {s}
  /\ orphans' = orphans \cup (IF s.parent # None /\ ParentsOf(s) = {} THEN {s} ELSE {})
  /\ UNCHANGED <<pc, walk>>

-----------------------------------------------------------------------------
(* The walk                                                                *)

Begin(names) ==
  /\ asked' = names /\ todo' = names
  /\ name' = None /\ stack' = <<>> /\ seen' = {} /\ out' = <<>>

(* if id == "" || seen[id]                                                 *)
Returns == name = None \/ name \in seen

NextName ==
  /\ pc \in Expanding /\ name = None /\ stack = <<>> /\ todo # <<>>
  /\ name' = Head(todo) /\ todo' = Tail(todo)
  /\ UNCHANGED <<tables, pc, asked, stack, seen, out, first>>

(* visit asks for the scope and goes on to its parent, without a limit in  *)
(* the code.                                                               *)
Visit ==
  /\ pc \in Expanding /\ ~Returns /\ Len(stack) < MaxDepth
  /\ \E s \in Find(name) : stack' = <<s>> \o stack /\ name' = s.parent
  /\ UNCHANGED <<tables, pc, asked, todo, seen, out, first>>

(* "scope not found" ends the walk and the request.                        *)
NotFound ==
  /\ pc \in Expanding /\ ~Returns /\ Find(name) = {}
  /\ pc' = "failed"
  /\ UNCHANGED <<tables, walk>>

Visited == [i \in DOMAIN stack |-> stack[i].id]

(* The row is added before its parent is visited.                          *)
BeforeParent == out \o Reverse(Visited)
(* The ancestors go to the front of the list.                              *)
InFront == Visited \o out
(* After its parent.                                                       *)
AfterParent == out \o Visited

(* The calls return one after the other, without a query in between.       *)
Return ==
  /\ pc \in Expanding /\ Returns /\ ~(name = None /\ stack = <<>>)
  /\ seen' = seen \cup Range(Visited)
  /\ out' = AfterParent
  /\ name' = None /\ stack' = <<>>
  /\ UNCHANGED <<tables, pc, asked, todo, first>>

Expanded == name = None /\ stack = <<>> /\ todo = <<>>

(* r.ScopeIDs = expanded                                                   *)
ExpandAgain ==
  /\ pc = "Context" /\ Expanded
  /\ pc' = "RetrieveMemories" /\ first' = out
  /\ Begin(out)
  /\ UNCHANGED tables

Answer ==
  /\ pc = "RetrieveMemories" /\ Expanded
  /\ pc' = "done"
  /\ UNCHANGED <<tables, walk>>

-----------------------------------------------------------------------------
Init ==
  /\ scopes = {} /\ orphans = {}
  /\ pc = "Context"
  /\ asked \in SeqOf(Names, MaxAsked) /\ todo = asked
  /\ name = None /\ stack = <<>> /\ seen = {} /\ out = <<>>
  /\ first = <<>>

Create == \E s \in Scope : CreateScope(s)
Walk == NextName \/ Visit \/ NotFound \/ Return \/ ExpandAgain \/ Answer
Next == Create \/ ImportScope \/ Walk

Spec == Init /\ [][Next]_vars

-----------------------------------------------------------------------------
(* Properties                                                              *)

TypeOK ==
  /\ scopes \subseteq Scope /\ orphans \subseteq scopes
  /\ pc \in Pcs
  /\ asked \in Seq(Names) /\ todo \in Seq(Names)
  /\ name \in Names \cup {None} /\ stack \in Seq(Scope)
  /\ seen \subseteq Ids /\ out \in Seq(Ids) /\ first \in Seq(Ids)

(* Where a list has a scope first: scopeScore stops there.                 *)
Place(list, id) == CHOOSE i \in DOMAIN list :
  list[i] = id /\ \A j \in 1 .. i - 1 : list[j] # id

(* The list has the scopes asked for and their ancestors, and no other,    *)
(* each after its parent.                                                  *)
Expands(list, names) ==
  LET listed == {s \in scopes : s.id \in Range(list)}
      named == UNION {Find(n) : n \in Range(names)}
  IN /\ named \subseteq listed
     /\ \A s \in listed : ParentsOf(s) \subseteq listed
     /\ \A s \in listed \ named : \E t \in listed : s \in ParentsOf(t)
     /\ \A s \in listed : \A p \in ParentsOf(s) :
          Place(list, p.id) < Place(list, s.id)

(* What CreateScope and Import do not check: that no string calls two      *)
(* scopes, and that every scope is put after its parent.                   *)
Unambiguous == \A s, t \in scopes : Called(s) \cap Called(t) # {} => s = t
Founded == Unambiguous /\ orphans = {}

(* While the table is founded, a finished expansion is complete and exact  *)
(* and goes from the general to the specific, whether scopes are called by *)
(* id or by key and whatever was created meanwhile: scopeScore gives a     *)
(* scope more than its ancestors (ScopeAncestors, scopeScore).             *)
AncestorsFirst ==
  Founded /\ pc \in Expanding \cup {"done"} /\ Expanded => Expands(out, asked)

(* The second expansion of a request ranks the scopes as the first listed  *)
(* them, though either may list a scope twice: the artifacts of a context  *)
(* and its memories are chosen by the same order (Context calling          *)
(* RetrieveMemories).  An ambiguous name may lead the two apart.           *)
ExpansionStable ==
  Founded /\ pc = "done" =>
    /\ Range(out) = Range(first)
    /\ \A x, y \in Range(out) :
         (Place(out, x) < Place(out, y)) <=> (Place(first, x) < Place(first, y))

(* While the table is founded, a walk never meets a scope it is still      *)
(* visiting the ancestors of, so that its recursion ends, although         *)
(* parent_id is stored as given and the walk marks ids while it is asked   *)
(* by name.  In a table that is not, it need not end: neither an imported  *)
(* child put before its parent nor an id that is another scope's key is    *)
(* refused, and either lets a client close a circle (CreateScope, Import,  *)
(* ScopeAncestors).                                                        *)
NoReentry == Founded => \A i, j \in DOMAIN stack : stack[i] = stack[j] => i = j
=============================================================================
