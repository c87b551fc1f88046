---------------------------- MODULE VersionedLog ----------------------------
(***************************************************************************)
(* What the write API of the knowledge server promises its callers: every  *)
(* object is an append-only sequence of immutable versions, and an         *)
(* idempotency key appends at most once, whatever the number of calls that *)
(* carry it.  `effect` remembers which version a key produced.             *)
(***************************************************************************)
EXTENDS Naturals, Sequences

CONSTANTS Objects,  \* identifiers of entities, artifacts, memories, ...
          Keys,     \* idempotency keys
          Contents  \* contents a version may have

VARIABLES log,      \* log[o] : the versions of o, oldest first
          effect    \* set of [key, obj, version]

logVars == <<log, effect>>

LogTypeOK ==
  /\ log \in [Objects -> Seq(Contents)]
  /\ effect \subseteq [key : Keys, obj : Objects, version : Nat]

LogInit ==
  /\ log = [o \in Objects |-> << >>]
  /\ effect = {}

(* A key that has produced no version yet produces the next one of o.      *)
AppendVersion(k, o, c) ==
  /\ \A e \in effect : e.key # k
  /\ log' = [log EXCEPT ![o] = Append(@, c)]
  /\ effect' = effect \cup {[key |-> k, obj |-> o, version |-> Len(log[o]) + 1]}

LogNext == \E k \in Keys, o \in Objects, c \in Contents : AppendVersion(k, o, c)

LogSpec == LogInit /\ [][LogNext]_logVars
=============================================================================
