------------------------------- MODULE Gateway -------------------------------
(***************************************************************************)
(* What every request passes on its way in, and how a list is read page by *)
(* page behind it: Server.authWith checks the token and counts the request *)
(* in the fixed window of its Authorization header; a list handler reads   *)
(* the whole list anew and cuts the page at the offset that its cursor is, *)
(* while writers move items to the front and take others out.              *)
(*                                                                         *)
(* Data.  Time is a number of ticks.  One header with a valid token, one   *)
(* server process: another one counts for itself.  A list is newest first  *)
(* (ListEntities, search); no two items have the same updated_at.          *)
(***************************************************************************)
EXTENDS Naturals, Sequences, SequencesExt, FiniteSetsExt, Functions

CONSTANTS
  Minute,      \* the length of a window
  Limit,       \* requests counted in it
  Items,
  Sizes,       \* the values of limit in page requests, 0 for none
  DefaultSize, MaxSize,
  None,        \* no next_cursor
  MaxTime,     \* bound: the clock
  MaxRefused,  \* bound: requests refused in one window
  MaxWrites    \* bound: writes during the walk

ASSUME GatewayAssumption ==
  /\ {Minute, Limit, DefaultSize} \subseteq Nat \ {0}
  /\ None \notin Nat
  /\ MaxSize \in Nat /\ DefaultSize <= MaxSize /\ Sizes \subseteq Nat
  /\ {MaxTime, MaxRefused, MaxWrites} \subseteq Nat
  /\ IsFiniteSet(Items)

VARIABLES
  now,
  window,    \* rateWindow: [started, count]
  accepted,  \* history: the times of the requests let through
  refusedAt, \* history: the time of the last 429, MaxTime + 1 before
  list,      \* what the handler's query returns: newest first
  writes,
  removed,   \* history: the items taken out of the list
  touched,   \* history: those written since the walk began
  cursor,    \* the offset, or None once the walk has ended
  served     \* history: the items of the pages so far

rate == <<now, window, accepted, refusedAt>>
items == <<list, writes, removed, touched>>
walk == <<cursor, served>>
vars == <<rate, items, walk>>

-----------------------------------------------------------------------------
(* The rate limit                                                          *)

Elapsed == now - window.started >= Minute
(* Renewed with every request: it does not end while requests come.        *)
Renewed ==
  [started |-> now,
   count |-> IF window.count = 0 \/ Elapsed THEN 1 ELSE window.count + 1]
Window ==
  IF window.count = 0 \/ Elapsed THEN [started |-> now, count |-> 1]
  ELSE [window EXCEPT !.count = @ + 1]

(* The count is compared before the request is counted.                    *)
OneMore(n) == n <= Limit + 1
Within(n) == n <= Limit

Allow ==
  /\ window' = Window /\ Within(window'.count)
  /\ accepted' = Append(accepted, now)
  /\ UNCHANGED <<now, refusedAt>>

(* A request with a wrong token is refused before it is counted.           *)
Refuse ==
  /\ window' = Window /\ ~Within(window'.count)
  /\ window'.count <= Limit + MaxRefused
  /\ refusedAt' = now
  /\ UNCHANGED <<now, accepted, items, walk>>

Tick ==
  /\ now < MaxTime /\ now' = now + 1
  /\ UNCHANGED <<window, accepted, refusedAt, items, walk>>

(* Any request but the next page.                                          *)
Other == Allow /\ UNCHANGED <<items, walk>>

-----------------------------------------------------------------------------
(* The pages                                                               *)

PageSize(n) == IF n = 0 THEN DefaultSize ELSE IF n > MaxSize THEN MaxSize ELSE n

(* The first item of the next page starts a new one.                       *)
PastTheNext(end) == end + 1
NextCursor(end) == end

Least(m, n) == IF m < n THEN m ELSE n

Page ==
  /\ cursor # None /\ Allow
  /\ \E size \in Sizes :
       LET offset == Least(cursor, Len(list))
           end == Least(offset + PageSize(size), Len(list))
       IN /\ served' = served \o SubSeq(list, offset + 1, end)
          /\ cursor' = IF end < Len(list) THEN NextCursor(end) ELSE None
  /\ UNCHANGED items

(* A new version of an item, or a new item: it goes to the front.          *)
Write(i) ==
  /\ writes < MaxWrites /\ writes' = writes + 1
  /\ list' = <<i>> \o RemoveFirst(list, i)
  /\ touched' = touched \cup {i}
  /\ UNCHANGED <<rate, removed, walk>>

(* A write takes the item out of what the request selects.                 *)
TakeOut(i) ==
  /\ writes < MaxWrites /\ writes' = writes + 1
  /\ i \in Range(list)
  /\ list' = RemoveFirst(list, i)
  /\ removed' = removed \cup {i} /\ touched' = touched \cup {i}
  /\ UNCHANGED <<rate, walk>>

-----------------------------------------------------------------------------
Init ==
  /\ now = 0 /\ window = [started |-> 0, count |-> 0]
  /\ accepted = <<>> /\ refusedAt = MaxTime + 1
  /\ \E present \in SUBSET Items : list \in SetToSeqs(present)
  /\ writes = 0 /\ removed = {} /\ touched = {}
  /\ cursor = 0 /\ served = <<>>

Request == Other \/ Page \/ Refuse
Writer == \E i \in Items : Write(i) \/ TakeOut(i)
Next == Request \/ Tick \/ (cursor # None /\ Writer)

Spec == Init /\ [][Next]_vars

-----------------------------------------------------------------------------
(* Properties                                                              *)

TypeOK ==
  /\ now \in 0 .. MaxTime
  /\ window \in [started : 0 .. MaxTime, count : 0 .. Limit + MaxRefused]
  /\ accepted \in Seq(0 .. MaxTime) /\ refusedAt \in 0 .. MaxTime + 1
  /\ list \in Seq(Items) /\ served \in Seq(Items)
  /\ writes \in 0 .. MaxWrites /\ removed \subseteq Items /\ touched \subseteq Items
  /\ cursor \in Nat \cup {None}

(* The requests let through from one time to another.                      *)
Through(from, to) == Cardinality({n \in DOMAIN accepted : accepted[n] \in from .. to})

(* Whatever the moment a minute is counted from, no more than twice the    *)
(* limit passes in it: the windows of a header never overlap (allow).      *)
BurstBounded ==
  \A t \in 0 .. MaxTime :
    Through(t, Least(t + Minute - 1, MaxTime)) <= 2 * Limit

(* A request with a valid token is refused only when the whole limit has   *)
(* passed within the minute before it: neither what was refused nor an     *)
(* older window is held against it (allow).                                *)
RefusedOnlyWhenSpent ==
  refusedAt <= MaxTime =>
    Through(IF refusedAt < Minute THEN 0 ELSE refusedAt + 1 - Minute, refusedAt) >= Limit

(* A walk of pages, of whatever sizes and however long it waits between    *)
(* them, serves every item that nobody has written since it began, unless  *)
(* another item has left the list meanwhile; it serves it once if nothing  *)
(* has been written at all (paginate over a list that is read anew).       *)
NoItemSkipped ==
  cursor = None =>
    /\ removed = {} => Range(list) \ touched \subseteq Range(served)
    /\ touched = {} => served = list
=============================================================================
