----------------------- MODULE SnapshotTransferProofs -----------------------
(***************************************************************************)
(* TLAPS proofs about SnapshotTransfer, for every number of objects,       *)
(* versions, imports, writes of other clients, failed look-ups and aborts. *)
(***************************************************************************)
EXTENDS SnapshotTransfer, FiniteSetTheorems, WellFoundedInduction, TLAPS

-----------------------------------------------------------------------------
(* Least elements                                                          *)

(* Every set of numbers has a least one.                                   *)
LEMMA LeastNatural ==
  ASSUME NEW T \in SUBSET Nat, T # {}
  PROVE  \E x \in T : \A y \in T : x <= y
<1> DEFINE R == {p \in Nat \X Nat : p[1] < p[2]}
<1>1. IsWellFoundedOn(R, Nat)
  BY NatLessThanWellFounded DEF OpToRel
<1>2. PICK x \in T : \A y \in T : <<y, x>> \notin R
  BY <1>1, WFMin, T \subseteq Nat
<1>3. ASSUME NEW y \in T
      PROVE  x <= y
  <2>1. y < x => <<y, x>> \in R
    OBVIOUS
  <2>2. QED
    BY <1>2, <2>1
<1>4. QED
  BY <1>3

-----------------------------------------------------------------------------
(* Lemmas about the order of the snapshot                                  *)

(* The texts of two instants compare as these numbers do.                  *)
Rank(t) ==
  IF t = 0 THEN 2000 ELSE (t \div 10) * 20 + (IF t % 10 = 0 THEN 10 ELSE t % 10)

(* The two digits of an instant.                                           *)
LEMMA Digits ==
  ASSUME NEW t \in Instants
  PROVE  /\ t \div 10 \in 0 .. 9 /\ t % 10 \in 0 .. 9
         /\ t = (t \div 10) * 10 + (t % 10)
         /\ Rank(t) \in Nat
BY DEF Instants, Rank

(* Two texts of one digit compare as the digits do.                        *)
LEMMA ShortTexts ==
  ASSUME NEW c \in 0 .. 9, NEW d \in 0 .. 9
  PROVE  TextLess(<<Point, c, Zulu>>, <<Point, d, Zulu>>) <=> c < d
<1> DEFINE a == <<Point, c, Zulu>>
           b == <<Point, d, Zulu>>
<1>1. DOMAIN a \cap DOMAIN b = 1 .. 3
  OBVIOUS
<1>2. a[1] = b[1] /\ a[2] = c /\ b[2] = d /\ a[3] = b[3]
  OBVIOUS
<1>3. ASSUME c < d
      PROVE  TextLess(a, b)
  <2>1. \A k \in 1 .. 2 - 1 : a[k] = b[k]
    BY <1>2
  <2>2. QED
    BY <1>1, <1>2, <1>3, <2>1 DEF TextLess
<1>4. ASSUME TextLess(a, b)
      PROVE  c < d
  <2>1. PICK n \in 1 .. 3 : a[n] < b[n]
    BY <1>1, <1>4 DEF TextLess
  <2>2. n = 2
    BY <1>2, <2>1 DEF Point, Zulu
  <2>3. QED
    BY <1>2, <2>1, <2>2
<1>5. QED
  BY <1>3, <1>4

(* Two texts of two digits compare as the digits do.                       *)
LEMMA LongTexts ==
  ASSUME NEW c \in 0 .. 9, NEW p \in 1 .. 9, NEW d \in 0 .. 9, NEW q \in 1 .. 9
  PROVE  TextLess(<<Point, c, p, Zulu>>, <<Point, d, q, Zulu>>)
           <=> c < d \/ (c = d /\ p < q)
BY DEF TextLess, Point, Zulu

(* A text of one digit comes after those that add a digit to it: Z is      *)
(* beyond the digits.                                                      *)
LEMMA ShortToLong ==
  ASSUME NEW c \in 0 .. 9, NEW d \in 0 .. 9, NEW q \in 1 .. 9
  PROVE  TextLess(<<Point, c, Zulu>>, <<Point, d, q, Zulu>>) <=> c < d
BY DEF TextLess, Point, Zulu

(* The same, from the other side.                                          *)
LEMMA LongToShort ==
  ASSUME NEW c \in 0 .. 9, NEW p \in 1 .. 9, NEW d \in 0 .. 9
  PROVE  TextLess(<<Point, c, p, Zulu>>, <<Point, d, Zulu>>) <=> c <= d
BY DEF TextLess, Point, Zulu

(* The lengths and first characters of the texts.                          *)
LEMMA Lengths ==
  ASSUME NEW c \in 0 .. 9, NEW p \in 0 .. 9
  PROVE  /\ <<Point, c, Zulu>> \in Seq(Int) /\ Len(<<Point, c, Zulu>>) = 3
         /\ <<Point, c, Zulu>>[1] = Point
         /\ <<Point, c, p, Zulu>> \in Seq(Int) /\ Len(<<Point, c, p, Zulu>>) = 4
         /\ <<Point, c, p, Zulu>>[1] = Point
BY DEF Point, Zulu

(* The text without a fraction comes last.                                 *)
LEMMA WholeSeconds ==
  ASSUME NEW b \in Seq(Int), Len(b) > 0
  PROVE  /\ b[1] = Point => ~TextLess(<<Zulu>>, b) /\ TextLess(b, <<Zulu>>)
         /\ ~TextLess(<<Zulu>>, <<Zulu>>)
BY DEF TextLess, Point, Zulu

(* The order of the texts is that of Rank.                                 *)
LEMMA TextsCompare ==
  ASSUME NEW s \in Instants, NEW t \in Instants
  PROVE  TextLess(Text(s), Text(t)) <=> Rank(s) < Rank(t)
<1>1. /\ s \div 10 \in 0 .. 9 /\ s % 10 \in 0 .. 9 /\ s = (s \div 10) * 10 + (s % 10)
      /\ t \div 10 \in 0 .. 9 /\ t % 10 \in 0 .. 9 /\ t = (t \div 10) * 10 + (t % 10)
  BY Digits
<1>2. PICK c \in 0 .. 9, p \in 0 .. 9 : c = s \div 10 /\ p = s % 10
  BY <1>1
<1>3. PICK d \in 0 .. 9, q \in 0 .. 9 : d = t \div 10 /\ q = t % 10
  BY <1>1
<1>4. /\ Text(s) = IF s = 0 THEN <<Zulu>>
                   ELSE IF p = 0 THEN <<Point, c, Zulu>> ELSE <<Point, c, p, Zulu>>
      /\ Text(t) = IF t = 0 THEN <<Zulu>>
                   ELSE IF q = 0 THEN <<Point, d, Zulu>> ELSE <<Point, d, q, Zulu>>
      /\ Rank(s) = IF s = 0 THEN 2000 ELSE c * 20 + (IF p = 0 THEN 10 ELSE p)
      /\ Rank(t) = IF t = 0 THEN 2000 ELSE d * 20 + (IF q = 0 THEN 10 ELSE q)
  BY <1>2, <1>3 DEF Text, Rank
<1>5. CASE s = 0
  <2>1. Text(s) = <<Zulu>> /\ Rank(s) = 2000
    BY <1>4, <1>5
  <2>2. CASE t = 0
    <3>1. <<Zulu>> \in Seq(Int) /\ Len(<<Zulu>>) > 0
      BY DEF Zulu
    <3>2. ~TextLess(<<Zulu>>, <<Zulu>>)
      BY <3>1, WholeSeconds
    <3>3. Text(t) = <<Zulu>> /\ Rank(t) = 2000
      BY <1>4, <2>2
    <3>4. QED
      BY <2>1, <3>2, <3>3
  <2>3. CASE t # 0
    <3>1. PICK b \in Seq(Int) : b = Text(t) /\ Len(b) > 0 /\ b[1] = Point
      <4>1. Text(t) \in Seq(Int) /\ Len(Text(t)) > 0 /\ Text(t)[1] = Point
        BY <1>4, <2>3, Lengths
      <4>2. QED
        BY <4>1
    <3>2. Rank(t) < 2000
      BY <1>4, <2>3
    <3>3. ~TextLess(<<Zulu>>, b)
      BY <3>1, WholeSeconds
    <3>4. Rank(t) \in Nat
      BY Digits
    <3>5. QED
      BY <2>1, <3>1, <3>2, <3>3, <3>4
  <2>4. QED
    BY <2>2, <2>3
<1>6. CASE s # 0 /\ t = 0
  <2>1. Text(t) = <<Zulu>> /\ Rank(t) = 2000
    BY <1>4, <1>6
  <2>2. PICK b \in Seq(Int) : b = Text(s) /\ Len(b) > 0 /\ b[1] = Point
    <3>1. Text(s) \in Seq(Int) /\ Len(Text(s)) > 0 /\ Text(s)[1] = Point
      BY <1>4, <1>6, Lengths
    <3>2. QED
      BY <3>1
  <2>3. Rank(s) < 2000
    BY <1>4, <1>6
  <2>4. TextLess(b, <<Zulu>>)
    BY <2>2, WholeSeconds
  <2>5. QED
    BY <2>1, <2>2, <2>3, <2>4
<1>7. CASE s # 0 /\ t # 0
  <2>1. CASE p = 0 /\ q = 0
    <3>1. /\ Text(s) = <<Point, c, Zulu>> /\ Rank(s) = c * 20 + 10
          /\ Text(t) = <<Point, d, Zulu>> /\ Rank(t) = d * 20 + 10
      BY <1>4, <1>7, <2>1
    <3>2. TextLess(<<Point, c, Zulu>>, <<Point, d, Zulu>>) <=> c < d
      BY <2>1, ShortTexts
    <3>3. QED
      BY <2>1, <3>1, <3>2
  <2>2. CASE p = 0 /\ q # 0
    <3>1. /\ Text(s) = <<Point, c, Zulu>> /\ Rank(s) = c * 20 + 10
          /\ Text(t) = <<Point, d, q, Zulu>> /\ Rank(t) = d * 20 + q
      BY <1>4, <1>7, <2>2
    <3>2. TextLess(<<Point, c, Zulu>>, <<Point, d, q, Zulu>>) <=> c < d
      <4>1. q \in 1 .. 9
        BY <2>2
      <4>2. QED
        BY <4>1, ShortToLong
    <3>3. QED
      BY <2>2, <3>1, <3>2
  <2>3. CASE p # 0 /\ q = 0
    <3>1. /\ Text(s) = <<Point, c, p, Zulu>> /\ Rank(s) = c * 20 + p
          /\ Text(t) = <<Point, d, Zulu>> /\ Rank(t) = d * 20 + 10
      BY <1>4, <1>7, <2>3
    <3>2. TextLess(<<Point, c, p, Zulu>>, <<Point, d, Zulu>>) <=> c <= d
      <4>1. p \in 1 .. 9
        BY <2>3
      <4>2. QED
        BY <4>1, LongToShort
    <3>3. QED
      BY <2>3, <3>1, <3>2
  <2>4. CASE p # 0 /\ q # 0
    <3>1. /\ Text(s) = <<Point, c, p, Zulu>> /\ Rank(s) = c * 20 + p
          /\ Text(t) = <<Point, d, q, Zulu>> /\ Rank(t) = d * 20 + q
      BY <1>4, <1>7, <2>4
    <3>2. TextLess(<<Point, c, p, Zulu>>, <<Point, d, q, Zulu>>)
            <=> c < d \/ (c = d /\ p < q)
      <4>1. p \in 1 .. 9 /\ q \in 1 .. 9
        BY <2>4
      <4>2. QED
        BY <4>1, LongTexts
    <3>3. QED
      BY <2>4, <3>1, <3>2
  <2>5. QED
    BY <2>1, <2>2, <2>3, <2>4
<1>8. QED
  BY <1>5, <1>6, <1>7

(* Two instants have two texts.                                            *)
LEMMA RanksDiffer ==
  ASSUME NEW s \in Instants, NEW t \in Instants, Rank(s) = Rank(t)
  PROVE  s = t
<1>1. /\ s \div 10 \in 0 .. 9 /\ s % 10 \in 0 .. 9 /\ s = (s \div 10) * 10 + (s % 10)
      /\ t \div 10 \in 0 .. 9 /\ t % 10 \in 0 .. 9 /\ t = (t \div 10) * 10 + (t % 10)
  BY Digits
<1>2. PICK c \in 0 .. 9, p \in 0 .. 9 : c = s \div 10 /\ p = s % 10
  BY <1>1
<1>3. PICK d \in 0 .. 9, q \in 0 .. 9 : d = t \div 10 /\ q = t % 10
  BY <1>1
<1>4. /\ s = c * 10 + p /\ t = d * 10 + q
      /\ Rank(s) = IF s = 0 THEN 2000 ELSE c * 20 + (IF p = 0 THEN 10 ELSE p)
      /\ Rank(t) = IF t = 0 THEN 2000 ELSE d * 20 + (IF q = 0 THEN 10 ELSE q)
  BY <1>1, <1>2, <1>3 DEF Rank
<1>5. QED
  BY <1>4

(* Whatever is left of a snapshot, one event of it comes first.            *)
LEMMA FirstOfAll ==
  ASSUME NEW E, E # {}, \A e \in E : e.at \in Stamps,
         \A e, f \in E : e.at = f.at => e = f
  PROVE  \E e \in E : \A f \in E : e = f \/ Before(e, f)
<1>1. \A e \in E : e.at \in Instants /\ Rank(e.at) \in Nat
  BY StampsAssumption, Digits
<1>2. {Rank(e.at) : e \in E} \in SUBSET Nat /\ {Rank(e.at) : e \in E} # {}
  BY <1>1
<1>3. PICK r \in {Rank(e.at) : e \in E} : \A n \in {Rank(e.at) : e \in E} : r <= n
  BY <1>2, LeastNatural
<1>4. PICK e \in E : r = Rank(e.at)
  BY <1>3
<1>5. ASSUME NEW f \in E, e # f
      PROVE  Before(e, f)
  <2>1. Rank(e.at) <= Rank(f.at) /\ e.at # f.at
    BY <1>3, <1>4, <1>5
  <2>2. Rank(e.at) # Rank(f.at)
    BY <1>1, <2>1, RanksDiffer
  <2>3. Rank(e.at) < Rank(f.at)
    BY <1>1, <1>4, <2>1, <2>2
  <2>4. QED
    BY <1>1, <2>3, TextsCompare DEF Before
<1>6. QED
  BY <1>5

(* One event per line of ReadOrder, and one line for every object.         *)
LEMMA TablesInOrder ==
  /\ Len(ReadOrder) = 4 /\ Len(AllTables) = 3
  /\ ReadOrder[1] = "events" /\ \A n \in 2 .. 4 : ReadOrder[n] # "events"
  /\ \A o \in Objects : \E n \in 2 .. 4 : TableOf[o] = ReadOrder[n]
<1>1. /\ AllTables \in Seq({"events", "entities", "artifacts", "memories"}) /\ Len(AllTables) = 3
      /\ AllTables[1] = "entities" /\ AllTables[2] = "artifacts"
      /\ AllTables[3] = "memories"
  BY DEF AllTables
<1>0. /\ Len(ReadOrder) = 4 /\ ReadOrder[1] = "events"
      /\ \A n \in 2 .. 4 : ReadOrder[n] = AllTables[n - 1]
  <2>1. <<"events">> \in Seq({"events", "entities", "artifacts", "memories"}) /\ Len(<<"events">>) = 1
    OBVIOUS
  <2>2. PICK l \in Seq({"events", "entities", "artifacts", "memories"}) : l = AllTables
    BY <1>1
  <2>3. /\ Len(<<"events">> \o l) = 1 + Len(l)
        /\ (<<"events">> \o l)[1] = "events"
        /\ \A n \in 2 .. 1 + Len(l) : (<<"events">> \o l)[n] = l[n - 1]
    BY <2>1
  <2>4. QED
    <3>1. ReadOrder = <<"events">> \o l /\ Len(l) = 3
      BY <1>1, <2>2 DEF ReadOrder
    <3>2. \A n \in 2 .. 4 : ReadOrder[n] = l[n - 1]
      BY <2>3, <3>1
    <3>3. QED
      BY <2>2, <2>3, <3>1, <3>2
<1>2. \A o \in Objects : TableOf[o] \in {"entities", "artifacts", "memories"}
  BY ObjectsAssumption DEF AllTables
<1>3. Len(AllTables) = 3
  BY <1>1
<1>4. ReadOrder[2] = "entities" /\ ReadOrder[3] = "artifacts" /\ ReadOrder[4] = "memories"
  BY <1>1, <1>0
<1>5. QED
  BY <1>0, <1>2, <1>3, <1>4

(* A function has no more values than arguments.                           *)
LEMMA ImageIsFinite ==
  ASSUME NEW E, IsFiniteSet(E), NEW f, DOMAIN f = E
  PROVE  /\ IsFiniteSet({f[e] : e \in E})
         /\ Cardinality({f[e] : e \in E}) <= Cardinality(E)
<1> DEFINE T == {f[e] : e \in E}
           g == [e \in E |-> f[e]]
<1>1. g \in Surjection(E, T)
  BY DEF Surjection
<1>2. QED
  BY <1>1, FS_Surjection

-----------------------------------------------------------------------------
(* The inductive invariant: the source and its export                      *)

Events == [obj : Objects, version : 1 .. MaxVersion, at : Stamps]

(* The events of a store, read at one instant: the versions of an object   *)
(* are numbered without a gap, and written in the order of their numbers.  *)
Ordered(E) ==
  /\ \A e, f \in E : e.at = f.at => e = f
  /\ \A e, f \in E : e.obj = f.obj =>
       /\ e.version < f.version => e.at < f.at
       /\ e.version = f.version => e = f
WholeHistory(E) ==
  /\ Ordered(E)
  /\ \A o \in Objects : VersionsOf(E, o) = 1 .. Cardinality(VersionsOf(E, o))

SourceInv == IsFiniteSet(source) /\ WholeHistory(source)

(* The stream is read before the tables, so the rows that are read hold    *)
(* those of every event of the snapshot.                                   *)
ExportInv ==
  /\ reads = 0 => snapEvents = {} /\ snapRows = {}
  /\ IsFiniteSet(snapEvents) /\ WholeHistory(snapEvents)
  /\ IsFiniteSet(snapRows)
  /\ \A n \in 2 .. reads, e \in snapEvents :
       TableOf[e.obj] = ReadOrder[n] => RowOf(e) \in snapRows

Running == {"check", "apply", "count", "completed"}

(* How far an import is.                                                   *)
StageInv ==
  \A i \in Importers :
    /\ stage[i] # "idle" => Exported
    /\ stage[i] \in {"idle", "check", "apply"} => counted[i] = 0
    /\ stage[i] = "apply" => left[i] # {}
    /\ stage[i] \in {"count", "completed"} => left[i] = {}
    /\ stage[i] = "count" => counted[i] < Len(ReadOrder)
    /\ stage[i] = "completed" => counted[i] = Len(ReadOrder)

BaseInv == TypeOK /\ SourceInv /\ ExportInv /\ StageInv

(* The versions of an object are finitely many.                            *)
LEMMA HowManyVersions ==
  ASSUME NEW E \in SUBSET Events, NEW o \in Objects
  PROVE  Cardinality(VersionsOf(E, o)) \in Nat /\ VersionsOf(E, o) \in SUBSET (1 .. MaxVersion)
<1>1. VersionsOf(E, o) \in SUBSET (1 .. MaxVersion)
  BY DEF VersionsOf, Events
<1>2. IsFiniteSet(1 .. MaxVersion)
  BY BoundsAssumption, FS_Interval
<1>3. QED
  BY <1>1, <1>2, FS_Subset, FS_CardinalityType

(* A write of the source adds the next version at a later instant.         *)
LEMMA HistoryGrows ==
  ASSUME NEW E \in SUBSET Events, WholeHistory(E),
         NEW o \in Objects, NEW t \in Stamps, NEW n, n = Cardinality(VersionsOf(E, o)),
         n < MaxVersion,
         \A e \in E : e.at # t /\ (e.obj = o => e.at < t),
         NEW f, f = [obj |-> o, version |-> n + 1, at |-> t]
  PROVE  WholeHistory(E \cup {f}) /\ f \in Events
<1>1. n \in Nat /\ VersionsOf(E, o) = 1 .. n
  BY HowManyVersions DEF WholeHistory
<1>2. f \in Events /\ f.obj = o /\ f.version = n + 1 /\ f.at = t
  BY <1>1, BoundsAssumption DEF Events
<1>3. \A e \in E : e.obj = o => e.version \in 1 .. n
  BY <1>1 DEF VersionsOf
<1>4. Ordered(E \cup {f})
  <2>1. \A e \in E : e.at # f.at
    BY <1>2
  <2>2. \A e \in E : e.obj = f.obj => e.version < f.version /\ e.at < f.at
    BY <1>1, <1>2, <1>3
  <2>3. \A e \in E : e.version \in Int
    BY BoundsAssumption DEF Events
  <2>4. f.version \in Int
    BY <1>1, <1>2
  <2>5. QED
    BY <2>1, <2>2, <2>3, <2>4 DEF Ordered, WholeHistory
<1>5. ASSUME NEW p \in Objects
      PROVE  VersionsOf(E \cup {f}, p) = 1 .. Cardinality(VersionsOf(E \cup {f}, p))
  <2>1. CASE p # o
    <3>1. VersionsOf(E \cup {f}, p) = VersionsOf(E, p)
      BY <1>2, <2>1 DEF VersionsOf
    <3>2. QED
      BY <3>1 DEF WholeHistory
  <2>2. CASE p = o
    <3>1. VersionsOf(E \cup {f}, o) = VersionsOf(E, o) \cup {n + 1}
      BY <1>2 DEF VersionsOf
    <3>5. (1 .. n) \cup {n + 1} = 1 .. (n + 1)
      BY <1>1
    <3>2. VersionsOf(E \cup {f}, o) = 1 .. (n + 1)
      BY <1>1, <3>1, <3>5
    <3>3. Cardinality(1 .. n + 1) = n + 1
      BY <1>1, FS_Interval
    <3>4. QED
      BY <2>2, <3>2, <3>3
  <2>3. QED
    BY <2>1, <2>2
<1>6. QED
  BY <1>2, <1>4, <1>5 DEF WholeHistory

(* No other step touches the source or the snapshot.                       *)
LEMMA SourceRests ==
  ASSUME [Next]_vars, \A o \in Objects : ~SourceWrite(o), ~ExportRead
  PROVE  UNCHANGED <<source, reads, snapshot>>
BY DEF Next, vars, LocalWrite, Start, Check, CheckFails, Apply, StartCount, Count, Abort

LEMMA SourceStep == TypeOK /\ SourceInv /\ [Next]_vars => SourceInv'
<1> SUFFICES ASSUME TypeOK, SourceInv, [Next]_vars
             PROVE  SourceInv'
  OBVIOUS
<1>1. ASSUME NEW o \in Objects, SourceWrite(o)
      PROVE  SourceInv'
  <2>1. PICK t \in Stamps :
          /\ \A e \in source : e.at # t /\ (e.obj = o => e.at < t)
          /\ source' = source \cup
               {[obj |-> o, version |-> Cardinality(VersionsOf(source, o)) + 1, at |-> t]}
    BY <1>1 DEF SourceWrite
  <2>2. PICK n : n = Cardinality(VersionsOf(source, o))
    OBVIOUS
  <2>3. PICK f : f = [obj |-> o, version |-> n + 1, at |-> t]
    OBVIOUS
  <2>4. source \in SUBSET Events /\ n < MaxVersion /\ source' = source \cup {f}
    BY <1>1, <2>1, <2>2, <2>3 DEF TypeOK, Events, SourceWrite
  <2>5. WholeHistory(source \cup {f})
    BY <2>1, <2>2, <2>3, <2>4, HistoryGrows DEF SourceInv
  <2>6. IsFiniteSet(source \cup {f})
    BY FS_AddElement DEF SourceInv
  <2>7. QED
    BY <2>4, <2>5, <2>6 DEF SourceInv
<1>2. CASE ExportRead
  BY <1>2 DEF ExportRead, SourceInv
<1>3. CASE ~ExportRead /\ \A o \in Objects : ~SourceWrite(o)
  BY <1>3, SourceRests DEF SourceInv
<1>4. QED
  BY <1>1, <1>2, <1>3

LEMMA ExportStep == TypeOK /\ SourceInv /\ ExportInv /\ [Next]_vars => ExportInv'
<1> SUFFICES ASSUME TypeOK, SourceInv, ExportInv, [Next]_vars
             PROVE  ExportInv'
  OBVIOUS
<1>b. reads \in 0 .. 4 /\ Exported = (reads = 4)
  BY TablesInOrder DEF TypeOK, Exported
<1>1. CASE \E o \in Objects : SourceWrite(o)
  BY <1>1 DEF SourceWrite, snapshot, ExportInv
<1>2. CASE ExportRead
  <2>1. PICK r \in 1 .. 4 : r = reads + 1 /\ reads' = r
    <3>1. reads # 4 /\ reads' = reads + 1
      BY <1>b, <1>2 DEF ExportRead
    <3>2. QED
      BY <1>b, <3>1
  <2> DEFINE New == {RowOf(e) : e \in {f \in source : TableOf[f.obj] = ReadOrder[r]}}
  <2>2. /\ snapEvents' = IF r = 1 THEN source ELSE snapEvents
        /\ snapRows' = snapRows \cup New
    BY <1>2, <2>1, TablesInOrder DEF ExportRead
  <2>3. IsFiniteSet(New)
    <3>1. PICK S : S = {f \in source : TableOf[f.obj] = ReadOrder[r]}
      OBVIOUS
    <3>2. IsFiniteSet(S)
      BY <3>1, FS_Subset DEF SourceInv
    <3>3. PICK g : g = [e \in S |-> RowOf(e)]
      OBVIOUS
    <3>4. IsFiniteSet({g[e] : e \in S})
      BY <3>2, <3>3, ImageIsFinite
    <3>5. {g[e] : e \in S} = New
      BY <3>1, <3>3
    <3>6. QED
      BY <3>4, <3>5
  <2>4. IsFiniteSet(snapRows')
    <3>1. IsFiniteSet(snapRows \cup New)
      BY <2>3, FS_Union DEF ExportInv
    <3>2. QED
      BY <2>2, <3>1
  <2>5. IsFiniteSet(snapEvents') /\ WholeHistory(snapEvents')
    BY <2>2 DEF SourceInv, ExportInv
  <2>6. ASSUME NEW n \in 2 .. reads', NEW e \in snapEvents', TableOf[e.obj] = ReadOrder[n]
        PROVE  RowOf(e) \in snapRows'
    <3>1. r > 1 /\ e \in snapEvents
      BY <2>1, <2>2, <2>6
    <3>2. CASE n < r
      <4>1. n \in 2 .. reads
        BY <1>b, <2>1, <3>2
      <4>2. RowOf(e) \in snapRows
        BY <2>6, <3>1, <4>1 DEF ExportInv
      <4>3. QED
        BY <2>2, <4>2
    <3>3. CASE n = r
      <4>1. e \in source
        BY <3>1 DEF TypeOK
      <4>2. QED
        <5>1. e \in {f \in source : TableOf[f.obj] = ReadOrder[r]}
          BY <2>6, <3>3, <4>1
        <5>2. RowOf(e) \in New
          BY <5>1
        <5>3. QED
          BY <2>2, <5>2
    <3>4. QED
      BY <2>1, <3>2, <3>3
  <2>7. reads' # 0
    BY <2>1
  <2>8. QED
    BY <2>4, <2>5, <2>6, <2>7 DEF ExportInv
<1>3. CASE ~ExportRead /\ \A o \in Objects : ~SourceWrite(o)
  BY <1>3, SourceRests DEF ExportInv, snapshot
<1>4. QED
  BY <1>1, <1>2, <1>3

-----------------------------------------------------------------------------
(* The inductive invariant: types and stages                               *)

SourceType ==
  /\ source \subseteq Events /\ reads \in 0 .. Len(AllTables) + 1
  /\ snapEvents \subseteq source /\ snapRows \subseteq Rows
StoreType ==
  /\ dstEvents \subseteq [obj : Objects, version : 1 .. MaxVersion,
                          origin : {"snapshot", "local"}]
  /\ dstRows \subseteq Rows \cup {Blank}
  /\ dstCurrent \in [Objects \cup {NoObject} -> 0 .. MaxVersion]
ImportType ==
  /\ stage \in [Importers -> Stages]
  /\ left \in [Importers -> SUBSET snapEvents]
  /\ counted \in [Importers -> 0 .. Len(AllTables) + 1]
  /\ report \in {"none", "completed", "failed"}
  /\ faults \in 0 .. MaxFaults /\ aborts \in 0 .. MaxAborts

(* TypeOK by groups of variables.                                          *)
LEMMA Types == TypeOK <=> SourceType /\ StoreType /\ ImportType
BY DEF TypeOK, SourceType, StoreType, ImportType, Events

(* The event an import works on is of the snapshot, and the first of those *)
(* it has left.                                                            *)
LEMMA TurnIsFirst ==
  ASSUME TypeOK, ExportInv, NEW i \in Importers, left[i] # {}
  PROVE  /\ Turn(i) \in left[i] /\ Turn(i) \in snapEvents /\ Turn(i) \in Events
         /\ \A f \in left[i] : Turn(i) = f \/ Before(Turn(i), f)
<1>1. left[i] \subseteq snapEvents /\ snapEvents \subseteq Events
  BY DEF TypeOK, Events
<1>2. PICK E : E = left[i]
  OBVIOUS
<1>3. \E e \in E : \A f \in E : e = f \/ Before(e, f)
  <2>1. \A e \in E : e.at \in Stamps
    BY <1>1, <1>2 DEF Events
  <2>2. \A e, f \in E : e.at = f.at => e = f
    BY <1>1, <1>2 DEF ExportInv, WholeHistory, Ordered
  <2>3. QED
    BY <1>2, <2>1, <2>2, FirstOfAll
<1>4. Turn(i) = CHOOSE e \in E : \A f \in E : e = f \/ Before(e, f)
  BY <1>2 DEF Turn
<1>5. QED
  BY <1>1, <1>2, <1>3, <1>4

(* Once exported, the snapshot has the row of every event.                 *)
LEMMA RowIsFound ==
  ASSUME TypeOK, ExportInv, Exported, NEW e \in snapEvents
  PROVE  FindRow(e) = RowOf(e) /\ RowOf(e) \in snapRows
<1>1. e.obj \in Objects
  BY DEF TypeOK
<1>2. PICK n \in 2 .. 4 : TableOf[e.obj] = ReadOrder[n]
  BY <1>1, TablesInOrder
<1>3. n \in 2 .. reads
  BY TablesInOrder DEF Exported
<1>4. QED
  BY <1>2, <1>3 DEF ExportInv, FindRow

LEMMA SourceTypeStep ==
  TypeOK /\ SourceInv /\ [Next]_vars => SourceType'
<1> SUFFICES ASSUME TypeOK, SourceInv, [Next]_vars
             PROVE  SourceType'
  OBVIOUS
<1>b. SourceType
  BY Types
<1>1. ASSUME NEW o \in Objects, SourceWrite(o)
      PROVE  SourceType'
  <2>1. PICK t \in Stamps :
          /\ \A e \in source : e.at # t /\ (e.obj = o => e.at < t)
          /\ source' = source \cup
               {[obj |-> o, version |-> Cardinality(VersionsOf(source, o)) + 1, at |-> t]}
    BY <1>1 DEF SourceWrite
  <2>2. PICK n : n = Cardinality(VersionsOf(source, o))
    OBVIOUS
  <2>3. PICK f : f = [obj |-> o, version |-> n + 1, at |-> t]
    OBVIOUS
  <2>4. source \in SUBSET Events /\ n < MaxVersion /\ source' = source \cup {f}
    BY <1>b, <1>1, <2>1, <2>2, <2>3 DEF SourceType, SourceWrite
  <2>5. f \in Events
    BY <2>1, <2>2, <2>3, <2>4, HistoryGrows DEF SourceInv
  <2>6. QED
    BY <1>b, <1>1, <2>4, <2>5 DEF SourceType, SourceWrite, snapshot
<1>2. CASE ExportRead
  <2>1. reads # 4 /\ reads' = reads + 1 /\ reads \in 0 .. 4
    BY <1>b, <1>2, TablesInOrder DEF ExportRead, Exported, SourceType
  <2>2. reads' \in 0 .. Len(AllTables) + 1
    BY <2>1, TablesInOrder
  <2>3. source' = source /\ snapEvents' \subseteq source
    BY <1>b, <1>2 DEF ExportRead, SourceType
  <2>4. \A e \in source : RowOf(e) \in Rows
    BY <1>b DEF SourceType, Events, Rows, RowOf
  <2>5. snapRows' \subseteq Rows
    BY <1>b, <1>2, <2>4 DEF ExportRead, SourceType
  <2>6. QED
    BY <1>b, <2>2, <2>3, <2>5 DEF SourceType
<1>3. CASE ~ExportRead /\ \A o \in Objects : ~SourceWrite(o)
  BY <1>b, <1>3, SourceRests DEF SourceType, snapshot
<1>4. QED
  BY <1>1, <1>2, <1>3

LEMMA StoreTypeStep ==
  TypeOK /\ ExportInv /\ StageInv /\ [Next]_vars => StoreType'
<1> SUFFICES ASSUME TypeOK, ExportInv, StageInv, [Next]_vars
             PROVE  StoreType'
  OBVIOUS
<1>b. StoreType
  BY Types
<1>p. ASSUME NEW d \in [obj : Objects, version : 1 .. MaxVersion,
                        origin : {"snapshot", "local"}],
             NEW x \in Rows \cup {Blank},
             dstEvents' = dstEvents \cup {d}, PutRow(x)
      PROVE  StoreType'
  <2>1. x.obj \in Objects \cup {NoObject} /\ x.version \in 0 .. MaxVersion
    BY BoundsAssumption DEF Rows, Blank
  <2>2. QED
    BY <1>b, <1>p, <2>1 DEF StoreType, PutRow
<1>1. ASSUME NEW o \in Objects, LocalWrite(o)
      PROVE  StoreType'
  <2>1. PICK v : /\ v = dstCurrent[o] + 1 /\ v <= MaxVersion
                 /\ dstEvents' = dstEvents \cup {[obj |-> o, version |-> v, origin |-> "local"]}
                 /\ PutRow([obj |-> o, version |-> v])
    BY <1>1 DEF LocalWrite
  <2>2. v \in 1 .. MaxVersion
    BY <1>b, <2>1, BoundsAssumption DEF StoreType
  <2>3. QED
    BY <1>p, <2>1, <2>2 DEF Rows
<1>2. ASSUME NEW i \in Importers, Apply(i)
      PROVE  StoreType'
  <2>1. Turn(i) \in Events
    BY <1>2, TurnIsFirst DEF Apply, StageInv
  <2>2. PICK e \in Events : e = Turn(i)
    BY <2>1
  <2>3. CASE dstEvents' = dstEvents \cup {KeyOf(e)} /\ PutRow(FindRow(e))
    <3>1. KeyOf(e) \in [obj : Objects, version : 1 .. MaxVersion,
                        origin : {"snapshot", "local"}]
      BY DEF KeyOf, Events
    <3>2. FindRow(e) \in Rows \cup {Blank}
      BY DEF FindRow, RowOf, Rows, Events
    <3>3. QED
      BY <1>p, <2>3, <3>1, <3>2
  <2>4. CASE UNCHANGED destination
    BY <1>b, <2>4 DEF destination, StoreType
  <2>5. QED
    BY <1>2, <2>2, <2>3, <2>4 DEF Apply
<1>3. CASE UNCHANGED destination
  BY <1>b, <1>3 DEF destination, StoreType
<1>4. QED
  BY <1>1, <1>2, <1>3 DEF Next, vars, SourceWrite, ExportRead, Start, Check, CheckFails,
     StartCount, Count, Abort

(* A step is of one import at most.                                        *)
LEMMA Moves ==
  ASSUME TypeOK, [Next]_vars, NEW j \in Importers
  PROVE  \/ stage'[j] = stage[j] /\ left'[j] = left[j] /\ counted'[j] = counted[j]
         \/ Start(j) \/ Check(j) \/ CheckFails(j) \/ Apply(j)
         \/ StartCount(j) \/ Count(j) \/ Abort(j)
<1>b. /\ stage \in [Importers -> Stages] /\ left \in [Importers -> SUBSET snapEvents]
      /\ counted \in [Importers -> 0 .. Len(AllTables) + 1]
  BY DEF TypeOK
<1>1. ASSUME NEW i \in Importers, i # j,
             Start(i) \/ Check(i) \/ CheckFails(i) \/ Apply(i)
             \/ StartCount(i) \/ Count(i) \/ Abort(i)
      PROVE  stage'[j] = stage[j] /\ left'[j] = left[j] /\ counted'[j] = counted[j]
  <2>1. \/ \E l : Goto(i, l)
        \/ stage' = stage
    BY <1>1 DEF Start, Check, CheckFails, Apply, StartCount, Count, Abort, Finish,
       Refused
  <2>2. stage'[j] = stage[j]
    BY <1>b, <1>1, <2>1 DEF Goto
  <2>3. left'[j] = left[j]
    BY <1>b, <1>1 DEF Start, Check, CheckFails, Apply, StartCount, Count, Abort, Skip, Refused
  <2>4. counted'[j] = counted[j]
    BY <1>b, <1>1 DEF Start, Check, CheckFails, Apply, StartCount, Count, Abort
  <2>5. QED
    BY <2>2, <2>3, <2>4
<1>2. ASSUME UNCHANGED import
      PROVE  stage'[j] = stage[j] /\ left'[j] = left[j] /\ counted'[j] = counted[j]
  BY <1>2 DEF import
<1>3. QED
  BY <1>1, <1>2 DEF Next, vars, SourceWrite, ExportRead, LocalWrite

LEMMA ImportTypeStep ==
  TypeOK /\ ExportInv /\ StageInv /\ [Next]_vars => ImportType'
<1> SUFFICES ASSUME TypeOK, ExportInv, StageInv, [Next]_vars
             PROVE  ImportType'
  OBVIOUS
<1>b. /\ ImportType
      /\ stage \in [Importers -> Stages] /\ left \in [Importers -> SUBSET snapEvents]
      /\ counted \in [Importers -> 0 .. Len(AllTables) + 1]
  BY Types DEF ImportType
<1>g. ASSUME NEW i \in Importers, NEW l \in Stages, Goto(i, l)
      PROVE  stage' \in [Importers -> Stages]
  BY <1>b, <1>g DEF Goto
<1>f. ASSUME NEW i \in Importers, NEW ok, Finish(i, ok)
      PROVE  stage' \in [Importers -> Stages] /\ report' \in {"none", "completed", "failed"}
  <2>1. (IF ok THEN "completed" ELSE "failed") \in Stages
    BY DEF Stages
  <2>2. QED
    BY <1>g, <1>f, <2>1 DEF Finish, Outcome
<1>k. ASSUME NEW i \in Importers, Skip(i), snapEvents' = snapEvents
      PROVE  left' \in [Importers -> SUBSET snapEvents']
  BY <1>b, <1>k DEF Skip
<1>1. CASE \E o \in Objects : SourceWrite(o)
  BY <1>b, <1>1 DEF SourceWrite, snapshot, import, bounds, ImportType
<1>2. CASE ExportRead
  <2>1. snapEvents \subseteq snapEvents'
    <3>1. CASE reads = 0
      BY <3>1 DEF ExportInv
    <3>2. CASE reads # 0
      <4>1. reads + 1 \in 2 .. 4
        BY <1>2, <3>2, TablesInOrder DEF ExportRead, Exported, TypeOK
      <4>2. QED
        BY <1>2, <4>1, TablesInOrder DEF ExportRead
    <3>3. QED
      BY <3>1, <3>2
  <2>2. left \in [Importers -> SUBSET snapEvents']
    BY <1>b, <2>1
  <2>3. QED
    BY <1>b, <1>2, <2>2 DEF ExportRead, import, bounds, ImportType
<1>3. CASE \E o \in Objects : LocalWrite(o)
  BY <1>b, <1>3 DEF LocalWrite, snapshot, import, bounds, ImportType
<1>4. ASSUME NEW i \in Importers, Start(i)
      PROVE  ImportType'
  <2>1. snapEvents' = snapEvents /\ left' \in [Importers -> SUBSET snapEvents']
    BY <1>b, <1>4 DEF Start, snapshot
  <2>2. stage' \in [Importers -> Stages] /\ report' \in {"none", "completed", "failed"}
    BY <1>b, <1>f, <1>g, <1>4 DEF Start, Stages, ImportType
  <2>3. QED
    BY <1>b, <1>4, <2>1, <2>2 DEF Start, bounds, ImportType
<1>5. ASSUME NEW i \in Importers, Check(i)
      PROVE  ImportType'
  <2>1. snapEvents' = snapEvents
    BY <1>5 DEF Check, snapshot
  <2>2. left' \in [Importers -> SUBSET snapEvents'] /\ stage' \in [Importers -> Stages]
    BY <1>b, <1>k, <1>g, <1>5, <2>1 DEF Check, Stages
  <2>3. QED
    BY <1>b, <1>5, <2>1, <2>2 DEF Check, bounds, ImportType
<1>6. ASSUME NEW i \in Importers, CheckFails(i)
      PROVE  ImportType'
  <2>1. snapEvents' = snapEvents
    BY <1>6 DEF CheckFails, snapshot
  <2>2. left' \in [Importers -> SUBSET snapEvents']
    BY <1>k, <1>6, <2>1 DEF CheckFails
  <2>3. faults' \in 0 .. MaxFaults
    BY <1>b, <1>6, BoundsAssumption DEF CheckFails, ImportType
  <2>4. QED
    BY <1>b, <1>6, <2>1, <2>2, <2>3 DEF CheckFails, ImportType
<1>7. ASSUME NEW i \in Importers, Apply(i)
      PROVE  ImportType'
  <2>1. snapEvents' = snapEvents
    BY <1>7 DEF Apply, snapshot
  <2>2. \/ Skip(i) /\ Goto(i, "check") /\ UNCHANGED report
        \/ Finish(i, FALSE) /\ UNCHANGED left
    BY <1>7 DEF Apply, Refused
  <2>3. /\ left' \in [Importers -> SUBSET snapEvents'] /\ stage' \in [Importers -> Stages]
        /\ report' \in {"none", "completed", "failed"}
    BY <1>b, <1>k, <1>g, <1>f, <2>1, <2>2 DEF Stages, ImportType
  <2>4. QED
    BY <1>b, <1>7, <2>1, <2>3 DEF Apply, bounds, ImportType
<1>8. ASSUME NEW i \in Importers, StartCount(i)
      PROVE  ImportType'
  BY <1>b, <1>g, <1>8 DEF StartCount, snapshot, bounds, ImportType, Stages
<1>9. ASSUME NEW i \in Importers, Count(i)
      PROVE  ImportType'
  <2>1. snapEvents' = snapEvents /\ left' = left /\ UNCHANGED bounds
    BY <1>9 DEF Count, snapshot
  <2>2. counted' \in [Importers -> 0 .. Len(AllTables) + 1]
    <3>1. stage[i] = "count"
      BY <1>9 DEF Count
    <3>2. counted[i] \in 0 .. 3
      BY <1>b, <3>1, TablesInOrder DEF StageInv
    <3>3. counted[i] + 1 \in 0 .. Len(AllTables) + 1
      BY <3>2, TablesInOrder
    <3>4. counted' = [counted EXCEPT ![i] = counted[i] + 1]
      BY <1>9 DEF Count
    <3>5. QED
      BY <1>b, <3>3, <3>4
  <2>3. stage' \in [Importers -> Stages] /\ report' \in {"none", "completed", "failed"}
    BY <1>b, <1>f, <1>9 DEF Count, ImportType
  <2>4. QED
    BY <1>b, <2>1, <2>2, <2>3 DEF bounds, ImportType
<1>10. ASSUME NEW i \in Importers, Abort(i)
       PROVE  ImportType'
  <2>1. stage' \in [Importers -> Stages] /\ report' \in {"none", "completed", "failed"}
    BY <1>g, <1>f, <1>10 DEF Abort, Stages
  <2>2. aborts' \in 0 .. MaxAborts
    BY <1>b, <1>10, BoundsAssumption DEF Abort, ImportType
  <2>3. QED
    BY <1>b, <1>10, <2>1, <2>2 DEF Abort, snapshot, ImportType
<1>11. CASE UNCHANGED vars
  BY <1>b, <1>11 DEF vars, snapshot, import, bounds, ImportType
<1>12. QED
  BY <1>1, <1>2, <1>3, <1>4, <1>5, <1>6, <1>7, <1>8, <1>9, <1>10, <1>11 DEF Next

(* Once an import runs, the snapshot is what it is.                        *)
LEMMA ExportedStays ==
  ASSUME TypeOK, [Next]_vars, Exported
  PROVE  Exported' /\ UNCHANGED <<source, reads, snapshot>>
<1>1. /\ \A o \in Objects : ~SourceWrite(o)
      /\ ~ExportRead
  BY DEF SourceWrite, ExportRead
<1>2. UNCHANGED <<source, reads, snapshot>>
  BY <1>1, SourceRests
<1>3. QED
  BY <1>2 DEF Exported

LEMMA StageStep == BaseInv /\ [Next]_vars => StageInv'
<1> SUFFICES ASSUME BaseInv, [Next]_vars, NEW j \in Importers
             PROVE  /\ stage'[j] # "idle" => Exported'
                    /\ stage'[j] \in {"idle", "check", "apply"} => counted'[j] = 0
                    /\ stage'[j] = "apply" => left'[j] # {}
                    /\ stage'[j] \in {"count", "completed"} => left'[j] = {}
                    /\ stage'[j] = "count" => counted'[j] < Len(ReadOrder)
                    /\ stage'[j] = "completed" => counted'[j] = Len(ReadOrder)
  BY DEF StageInv
<1>b. /\ stage \in [Importers -> Stages] /\ left \in [Importers -> SUBSET snapEvents]
      /\ counted \in [Importers -> 0 .. Len(AllTables) + 1]
      /\ TypeOK /\ StageInv /\ ExportInv
  BY DEF BaseInv, TypeOK
<1>t. Exported => Exported'
  BY <1>b, ExportedStays
<1>n. Len(ReadOrder) = 4 /\ counted[j] \in Nat
  BY <1>b, TablesInOrder
<1>1. CASE stage'[j] = stage[j] /\ left'[j] = left[j] /\ counted'[j] = counted[j]
  BY <1>b, <1>t, <1>1 DEF StageInv
<1>2. CASE Start(j)
  <2>1. stage[j] = "idle" /\ Exported /\ counted' = counted /\ counted[j] = 0
    BY <1>b, <1>2 DEF Start, StageInv
  <2>2. stage'[j] \in {"check", "failed"}
    BY <1>b, <1>2 DEF Start, Goto, Finish
  <2>3. QED
    BY <1>t, <2>1, <2>2
<1>3. CASE Check(j)
  <2>1. stage[j] = "check" /\ left[j] # {} /\ Exported /\ counted'[j] = 0
    BY <1>b, <1>3 DEF Check, StageInv
  <2>2. stage'[j] = "check" \/ (stage'[j] = "apply" /\ left' = left)
    BY <1>b, <1>3, <2>1 DEF Check, Goto
  <2>3. QED
    BY <1>t, <2>1, <2>2
<1>4. CASE CheckFails(j)
  BY <1>b, <1>t, <1>4 DEF CheckFails, StageInv
<1>5. CASE Apply(j)
  <2>1. stage[j] = "apply" /\ Exported /\ counted'[j] = 0
    BY <1>b, <1>5 DEF Apply, StageInv
  <2>2. stage'[j] \in {"check", "failed"}
    BY <1>b, <1>5 DEF Apply, Goto, Refused, Finish
  <2>3. QED
    BY <1>t, <2>1, <2>2
<1>6. CASE StartCount(j)
  <2>1. left'[j] = {} /\ Exported /\ counted'[j] = 0 /\ stage'[j] = "count"
    BY <1>b, <1>6 DEF StartCount, StageInv, Goto
  <2>2. QED
    BY <1>t, <1>n, <2>1
<1>7. CASE Count(j)
  <2>1. /\ left'[j] = {} /\ Exported /\ counted[j] < 4 /\ counted'[j] = counted[j] + 1
        /\ stage[j] = "count"
    BY <1>b, <1>n, <1>7 DEF Count, StageInv
  <2>2. \/ stage'[j] = "failed"
        \/ stage'[j] = "completed" /\ counted'[j] = 4
        \/ stage' = stage /\ counted'[j] # 4
    BY <1>b, <1>n, <1>7, <2>1 DEF Count, Finish, Goto
  <2>3. QED
    BY <1>t, <1>n, <2>1, <2>2
<1>8. CASE Abort(j)
  <2>1. stage'[j] = "failed" /\ Exported
    BY <1>b, <1>8 DEF Abort, Finish, Goto, StageInv
  <2>2. QED
    BY <1>t, <2>1
<1>9. QED
  BY <1>b, <1>1, <1>2, <1>3, <1>4, <1>5, <1>6, <1>7, <1>8, Moves

LEMMA BaseInit == Init => BaseInv
<1> SUFFICES ASSUME Init
             PROVE  BaseInv
  OBVIOUS
<1>1. \A o \in Objects : VersionsOf({}, o) = 1 .. Cardinality(VersionsOf({}, o))
  <2>1. \A o \in Objects : VersionsOf({}, o) = {}
    BY DEF VersionsOf
  <2>2. Cardinality({}) = 0 /\ 1 .. 0 = {}
    BY FS_EmptySet
  <2>3. ASSUME NEW o \in Objects
        PROVE  VersionsOf({}, o) = 1 .. Cardinality(VersionsOf({}, o))
    BY <2>1, <2>2
  <2>4. QED
    BY <2>3
<1>2. SourceInv
  BY <1>1, FS_EmptySet DEF Init, SourceInv, WholeHistory, Ordered
<1>3. ExportInv
  BY <1>1, FS_EmptySet DEF Init, ExportInv, WholeHistory, Ordered
<1>4. StageInv
  BY DEF Init, StageInv
<1>5. SourceType /\ StoreType /\ ImportType
  BY BoundsAssumption, TablesInOrder DEF Init, SourceType, StoreType, ImportType, Stages
<1>6. QED
  BY <1>2, <1>3, <1>4, <1>5, Types DEF BaseInv

LEMMA BaseStep == BaseInv /\ [Next]_vars => BaseInv'
<1> SUFFICES ASSUME BaseInv, [Next]_vars
             PROVE  BaseInv'
  OBVIOUS
<1>1. TypeOK /\ SourceInv /\ ExportInv /\ StageInv
  BY DEF BaseInv
<1>2. SourceType' /\ StoreType' /\ ImportType'
  BY <1>1, SourceTypeStep, StoreTypeStep, ImportTypeStep
<1>3. TypeOK'
  BY <1>2 DEF TypeOK, SourceType, StoreType, ImportType, Events
<1>4. SourceInv' /\ ExportInv' /\ StageInv'
  BY <1>1, SourceStep, ExportStep, StageStep
<1>5. QED
  BY <1>3, <1>4 DEF BaseInv

(* However writes, queries and imports interleave, the source and the      *)
(* destination hold events and rows of the declared kinds, and an import   *)
(* works on events of its snapshot.                                        *)
THEOREM TransferTypeCorrect == Spec => []TypeOK
<1>1. BaseInv => TypeOK
  BY DEF BaseInv
<1>2. QED
  BY BaseInit, BaseStep, <1>1, PTL DEF Spec

-----------------------------------------------------------------------------
(* The inductive invariant: the destination                                *)

(* Events and rows go together at the destination, and what it has of the  *)
(* snapshot it has with its row.                                           *)
StoreInv ==
  /\ IsFiniteSet(dstEvents)
  /\ \A d \in dstEvents : d.origin = "snapshot" => \E e \in snapEvents : d = KeyOf(e)
  /\ \A e \in snapEvents : Known(e) => RowOf(e) \in dstRows
  /\ \A x \in dstRows :
       \E d \in dstEvents : d.obj = x.obj /\ d.version = x.version

(* What a step does to the destination.                                    *)
LEMMA Writes ==
  ASSUME BaseInv, [Next]_vars
  PROVE  \/ UNCHANGED destination
         \/ \E o \in Objects, v \in 1 .. MaxVersion :
              /\ v = dstCurrent[o] + 1 /\ RowFree(o, v)
              /\ dstEvents' = dstEvents \cup {[obj |-> o, version |-> v, origin |-> "local"]}
              /\ PutRow([obj |-> o, version |-> v])
              /\ UNCHANGED <<source, reads, snapshot, import, report, bounds>>
         \/ \E i \in Importers, e \in snapEvents :
              /\ stage[i] = "apply" /\ Exported /\ e = Turn(i) /\ e \in left[i]
              /\ ~Known(e) /\ RowFree(e.obj, e.version) /\ RowOf(e) \in snapRows
              /\ dstEvents' = dstEvents \cup {KeyOf(e)}
              /\ PutRow(RowOf(e))
              /\ UNCHANGED <<source, reads, snapshot>>
<1>b. TypeOK /\ ExportInv /\ StageInv
  BY DEF BaseInv
<1>1. ASSUME NEW o \in Objects, LocalWrite(o)
      PROVE  \E v \in 1 .. MaxVersion :
               /\ v = dstCurrent[o] + 1 /\ RowFree(o, v)
               /\ dstEvents' = dstEvents \cup {[obj |-> o, version |-> v, origin |-> "local"]}
               /\ PutRow([obj |-> o, version |-> v])
               /\ UNCHANGED <<source, reads, snapshot, import, report, bounds>>
  <2>1. dstCurrent[o] + 1 \in Nat /\ dstCurrent[o] + 1 >= 1
    BY <1>b DEF TypeOK
  <2>2. dstCurrent[o] + 1 \in 1 .. MaxVersion
    BY <1>1, <2>1, BoundsAssumption DEF LocalWrite
  <2>3. QED
    BY <1>1, <2>2 DEF LocalWrite
<1>2. ASSUME NEW i \in Importers, Apply(i), ~UNCHANGED destination
      PROVE  \E e \in snapEvents :
               /\ stage[i] = "apply" /\ Exported /\ e = Turn(i) /\ e \in left[i]
               /\ ~Known(e) /\ RowFree(e.obj, e.version) /\ RowOf(e) \in snapRows
               /\ dstEvents' = dstEvents \cup {KeyOf(e)}
               /\ PutRow(RowOf(e))
               /\ UNCHANGED <<source, reads, snapshot>>
  <2>1. stage[i] = "apply" /\ Exported /\ left[i] # {}
    BY <1>b, <1>2 DEF Apply, StageInv
  <2>2. PICK e \in snapEvents : e = Turn(i) /\ e \in left[i]
    BY <1>b, <2>1, TurnIsFirst
  <2>3. FindRow(e) = RowOf(e) /\ RowOf(e) \in snapRows
    BY <1>b, <2>1, RowIsFound
  <2>4. Insertable(e) /\ dstEvents' = dstEvents \cup {KeyOf(e)} /\ PutRow(FindRow(e))
    BY <1>2, <2>2 DEF Apply
  <2>5. RowFree(e.obj, e.version)
    BY <2>3, <2>4 DEF Insertable, RowOf
  <2>6. QED
    BY <1>2, <2>1, <2>2, <2>3, <2>4, <2>5 DEF Apply, Insertable
<1>3. QED
  BY <1>1, <1>2 DEF Next, vars, SourceWrite, ExportRead, Start, Check, CheckFails,
     StartCount, Count, Abort

LEMMA StoreStep == BaseInv /\ StoreInv /\ [Next]_vars => StoreInv'
<1> SUFFICES ASSUME BaseInv, StoreInv, [Next]_vars
             PROVE  StoreInv'
  OBVIOUS
<1>b. TypeOK /\ ExportInv
  BY DEF BaseInv
<1>1. ASSUME UNCHANGED destination
      PROVE  StoreInv'
  <2>1. CASE snapEvents = {}
    <3>1. \A d \in dstEvents : d.origin # "snapshot"
      BY <2>1 DEF StoreInv
    <3>2. \A e : KeyOf(e).origin = "snapshot"
      BY DEF KeyOf
    <3>3. \A e : ~Known(e)'
      BY <1>1, <3>1, <3>2 DEF Known, destination
    <3>4. QED
      BY <1>1, <3>1, <3>3 DEF StoreInv, destination
  <2>2. CASE snapEvents # {}
    <3>1. reads # 0 /\ reads \in 0 .. 4
      BY <1>b, <2>2, TablesInOrder DEF ExportInv, TypeOK
    <3>2. ExportRead => ReadOrder[reads + 1] # "events"
      <4>1. ExportRead => reads + 1 \in 2 .. 4
        BY <3>1, TablesInOrder DEF ExportRead, Exported
      <4>2. QED
        BY <4>1, TablesInOrder
    <3>3. snapEvents' = snapEvents
      <4>1. CASE ExportRead
        BY <3>2, <4>1 DEF ExportRead
      <4>2. CASE \E o \in Objects : SourceWrite(o)
        BY <4>2 DEF SourceWrite, snapshot
      <4>3. QED
        BY <4>1, <4>2, SourceRests DEF snapshot
    <3>4. QED
      BY <1>1, <3>3 DEF StoreInv, destination, Known
  <2>3. QED
    BY <2>1, <2>2
<1>2. ASSUME NEW d, NEW x, snapEvents' = snapEvents,
             dstEvents' = dstEvents \cup {d}, dstRows' = dstRows \cup {x},
             d.obj = x.obj, d.version = x.version,
             \/ d.origin = "local"
             \/ \E e \in snapEvents : d = KeyOf(e) /\ x = RowOf(e)
      PROVE  StoreInv'
  <2>1. IsFiniteSet(dstEvents')
    BY <1>2, FS_AddElement DEF StoreInv
  <2>2. \A e \in dstEvents' : e.origin = "snapshot" => \E f \in snapEvents' : e = KeyOf(f)
    BY <1>2 DEF StoreInv
  <2>3. ASSUME NEW e \in snapEvents', Known(e)'
        PROVE  RowOf(e) \in dstRows'
    <3>1. CASE KeyOf(e) \in dstEvents
      BY <1>2, <3>1 DEF StoreInv, Known
    <3>2. CASE KeyOf(e) = d
      <4>1. d.origin # "local"
        BY <3>2 DEF KeyOf
      <4>2. PICK f \in snapEvents : d = KeyOf(f) /\ x = RowOf(f)
        BY <1>2, <4>1
      <4>3. e.obj = f.obj /\ e.version = f.version
        BY <3>2, <4>2 DEF KeyOf
      <4>4. RowOf(e) = x
        BY <4>2, <4>3 DEF RowOf
      <4>5. QED
        BY <1>2, <4>4
    <3>3. QED
      BY <1>2, <2>3, <3>1, <3>2 DEF Known
  <2>4. \A y \in dstRows' :
          \E e \in dstEvents' : e.obj = y.obj /\ e.version = y.version
    BY <1>2 DEF StoreInv
  <2>5. QED
    BY <2>1, <2>2, <2>3, <2>4 DEF StoreInv
<1>3. CASE \E o \in Objects, v \in 1 .. MaxVersion :
             /\ dstEvents' = dstEvents \cup {[obj |-> o, version |-> v, origin |-> "local"]}
             /\ PutRow([obj |-> o, version |-> v])
             /\ UNCHANGED <<source, reads, snapshot, import, report, bounds>>
  <2>1. PICK o \in Objects, v \in 1 .. MaxVersion :
             /\ dstEvents' = dstEvents \cup {[obj |-> o, version |-> v, origin |-> "local"]}
             /\ PutRow([obj |-> o, version |-> v])
             /\ UNCHANGED snapshot
    BY <1>3
  <2>2. PICK d : d = [obj |-> o, version |-> v, origin |-> "local"]
    OBVIOUS
  <2>3. PICK x : x = [obj |-> o, version |-> v]
    OBVIOUS
  <2>4. QED
    BY <1>2, <2>1, <2>2, <2>3 DEF PutRow, snapshot
<1>4. CASE \E e \in snapEvents :
             /\ dstEvents' = dstEvents \cup {KeyOf(e)}
             /\ PutRow(RowOf(e)) /\ UNCHANGED <<source, reads, snapshot>>
  <2>1. PICK e \in snapEvents :
             /\ dstEvents' = dstEvents \cup {KeyOf(e)}
             /\ PutRow(RowOf(e)) /\ UNCHANGED snapshot
    BY <1>4
  <2>2. PICK d : d = KeyOf(e)
    OBVIOUS
  <2>3. PICK x : x = RowOf(e)
    OBVIOUS
  <2>4. d.obj = x.obj /\ d.version = x.version
    BY <2>2, <2>3 DEF KeyOf, RowOf
  <2>5. QED
    BY <1>2, <2>1, <2>2, <2>3, <2>4 DEF PutRow, snapshot
<1>5. QED
  BY <1>1, <1>3, <1>4, Writes

(* The destination has no blank row: every row has its event.              *)
LEMMA EveryRowHasObject ==
  ASSUME BaseInv, StoreInv
  PROVE  /\ Blank \notin dstRows
         /\ \A x \in dstRows : x.obj \in Objects /\ x.version \in 1 .. MaxVersion
<1>1. \A d \in dstEvents : d.obj \in Objects /\ d.version \in 1 .. MaxVersion
  BY DEF BaseInv, TypeOK
<1>2. \A x \in dstRows : x.obj \in Objects /\ x.version \in 1 .. MaxVersion
  BY <1>1 DEF StoreInv
<1>3. Blank.obj \notin Objects
  BY ObjectsAssumption DEF Blank
<1>4. QED
  BY <1>2, <1>3

LEMMA StoreInit == Init => StoreInv
BY FS_EmptySet DEF Init, StoreInv, Known

LEMMA StoreAlways == Spec => [](BaseInv /\ StoreInv)
BY BaseInit, BaseStep, StoreInit, StoreStep, PTL DEF Spec

(* However a write to the source falls between the queries of Export, an   *)
(* import finds the row of every event: it stores none blank.              *)
THEOREM RowsAreFound == Spec => []NoBlankRows
<1>1. BaseInv /\ StoreInv => NoBlankRows
  BY EveryRowHasObject DEF NoBlankRows
<1>2. QED
  BY StoreAlways, <1>1, PTL

-----------------------------------------------------------------------------
(* Imports that have come to an end                                        *)

(* What an import has passed is at the destination, as long as no look-up  *)
(* has failed.                                                             *)
ProgressInv ==
  faults = 0 => \A i \in Importers :
    stage[i] \in Running => \A e \in snapEvents : e \in left[i] \/ Known(e)

(* Nothing is taken out of the destination, and no fault is forgotten.     *)
LEMMA StoreOnlyGrows ==
  ASSUME BaseInv, [Next]_vars
  PROVE  /\ dstEvents \subseteq dstEvents' /\ dstRows \subseteq dstRows'
         /\ Local \subseteq Local'
         /\ faults' = 0 => faults = 0
<1>1. dstEvents \subseteq dstEvents' /\ dstRows \subseteq dstRows'
  BY Writes DEF destination, PutRow
<1>2. faults' = 0 => faults = 0
  <2>1. faults' = faults \/ faults' = faults + 1
    BY DEF Next, vars, SourceWrite, ExportRead, LocalWrite, Start, Check, CheckFails, Apply,
       StartCount, Count, Abort, bounds
  <2>2. faults \in Nat
    BY BoundsAssumption DEF BaseInv, TypeOK
  <2>3. QED
    BY <2>1, <2>2
<1>3. QED
  BY <1>1, <1>2 DEF Local

LEMMA ProgressStep == BaseInv /\ ProgressInv /\ [Next]_vars => ProgressInv'
<1> SUFFICES ASSUME BaseInv, ProgressInv, [Next]_vars, faults' = 0,
                    NEW j \in Importers, stage'[j] \in Running, NEW e \in snapEvents'
             PROVE  e \in left'[j] \/ Known(e)'
  BY DEF ProgressInv
<1>b. /\ stage \in [Importers -> Stages] /\ left \in [Importers -> SUBSET snapEvents]
      /\ TypeOK /\ StageInv
  BY DEF BaseInv, TypeOK
<1>k. faults = 0 /\ (Known(e) => Known(e)')
  BY StoreOnlyGrows DEF Known
<1>1. CASE stage'[j] = stage[j] /\ left'[j] = left[j]
  <2>1. stage[j] \in Running /\ stage[j] # "idle"
    BY <1>1 DEF Running
  <2>2. e \in snapEvents
    BY <1>b, <2>1, ExportedStays DEF StageInv, snapshot
  <2>3. QED
    BY <1>k, <1>1, <2>1, <2>2 DEF ProgressInv
<1>2. CASE Start(j)
  <2>1. left' = [left EXCEPT ![j] = snapEvents] /\ snapEvents' = snapEvents
    BY <1>b, <1>2 DEF Start, Finish, Goto, Running, snapshot
  <2>2. QED
    BY <1>b, <2>1
<1>3. CASE Check(j)
  <2>1. stage[j] \in Running /\ snapEvents' = snapEvents /\ dstEvents' = dstEvents
    BY <1>3 DEF Check, Running, snapshot, destination
  <2>2. e \in left[j] \/ Known(e)
    BY <1>k, <2>1 DEF ProgressInv
  <2>3. CASE left' = left
    BY <1>k, <2>2, <2>3
  <2>4. CASE Known(Turn(j)) /\ Skip(j)
    <3>1. left'[j] = left[j] \ {Turn(j)}
      BY <1>b, <2>4 DEF Skip
    <3>2. QED
      BY <1>k, <2>2, <2>4, <3>1
  <2>5. QED
    BY <1>3, <2>3, <2>4 DEF Check
<1>4. CASE CheckFails(j)
  <2>1. faults' = faults + 1 /\ faults \in Nat
    BY <1>4, BoundsAssumption DEF CheckFails, BaseInv, TypeOK
  <2>2. QED
    BY <1>k, <2>1
<1>5. CASE Apply(j)
  <2>1. stage[j] \in Running /\ snapEvents' = snapEvents
    BY <1>5 DEF Apply, Running, snapshot
  <2>2. e \in left[j] \/ Known(e)
    BY <1>k, <2>1 DEF ProgressInv
  <2>3. CASE Refused(j)
    BY <1>b, <2>3 DEF Refused, Finish, Goto, Running
  <2>4. CASE Skip(j) /\ dstEvents' = dstEvents \cup {KeyOf(Turn(j))}
    <3>1. left'[j] = left[j] \ {Turn(j)}
      BY <1>b, <2>4 DEF Skip
    <3>2. e = Turn(j) => Known(e)'
      BY <2>4 DEF Known
    <3>3. QED
      BY <1>k, <2>2, <3>1, <3>2
  <2>5. QED
    BY <1>5, <2>3, <2>4 DEF Apply
<1>6. CASE StartCount(j)
  <2>1. stage[j] \in Running /\ snapEvents' = snapEvents /\ left' = left
    BY <1>6 DEF StartCount, Running, snapshot
  <2>2. QED
    BY <1>k, <2>1 DEF ProgressInv
<1>7. CASE Count(j)
  <2>1. stage[j] \in Running /\ snapEvents' = snapEvents /\ left' = left
    BY <1>7 DEF Count, Running, snapshot
  <2>2. QED
    BY <1>k, <2>1 DEF ProgressInv
<1>8. CASE Abort(j)
  BY <1>b, <1>8 DEF Abort, Finish, Goto, Running
<1>9. QED
  BY <1>b, <1>1, <1>2, <1>3, <1>4, <1>5, <1>6, <1>7, <1>8, Moves

(* The counts an import has compared agreed, and while no other client     *)
(* writes to the destination they still do.                                *)
CountInv ==
  Local = {} => \A i \in Importers :
    stage[i] \in {"count", "completed"} =>
      \A n \in 1 .. counted[i] : CountMatches(ReadOrder[n])

(* As many events as the snapshot has, all of the snapshot: all it has.    *)
LEMMA AsManyMeansAll ==
  ASSUME BaseInv, StoreInv, Local = {}, CountMatches(ReadOrder[1])
  PROVE  Imported
<1>1. \A d \in dstEvents : \E e \in snapEvents : d = KeyOf(e)
  BY DEF Local, StoreInv, BaseInv, TypeOK
<1>2. PICK g : g = [e \in snapEvents |-> KeyOf(e)]
  OBVIOUS
<1>3. PICK K : K = {g[e] : e \in snapEvents}
  OBVIOUS
<1>4. IsFiniteSet(snapEvents)
  BY DEF BaseInv, ExportInv
<1>5. IsFiniteSet(K) /\ Cardinality(K) <= Cardinality(snapEvents)
  BY <1>2, <1>3, <1>4, ImageIsFinite
<1>6. dstEvents \in SUBSET K
  BY <1>1, <1>2, <1>3
<1>7. Cardinality(dstEvents) = Cardinality(snapEvents)
  BY TablesInOrder DEF CountMatches, SizeOf
<1>8. Cardinality(dstEvents) <= Cardinality(K)
  BY <1>5, <1>6, FS_Subset
<1>9. Cardinality(K) \in Nat /\ Cardinality(dstEvents) \in Nat
  BY <1>5, FS_CardinalityType DEF StoreInv
<1>10. Cardinality(snapEvents) \in Nat
  BY <1>4, FS_CardinalityType
<1>11. Cardinality(K) = Cardinality(dstEvents)
  BY <1>5, <1>7, <1>8, <1>9, <1>10
<1>12. K = dstEvents
  BY <1>5, <1>6, <1>11, FS_Subset
<1>13. QED
  BY <1>2, <1>3, <1>12 DEF Imported, Known

(* Nothing is left to be written when all of the snapshot is there.        *)
LEMMA ImportedRests ==
  ASSUME BaseInv, [Next]_vars, Imported
  PROVE  \/ UNCHANGED destination
         \/ Local' # {} /\ UNCHANGED import
<1>1. ASSUME NEW o \in Objects, NEW v,
             dstEvents' = dstEvents \cup {[obj |-> o, version |-> v, origin |-> "local"]}
      PROVE  Local' # {}
  <2>1. PICK d : d = [obj |-> o, version |-> v, origin |-> "local"]
    OBVIOUS
  <2>2. d \in dstEvents' /\ d.origin = "local"
    BY <1>1, <2>1
  <2>3. QED
    BY <2>2 DEF Local
<1>2. QED
  BY <1>1, Writes DEF Imported

LEMMA CountStep == BaseInv /\ StoreInv /\ CountInv /\ [Next]_vars => CountInv'
<1> SUFFICES ASSUME BaseInv, StoreInv, CountInv, [Next]_vars, Local' = {},
                    NEW j \in Importers, stage'[j] \in {"count", "completed"},
                    NEW n \in 1 .. counted'[j]
             PROVE  CountMatches(ReadOrder[n])'
  BY DEF CountInv
<1>b. /\ stage \in [Importers -> Stages] /\ left \in [Importers -> SUBSET snapEvents]
      /\ counted \in [Importers -> 0 .. Len(AllTables) + 1]
      /\ TypeOK /\ StageInv
  BY DEF BaseInv, TypeOK
<1>l. Local = {}
  BY StoreOnlyGrows
<1>n. counted[j] \in Nat /\ Len(ReadOrder) = 4
  BY <1>b, TablesInOrder
(* The counts compared so far stay as they are.                            *)
<1>k. ASSUME stage[j] \in {"count", "completed"}, n \in 1 .. counted[j]
      PROVE  CountMatches(ReadOrder[n])'
  <2>1. CountMatches(ReadOrder[n]) /\ CountMatches(ReadOrder[1])
    BY <1>l, <1>n, <1>k DEF CountInv
  <2>2. Imported
    BY <1>l, <2>1, AsManyMeansAll
  <2>3. UNCHANGED destination
    BY <2>2, ImportedRests
  <2>4. UNCHANGED snapshot
    BY <1>b, <1>k, ExportedStays DEF StageInv
  <2>5. QED
    BY <2>1, <2>3, <2>4 DEF CountMatches, SizeOf, destination, snapshot
<1>1. CASE stage'[j] = stage[j] /\ counted'[j] = counted[j]
  BY <1>k, <1>1
<1>2. CASE Start(j) \/ Check(j) \/ CheckFails(j) \/ Apply(j) \/ Abort(j)
  <2>1. stage'[j] \in {"idle", "check", "apply", "failed"}
    BY <1>b, <1>2 DEF Start, Check, CheckFails, Apply, Refused, Abort, Finish, Goto
  <2>2. QED
    BY <2>1
<1>3. CASE StartCount(j)
  <2>1. counted'[j] = 0
    BY <1>b, <1>3 DEF StartCount, StageInv
  <2>2. QED
    BY <2>1
<1>4. CASE Count(j)
  <2>1. /\ stage[j] = "count" /\ counted'[j] = counted[j] + 1
        /\ UNCHANGED destination /\ UNCHANGED snapshot
    BY <1>b, <1>4 DEF Count
  <2>2. CASE n \in 1 .. counted[j]
    BY <1>k, <2>1, <2>2
  <2>3. CASE n = counted[j] + 1
    <3>1. CountMatches(ReadOrder[n])
      BY <1>b, <1>4, <2>3 DEF Count, Finish, Goto
    <3>2. QED
      BY <2>1, <3>1 DEF CountMatches, SizeOf, destination, snapshot
  <2>4. QED
    BY <1>n, <2>1, <2>2, <2>3
<1>5. QED
  BY <1>b, <1>1, <1>2, <1>3, <1>4, Moves

(* An import that ends well has everything at the destination.             *)
LEMMA CompletedHasAll ==
  ASSUME BaseInv, StoreInv, ProgressInv, CountInv, faults = 0 \/ Local = {},
         NEW i \in Importers, stage[i] \in {"count", "completed"}, counted[i] >= 1
  PROVE  Imported
<1>1. left[i] = {} /\ counted[i] \in Nat
  BY DEF BaseInv, StageInv, TypeOK
<1>2. CASE faults = 0
  BY <1>1, <1>2 DEF ProgressInv, Running, Imported
<1>3. CASE Local = {}
  <2>1. CountMatches(ReadOrder[1])
    BY <1>1, <1>3 DEF CountInv
  <2>2. QED
    BY <1>3, <2>1, AsManyMeansAll
<1>4. QED
  BY <1>2, <1>3

ReportInv ==
  report = "completed" => Exported /\ (faults = 0 \/ Local = {} => Imported)

LEMMA ReportStep ==
  BaseInv /\ StoreInv /\ ProgressInv /\ CountInv /\ ReportInv /\ [Next]_vars => ReportInv'
<1> SUFFICES ASSUME BaseInv, StoreInv, ProgressInv, CountInv, ReportInv, [Next]_vars,
                    report' = "completed"
             PROVE  Exported' /\ (faults' = 0 \/ Local' = {} => Imported')
  BY DEF ReportInv
<1>g. faults' = 0 \/ Local' = {} => faults = 0 \/ Local = {}
  BY StoreOnlyGrows
<1>s. ASSUME Exported, faults = 0 \/ Local = {} => Imported
      PROVE  Exported' /\ (faults' = 0 \/ Local' = {} => Imported')
  <2>1. Exported' /\ UNCHANGED snapshot
    BY <1>s, ExportedStays DEF BaseInv
  <2>2. dstEvents \subseteq dstEvents'
    BY StoreOnlyGrows
  <2>3. QED
    BY <1>g, <1>s, <2>1, <2>2 DEF Imported, Known, snapshot
<1>1. CASE report = "completed"
  BY <1>s, <1>1 DEF ReportInv
<1>2. CASE report # "completed"
  <2>1. PICK i \in Importers : Count(i) /\ counted[i] + 1 = Len(ReadOrder)
    <3>1. \A i \in Importers : ~Start(i) /\ ~Check(i) /\ ~Apply(i) /\ ~Abort(i)
      BY <1>2 DEF Start, Check, Apply, Abort, Refused, Finish, Outcome
    <3>2. \E i \in Importers : Count(i)
      BY <1>2, <3>1 DEF Next, vars, SourceWrite, ExportRead, LocalWrite, CheckFails, StartCount
    <3>3. \A i \in Importers : Count(i) => counted[i] + 1 = Len(ReadOrder)
      BY <1>2 DEF Count, Finish, Outcome
    <3>4. QED
      BY <3>2, <3>3
  <2>2. stage[i] = "count" /\ counted[i] >= 1
    BY <2>1, TablesInOrder DEF Count, BaseInv, TypeOK
  <2>3. Exported /\ (faults = 0 \/ Local = {} => Imported)
    BY <2>2, CompletedHasAll DEF BaseInv, StageInv
  <2>4. QED
    BY <1>s, <2>3
<1>3. QED
  BY <1>1, <1>2

TransferInv ==
  BaseInv /\ StoreInv /\ ProgressInv /\ CountInv /\ ReportInv

LEMMA TransferInit == Init => TransferInv
<1> SUFFICES ASSUME Init
             PROVE  TransferInv
  OBVIOUS
<1>1. \A i \in Importers : stage[i] = "idle"
  BY DEF Init
<1>2. ProgressInv /\ CountInv
  BY <1>1 DEF ProgressInv, CountInv, Running
<1>3. ReportInv
  BY DEF Init, ReportInv
<1>4. QED
  BY <1>2, <1>3, BaseInit, StoreInit DEF TransferInv

LEMMA TransferAlways == Spec => []TransferInv
<1>1. TransferInv /\ [Next]_vars => TransferInv'
  BY BaseStep, StoreStep, ProgressStep, CountStep, ReportStep DEF TransferInv
<1>2. QED
  BY TransferInit, <1>1, PTL DEF Spec

(* However imports are retried, overlap, are cut short or race the writes  *)
(* of other clients: an import that answers "completed", and a report that *)
(* says so, has every event of the snapshot at the destination. Either no  *)
(* look-up has failed, or the counts stand guard.                          *)
THEOREM CompletedIsComplete == Spec => []CompletedMeansImported
<1>1. TransferInv => CompletedMeansImported
  <2> SUFFICES ASSUME TransferInv, faults = 0 \/ Local = {},
                      report = "completed" \/ \E i \in Importers : stage[i] = "completed"
               PROVE  Imported
    BY DEF CompletedMeansImported
  <2>1. CASE report = "completed"
    BY <2>1 DEF TransferInv, ReportInv
  <2>2. ASSUME NEW i \in Importers, stage[i] = "completed"
        PROVE  Imported
    <3>1. counted[i] >= 1
      BY <2>2, TablesInOrder DEF TransferInv, BaseInv, StageInv
    <3>2. QED
      BY <2>2, <3>1, CompletedHasAll DEF TransferInv
  <2>3. QED
    BY <2>1, <2>2
<1>2. QED
  BY TransferAlways, <1>1, PTL

(* Importing once more what has been imported changes nothing, also for an *)
(* import that looked an event up before another one applied it.           *)
THEOREM RepeatsAreHarmless == Spec => RepeatChangesNothing
<1>1. ASSUME TransferInv, [Next]_vars
      PROVE  Imported /\ (\E i \in Importers : stage'[i] # stage[i] \/ left'[i] # left[i])
               => UNCHANGED destination
  BY <1>1, ImportedRests DEF TransferInv, import
<1>2. TransferInv /\ [Next]_vars =>
        [Imported /\ (\E i \in Importers : stage'[i] # stage[i] \/ left'[i] # left[i])
           => UNCHANGED destination]_vars
  BY <1>1
<1>3. QED
  BY TransferAlways, <1>2, PTL DEF Spec, RepeatChangesNothing

(* A torn snapshot has rows without an event.  The counts of its tables    *)
(* exceed those of a destination that has only what its events bring.      *)
LEMMA CompletedIsWhole ==
  ASSUME TransferInv, Local = {}, NEW i \in Importers, stage[i] = "completed"
  PROVE  {RowOf(e) : e \in snapEvents} = snapRows
<1>b. BaseInv /\ StoreInv /\ TypeOK /\ ExportInv
  BY DEF TransferInv, BaseInv
<1>1. Exported /\ counted[i] = 4
  BY TablesInOrder DEF TransferInv, BaseInv, StageInv
<1>2. \A n \in 1 .. 4 : CountMatches(ReadOrder[n])
  BY <1>1 DEF TransferInv, CountInv
<1>3. \A e \in snapEvents : RowOf(e) \in snapRows
  BY <1>b, <1>1, RowIsFound
<1>4. \A x \in dstRows : \E e \in snapEvents : x = RowOf(e)
  <2> SUFFICES ASSUME NEW x \in dstRows
               PROVE  \E e \in snapEvents : x = RowOf(e)
    OBVIOUS
  <2>1. PICK d \in dstEvents : d.obj = x.obj /\ d.version = x.version
    BY <1>b DEF StoreInv
  <2>2. d.origin = "snapshot"
    BY <1>b DEF Local, TypeOK
  <2>3. PICK e \in snapEvents : d = KeyOf(e)
    BY <1>b, <2>2 DEF StoreInv
  <2>4. x \in Rows
    BY <1>b, EveryRowHasObject DEF TypeOK
  <2>5. x = [obj |-> x.obj, version |-> x.version]
    BY <2>4 DEF Rows
  <2>6. x.obj = e.obj /\ x.version = e.version
    BY <2>1, <2>3 DEF KeyOf
  <2>7. QED
    BY <2>5, <2>6 DEF RowOf
<1>5. ASSUME NEW y \in snapRows
      PROVE  y \in dstRows
  <2>1. y.obj \in Objects
    BY <1>b DEF TypeOK, Rows
  <2>2. PICK n \in 2 .. 4 : TableOf[y.obj] = ReadOrder[n]
    BY <2>1, TablesInOrder
  <2>3. PICK t : t = ReadOrder[n]
    OBVIOUS
  <2>4. t # "events" /\ CountMatches(t)
    BY <1>2, <2>3, TablesInOrder
  <2>5. PICK D : D = {x \in dstRows : x.obj # NoObject /\ TableOf[x.obj] = t}
    OBVIOUS
  <2>6. PICK S : S = {x \in snapRows : x.obj # NoObject /\ TableOf[x.obj] = t}
    OBVIOUS
  <2>7. Cardinality(D) = Cardinality(S)
    BY <2>4, <2>5, <2>6 DEF CountMatches, SizeOf
  <2>8. D \in SUBSET S
    BY <1>3, <1>4, <2>5, <2>6
  <2>9. IsFiniteSet(S)
    BY <1>b, <2>6, FS_Subset DEF ExportInv
  <2>10. D = S
    BY <2>7, <2>8, <2>9, FS_Subset
  <2>11. y \in S
    BY <2>1, <2>2, <2>3, <2>6, ObjectsAssumption
  <2>12. QED
    BY <2>5, <2>10, <2>11
<1>6. QED
  BY <1>3, <1>4, <1>5

(* A write that falls between the queries of Export tears the snapshot,    *)
(* and no import reports a torn one imported.                              *)
THEOREM TornSnapshotsAreRefused == Spec => []TornIsRefused
<1>1. TransferInv => TornIsRefused
  BY CompletedIsWhole DEF TornIsRefused, Torn
<1>2. QED
  BY TransferAlways, <1>1, PTL

-----------------------------------------------------------------------------
(* The history of the destination                                          *)

(* Where the text of the instants sorts as time does, an import has passed *)
(* every earlier version of the object whose turn it is.                   *)
InTimeOrder == \A s, t \in Stamps : s < t => TextLess(Text(s), Text(t))

(* No two events come each before the other.                               *)
LEMMA NotBoth ==
  ASSUME NEW e, NEW f, e.at \in Stamps, f.at \in Stamps, Before(e, f)
  PROVE  ~Before(f, e)
<1>1. /\ e.at \in Instants /\ f.at \in Instants
      /\ Rank(e.at) \in Nat /\ Rank(f.at) \in Nat
  BY StampsAssumption, Digits
<1>2. Rank(e.at) < Rank(f.at)
  BY <1>1, TextsCompare DEF Before
<1>3. ~(Rank(f.at) < Rank(e.at))
  BY <1>1, <1>2
<1>4. QED
  BY <1>1, <1>3, TextsCompare DEF Before

(* An import about to apply a version has applied those before it.         *)
LEMMA PredecessorsAreThere ==
  ASSUME InTimeOrder, TransferInv, faults = 0,
         NEW i \in Importers, stage[i] = "apply", left[i] # {}, NEW v \in Nat,
         v >= 1, v < Turn(i).version
  PROVE  v \in VersionsOf(dstRows, Turn(i).obj)
<1>b. /\ TypeOK /\ ExportInv /\ StoreInv /\ snapEvents \subseteq Events
  BY DEF TransferInv, BaseInv, TypeOK, Events
<1>1. PICK e \in snapEvents : e = Turn(i) /\ \A f \in left[i] : e = f \/ Before(e, f)
  BY <1>b, TurnIsFirst
<1>2. e.obj \in Objects /\ e.at \in Stamps /\ e.version \in VersionsOf(snapEvents, e.obj)
  BY <1>b DEF Events, VersionsOf
<1>3. v \in VersionsOf(snapEvents, e.obj)
  <2>1. PICK n : n = Cardinality(VersionsOf(snapEvents, e.obj))
    OBVIOUS
  <2>2. n \in Nat
    BY <1>b, <1>2, <2>1, HowManyVersions
  <2>3. VersionsOf(snapEvents, e.obj) = 1 .. n
    BY <1>b, <1>2, <2>1 DEF ExportInv, WholeHistory
  <2>4. e.version \in 1 .. n /\ v < e.version
    BY <1>1, <1>2, <2>3
  <2>5. QED
    BY <2>2, <2>3, <2>4
<1>4. PICK f \in snapEvents : f.obj = e.obj /\ f.version = v
  BY <1>3 DEF VersionsOf
<1>5. f.at \in Stamps /\ f.at < e.at
  BY <1>b, <1>1, <1>4 DEF ExportInv, WholeHistory, Ordered, Events
<1>6. Before(f, e)
  BY <1>2, <1>5 DEF InTimeOrder, Before
<1>7. f \notin left[i]
  <2>1. ~Before(e, f)
    BY <1>2, <1>5, <1>6, NotBoth
  <2>2. e # f
    BY <1>1, <1>4
  <2>3. QED
    BY <1>1, <2>1, <2>2
<1>8. Known(f)
  BY <1>7 DEF TransferInv, ProgressInv, Running
<1>9. RowOf(f) \in dstRows
  BY <1>b, <1>8 DEF StoreInv
<1>10. RowOf(f).obj = e.obj /\ RowOf(f).version = v
  BY <1>4 DEF RowOf
<1>11. QED
  BY <1>1, <1>9, <1>10 DEF VersionsOf

LEMMA HistoryStep ==
  InTimeOrder /\ TransferInv /\ HistoryPreserved /\ [Next]_vars => HistoryPreserved'
<1> SUFFICES ASSUME InTimeOrder, TransferInv, HistoryPreserved, [Next]_vars,
                    faults' = 0, NEW p \in Objects
             PROVE  VersionsOf(dstRows', p) = 1 .. dstCurrent'[p]
  BY DEF HistoryPreserved, VersionsOf
<1>b. /\ BaseInv /\ StoreInv /\ TypeOK /\ faults = 0
      /\ \A o \in Objects : VersionsOf(dstRows, o) = 1 .. dstCurrent[o]
      /\ dstCurrent \in [Objects \cup {NoObject} -> 0 .. MaxVersion]
      /\ \A o \in Objects : dstCurrent[o] \in Nat
  BY StoreOnlyGrows, BoundsAssumption DEF TransferInv, BaseInv, HistoryPreserved, TypeOK
<1>1. CASE UNCHANGED destination
  BY <1>b, <1>1 DEF destination
<1>2. ASSUME NEW o \in Objects, NEW x, x.obj = o, x.version = dstCurrent[o] + 1, PutRow(x)
      PROVE  VersionsOf(dstRows', p) = 1 .. dstCurrent'[p]
  <2>1. PICK c \in Nat : c = dstCurrent[o]
    BY <1>b
  <2>2. PICK rows : rows = dstRows
    OBVIOUS
  <2>3. dstRows' = rows \cup {x} /\ dstCurrent' = [dstCurrent EXCEPT ![o] = c + 1]
    BY <1>2, <2>1, <2>2 DEF PutRow
  <2>4. CASE p = o
    <3>1. VersionsOf(rows \cup {x}, o) = VersionsOf(rows, o) \cup {c + 1}
      BY <1>2, <2>1 DEF VersionsOf
    <3>2. VersionsOf(rows, o) = 1 .. c
      BY <1>b, <2>1, <2>2
    <3>3. (1 .. c) \cup {c + 1} = 1 .. (c + 1)
      OBVIOUS
    <3>4. dstCurrent'[o] = c + 1
      BY <1>b, <2>3
    <3>5. QED
      BY <2>3, <2>4, <3>1, <3>2, <3>3, <3>4
  <2>5. CASE p # o
    <3>1. VersionsOf(rows \cup {x}, p) = VersionsOf(rows, p)
      BY <1>2, <2>5 DEF VersionsOf
    <3>2. VersionsOf(rows, p) = 1 .. dstCurrent[p]
      BY <1>b, <2>2
    <3>3. dstCurrent'[p] = dstCurrent[p]
      BY <1>b, <2>3, <2>5
    <3>4. QED
      BY <2>3, <3>1, <3>2, <3>3
  <2>6. QED
    BY <2>4, <2>5
<1>3. CASE \E o \in Objects, v \in 1 .. MaxVersion :
             v = dstCurrent[o] + 1 /\ PutRow([obj |-> o, version |-> v])
  <2>1. PICK o \in Objects, v \in 1 .. MaxVersion :
          v = dstCurrent[o] + 1 /\ PutRow([obj |-> o, version |-> v])
    BY <1>3
  <2>2. PICK x : x = [obj |-> o, version |-> v]
    OBVIOUS
  <2>3. QED
    BY <1>2, <2>1, <2>2
<1>4. ASSUME NEW i \in Importers, NEW e \in snapEvents,
             stage[i] = "apply", e = Turn(i), e \in left[i],
             RowFree(e.obj, e.version), PutRow(RowOf(e))
      PROVE  VersionsOf(dstRows', p) = 1 .. dstCurrent'[p]
  <2>1. PICK o \in Objects, w \in Nat : o = e.obj /\ w = e.version /\ w >= 1
    BY <1>b, BoundsAssumption DEF TypeOK
  <2>2. PICK c \in Nat : c = dstCurrent[o] /\ VersionsOf(dstRows, o) = 1 .. c
    BY <1>b
  <2>3. w \notin 1 .. c
    BY <1>4, <2>1, <2>2 DEF RowFree, VersionsOf
  <2>4. w - 1 >= 1 => w - 1 \in 1 .. c
    <3>1. w - 1 >= 1 => w - 1 \in Nat
      BY <2>1
    <3>2. PICK v : v = w - 1
      OBVIOUS
    <3>3. left[i] # {}
      BY <1>4
    <3>4. v \in Nat /\ v >= 1 /\ v < w => v \in VersionsOf(dstRows, o)
      BY <1>b, <1>4, <2>1, <3>3, PredecessorsAreThere
    <3>5. QED
      BY <2>1, <2>2, <3>1, <3>2, <3>4
  <2>5. w = c + 1
    BY <2>1, <2>3, <2>4
  <2>6. PICK x : x = RowOf(e)
    OBVIOUS
  <2>7. x.obj = o /\ x.version = dstCurrent[o] + 1
    BY <2>1, <2>2, <2>5, <2>6 DEF RowOf
  <2>8. QED
    BY <1>2, <1>4, <2>6, <2>7
<1>5. QED
  BY <1>b, <1>1, <1>3, <1>4, Writes

(* However imports overlap and race the clients of the destination, every  *)
(* object there has the versions 1 .. its current one, if no look-up fails *)
(* and the text of the instants sorts as time does.                        *)
THEOREM HistoryStaysWhole ==
  ASSUME InTimeOrder
  PROVE  Spec => []HistoryPreserved
<1>1. Init => HistoryPreserved
  <2>1. VersionsOf({}, 0) = {} /\ 1 .. 0 = {}
    BY DEF VersionsOf
  <2>2. \A o : VersionsOf({}, o) = {}
    BY DEF VersionsOf
  <2>3. Init => \A o \in Objects : dstRows = {} /\ dstCurrent[o] = 0
    BY DEF Init
  <2>4. QED
    BY <2>1, <2>2, <2>3 DEF HistoryPreserved
<1>2. TransferInv /\ HistoryPreserved /\ [Next]_vars => HistoryPreserved'
  BY HistoryStep
<1>3. QED
  BY TransferAlways, <1>1, <1>2, PTL DEF Spec
=============================================================================
