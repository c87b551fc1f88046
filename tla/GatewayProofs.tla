----------------------------- MODULE GatewayProofs -----------------------------
(***************************************************************************)
(* TLAPS proofs about Gateway: the rate window for every limit and length  *)
(* of a minute, the pages for every list and every order of writes.        *)
(***************************************************************************)
EXTENDS Gateway, FiniteSetTheorems, SequenceTheorems, WellFoundedInduction, TLAPS

-----------------------------------------------------------------------------
(* Requests between two times                                              *)

Times == 0 .. MaxTime

(* The assumptions in the form the steps below use.                        *)
LEMMA Parameters ==
  /\ Minute \in Nat \ {0} /\ Limit \in Nat \ {0} /\ MaxTime \in Nat /\ MaxRefused \in Nat
  /\ MaxWrites \in Nat /\ DefaultSize \in Nat \ {0} /\ MaxSize \in Nat
  /\ DefaultSize <= MaxSize /\ Sizes \in SUBSET Nat /\ None \notin Nat /\ IsFiniteSet(Items)
BY GatewayAssumption

(* The requests of a history that came at one of the times.                *)
Passed(a, times) == {m \in DOMAIN a : a[m] \in times}
Total(a, times) == Cardinality(Passed(a, times))
Idle(a, t) == \A m \in DOMAIN a : a[m] # t

(* What a history holds are times.                                         *)
LEMMA Entries ==
  ASSUME NEW a \in Seq(Times)
  PROVE  /\ DOMAIN a = 1 .. Len(a) /\ Len(a) \in Nat
         /\ \A m \in DOMAIN a : a[m] \in Times /\ a[m] \in Nat
<1>1. DOMAIN a = 1 .. Len(a) /\ Len(a) \in Nat /\ \A m \in 1 .. Len(a) : a[m] \in Times
  OBVIOUS
<1>2. \A t \in Times : t \in Nat
  BY DEF Times
<1>3. QED
  BY <1>1, <1>2

(* They are finitely many.                                                 *)
LEMMA ThroughCounts ==
  ASSUME NEW a \in Seq(Times), NEW times
  PROVE  IsFiniteSet(Passed(a, times)) /\ Total(a, times) \in Nat
<1>1. Passed(a, times) \in SUBSET (1 .. Len(a)) /\ Len(a) \in Nat
  BY DEF Passed
<1>2. IsFiniteSet(1 .. Len(a))
  BY <1>1, FS_Interval
<1>3. QED
  BY <1>1, <1>2, FS_Subset, FS_CardinalityType DEF Total

(* A stretch of time in two.                                               *)
LEMMA ThroughBoth ==
  ASSUME NEW a \in Seq(Times), NEW i \in Nat, NEW k \in Nat, NEW j \in Nat, i <= k, k <= j + 1
  PROVE  Total(a, i .. j) = Total(a, i .. (k - 1)) + Total(a, k .. j)
<1>1. PICK S : S = Passed(a, i .. (k - 1))
  OBVIOUS
<1>2. PICK T : T = Passed(a, k .. j)
  OBVIOUS
<1>3. \A t \in Nat : /\ t \in i .. j <=> t \in i .. (k - 1) \/ t \in k .. j
                     /\ ~(t \in i .. (k - 1) /\ t \in k .. j)
  OBVIOUS
<1>4. \A m \in DOMAIN a : a[m] \in Nat
  BY Entries
<1>5. S \cup T = Passed(a, i .. j) /\ S \cap T = {}
  BY <1>1, <1>2, <1>3, <1>4 DEF Passed
<1>6. IsFiniteSet(S) /\ IsFiniteSet(T) /\ Cardinality(S) \in Nat /\ Cardinality(T) \in Nat
  BY <1>1, <1>2, ThroughCounts DEF Total
<1>7. Cardinality(S \cup T) = Cardinality(S) + Cardinality(T) - Cardinality(S \cap T)
  BY <1>6, FS_Union
<1>8. Cardinality(S \cap T) = 0
  BY <1>5, FS_EmptySet
<1>9. Cardinality(S \cup T) = Cardinality(S) + Cardinality(T)
  BY <1>6, <1>7, <1>8
<1>10. /\ Cardinality(S \cup T) = Total(a, i .. j) /\ Cardinality(S) = Total(a, i .. (k - 1))
       /\ Cardinality(T) = Total(a, k .. j)
  BY <1>1, <1>2, <1>5, Zenon DEF Total
<1>11. QED
  BY <1>9, <1>10

(* Fewer pass in a part of a stretch of time than in the whole.            *)
LEMMA ThroughPart ==
  ASSUME NEW a \in Seq(Times), NEW i \in Nat, NEW j \in Nat, NEW k \in Int, NEW l \in Nat,
         k <= l, i <= j
  PROVE  Total(a, j .. k) <= Total(a, i .. l)
<1>1. \A t \in Nat : t \in j .. k => t \in i .. l
  OBVIOUS
<1>2. \A m \in DOMAIN a : a[m] \in Nat
  BY Entries
<1>3. Passed(a, j .. k) \in SUBSET Passed(a, i .. l)
  BY <1>1, <1>2 DEF Passed
<1>4. IsFiniteSet(Passed(a, i .. l))
  BY ThroughCounts
<1>5. QED
  BY <1>3, <1>4, FS_Subset DEF Total

(* One request more.                                                       *)
LEMMA ThroughOneMore ==
  ASSUME NEW a \in Seq(Times), NEW n \in Times
  PROVE  /\ Append(a, n) \in Seq(Times)
         /\ \A t \in Times : t # n => (Idle(Append(a, n), t) <=> Idle(a, t))
         /\ \A times : Total(Append(a, n), times)
                          = Total(a, times) + (IF n \in times THEN 1 ELSE 0)
<1>1. PICK b : b = Append(a, n)
  OBVIOUS
<1>2. PICK l : l = Len(a) + 1
  OBVIOUS
<1>3. /\ b \in Seq(Times) /\ Len(a) \in Nat /\ DOMAIN a = 1 .. Len(a)
      /\ DOMAIN b = 1 .. l /\ b[l] = n /\ \A m \in 1 .. Len(a) : b[m] = a[m]
  BY <1>1, <1>2
<1>4. /\ DOMAIN b = DOMAIN a \cup {l} /\ l \notin DOMAIN a
      /\ \A m \in DOMAIN a : b[m] = a[m]
  BY <1>2, <1>3
<1>5. \A t \in Times : t # n => (Idle(b, t) <=> Idle(a, t))
  BY <1>3, <1>4 DEF Idle
<1>6. ASSUME NEW times
      PROVE  Total(b, times) = Total(a, times) + (IF n \in times THEN 1 ELSE 0)
  <2>1. IsFiniteSet(Passed(a, times)) /\ Cardinality(Passed(a, times)) \in Nat
    BY ThroughCounts DEF Total
  <2>2. CASE n \in times
    <3>1. Passed(b, times) = Passed(a, times) \cup {l} /\ l \notin Passed(a, times)
      BY <1>3, <1>4, <2>2 DEF Passed
    <3>2. Cardinality(Passed(a, times) \cup {l}) = Cardinality(Passed(a, times)) + 1
      BY <2>1, <3>1, FS_AddElement
    <3>3. QED
      BY <2>2, <3>1, <3>2 DEF Total
  <2>3. CASE n \notin times
    <3>1. Passed(b, times) = Passed(a, times)
      BY <1>3, <1>4, <2>3 DEF Passed
    <3>2. QED
      BY <2>1, <2>3, <3>1 DEF Total
  <2>4. QED
    BY <2>2, <2>3
<1>7. QED
  BY <1>1, <1>3, <1>5, <1>6

(* Nothing passes in a stretch in which nothing is let through.            *)
LEMMA ThroughNone ==
  ASSUME NEW a \in Seq(Times), NEW i \in Nat, NEW j \in Int,
         \A t \in Times : i <= t /\ t <= j => Idle(a, t)
  PROVE  Total(a, i .. j) = 0
<1>1. \A m \in DOMAIN a : a[m] \in Times /\ a[m] \in Nat
  BY Entries
<1>2. Passed(a, i .. j) = {}
  BY <1>1 DEF Passed, Idle
<1>3. QED
  BY <1>2, FS_EmptySet DEF Total

-----------------------------------------------------------------------------
(* The rate window                                                         *)

RateTypeInv ==
  /\ now \in Times /\ accepted \in Seq(Times)
  /\ window \in [started : Times, count : 0 .. Limit + MaxRefused]
  /\ window.started <= now
  /\ refusedAt \in (0 .. now) \cup {MaxTime + 1}

(* The window begins with the first request it counts, so it knows all     *)
(* that have been let through since it began, and none comes after its     *)
(* end.                                                                    *)
WindowInv ==
  /\ window.count = 0 => window.started = 0
  /\ \A t \in Times :
       t > now \/ t >= window.started + Minute \/ window.count = 0 => Idle(accepted, t)
  /\ Total(accepted, window.started .. MaxTime) = Least(window.count, Limit)

(* The minute before the window saw no more than the limit either: the     *)
(* window before it began earlier than that.                               *)
BeforeInv ==
  \A t \in Times :
    t + Minute > window.started => Total(accepted, t .. (window.started - 1)) <= Limit

(* The two properties, in terms of totals.                                 *)
BurstInv ==
  \A t \in Times : Total(accepted, t .. Least(t + Minute - 1, MaxTime)) <= 2 * Limit
SpentInv ==
  refusedAt <= MaxTime =>
    Total(accepted, (IF refusedAt < Minute THEN 0 ELSE refusedAt + 1 - Minute) .. refusedAt)
      >= Limit

RateInv == RateTypeInv /\ WindowInv /\ BeforeInv /\ BurstInv /\ SpentInv

LEMMA RateInit == Init => RateInv
<1> SUFFICES ASSUME Init
             PROVE  RateInv
  OBVIOUS
<1>1. /\ now = 0 /\ window = [started |-> 0, count |-> 0]
      /\ accepted = <<>> /\ refusedAt = MaxTime + 1
  BY DEF Init, Times
<1>2. RateTypeInv
  BY <1>1, Parameters DEF RateTypeInv, Times
<1>3. PICK a : a = accepted
  OBVIOUS
<1>4. a \in Seq(Times) /\ \A t \in Times : Idle(a, t)
  BY <1>1, <1>3 DEF Idle
<1>5. \A i \in Nat, j \in Int : j <= MaxTime => Total(a, i .. j) = 0
  <2>1. ASSUME NEW i \in Nat, NEW j \in Int, j <= MaxTime
        PROVE  Total(a, i .. j) = 0
    BY <1>4, <2>1, ThroughNone
  <2>2. QED
    BY <2>1
<1>6. WindowInv
  BY <1>1, <1>3, <1>4, <1>5, Parameters DEF WindowInv, Least, Times
<1>7. BeforeInv
  BY <1>1, <1>3, <1>5, Parameters DEF BeforeInv, Times
<1>8. BurstInv
  <2>1. ASSUME NEW t \in Times
        PROVE  Total(a, t .. Least(t + Minute - 1, MaxTime)) <= 2 * Limit
    <3>1. t \in Nat /\ Least(t + Minute - 1, MaxTime) \in Int
          /\ Least(t + Minute - 1, MaxTime) <= MaxTime
      BY Parameters DEF Times, Least
    <3>2. Total(a, t .. Least(t + Minute - 1, MaxTime)) = 0
      BY <1>5, <3>1
    <3>3. QED
      BY <3>2, Parameters
  <2>2. QED
    BY <1>3, <2>1 DEF BurstInv
<1>9. SpentInv
  BY <1>1, Parameters DEF SpentInv
<1>10. QED
  BY <1>2, <1>6, <1>7, <1>8, <1>9 DEF RateInv

(* A request that is let through.                                          *)
LEMMA AllowStep == RateInv /\ Allow => RateInv'
<1> SUFFICES ASSUME RateInv, Allow
             PROVE  RateInv'
  OBVIOUS
<1>p. /\ Minute \in Nat \ {0} /\ Limit \in Nat \ {0} /\ MaxTime \in Nat /\ MaxRefused \in Nat
  BY Parameters
<1>a. PICK a : a = accepted
  OBVIOUS
<1>s. PICK s : s = window.started
  OBVIOUS
<1>k. PICK k : k = window.count
  OBVIOUS
<1>n. PICK n : n = now
  OBVIOUS
<1>t. /\ a \in Seq(Times) /\ n \in Times /\ n \in Nat /\ n <= MaxTime /\ s \in Nat /\ s <= n
      /\ k \in Nat /\ window = [started |-> s, count |-> k]
      /\ refusedAt \in (0 .. n) \cup {MaxTime + 1}
  BY <1>p, <1>a, <1>s, <1>k, <1>n DEF RateInv, RateTypeInv, Times
<1>w. /\ k = 0 => s = 0
      /\ \A t \in Times : t > n \/ t >= s + Minute \/ k = 0 => Idle(a, t)
      /\ Total(a, s .. MaxTime) = Least(k, Limit)
      /\ \A t \in Times : t + Minute > s => Total(a, t .. (s - 1)) <= Limit
  BY <1>a, <1>s, <1>k, <1>n DEF RateInv, WindowInv, BeforeInv
<1>o. \A t \in Times : Total(a, t .. Least(t + Minute - 1, MaxTime)) <= 2 * Limit
  BY <1>a DEF RateInv, BurstInv
<1>r. refusedAt <= MaxTime =>
        Total(a, (IF refusedAt < Minute THEN 0 ELSE refusedAt + 1 - Minute) .. refusedAt) >= Limit
  BY <1>a DEF RateInv, SpentInv
<1>b. PICK b : b = Append(a, n)
  OBVIOUS
<1>c. /\ accepted' = b /\ now' = n /\ refusedAt' = refusedAt
      /\ window' = Window /\ window'.count <= Limit
  BY <1>a, <1>n, <1>b DEF Allow, Within
<1>d. /\ b \in Seq(Times) /\ \A t \in Times : t # n => (Idle(b, t) <=> Idle(a, t))
      /\ \A i \in Nat, j \in Int : j <= MaxTime =>
           Total(b, i .. j) = Total(a, i .. j) + (IF n \in i .. j THEN 1 ELSE 0)
  BY <1>b, <1>t, ThroughOneMore
(* The window the request is counted in, and what it knows.                *)
<1>1. PICK u, m :
        /\ window' = [started |-> u, count |-> m]
        /\ u \in Nat /\ u <= n /\ m \in 1 .. Limit /\ n < u + Minute
        /\ Total(b, u .. MaxTime) = m
        /\ \A t \in Times : t > n \/ t >= u + Minute => Idle(b, t)
        /\ \A t \in Times : t + Minute > u => Total(b, t .. (u - 1)) <= Limit
  <2>1. CASE k = 0 \/ n - s >= Minute
    <3>1. window' = [started |-> n, count |-> 1]
      BY <1>s, <1>k, <1>n, <1>c, <2>1 DEF Window, Elapsed
    <3>2. \A t \in Times : t >= n => Idle(a, t)
      BY <1>p, <1>t, <1>w, <2>1 DEF Times
    <3>3. Total(a, n .. MaxTime) = 0
      BY <1>p, <1>t, <3>2, ThroughNone
    <3>4. Total(b, n .. MaxTime) = 1
      <4>1. n \in n .. MaxTime /\ MaxTime \in Int
        BY <1>p, <1>t
      <4>2. Total(b, n .. MaxTime) = Total(a, n .. MaxTime) + (IF n \in n .. MaxTime THEN 1 ELSE 0)
        BY <1>t, <1>d, <1>p
      <4>3. QED
        BY <3>3, <4>1, <4>2
    <3>5. \A t \in Times : t > n \/ t >= n + Minute => Idle(b, t)
      BY <1>p, <1>t, <1>d, <3>2 DEF Times
    <3>6. ASSUME NEW t \in Times, t + Minute > n
          PROVE  Total(b, t .. (n - 1)) <= Limit
      <4>1. t \in Nat /\ n - 1 \in Int /\ n - 1 <= MaxTime /\ n \notin t .. (n - 1)
        BY <1>p, <1>t DEF Times
      <4>2. Total(b, t .. (n - 1)) = Total(a, t .. (n - 1))
        <5>1. Total(b, t .. (n - 1)) = Total(a, t .. (n - 1)) + 0
          BY <1>d, <4>1
        <5>2. Total(a, t .. (n - 1)) \in Nat
          BY <1>t, <4>1, ThroughCounts
        <5>3. QED
          BY <5>1, <5>2
      <4>3. CASE k = 0
        <5>1. Total(a, t .. (n - 1)) = 0
          BY <1>t, <1>w, <4>1, <4>3, ThroughNone
        <5>2. QED
          BY <1>p, <4>2, <5>1
      <4>4. CASE k # 0 /\ n - s >= Minute
        <5>1. s <= t
          BY <1>p, <1>t, <3>6, <4>1, <4>4
        <5>2. Total(a, t .. (n - 1)) <= Total(a, s .. MaxTime)
          BY <1>p, <1>t, <4>1, <5>1, ThroughPart
        <5>3. Least(k, Limit) <= Limit
          BY <1>p, <1>t DEF Least
        <5>4. Total(a, t .. (n - 1)) \in Nat
          BY <1>t, <4>1, ThroughCounts
        <5>5. QED
          BY <1>p, <1>t, <1>w, <4>2, <5>2, <5>3, <5>4 DEF Least
      <4>5. QED
        BY <2>1, <4>3, <4>4
    <3>7. n < n + Minute /\ 1 \in 1 .. Limit /\ n <= n
      BY <1>p, <1>t
    <3>8. QED
      BY <1>t, <3>1, <3>4, <3>5, <3>6, <3>7
  <2>2. CASE k # 0 /\ ~(n - s >= Minute)
    <3>1. window' = [started |-> s, count |-> k + 1]
      BY <1>s, <1>k, <1>n, <1>c, <1>t, <2>2 DEF Window, Elapsed
    <3>2. k + 1 \in 1 .. Limit /\ n < s + Minute
      BY <1>p, <1>t, <1>c, <2>2, <3>1
    <3>3. Total(b, s .. MaxTime) = k + 1
      <4>1. n \in s .. MaxTime /\ MaxTime \in Int
        BY <1>p, <1>t
      <4>2. Total(b, s .. MaxTime) = Total(a, s .. MaxTime) + (IF n \in s .. MaxTime THEN 1 ELSE 0)
        BY <1>t, <1>d, <1>p
      <4>3. Least(k, Limit) = k
        BY <1>p, <1>t, <3>2 DEF Least
      <4>4. QED
        BY <1>w, <4>1, <4>2, <4>3
    <3>4. \A t \in Times : t > n \/ t >= s + Minute => Idle(b, t)
      BY <1>p, <1>t, <1>w, <1>d, <3>2 DEF Times
    <3>5. ASSUME NEW t \in Times, t + Minute > s
          PROVE  Total(b, t .. (s - 1)) <= Limit
      <4>1. t \in Nat /\ s - 1 \in Int /\ s - 1 <= MaxTime /\ n \notin t .. (s - 1)
        BY <1>p, <1>t DEF Times
      <4>2. Total(b, t .. (s - 1)) = Total(a, t .. (s - 1)) + 0
        BY <1>d, <4>1
      <4>3. Total(a, t .. (s - 1)) \in Nat
        BY <1>t, <4>1, ThroughCounts
      <4>4. QED
        BY <1>w, <3>5, <4>2, <4>3
    <3>6. QED
      BY <1>t, <3>1, <3>2, <3>3, <3>4, <3>5
  <2>3. QED
    BY <2>1, <2>2
<1>2. RateTypeInv'
  BY <1>p, <1>t, <1>c, <1>d, <1>1 DEF RateTypeInv, Times
<1>3. WindowInv'
  BY <1>p, <1>c, <1>1 DEF WindowInv, Least
<1>4. BeforeInv'
  BY <1>c, <1>1 DEF BeforeInv
<1>5. ASSUME NEW t \in Times
      PROVE  Total(b, t .. Least(t + Minute - 1, MaxTime)) <= 2 * Limit
  <2>1. PICK e : e = Least(t + Minute - 1, MaxTime)
    OBVIOUS
  <2>2. t \in Nat /\ e \in Nat /\ e <= MaxTime /\ t <= e /\ e <= t + Minute - 1
    BY <1>p, <2>1 DEF Least, Times
  <2>3. Total(a, t .. e) <= 2 * Limit /\ Total(a, t .. e) \in Nat
    BY <1>t, <1>o, <2>1, <2>2, ThroughCounts
  <2>4. CASE n \notin t .. e
    <3>1. Total(b, t .. e) = Total(a, t .. e) + 0
      BY <1>d, <2>2, <2>4
    <3>2. QED
      BY <2>1, <2>3, <3>1
  <2>5. CASE n \in t .. e /\ u <= t
    <3>1. Total(b, t .. e) <= Total(b, u .. MaxTime)
      BY <1>p, <1>d, <1>1, <2>2, <2>5, ThroughPart
    <3>2. Total(b, t .. e) \in Nat
      BY <1>d, <2>2, ThroughCounts
    <3>3. QED
      BY <1>p, <1>1, <2>1, <3>1, <3>2
  <2>6. CASE n \in t .. e /\ t < u
    <3>0. t <= u /\ u <= e + 1 /\ u \in Nat
      BY <1>t, <1>1, <2>2, <2>6
    <3>1. Total(b, t .. e) = Total(b, t .. (u - 1)) + Total(b, u .. e)
      BY <1>d, <2>2, <3>0, ThroughBoth
    <3>2. Total(b, t .. (u - 1)) <= Limit
      BY <1>p, <1>t, <1>1, <2>2, <2>6
    <3>3. Total(b, u .. e) <= Total(b, u .. MaxTime)
      BY <1>p, <1>d, <1>1, <2>2, ThroughPart
    <3>4. Total(b, u .. e) \in Nat /\ Total(b, t .. (u - 1)) \in Nat
      <4>1. e \in Int /\ u - 1 \in Int /\ u - 1 <= MaxTime
        BY <1>p, <1>t, <1>1, <2>2
      <4>2. Total(b, u .. e) \in Nat
        BY <1>d, <1>1, <2>2, <4>1, ThroughCounts
      <4>3. Total(b, t .. (u - 1)) \in Nat
        BY <1>d, <2>2, <4>1, ThroughCounts
      <4>4. QED
        BY <4>2, <4>3
    <3>5. QED
      BY <1>p, <1>1, <2>1, <3>1, <3>2, <3>3, <3>4
  <2>7. QED
    BY <1>1, <2>2, <2>4, <2>5, <2>6
<1>6. BurstInv'
  BY <1>c, <1>5 DEF BurstInv
<1>7. SpentInv'
  <2>1. SUFFICES ASSUME refusedAt <= MaxTime
                 PROVE  Total(b, (IF refusedAt < Minute THEN 0 ELSE refusedAt + 1 - Minute)
                                  .. refusedAt) >= Limit
    BY <1>c DEF SpentInv
  <2>2. PICK r : r = refusedAt
    OBVIOUS
  <2>3. PICK i : i = IF r < Minute THEN 0 ELSE r + 1 - Minute
    OBVIOUS
  <2>4. r \in Nat /\ r \in Int /\ i \in Nat /\ r <= MaxTime
    BY <1>p, <1>t, <2>1, <2>2, <2>3
  <2>5. Total(a, i .. r) >= Limit /\ Total(a, i .. r) \in Nat
    BY <1>t, <1>r, <2>1, <2>2, <2>3, <2>4, ThroughCounts
  <2>6. Total(b, i .. r) = Total(a, i .. r) + (IF n \in i .. r THEN 1 ELSE 0)
    BY <1>d, <2>4
  <2>7. QED
    BY <1>p, <2>2, <2>3, <2>5, <2>6
<1>8. QED
  BY <1>2, <1>3, <1>4, <1>6, <1>7 DEF RateInv

(* A request that is refused: the window is as old as it was, and full.    *)
LEMMA RefuseStep == RateInv /\ Refuse => RateInv'
<1> SUFFICES ASSUME RateInv, Refuse
             PROVE  RateInv'
  OBVIOUS
<1>p. /\ Minute \in Nat \ {0} /\ Limit \in Nat \ {0} /\ MaxTime \in Nat /\ MaxRefused \in Nat
  BY Parameters
<1>a. PICK a : a = accepted
  OBVIOUS
<1>s. PICK s : s = window.started
  OBVIOUS
<1>k. PICK k : k = window.count
  OBVIOUS
<1>n. PICK n : n = now
  OBVIOUS
<1>t. /\ a \in Seq(Times) /\ n \in Times /\ n \in Nat /\ n <= MaxTime /\ s \in Nat /\ s <= n
      /\ k \in Nat /\ window = [started |-> s, count |-> k]
  BY <1>p, <1>a, <1>s, <1>k, <1>n DEF RateInv, RateTypeInv, Times
<1>c. /\ accepted' = a /\ now' = n /\ refusedAt' = n
      /\ window' = Window /\ window'.count > Limit /\ window'.count <= Limit + MaxRefused
  <2>1. accepted' = a /\ now' = n /\ refusedAt' = n /\ window' = Window
    BY <1>a, <1>n DEF Refuse
  <2>2. ~(window'.count <= Limit) /\ window'.count <= Limit + MaxRefused
    BY DEF Refuse, Within
  <2>3. window'.count \in Nat
    BY <1>t, <2>1 DEF Window
  <2>4. QED
    BY <1>p, <2>1, <2>2, <2>3
<1>1. /\ k # 0 /\ n < s + Minute /\ window' = [started |-> s, count |-> k + 1]
      /\ k >= Limit /\ k + 1 <= Limit + MaxRefused
  <2>1. CASE k = 0 \/ n - s >= Minute
    BY <1>p, <1>s, <1>k, <1>n, <1>c, <2>1 DEF Window, Elapsed
  <2>2. CASE k # 0 /\ ~(n - s >= Minute)
    <3>1. window' = [started |-> s, count |-> k + 1]
      BY <1>s, <1>k, <1>n, <1>c, <1>t, <2>2 DEF Window, Elapsed
    <3>2. QED
      BY <1>p, <1>t, <1>c, <2>2, <3>1
  <2>3. QED
    BY <2>1, <2>2
<1>2. /\ \A t \in Times : t > n \/ t >= s + Minute => Idle(a, t)
      /\ Total(a, s .. MaxTime) = Limit
      /\ \A t \in Times : t + Minute > s => Total(a, t .. (s - 1)) <= Limit
      /\ \A t \in Times : Total(a, t .. Least(t + Minute - 1, MaxTime)) <= 2 * Limit
  <2>1. Total(a, s .. MaxTime) = Least(k, Limit)
    BY <1>a, <1>s, <1>k DEF RateInv, WindowInv
  <2>2. Least(k, Limit) = Limit
    BY <1>p, <1>t, <1>1 DEF Least
  <2>3. QED
    BY <1>a, <1>s, <1>n, <2>1, <2>2 DEF RateInv, WindowInv, BeforeInv, BurstInv
<1>3. RateTypeInv'
  BY <1>p, <1>t, <1>c, <1>1 DEF RateTypeInv, Times
<1>4. WindowInv'
  <2>1. Least(k + 1, Limit) = Limit
    BY <1>p, <1>t, <1>1 DEF Least
  <2>2. k + 1 # 0
    BY <1>t
  <2>3. QED
    BY <1>c, <1>1, <1>2, <2>1, <2>2 DEF WindowInv
<1>5. BeforeInv' /\ BurstInv'
  BY <1>c, <1>1, <1>2 DEF BeforeInv, BurstInv
<1>6. SpentInv'
  <2>1. PICK i : i = IF n < Minute THEN 0 ELSE n + 1 - Minute
    OBVIOUS
  <2>2. i \in Nat /\ i <= s
    BY <1>p, <1>t, <1>1, <2>1
  <2>3. Total(a, s .. n) = Limit
    <3>1. Total(a, s .. MaxTime) = Total(a, s .. n) + Total(a, (n + 1) .. MaxTime)
      <4>1. (n + 1) - 1 = n /\ n + 1 \in Nat /\ s <= n + 1 /\ n + 1 <= MaxTime + 1
        BY <1>p, <1>t
      <4>2. Total(a, s .. MaxTime)
              = Total(a, s .. ((n + 1) - 1)) + Total(a, (n + 1) .. MaxTime)
        BY <1>p, <1>t, <4>1, ThroughBoth
      <4>3. QED
        BY <4>1, <4>2
    <3>2. Total(a, (n + 1) .. MaxTime) = 0
      <4>1. \A t \in Times : n + 1 <= t => Idle(a, t)
        BY <1>t, <1>2 DEF Times
      <4>2. n + 1 \in Nat /\ MaxTime \in Int
        BY <1>p, <1>t
      <4>3. QED
        BY <1>p, <1>t, <4>1, <4>2, ThroughNone
    <3>3. Total(a, s .. n) \in Nat
      BY <1>p, <1>t, ThroughCounts
    <3>4. QED
      BY <1>2, <3>1, <3>2, <3>3
  <2>4. Total(a, s .. n) <= Total(a, i .. n)
    BY <1>p, <1>t, <2>2, ThroughPart
  <2>5. Total(a, i .. n) \in Nat
    BY <1>p, <1>t, <2>2, ThroughCounts
  <2>6. Total(a, i .. n) >= Limit
    BY <1>p, <2>3, <2>4, <2>5
  <2>7. QED
    BY <1>c, <2>1, <2>6 DEF SpentInv
<1>7. QED
  BY <1>3, <1>4, <1>5, <1>6 DEF RateInv

LEMMA TickStep == RateInv /\ Tick => RateInv'
<1> SUFFICES ASSUME RateInv, Tick
             PROVE  RateInv'
  OBVIOUS
<1>1. /\ now' = now + 1 /\ now < MaxTime /\ now \in Nat /\ MaxTime \in Nat
      /\ window' = window /\ accepted' = accepted /\ refusedAt' = refusedAt
  BY Parameters DEF Tick, RateInv, RateTypeInv, Times
<1>2. RateTypeInv'
  BY <1>1 DEF RateInv, RateTypeInv, Times
<1>3. WindowInv'
  BY <1>1 DEF RateInv, WindowInv, Times
<1>4. BeforeInv' /\ BurstInv' /\ SpentInv'
  BY <1>1 DEF RateInv, BeforeInv, BurstInv, SpentInv
<1>5. QED
  BY <1>2, <1>3, <1>4 DEF RateInv

LEMMA RateStep == RateInv /\ [Next]_vars => RateInv'
<1>1. ASSUME UNCHANGED rate
      PROVE  RateInv => RateInv'
  BY <1>1 DEF rate, RateInv, RateTypeInv, WindowInv, BeforeInv, BurstInv, SpentInv
<1>2. [Next]_vars => Allow \/ Refuse \/ Tick \/ UNCHANGED rate
  BY DEF Next, vars, Request, Other, Page, Writer, Write, TakeOut
<1>3. QED
  BY <1>1, <1>2, AllowStep, RefuseStep, TickStep

LEMMA RateAlways == Spec => []RateInv
BY RateInit, RateStep, PTL DEF Spec

(* The count in the properties is the one the lemmas speak of.               *)
LEMMA ThroughIsTotal ==
  ASSUME NEW i, NEW j
  PROVE  Through(i, j) = Total(accepted, i .. j)
BY DEF Through, Total, Passed

(* For every limit and length of a minute: no more than twice the limit    *)
(* passes in a minute, counted from any moment.                            *)
THEOREM BurstsAreBounded == Spec => []BurstBounded
<1>1. RateInv => BurstBounded
  BY ThroughIsTotal DEF RateInv, BurstInv, BurstBounded, Times
<1>2. QED
  BY RateAlways, <1>1, PTL

(* And a 429 means that the whole limit has passed in the minute before.   *)
THEOREM RefusalsAreEarned == Spec => []RefusedOnlyWhenSpent
<1>1. RateInv => RefusedOnlyWhenSpent
  BY ThroughIsTotal DEF RateInv, SpentInv, RefusedOnlyWhenSpent
<1>2. QED
  BY RateAlways, <1>1, PTL

-----------------------------------------------------------------------------
(* Lists                                                                   *)

(* Every set of numbers has a least one.                                   *)
LEMMA LeastNatural ==
  ASSUME NEW T \in SUBSET Nat, T # {}
  PROVE  \E x \in T : \A y \in T : x <= y
<1> DEFINE R == {p \in Nat \X Nat : p[1] < p[2]}
<1>1. IsWellFoundedOn(R, Nat)
  BY NatLessThanWellFounded DEF OpToRel
<1>2. PICK x \in T : \A y \in T : <<y, x>> \notin R
  BY <1>1, WFMin, T \subseteq Nat
<1>3. ASSUME NEW y \in T
      PROVE  x <= y
  <2>1. y < x => <<y, x>> \in R
    OBVIOUS
  <2>2. QED
    BY <1>2, <2>1
<1>4. QED
  BY <1>3

(* Taking an item out moves what is behind it up by one.                   *)
LEMMA RemoveFirstIs ==
  ASSUME NEW S, NEW s \in Seq(S), NEW e
  PROVE  \/ RemoveFirst(s, e) = s
         \/ \E k \in 1 .. Len(s) :
              /\ s[k] = e
              /\ RemoveFirst(s, e) \in Seq(S) /\ Len(RemoveFirst(s, e)) = Len(s) - 1
              /\ \A j \in 1 .. Len(s) - 1 :
                   RemoveFirst(s, e)[j] = IF j < k THEN s[j] ELSE s[j + 1]
<1>1. SUFFICES ASSUME \E i \in 1 .. Len(s) : s[i] = e
               PROVE  \E k \in 1 .. Len(s) :
                        /\ s[k] = e
                        /\ RemoveFirst(s, e) \in Seq(S) /\ Len(RemoveFirst(s, e)) = Len(s) - 1
                        /\ \A j \in 1 .. Len(s) - 1 :
                             RemoveFirst(s, e)[j] = IF j < k THEN s[j] ELSE s[j + 1]
  BY DEF RemoveFirst
<1>2. PICK I : I = {i \in 1 .. Len(s) : s[i] = e}
  OBVIOUS
<1>3. PICK k : k = Min(I)
  OBVIOUS
<1>4. RemoveFirst(s, e) = RemoveAt(s, k)
  <2>1. I # {}
    BY <1>1, <1>2
  <2>2. SelectInSeq(s, LAMBDA v : v = e) = Min(I)
    BY <1>2, <2>1 DEF SelectInSeq
  <2>3. QED
    BY <1>1, <1>3, <2>2 DEF RemoveFirst
<1>5. k \in I
  <2>1. I \in SUBSET Nat /\ I # {}
    BY <1>1, <1>2
  <2>2. \E x \in I : \A y \in I : x <= y
    BY <2>1, LeastNatural
  <2>3. QED
    BY <1>3, <2>2 DEF Min
<1>6. k \in 1 .. Len(s) /\ s[k] = e /\ Len(s) \in Nat
  BY <1>2, <1>5
<1>7. PICK f : f = SubSeq(s, 1, k - 1)
  OBVIOUS
<1>8. PICK g : g = SubSeq(s, k + 1, Len(s))
  OBVIOUS
<1>9. f \in Seq(S) /\ Len(f) = k - 1 /\ \A i \in 1 .. k - 1 : f[i] = s[i]
  <2>1. \A i \in 1 .. (k - 1) : s[i] \in S
    BY <1>6
  <2>2. 1 \in Int /\ k - 1 \in Int
    BY <1>6
  <2>3. /\ f \in Seq(S)
        /\ Len(f) = (IF 1 <= k - 1 THEN (k - 1) - 1 + 1 ELSE 0)
        /\ \A i \in 1 .. (k - 1) - 1 + 1 : f[i] = s[1 + i - 1]
    BY <1>7, <2>1, <2>2, SubSeqProperties
  <2>4. QED
    BY <1>6, <2>3
<1>10. g \in Seq(S) /\ Len(g) = Len(s) - k /\ \A i \in 1 .. Len(s) - k : g[i] = s[k + i]
  <2>1. \A i \in (k + 1) .. Len(s) : s[i] \in S
    BY <1>6
  <2>2. k + 1 \in Int /\ Len(s) \in Int
    BY <1>6
  <2>3. /\ g \in Seq(S)
        /\ Len(g) = (IF k + 1 <= Len(s) THEN Len(s) - (k + 1) + 1 ELSE 0)
        /\ \A i \in 1 .. Len(s) - (k + 1) + 1 : g[i] = s[(k + 1) + i - 1]
    BY <1>8, <2>1, <2>2, SubSeqProperties
  <2>4. QED
    BY <1>6, <2>3
<1>11. RemoveFirst(s, e) = f \o g
  BY <1>4, <1>7, <1>8 DEF RemoveAt
<1>12. PICK r : r = f \o g
  OBVIOUS
<1>13. /\ r \in Seq(S) /\ Len(r) = Len(s) - 1
       /\ \A i \in 1 .. Len(f) + Len(g) :
            r[i] = IF i <= Len(f) THEN f[i] ELSE g[i - Len(f)]
  <2>1. /\ f \o g \in Seq(S) /\ Len(f \o g) = Len(f) + Len(g)
        /\ \A i \in 1 .. Len(f) + Len(g) :
             (f \o g)[i] = IF i <= Len(f) THEN f[i] ELSE g[i - Len(f)]
    BY <1>9, <1>10, ConcatProperties
  <2>2. Len(f) + Len(g) = Len(s) - 1
    BY <1>6, <1>9, <1>10
  <2>3. QED
    BY <1>12, <2>1, <2>2
<1>14. ASSUME NEW j \in 1 .. Len(s) - 1
       PROVE  r[j] = IF j < k THEN s[j] ELSE s[j + 1]
  <2>0. r[j] = IF j <= k - 1 THEN f[j] ELSE g[j - (k - 1)]
    <3>1. j \in 1 .. Len(f) + Len(g)
      BY <1>6, <1>9, <1>10
    <3>2. QED
      BY <1>9, <1>13, <3>1
  <2>1. CASE j < k
    <3>1. j \in 1 .. k - 1 /\ j <= k - 1
      BY <1>6, <2>1
    <3>2. QED
      BY <1>9, <2>0, <2>1, <3>1
  <2>2. CASE j >= k
    <3>1. r[j] = g[j - (k - 1)] /\ j - (k - 1) \in 1 .. Len(s) - k
      BY <1>6, <2>0, <2>2
    <3>2. k + (j - (k - 1)) = j + 1
      BY <1>6
    <3>3. QED
      BY <1>6, <1>10, <2>2, <3>1, <3>2
  <2>3. QED
    BY <1>6, <2>1, <2>2
<1>15. QED
  BY <1>6, <1>11, <1>12, <1>13, <1>14

-----------------------------------------------------------------------------
(* The walk over the pages                                                 *)

WalkTypeInv ==
  /\ list \in Seq(Items) /\ served \in Seq(Items)
  /\ writes \in 0 .. MaxWrites /\ removed \in SUBSET Items /\ touched \in SUBSET Items
  /\ cursor \in Nat \cup {None}

(* A write puts nothing that it does not touch behind the cursor, as long  *)
(* as no item leaves the list: what is behind has been served.             *)
Behind(p) == cursor = None \/ p <= cursor
ServedInv ==
  removed = {} => \A p \in 1 .. Len(list) :
    list[p] \notin touched /\ Behind(p) => list[p] \in Range(served)

(* Without a write the pages are the list up to the cursor.                *)
WholeInv ==
  touched = {} =>
    /\ cursor # None => cursor <= Len(list) /\ served = SubSeq(list, 1, cursor)
    /\ cursor = None => served = list

WalkInv == WalkTypeInv /\ ServedInv /\ WholeInv

LEMMA WalkInit == Init => WalkInv
<1> SUFFICES ASSUME Init
             PROVE  WalkInv
  OBVIOUS
<1>1. list \in Seq(Items)
  <2>1. PICK present \in SUBSET Items : list \in SetToSeqs(present)
    BY DEF Init
  <2>2. Cardinality(present) \in Nat
    BY Parameters, FS_Subset, FS_CardinalityType
  <2>3. list \in [1 .. Cardinality(present) -> present]
    BY <2>1 DEF SetToSeqs
  <2>4. list \in [1 .. Cardinality(present) -> Items]
    BY <2>3
  <2>5. QED
    BY <2>2, <2>4
<1>2. cursor = 0 /\ cursor # None /\ served = <<>> /\ touched = {}
      /\ removed = {} /\ writes = 0
  BY Parameters DEF Init
<1>3. WalkTypeInv
  BY <1>1, <1>2, Parameters DEF WalkTypeInv
<1>4. ServedInv
  BY <1>2 DEF ServedInv, Behind
<1>5. WholeInv
  <2>1. SubSeq(list, 1, 0) = <<>>
    BY SubSeqEmpty
  <2>2. Len(list) \in Nat
    BY <1>1
  <2>3. QED
    BY <1>2, <2>1, <2>2 DEF WholeInv
<1>6. QED
  BY <1>3, <1>4, <1>5 DEF WalkInv

LEMMA PageStep == WalkInv /\ Page => WalkInv'
<1> SUFFICES ASSUME WalkInv, Page
             PROVE  WalkInv'
  OBVIOUS
<1>0. PICK size \in Sizes :
        \E o, e :
          /\ o = Least(cursor, Len(list)) /\ e = Least(o + PageSize(size), Len(list))
          /\ served' = served \o SubSeq(list, o + 1, e)
          /\ cursor' = IF e < Len(list) THEN e ELSE None
  BY DEF Page, NextCursor
<1>1. PICK o, e :
        /\ o = Least(cursor, Len(list)) /\ e = Least(o + PageSize(size), Len(list))
        /\ served' = served \o SubSeq(list, o + 1, e)
        /\ cursor' = IF e < Len(list) THEN e ELSE None
  BY <1>0
<1>2. PICK L : L = list
  OBVIOUS
<1>3. PICK c : c = cursor
  OBVIOUS
<1>4. PICK z : z = served
  OBVIOUS
<1>5. /\ L \in Seq(Items) /\ z \in Seq(Items) /\ Len(L) \in Nat /\ c \in Nat /\ c # None
      /\ list' = L /\ writes' = writes /\ removed' = removed /\ touched' = touched
  BY <1>2, <1>3, <1>4 DEF WalkInv, WalkTypeInv, Page, items
<1>6. PICK n : n = PageSize(size)
  OBVIOUS
<1>7. n \in Nat
  BY <1>6, Parameters DEF PageSize
<1>8. /\ o \in Nat /\ e \in Nat /\ o <= e /\ e <= Len(L) /\ o <= c
      /\ c <= Len(L) => o = c
      /\ o # c => o = Len(L)
  BY <1>1, <1>2, <1>3, <1>5, <1>6, <1>7 DEF Least
<1>9. PICK g : g = SubSeq(L, o + 1, e)
  OBVIOUS
<1>10. /\ g \in Seq(Items) /\ \A i \in 1 .. (e - o) : g[i] = L[o + i]
       /\ Len(g) = e - o
  <2>1. \A i \in (o + 1) .. e : L[i] \in Items
    BY <1>5, <1>8
  <2>2. o + 1 \in Int /\ e \in Int
    BY <1>8
  <2>3. /\ g \in Seq(Items)
        /\ Len(g) = (IF o + 1 <= e THEN e - (o + 1) + 1 ELSE 0)
        /\ \A i \in 1 .. e - (o + 1) + 1 : g[i] = L[(o + 1) + i - 1]
    BY <1>9, <2>1, <2>2, SubSeqProperties
  <2>4. /\ e - (o + 1) + 1 = e - o /\ (o + 1 <= e \/ e - o = 0)
        /\ \A i \in 1 .. (e - o) : (o + 1) + i - 1 = o + i
    BY <1>8
  <2>5. QED
    BY <2>3, <2>4
<1>11. served' = z \o g /\ z \o g \in Seq(Items) /\ Range(z \o g) = Range(z) \cup Range(g)
  <2>1. served' = z \o g
    BY <1>1, <1>2, <1>4, <1>9
  <2>2. z \o g \in Seq(Items)
    BY <1>5, <1>10, ConcatProperties
  <2>3. Range(z \o g) = Range(z) \cup Range(g)
    BY <1>5, <1>10, RangeConcatenation
  <2>4. QED
    BY <2>1, <2>2, <2>3
<1>12. cursor' \in Nat \cup {None} /\ (cursor' # None => cursor' = e) /\ (cursor' = None => e = Len(L))
  BY <1>1, <1>2, <1>5, <1>8, Parameters
<1>13. WalkTypeInv'
  BY <1>5, <1>11, <1>12 DEF WalkInv, WalkTypeInv
<1>14. ServedInv'
  <2>1. ASSUME removed = {}, NEW p \in 1 .. Len(L), L[p] \notin touched, p <= e
        PROVE  L[p] \in Range(served')
    <3>1. CASE p <= o
      <4>1. p <= c
        BY <1>5, <1>8, <3>1
      <4>2. L[p] \in Range(z)
        BY <1>2, <1>3, <1>4, <2>1, <4>1 DEF WalkInv, ServedInv, Behind
      <4>3. QED
        BY <1>11, <4>2
    <3>2. CASE p > o
      <4>1. p - o \in 1 .. (e - o) /\ o + (p - o) = p
        BY <1>5, <1>8, <2>1, <3>2
      <4>2. g[p - o] = L[p] /\ p - o \in 1 .. Len(g)
        BY <1>10, <4>1
      <4>3. L[p] \in Range(g)
        BY <1>10, <4>2, RangeEquality
      <4>4. QED
        BY <1>11, <4>3
    <3>3. QED
      BY <1>8, <3>1, <3>2
  <2>2. \A p \in 1 .. Len(L) : cursor' = None \/ p <= cursor' => p <= e
    BY <1>5, <1>8, <1>12
  <2>3. QED
    BY <1>5, <2>1, <2>2 DEF ServedInv, Behind
<1>15. WholeInv'
  <2>1. SUFFICES ASSUME touched = {}
                 PROVE  /\ cursor' # None => cursor' <= Len(L) /\ served' = SubSeq(L, 1, cursor')
                        /\ cursor' = None => served' = L
    BY <1>5 DEF WholeInv
  <2>2. c <= Len(L) /\ z = SubSeq(L, 1, c)
    BY <1>2, <1>3, <1>4, <1>5, <2>1 DEF WalkInv, WholeInv
  <2>3. o = c /\ c \in (1 - 1) .. Len(L) /\ e \in c .. Len(L) /\ 1 \in 1 .. Len(L) + 1
    BY <1>5, <1>8, <2>2
  <2>4. SubSeq(L, 1, c) \o SubSeq(L, c + 1, e) = SubSeq(L, 1, e)
    BY <1>5, <2>3, ConcatAdjacentSubSeq
  <2>5. served' = SubSeq(L, 1, e)
    BY <1>9, <1>11, <2>2, <2>3, <2>4
  <2>6. SubSeq(L, 1, Len(L)) = L
    BY <1>5, SubSeqFull
  <2>7. QED
    BY <1>8, <1>12, <2>5, <2>6
<1>16. QED
  BY <1>13, <1>14, <1>15 DEF WalkInv

LEMMA WriteStep == ASSUME NEW i \in Items PROVE WalkInv /\ cursor # None /\ Write(i) => WalkInv'
<1> SUFFICES ASSUME WalkInv, cursor # None, Write(i)
             PROVE  WalkInv'
  OBVIOUS
<1>1. PICK L : L = list
  OBVIOUS
<1>2. PICK r : r = RemoveFirst(L, i)
  OBVIOUS
<1>3. PICK c : c = cursor
  OBVIOUS
<1>4. /\ L \in Seq(Items) /\ Len(L) \in Nat /\ c \in Nat
      /\ list' = <<i>> \o r /\ touched' = touched \cup {i} /\ removed' = removed
      /\ cursor' = c /\ served' = served /\ c # None
      /\ writes' = writes + 1 /\ writes < MaxWrites
  BY <1>1, <1>2, <1>3 DEF WalkInv, WalkTypeInv, Write, walk
<1>5. /\ r \in Seq(Items) /\ Len(r) \in Nat
      /\ \A j \in 1 .. Len(r) : \E q \in 1 .. Len(L) : q <= j + 1 /\ L[q] = r[j]
  <2>1. CASE r = L
    BY <1>4, <2>1
  <2>2. ASSUME NEW k \in 1 .. Len(L), r \in Seq(Items), Len(r) = Len(L) - 1,
               \A j \in 1 .. Len(L) - 1 : r[j] = IF j < k THEN L[j] ELSE L[j + 1]
        PROVE  \A j \in 1 .. Len(r) : \E q \in 1 .. Len(L) : q <= j + 1 /\ L[q] = r[j]
    <3>1. ASSUME NEW j \in 1 .. Len(L) - 1
          PROVE  \E q \in 1 .. Len(L) : q <= j + 1 /\ L[q] = r[j]
      <4>1. j \in 1 .. Len(L) /\ j + 1 \in 1 .. Len(L) /\ j <= j + 1 /\ j + 1 <= j + 1
        BY <1>4
      <4>2. CASE j < k
        BY <2>2, <4>1, <4>2
      <4>3. CASE ~(j < k)
        BY <2>2, <4>1, <4>3
      <4>4. QED
        BY <4>2, <4>3
    <3>2. QED
      BY <2>2, <3>1
  <2>3. \/ r = L
        \/ \E k \in 1 .. Len(L) :
             /\ r \in Seq(Items) /\ Len(r) = Len(L) - 1
             /\ \A j \in 1 .. Len(L) - 1 : r[j] = IF j < k THEN L[j] ELSE L[j + 1]
    <3>1. \/ RemoveFirst(L, i) = L
          \/ \E k \in 1 .. Len(L) :
              /\ L[k] = i
              /\ RemoveFirst(L, i) \in Seq(Items) /\ Len(RemoveFirst(L, i)) = Len(L) - 1
              /\ \A j \in 1 .. Len(L) - 1 :
                   RemoveFirst(L, i)[j] = IF j < k THEN L[j] ELSE L[j + 1]
      BY <1>4, RemoveFirstIs
    <3>2. QED
      BY <1>2, <3>1
  <2>4. CASE r # L
    <3>1. PICK k \in 1 .. Len(L) :
            /\ r \in Seq(Items) /\ Len(r) = Len(L) - 1
            /\ \A j \in 1 .. Len(L) - 1 : r[j] = IF j < k THEN L[j] ELSE L[j + 1]
      BY <2>3, <2>4
    <3>2. Len(r) \in Nat
      BY <3>1
    <3>3. QED
      BY <2>2, <3>1, <3>2
  <2>5. QED
    BY <2>1, <2>4
<1>6. PICK f : f = <<i>> \o r
  OBVIOUS
<1>7. /\ f \in Seq(Items) /\ Len(f) = Len(r) + 1 /\ f[1] = i
      /\ \A p \in 2 .. Len(r) + 1 : f[p] = r[p - 1]
  <2>1. <<i>> \in Seq(Items) /\ Len(<<i>>) = 1 /\ <<i>>[1] = i
    OBVIOUS
  <2>2. /\ f \in Seq(Items) /\ Len(f) = Len(<<i>>) + Len(r)
        /\ \A p \in 1 .. Len(<<i>>) + Len(r) :
             f[p] = IF p <= Len(<<i>>) THEN <<i>>[p] ELSE r[p - Len(<<i>>)]
    BY <1>5, <1>6, <2>1, ConcatProperties
  <2>3. \A p \in 1 .. 1 + Len(r) : f[p] = IF p <= 1 THEN <<i>>[p] ELSE r[p - 1]
    BY <2>1, <2>2
  <2>4. 1 \in 1 .. 1 + Len(r) /\ \A p \in 2 .. Len(r) + 1 : p \in 1 .. 1 + Len(r) /\ ~(p <= 1)
    BY <1>5
  <2>5. QED
    BY <1>5, <2>1, <2>2, <2>3, <2>4
<1>8. WalkTypeInv'
  BY <1>4, <1>6, <1>7, Parameters DEF WalkInv, WalkTypeInv
<1>9. ServedInv'
  <2>1. ASSUME removed = {}, NEW p \in 1 .. Len(f), f[p] \notin touched \cup {i}, p <= c
        PROVE  f[p] \in Range(served)
    <3>1. p \in 2 .. Len(r) + 1 /\ p - 1 \in 1 .. Len(r)
      BY <1>5, <1>7, <2>1
    <3>2. PICK q \in 1 .. Len(L) : q <= (p - 1) + 1 /\ L[q] = r[p - 1]
      BY <1>5, <3>1
    <3>3. q <= c /\ L[q] = f[p]
      BY <1>4, <1>7, <2>1, <3>1, <3>2
    <3>4. QED
      BY <1>1, <1>3, <2>1, <3>2, <3>3 DEF WalkInv, ServedInv, Behind
  <2>2. QED
    BY <1>4, <1>6, <2>1 DEF ServedInv, Behind
<1>10. WholeInv'
  BY <1>4 DEF WholeInv
<1>11. QED
  BY <1>8, <1>9, <1>10 DEF WalkInv

LEMMA TakeOutStep == ASSUME NEW i \in Items PROVE WalkInv /\ TakeOut(i) => WalkInv'
<1> SUFFICES ASSUME WalkInv, TakeOut(i)
             PROVE  WalkInv'
  OBVIOUS
<1>1. PICK r : r = RemoveFirst(list, i)
  OBVIOUS
<1>2. /\ list \in Seq(Items) /\ list' = r /\ touched' = touched \cup {i}
      /\ removed' = removed \cup {i} /\ cursor' = cursor /\ served' = served
      /\ writes' = writes + 1 /\ writes < MaxWrites
  BY <1>1 DEF WalkInv, WalkTypeInv, TakeOut, walk
<1>3. r \in Seq(Items)
  BY <1>1, <1>2, RemoveFirstIs
<1>4. WalkTypeInv'
  BY <1>2, <1>3, Parameters DEF WalkInv, WalkTypeInv
<1>5. ServedInv' /\ WholeInv'
  BY <1>2 DEF ServedInv, WholeInv
<1>6. QED
  BY <1>4, <1>5 DEF WalkInv

LEMMA WalkStep == WalkInv /\ [Next]_vars => WalkInv'
<1>1. ASSUME UNCHANGED <<items, walk>>
      PROVE  WalkInv => WalkInv'
  BY <1>1 DEF items, walk, WalkInv, WalkTypeInv, ServedInv, WholeInv, Behind
<1>2. [Next]_vars => \/ Page \/ UNCHANGED <<items, walk>>
                     \/ \E i \in Items : cursor # None /\ (Write(i) \/ TakeOut(i))
  BY DEF Next, vars, Request, Other, Refuse, Tick, Writer
<1>3. QED
  BY <1>1, <1>2, PageStep, WriteStep, TakeOutStep

LEMMA WalkAlways == Spec => []WalkInv
BY WalkInit, WalkStep, PTL DEF Spec

(* Whatever the sizes of the pages and whatever is written in between: a   *)
(* walk that ends has served every item nobody wrote, unless one left the  *)
(* list.                                                                   *)
THEOREM WalksAreWhole == Spec => []NoItemSkipped
<1>1. WalkInv => NoItemSkipped
  <2> SUFFICES ASSUME WalkInv, cursor = None
               PROVE  /\ removed = {} => Range(list) \ touched \subseteq Range(served)
                      /\ touched = {} => served = list
    BY DEF NoItemSkipped
  <2>1. Range(list) = {list[p] : p \in 1 .. Len(list)}
    BY RangeEquality DEF WalkInv, WalkTypeInv
  <2>2. QED
    BY <2>1 DEF WalkInv, ServedInv, WholeInv, Behind
<1>2. QED
  BY WalkAlways, <1>1, PTL

-----------------------------------------------------------------------------
(* Type correctness                                                        *)

(* The counter never passes what it is compared with by more than the     *)
(* refusals, and the cursor and the pages keep their types.                *)
THEOREM GatewayTypeCorrect == Spec => []TypeOK
<1>1. RateInv /\ WalkInv => TypeOK
  <2> SUFFICES ASSUME RateInv, WalkInv
               PROVE  TypeOK
    OBVIOUS
  <2>2. accepted \in Seq(0 .. MaxTime)
    BY DEF RateInv, RateTypeInv, Times
  <2>3. refusedAt \in 0 .. MaxTime + 1
    BY Parameters DEF RateInv, RateTypeInv, Times
  <2>4. now \in 0 .. MaxTime
        /\ window \in [started : 0 .. MaxTime, count : 0 .. Limit + MaxRefused]
    BY DEF RateInv, RateTypeInv, Times
  <2>5. QED
    BY <2>2, <2>3, <2>4 DEF TypeOK, WalkInv, WalkTypeInv
<1>2. QED
  BY RateAlways, WalkAlways, <1>1, PTL
=============================================================================
