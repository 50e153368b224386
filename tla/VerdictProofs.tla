--------------------------- MODULE VerdictProofs ---------------------------
(***************************************************************************)
(* What a verdict may say, for any assertions, faults and answers of the   *)
(* tools: a green run was earned, a cause has its evidence, and the exit   *)
(* codes separate the tool's failures from the service's.                  *)
(***************************************************************************)
EXTENDS Verdict, TraceChain, OrderFacts, SequenceTheorems

(* Every member of S, once each.                                            *)
Lists(q, S) == /\ q \in Seq(S)
               /\ \A x \in S : \E k \in 1..Len(q) : q[k] = x
               /\ \A j, k \in 1..Len(q) : q[j] = q[k] => j = k

(* How many members of S are smaller than x.                                *)
Below(S, x) == Cardinality({y \in S : y < x})

-----------------------------------------------------------------------------
(* A member of a finite set has fewer members below it than a greater one,  *)
(* and fewer than there are.                                                *)
LEMMA BelowGrows ==
    ASSUME NEW S \in SUBSET Nat, IsFiniteSet(S), NEW x \in S
    PROVE  /\ Below(S, x) \in Nat /\ Below(S, x) < Cardinality(S)
           /\ \A z \in S : x < z => Below(S, x) < Below(S, z)
<1> DEFINE L(z) == {y \in S : y < z}
<1>1. \A z \in S : IsFiniteSet(L(z)) /\ Cardinality(L(z)) \in Nat
  <2> TAKE z \in S
  <2>1. L(z) \in SUBSET S
    OBVIOUS
  <2> HIDE DEF L
  <2> QED
    BY <2>1, FS_Subset, FS_CardinalityType
<1>2. Cardinality(S) \in Nat
  BY FS_CardinalityType
<1>3. L(x) \in SUBSET S /\ x \notin L(x)
  OBVIOUS
<1>4. Cardinality(L(x)) < Cardinality(S)
  <2> HIDE DEF L
  <2>1. Cardinality(L(x)) <= Cardinality(S) /\ Cardinality(L(x)) # Cardinality(S)
    BY <1>3, FS_Subset
  <2> QED
    BY <1>1, <1>2, <2>1
<1>5. ASSUME NEW z \in S, x < z PROVE Cardinality(L(x)) < Cardinality(L(z))
  <2>0. \A y \in S : y \in Int
    OBVIOUS
  <2>3. \A y \in S : y < x => y < z
    BY <1>5, <2>0
  <2>4. x \in L(z) /\ x \notin L(x)
    BY <1>5, <2>0
  <2>1. L(x) \in SUBSET L(z) /\ x \in L(z) /\ x \notin L(x)
    BY <2>3, <2>4
  <2> HIDE DEF L
  <2>2. Cardinality(L(x)) <= Cardinality(L(z)) /\ Cardinality(L(x)) # Cardinality(L(z))
    BY <1>1, <2>1, FS_Subset
  <2> QED
    BY <1>1, <2>2
<1> HIDE DEF L
<1>6. \A z : Below(S, z) = Cardinality(L(z))
  BY DEF Below, L
<1> QED
  BY <1>1, <1>4, <1>5, <1>6

(* The order of `assert:` exists: Of(S) is the members of S, once each.     *)
LEMMA OfLists ==
    ASSUME NEW S \in SUBSET Nat, IsFiniteSet(S)
    PROVE  /\ Lists(Of(S), S) /\ Len(Of(S)) = Cardinality(S)
           /\ Of(S) \in [1..Cardinality(S) -> S]
<1> DEFINE n == Cardinality(S)
           r == [x \in S |-> Below(S, x) + 1]
<1>1. n \in Nat /\ IsFiniteSet(1..n) /\ Cardinality(1..n) = n
  BY FS_CardinalityType, FS_Interval
<1>2. \A x \in S : r[x] \in 1..n
  <2> TAKE x \in S
  <2>1. Below(S, x) \in Nat /\ Below(S, x) < n
    BY BelowGrows
  <2> HIDE DEF n
  <2> QED
    BY <1>1, <2>1
<1>3. \A x, z \in S : x < z => r[x] < r[z]
  <2> TAKE x, z \in S
  <2>1. /\ Below(S, x) \in Nat /\ Below(S, z) \in Nat
        /\ x < z => Below(S, x) < Below(S, z)
    BY BelowGrows
  <2> QED
    BY <2>1
<1>4. r \in [S -> 1..n]
  BY <1>2
<1> HIDE DEF n, r
<1>5. \A x, z \in S : r[x] = r[z] => x = z
  <2> TAKE x, z \in S
  <2>1. x \in Nat /\ z \in Nat /\ r[x] \in Nat /\ r[z] \in Nat
    BY <1>1, <1>2
  <2> QED
    BY <1>3, <2>1
<1>6. r \in Injection(S, 1..n)
  BY <1>4, <1>5 DEF Injection, IsInjective
<1>7. r \in Surjection(S, 1..n)
  BY <1>1, <1>6, FS_Injection DEF n
<1>8. \A k \in 1..n : \E x \in S : r[x] = k
  BY <1>7 DEF Surjection
<1> DEFINE f == [k \in 1..n |-> CHOOSE x \in S : r[x] = k]
<1>9. \A k \in 1..n : f[k] \in S /\ r[f[k]] = k
  BY <1>8
<1>10. f \in [1..n -> S]
  BY <1>9
<1> HIDE DEF f
<1>11. \A j, k \in 1..n : j < k => f[j] < f[k]
  <2> TAKE j, k \in 1..n
  <2> SUFFICES ASSUME j < k PROVE f[j] < f[k]
    OBVIOUS
  <2>1. /\ f[j] \in Nat /\ f[k] \in Nat /\ f[j] \in S /\ f[k] \in S
        /\ r[f[j]] = j /\ r[f[k]] = k /\ j \in Int /\ k \in Int
    <3>1. f[j] \in S /\ f[k] \in S /\ r[f[j]] = j /\ r[f[k]] = k
      BY <1>9
    <3>2. f[j] \in Nat /\ f[k] \in Nat
      BY <3>1
    <3>3. j \in Int /\ k \in Int
      BY <1>1
    <3> QED
      BY <3>1, <3>2, <3>3
  <2>2. f[j] # f[k]
    BY <2>1
  <2>3. ~(f[k] < f[j])
    BY <1>3, <2>1
  <2> QED
    BY <2>1, <2>2, <2>3
<1>12. DOMAIN f = 1..n
  BY <1>10
<1>13. /\ Of(S) \in [1..n -> S]
       /\ \A j, k \in DOMAIN Of(S) : j < k => Of(S)[j] < Of(S)[k]
  <2>1. \E q \in [1..n -> S] : \A j, k \in DOMAIN q : j < k => q[j] < q[k]
    BY <1>10, <1>11, <1>12
  <2> QED
    BY <2>1 DEF Of, n
<1> DEFINE q == Of(S)
<1>14. q \in [1..n -> S] /\ \A j, k \in 1..n : j < k => q[j] < q[k]
  BY <1>13
<1> HIDE DEF q
<1>15. \A j, k \in 1..n : q[j] = q[k] => j = k
  <2> TAKE j, k \in 1..n
  <2>1. q[j] \in S /\ q[k] \in S
    BY <1>14
  <2>2. q[j] \in Nat /\ q[k] \in Nat
    BY <2>1
  <2>3. j \in Int /\ k \in Int
    BY <1>1
  <2>4. j < k => q[j] < q[k]
    BY <1>14
  <2>5. k < j => q[k] < q[j]
    BY <1>14
  <2> QED
    BY <2>2, <2>3, <2>4, <2>5
<1>16. q \in Injection(1..n, S)
  BY <1>14, <1>15 DEF Injection, IsInjective
<1>17. q \in Surjection(1..n, S)
  BY <1>1, <1>16, FS_Injection DEF n
<1>18. q \in Seq(S) /\ Len(q) = n
  BY <1>1, <1>14
<1>19. Lists(q, S)
  BY <1>15, <1>17, <1>18 DEF Lists, Surjection
<1> QED
  BY <1>14, <1>18, <1>19 DEF q, n

(* Two lists of different things, one after the other, list both.           *)
LEMMA ConcatLists ==
    ASSUME NEW S, NEW T, NEW q, NEW r, Lists(q, S), Lists(r, T), S \cap T = {}
    PROVE  Lists(q \o r, S \cup T)
<1> DEFINE c == q \o r
<1>1. /\ q \in Seq(S) /\ r \in Seq(T) /\ Len(q) \in Nat /\ Len(r) \in Nat
      /\ q \in Seq(S \cup T) /\ r \in Seq(S \cup T)
  BY LenProperties DEF Lists
<1>2. /\ c \in Seq(S \cup T) /\ Len(c) = Len(q) + Len(r)
      /\ \A k \in 1 .. Len(q) + Len(r) : c[k] = IF k <= Len(q) THEN q[k] ELSE r[k - Len(q)]
  BY <1>1, ConcatProperties
<1> HIDE DEF c
<1>3. /\ \A k \in 1..Len(q) : q[k] \in S /\ k \in 1..Len(c) /\ c[k] = q[k]
      /\ \A k \in 1..Len(r) : r[k] \in T /\ Len(q) + k \in 1..Len(c) /\ c[Len(q) + k] = r[k]
  <2>1. /\ \A k \in 1..Len(q) : q[k] \in S
        /\ \A k \in 1..Len(r) : r[k] \in T
    BY <1>1, ElementOfSeq
  <2>2. ASSUME NEW k \in 1..Len(q) PROVE k \in 1..Len(c) /\ c[k] = q[k]
    BY <1>1, <1>2
  <2>3. ASSUME NEW k \in 1..Len(r) PROVE Len(q) + k \in 1..Len(c) /\ c[Len(q) + k] = r[k]
    <3>1. Len(q) + k \in 1 .. Len(q) + Len(r) /\ ~(Len(q) + k <= Len(q)) /\ (Len(q) + k) - Len(q) = k
      BY <1>1
    <3> QED
      BY <1>2, <3>1
  <2> QED
    BY <2>1, <2>2, <2>3
<1>4. ASSUME NEW x \in S \cup T PROVE \E k \in 1..Len(c) : c[k] = x
  <2>1. CASE x \in S
    <3>1. PICK k \in 1..Len(q) : q[k] = x
      BY <2>1 DEF Lists
    <3> QED
      BY <1>3, <3>1
  <2>2. CASE x \in T
    <3>1. PICK k \in 1..Len(r) : r[k] = x
      BY <2>2 DEF Lists
    <3> QED
      BY <1>3, <3>1
  <2> QED
    BY <2>1, <2>2
<1>5. ASSUME NEW j \in 1..Len(c), NEW k \in 1..Len(c), c[j] = c[k] PROVE j = k
  <2>1. ASSUME NEW i \in 1..Len(c)
        PROVE  \/ i \in 1..Len(q) /\ c[i] = q[i]
               \/ i - Len(q) \in 1..Len(r) /\ c[i] = r[i - Len(q)]
    BY <1>1, <1>2
  <2>2. \A i \in 1..Len(q) : q[i] \in S
    BY <1>3
  <2>3. \A i \in 1..Len(r) : r[i] \in T
    BY <1>3
  <2>4. CASE j \in 1..Len(q) /\ c[j] = q[j] /\ k \in 1..Len(q) /\ c[k] = q[k]
    BY <1>5, <2>4 DEF Lists
  <2>5. CASE j \in 1..Len(q) /\ c[j] = q[j] /\ k - Len(q) \in 1..Len(r) /\ c[k] = r[k - Len(q)]
    BY <1>5, <2>2, <2>3, <2>5
  <2>6. CASE j - Len(q) \in 1..Len(r) /\ c[j] = r[j - Len(q)] /\ k \in 1..Len(q) /\ c[k] = q[k]
    BY <1>5, <2>2, <2>3, <2>6
  <2>7. CASE /\ j - Len(q) \in 1..Len(r) /\ c[j] = r[j - Len(q)]
             /\ k - Len(q) \in 1..Len(r) /\ c[k] = r[k - Len(q)]
    <3>1. j - Len(q) = k - Len(q)
      BY <1>5, <2>7 DEF Lists
    <3> QED
      BY <1>1, <1>2, <3>1
  <2> QED
    BY <2>1, <2>4, <2>5, <2>6, <2>7
<1>6. Lists(c, S \cup T)
  BY <1>2, <1>4, <1>5 DEF Lists
<1> QED
  BY <1>6 DEF c

(* In a list of S a member of S is found once, and nothing else is.         *)
LEMMA FoundOnce ==
    ASSUME NEW q, NEW S, Lists(q, S), NEW i
    PROVE  Cardinality({k \in 1..Len(q) : q[k] = i}) = IF i \in S THEN 1 ELSE 0
<1> DEFINE K == {k \in 1..Len(q) : q[k] = i}
<1>1. CASE i \in S
  <2>1. PICK k \in 1..Len(q) : q[k] = i
    BY <1>1 DEF Lists
  <2>2. K = {k}
    BY <2>1, SMTT(30) DEF Lists
  <2> QED
    BY <1>1, <2>2, FS_Singleton
<1>2. CASE i \notin S
  <2>1. \A k \in 1..Len(q) : q[k] \in S
    BY ElementOfSeq DEF Lists
  <2>2. K = {}
    BY <1>2, <2>1
  <2> QED
    BY <1>2, <2>2, FS_EmptySet
<1> QED
  BY <1>1, <1>2

(* The assertion of each finding of a list.                                 *)
On(fs) == [k \in 1..Len(fs) |-> fs[k].assert]

(* The assertions of two lists of findings are those of one, then the other.*)
LEMMA OnConcat ==
    ASSUME NEW X, NEW a \in Seq(X), NEW b \in Seq(X)
    PROVE  On(a \o b) = On(a) \o On(b)
<1> DEFINE c == a \o b
           Y == {x.assert : x \in X}
<1>1. Len(a) \in Nat /\ Len(b) \in Nat
  BY LenProperties
<1>2. /\ c \in Seq(X) /\ Len(c) = Len(a) + Len(b)
      /\ \A k \in 1 .. Len(a) + Len(b) : c[k] = IF k <= Len(a) THEN a[k] ELSE b[k - Len(a)]
  BY ConcatProperties
<1>3. /\ \A k \in 1..Len(a) : a[k].assert \in Y
      /\ \A k \in 1..Len(b) : b[k].assert \in Y
  BY ElementOfSeq
<1> HIDE DEF Y, c
<1>4. /\ On(a) \in Seq(Y) /\ Len(On(a)) = Len(a)
      /\ \A k \in 1..Len(a) : On(a)[k] = a[k].assert
  BY <1>1, <1>3 DEF On
<1>5. /\ On(b) \in Seq(Y) /\ Len(On(b)) = Len(b)
      /\ \A k \in 1..Len(b) : On(b)[k] = b[k].assert
  BY <1>1, <1>3 DEF On
<1> DEFINE d == On(a) \o On(b)
<1>6. /\ d \in Seq(Y) /\ Len(d) = Len(a) + Len(b)
      /\ \A k \in 1 .. Len(a) + Len(b) : d[k] = IF k <= Len(a) THEN On(a)[k] ELSE On(b)[k - Len(a)]
  <2>1. On(a) \in Seq(Y) /\ On(b) \in Seq(Y)
    BY <1>4, <1>5
  <2>2. /\ d \in Seq(Y) /\ Len(d) = Len(On(a)) + Len(On(b))
        /\ \A k \in 1 .. Len(On(a)) + Len(On(b)) :
             d[k] = IF k <= Len(On(a)) THEN On(a)[k] ELSE On(b)[k - Len(On(a))]
    BY <2>1, ConcatProperties
  <2> HIDE DEF d
  <2>3. Len(On(a)) = Len(a) /\ Len(On(b)) = Len(b)
    BY <1>4, <1>5
  <2> QED
    BY <2>2, <2>3
<1> HIDE DEF d
<1>7. DOMAIN On(c) = 1..(Len(a) + Len(b)) /\ DOMAIN d = 1..(Len(a) + Len(b))
  BY <1>2, <1>6, LenProperties DEF On
<1>8. ASSUME NEW k \in 1..(Len(a) + Len(b)) PROVE On(c)[k] = d[k]
  <2>1. On(c)[k] = c[k].assert
    BY <1>2 DEF On
  <2>2. CASE k <= Len(a)
    <3>1. k \in 1..Len(a)
      BY <1>1, <2>2
    <3>2. c[k] = a[k] /\ d[k] = On(a)[k] /\ On(a)[k] = a[k].assert
      BY <1>2, <1>4, <1>6, <2>2, <3>1
    <3> QED
      BY <2>1, <3>2
  <2>3. CASE ~(k <= Len(a))
    <3>1. k - Len(a) \in 1..Len(b)
      BY <1>1, <2>3
    <3>2. c[k] = b[k - Len(a)] /\ d[k] = On(b)[k - Len(a)] /\ On(b)[k - Len(a)] = b[k - Len(a)].assert
      BY <1>2, <1>5, <1>6, <2>3, <3>1
    <3> QED
      BY <2>1, <3>2
  <2> QED
    BY <2>2, <2>3
<1>9. On(c) = d
  <2>1. On(c) = [k \in 1..(Len(a) + Len(b)) |-> On(c)[k]]
    BY <1>2 DEF On
  <2>2. d = [k \in 1..(Len(a) + Len(b)) |-> d[k]]
    BY <1>6
  <2> QED
    BY <1>8, <2>1, <2>2
<1> QED
  BY <1>9 DEF c, d

-----------------------------------------------------------------------------
(* The entries of `assert:`, by how they stand.                             *)
Asserts == DOMAIN run.asserts

HeldOf(kind) ==
    CASE kind = "k6"     -> {i \in Thresholds : ThresholdHeld(i)}
      [] kind = "promql" -> {i \in Entries("promql") :
                               "prom" \in run.queriers /\ PromHolds(run.asserts[i].result)}
      [] kind = "sql"    -> {i \in Entries("sql") :
                               "sql" \in run.queriers /\ ViolationCount(run.asserts[i].result) = 0}

Crossed == {i \in Thresholds : ~ThresholdHeld(i)}
Unheld(kind) == Entries(kind) \ ToSet(Held)
Fuzzed == IF run.drive = "failures" THEN {0} ELSE {}

AFinding == {ThresholdFinding(i) : i \in Asserts} \cup {PromFinding(i) : i \in Asserts}
            \cup {SQLFinding(i) : i \in Asserts} \cup {FuzzFinding}

(* The entries of a run are numbered from 1.                                *)
LEMMA AssertsAre ==
    ASSUME run \in Runs
    PROVE  /\ Asserts \in SUBSET Nat /\ IsFiniteSet(Asserts) /\ 0 \notin Asserts
           /\ \A i \in Asserts : run.asserts[i].kind \in {"k6", "promql", "sql"}
           /\ DOMAIN run.faults = 1..Len(run.faults) /\ Len(run.faults) \in Nat
<1> DEFINE R == [kind: {"k6", "promql", "sql"}, metric: STRING, result: STRING]
<1>1. run.asserts \in Seq(R) /\ run.faults \in Seq(STRING)
  BY Zenon, RunsAssumption
<1> HIDE DEF R
<1>2. Len(run.asserts) \in Nat /\ Asserts = 1..Len(run.asserts)
  BY <1>1, LenProperties DEF Asserts
<1>3. IsFiniteSet(Asserts)
  BY <1>2, FS_Interval
<1>4. \A i \in Asserts : run.asserts[i] \in R
  BY <1>1, <1>2, ElementOfSeq
<1>5. \A i \in Asserts : run.asserts[i].kind \in {"k6", "promql", "sql"}
  BY <1>4 DEF R
<1>6. DOMAIN run.faults = 1..Len(run.faults) /\ Len(run.faults) \in Nat
  BY <1>1, LenProperties
<1> QED
  BY <1>2, <1>3, <1>5, <1>6

(* The findings of a set of entries are findings, on those entries in order.*)
LEMMA ThresholdsFound ==
    ASSUME run \in Runs, NEW S \in SUBSET Asserts
    PROVE  /\ Each(ThresholdFinding, S) \in Seq(AFinding)
           /\ On(Each(ThresholdFinding, S)) = Of(S) /\ Lists(Of(S), S)
<1>1. S \in SUBSET Nat /\ IsFiniteSet(S)
  BY AssertsAre, FS_Subset
<1>2. Cardinality(S) \in Nat /\ Lists(Of(S), S) /\ Of(S) \in [1..Cardinality(S) -> S]
  BY <1>1, FS_CardinalityType, OfLists
<1> DEFINE n == Cardinality(S)
           e == Each(ThresholdFinding, S)
<1>3. e = [k \in 1..n |-> ThresholdFinding(Of(S)[k])]
  BY DEF Each
<1> HIDE DEF n, e
<1>4. /\ \A k \in 1..n : ThresholdFinding(Of(S)[k]) \in AFinding
      /\ \A k \in 1..n : ThresholdFinding(Of(S)[k]).assert = Of(S)[k]
  BY <1>2 DEF AFinding, n, ThresholdFinding, Broken
<1>5. e \in Seq(AFinding) /\ Len(e) = n
  BY <1>2, <1>3, <1>4 DEF n
<1>6. On(e) = Of(S)
  <2>1. On(e) = [k \in 1..n |-> Of(S)[k]]
    BY <1>3, <1>4, <1>5 DEF On
  <2>2. Of(S) = [k \in 1..n |-> Of(S)[k]]
    BY <1>2 DEF n
  <2> QED
    BY <2>1, <2>2
<1> QED
  BY <1>2, <1>5, <1>6 DEF e

(* The findings of a set of promql: or sql: assertions are findings, one    *)
(* for each in their order.                                                 *)
LEMMA QueriesFound ==
    ASSUME run \in Runs, NEW S \in SUBSET Asserts
    PROVE  /\ Each(PromFinding, S) \in Seq(AFinding) /\ Each(SQLFinding, S) \in Seq(AFinding)
           /\ On(Each(PromFinding, S)) = Of(S) /\ On(Each(SQLFinding, S)) = Of(S)
<1>1. S \in SUBSET Nat /\ IsFiniteSet(S)
  BY AssertsAre, FS_Subset
<1>2. Cardinality(S) \in Nat /\ Of(S) \in [1..Cardinality(S) -> S]
  BY <1>1, FS_CardinalityType, OfLists
<1> DEFINE n == Cardinality(S)
           e == Each(PromFinding, S)
           d == Each(SQLFinding, S)
<1>3. /\ e = [k \in 1..n |-> PromFinding(Of(S)[k])]
      /\ d = [k \in 1..n |-> SQLFinding(Of(S)[k])]
  BY DEF Each
<1> HIDE DEF n, e, d
<1>4. \A i : PromFinding(i).assert = i /\ SQLFinding(i).assert = i
  BY DEF PromFinding, SQLFinding, Broken, QueryError, Unevaluated
<1>5. \A k \in 1..n : PromFinding(Of(S)[k]) \in AFinding /\ SQLFinding(Of(S)[k]) \in AFinding
  BY <1>2 DEF AFinding, n
<1>6. e \in Seq(AFinding) /\ Len(e) = n /\ d \in Seq(AFinding) /\ Len(d) = n
  BY <1>2, <1>3, <1>5 DEF n
<1>7. On(e) = Of(S) /\ On(d) = Of(S)
  <2>1. On(e) = [k \in 1..n |-> Of(S)[k]] /\ On(d) = [k \in 1..n |-> Of(S)[k]]
    BY <1>3, <1>4, <1>6 DEF On
  <2>2. Of(S) = [k \in 1..n |-> Of(S)[k]]
    BY <1>2 DEF n
  <2> QED
    BY <2>1, <2>2
<1> QED
  BY <1>6, <1>7 DEF e, d

(* What is held is listed once, and so is what is found.                    *)
LEMMA HeldLists ==
    ASSUME run \in Runs
    PROVE  Lists(Held, HeldOf("k6") \cup HeldOf("promql") \cup HeldOf("sql"))
<1>1. /\ HeldOf("k6") = {i \in Thresholds : ThresholdHeld(i)}
      /\ HeldOf("promql") = {i \in Entries("promql") :
                               "prom" \in run.queriers /\ PromHolds(run.asserts[i].result)}
      /\ HeldOf("sql") = {i \in Entries("sql") :
                               "sql" \in run.queriers /\ ViolationCount(run.asserts[i].result) = 0}
  BY DEF HeldOf
<1>2. /\ HeldOf("k6") \in SUBSET Asserts /\ \A i \in HeldOf("k6") : run.asserts[i].kind = "k6"
      /\ HeldOf("promql") \in SUBSET Asserts
      /\ \A i \in HeldOf("promql") : run.asserts[i].kind = "promql"
      /\ HeldOf("sql") \in SUBSET Asserts /\ \A i \in HeldOf("sql") : run.asserts[i].kind = "sql"
  BY <1>1 DEF Thresholds, Entries, Asserts
<1>3. Held = (Of(HeldOf("k6")) \o Of(HeldOf("promql"))) \o Of(HeldOf("sql"))
  BY <1>1, Zenon DEF Held
<1> DEFINE A == HeldOf("k6")
           B == HeldOf("promql")
           C == HeldOf("sql")
<1>4. A \cap B = {} /\ (A \cup B) \cap C = {}
  BY <1>2
<1>5. Lists(Of(A), A) /\ Lists(Of(B), B) /\ Lists(Of(C), C)
  BY <1>2, ThresholdsFound
<1> HIDE DEF A, B, C
<1>6. Lists(Of(A) \o Of(B), A \cup B)
  BY <1>4, <1>5, ConcatLists
<1>7. Lists((Of(A) \o Of(B)) \o Of(C), A \cup B \cup C)
  BY <1>4, <1>5, <1>6, ConcatLists
<1> QED
  BY <1>3, <1>7 DEF A, B, C

(* The findings of a run are one for each assertion that did not hold or    *)
(* was not measured, and one for a failed fuzz pass.                        *)
LEMMA FindingsList ==
    ASSUME run \in Runs
    PROVE  /\ Findings \in Seq(AFinding)
           /\ Lists(On(Findings), Crossed \cup Unheld("promql") \cup Unheld("sql") \cup Fuzzed)
<1> DEFINE A == Crossed
           B == Unheld("promql")
           C == Unheld("sql")
           a == Each(ThresholdFinding, A)
           b == Each(PromFinding, B)
           c == Each(SQLFinding, C)
           d == IF run.drive = "failures" THEN <<FuzzFinding>> ELSE <<>>
<1>1. /\ A \in SUBSET Asserts /\ \A i \in A : run.asserts[i].kind = "k6"
      /\ B \in SUBSET Asserts /\ \A i \in B : run.asserts[i].kind = "promql"
      /\ C \in SUBSET Asserts /\ \A i \in C : run.asserts[i].kind = "sql"
  BY DEF Crossed, Unheld, Thresholds, Entries, Asserts
<1>2. Findings = ((a \o b) \o c) \o d
  BY Zenon DEF Findings, Crossed, Unheld
<1>3. /\ a \in Seq(AFinding) /\ On(a) = Of(A) /\ Lists(Of(A), A)
      /\ b \in Seq(AFinding) /\ On(b) = Of(B) /\ Lists(Of(B), B)
      /\ c \in Seq(AFinding) /\ On(c) = Of(C) /\ Lists(Of(C), C)
  BY <1>1, ThresholdsFound, QueriesFound
<1>4. d \in Seq(AFinding) /\ Lists(On(d), Fuzzed)
  <2>1. FuzzFinding \in AFinding /\ FuzzFinding.assert = 0
    BY DEF AFinding, FuzzFinding
  <2>2. CASE run.drive = "failures"
    <3>1. d = <<FuzzFinding>> /\ Fuzzed = {0}
      BY <2>2 DEF Fuzzed
    <3> HIDE DEF d
    <3>2. /\ d \in Seq(AFinding) /\ Len(d) = 1 /\ d[1] = FuzzFinding
      BY <2>1, <3>1
    <3>3. On(d) = [k \in 1..1 |-> 0]
      BY <2>1, <3>2 DEF On
    <3> HIDE DEF On
    <3>4. On(d) \in Seq({0}) /\ Len(On(d)) = 1 /\ On(d)[1] = 0
      BY <3>3
    <3> QED
      BY <3>1, <3>2, <3>4 DEF Lists
  <2>3. CASE run.drive # "failures"
    <3>1. d = <<>> /\ Fuzzed = {}
      BY <2>3 DEF Fuzzed
    <3> HIDE DEF d
    <3>2. d \in Seq(AFinding) /\ Len(d) = 0
      BY <3>1, EmptySeq
    <3>3. On(d) = [k \in 1..0 |-> d[k].assert]
      BY <3>2 DEF On
    <3>4. On(d) \in Seq({}) /\ Len(On(d)) = 0
      BY <3>3
    <3> QED
      BY <3>1, <3>2, <3>4 DEF Lists
  <2> QED
    BY <2>2, <2>3
<1>5. A \cap B = {} /\ (A \cup B) \cap C = {} /\ (A \cup B \cup C) \cap Fuzzed = {}
  BY <1>1, AssertsAre DEF Fuzzed
<1> HIDE DEF A, B, C, a, b, c, d
<1>6. /\ a \o b \in Seq(AFinding) /\ (a \o b) \o c \in Seq(AFinding)
      /\ ((a \o b) \o c) \o d \in Seq(AFinding)
  BY <1>3, <1>4, ConcatProperties
<1>7. On(((a \o b) \o c) \o d) = ((On(a) \o On(b)) \o On(c)) \o On(d)
  <2>1. On(a \o b) = On(a) \o On(b)
    BY <1>3, OnConcat
  <2>2. On((a \o b) \o c) = On(a \o b) \o On(c)
    BY <1>3, <1>6, OnConcat
  <2>3. On(((a \o b) \o c) \o d) = On((a \o b) \o c) \o On(d)
    BY <1>4, <1>6, OnConcat
  <2> QED
    BY <2>1, <2>2, <2>3
<1>8. Lists(On(a) \o On(b), A \cup B)
  BY <1>3, <1>5, ConcatLists
<1>9. Lists((On(a) \o On(b)) \o On(c), A \cup B \cup C)
  BY <1>3, <1>5, <1>8, ConcatLists
<1>10. Lists(((On(a) \o On(b)) \o On(c)) \o On(d), A \cup B \cup C \cup Fuzzed)
  BY <1>4, <1>5, <1>9, ConcatLists
<1> QED
  BY <1>2, <1>6, <1>7, <1>10 DEF A, B, C

-----------------------------------------------------------------------------
(* A verdict has said nothing until its run is over; then it is an error or *)
(* an abort without findings, or all that was held and found.               *)

Silent == verdict.findings = <<>> /\ verdict.passed = <<>>

VerdictInv ==
    /\ run \in Runs
    /\ stage \in {"reset", "classify", "ingest", "drive", "assert", "done"}
    /\ DOMAIN verdict = DOMAIN NoVerdict
    /\ stage # "done" => Silent
    /\ stage = "done" =>
         \/ verdict.status = "aborted" /\ Silent
         \/ verdict.status = "error" /\ verdict.error = TRUE /\ Silent
         \/ /\ verdict.status = (IF Findings = <<>> THEN "pass" ELSE "fail")
            /\ verdict.findings = Findings /\ verdict.passed = Held

(* The fields of a verdict.                                                 *)
Fields == {"status", "error", "reset", "unclassified", "findings", "passed", "warnings"}

(* The fields of a verdict, and its two empty lists at the start.           *)
LEMMA FieldsAre == DOMAIN NoVerdict = Fields /\ NoVerdict.findings = <<>> /\ NoVerdict.passed = <<>>
BY Zenon DEF NoVerdict, Fields

(* A run that ends with a status keeps what the verdict says.               *)
LEMMA FinishDoes ==
    ASSUME NEW v, NEW status, DOMAIN v = Fields, Finish(status, v)
    PROVE  /\ stage' = "done" /\ DOMAIN verdict' = Fields /\ verdict'.status = status
           /\ verdict'.error = v.error
           /\ verdict'.findings = v.findings /\ verdict'.passed = v.passed
BY DEF Finish, Fields

(* What is held and what is found depend on what the run was given alone.   *)
LEMMA SameRun ==
    ASSUME run' = run
    PROVE  Findings' = Findings /\ Held' = Held
<1>1. Held' = Held
  BY SMTT(30) DEF Held, Of, Thresholds, ThresholdHeld, Measured, Entries, PromHolds, ViolationCount,
         Violations, Whole, Halves
<1>2. FuzzFinding' = FuzzFinding /\ Candidates' = Candidates
  BY DEF FuzzFinding, Candidates, CandidatesFromDetectedDeps, CandidatesFromAudit, BuildCandidates
<1>3. Chains' = Chains
  BY DEF Chains, TraceSource, Opens, Traces
<1>4. SoleDegradedFault' = SoleDegradedFault
  BY <1>3 DEF SoleDegradedFault
<1>5. \A t : /\ HasChain(t)' = HasChain(t)
             /\ Confidence(t)' = Confidence(t)
             /\ Cause(t)' = Cause(t)
  BY <1>3, <1>4 DEF HasChain, Confidence, Cause, ConfidenceFor, AtMost, Rank, IsAddress
<1> DEFINE A == {i \in Thresholds : ~ThresholdHeld(i)}
           B == Entries("promql") \ ToSet(Held)
           C == Entries("sql") \ ToSet(Held)
<1>6. A' = A /\ B' = B /\ C' = C
  BY <1>1 DEF Thresholds, ThresholdHeld, Measured, Entries
<1>7. Each(ThresholdFinding, A)' = Each(ThresholdFinding, A)
  BY <1>2, <1>5, <1>6 DEF Each, Of, ThresholdFinding, Broken, Measured
<1>8. Each(PromFinding, B)' = Each(PromFinding, B)
  <2>1. Confidence(TRUE)' = Confidence(TRUE) /\ HasChain(TRUE)' = HasChain(TRUE) /\ Cause(TRUE)' = Cause(TRUE)
    BY <1>5
  <2> DEFINE q == Of(B)
             n == Cardinality(B)
  <2>2. q' = q /\ n' = n
    BY <1>6 DEF Of
  <2> HIDE DEF B, q, n
  <2>3. ASSUME NEW k PROVE PromFinding(q[k])' = PromFinding(q[k])
    <3>1. Broken(q[k], TRUE)' = Broken(q[k], TRUE)
      BY <1>2, <2>1, <2>2 DEF Broken, Measured
    <3>2. Unevaluated(q[k])' = Unevaluated(q[k]) /\ QueryError(q[k])' = QueryError(q[k])
      BY <2>2 DEF QueryError, Unevaluated
    <3>3. PromError(run.asserts[q[k]].result)' <=> PromError(run.asserts[q[k]].result)
      BY <2>2 DEF PromError
    <3> QED
      BY <3>1, <3>2, <3>3 DEF PromFinding
  <2>4. [k \in 1..n |-> PromFinding(q[k])]' = [k \in 1..n |-> PromFinding(q[k])]
    BY <2>2, <2>3
  <2> QED
    BY <2>4 DEF Each, q, n
<1>9. Each(SQLFinding, C)' = Each(SQLFinding, C)
  BY <1>2, <1>5, <1>6 DEF Each, Of, SQLFinding, Unevaluated, Broken, Measured
<1>10. Findings' = Findings
  BY <1>2, <1>7, <1>8, <1>9 DEF Findings
<1> QED
  BY <1>1, <1>10

(* No step of a run unsettles the invariant.                                *)
LEMMA VerdictStep ==
    ASSUME VerdictInv, [VerdictNext]_verdictVars
    PROVE  VerdictInv'
<1>1. run \in Runs /\ DOMAIN verdict = Fields /\ DOMAIN NoVerdict = Fields
  BY FieldsAre DEF VerdictInv
<1>2. (stage \in {"reset", "classify", "ingest", "drive", "assert"}) => Silent
  BY DEF VerdictInv
<1>3. UNCHANGED run
  BY DEF VerdictNext, Reset, Classify, Ingest, Drive, Evaluate, verdictVars
<1>4. Findings' = Findings /\ Held' = Held
  BY <1>3, SameRun
<1>5. ASSUME NEW v, DOMAIN v = Fields, v.findings = <<>>, v.passed = <<>>,
             \/ Finish("aborted", v) \/ Fail(v)
             \/ \E next \in {"classify", "ingest", "drive", "assert"} : Proceed(next, v)
      PROVE  VerdictInv'
  <2>1. CASE Finish("aborted", v)
    BY <1>1, <1>3, <1>5, <2>1, FinishDoes DEF VerdictInv, Silent
  <2>2. CASE Fail(v)
    <3> DEFINE w == [v EXCEPT !.error = TRUE]
    <3>1. DOMAIN w = Fields /\ w.error = TRUE /\ w.findings = <<>> /\ w.passed = <<>>
      BY <1>5 DEF Fields
    <3>2. Finish("error", w)
      BY <2>2 DEF Fail
    <3> HIDE DEF w
    <3> QED
      BY <1>1, <1>3, <3>1, <3>2, FinishDoes DEF VerdictInv, Silent
  <2>3. CASE \E next \in {"classify", "ingest", "drive", "assert"} : Proceed(next, v)
    <3>1. PICK next \in {"classify", "ingest", "drive", "assert"} : stage' = next /\ verdict' = v
      BY <2>3 DEF Proceed
    <3>2. stage' # "done"
      BY <3>1
    <3> QED
      BY <1>1, <1>3, <1>5, <3>1, <3>2 DEF VerdictInv, Silent
  <2> QED
    BY <1>5, <2>1, <2>2, <2>3
<1>6. CASE Reset
  <2>1. verdict.findings = <<>> /\ verdict.passed = <<>>
    BY <1>2, <1>6 DEF Reset, Silent
  <2> DEFINE v == [verdict EXCEPT !.reset = "failed", !.error = TRUE]
             w == [verdict EXCEPT !.reset = run.reset]
  <2>2. /\ DOMAIN v = Fields /\ v.findings = <<>> /\ v.passed = <<>>
        /\ DOMAIN w = Fields /\ w.findings = <<>> /\ w.passed = <<>>
    BY <1>1, <2>1 DEF Fields
  <2>3. Finish("aborted", v) \/ Proceed("classify", w)
    BY <1>6 DEF Reset
  <2> HIDE DEF v, w
  <2> QED
    BY <1>5, <2>2, <2>3
<1>7. CASE Classify
  <2>1. verdict.findings = <<>> /\ verdict.passed = <<>>
    BY <1>2, <1>7 DEF Classify, Silent
  <2> DEFINE v == [verdict EXCEPT !.unclassified = TRUE]
  <2>2. /\ DOMAIN v = Fields /\ v.findings = <<>> /\ v.passed = <<>>
    BY <1>1, <2>1 DEF Fields
  <2>3. Finish("aborted", v) \/ Finish("aborted", verdict) \/ Proceed("ingest", verdict)
    BY <1>7 DEF Classify
  <2> HIDE DEF v
  <2> QED
    BY <1>1, <1>5, <2>1, <2>2, <2>3
<1>8. CASE Ingest
  <2>1. verdict.findings = <<>> /\ verdict.passed = <<>>
    BY <1>2, <1>8 DEF Ingest, Silent
  <2>2. Fail(verdict) \/ Proceed("drive", verdict)
    BY <1>8 DEF Ingest
  <2> QED
    BY <1>1, <1>5, <2>1, <2>2
<1>9. CASE Drive
  <2>1. verdict.findings = <<>> /\ verdict.passed = <<>>
    BY <1>2, <1>9 DEF Drive, Silent
  <2> DEFINE v == [verdict EXCEPT !.warnings =
                     IF run.drive \in {"not started", "cut short"} THEN {"drive"} ELSE {}]
  <2>2. /\ DOMAIN v = Fields /\ v.findings = <<>> /\ v.passed = <<>>
    BY <1>1, <2>1 DEF Fields
  <2>3. Fail(verdict) \/ Proceed("assert", v)
    BY <1>9 DEF Drive
  <2> HIDE DEF v
  <2> QED
    BY <1>1, <1>5, <2>1, <2>2, <2>3
<1>10. CASE Evaluate
  <2>1. verdict.findings = <<>> /\ verdict.passed = <<>>
    BY <1>2, <1>10 DEF Evaluate, Silent
  <2>2. CASE Fail(verdict)
    BY <1>1, <1>5, <2>1, <2>2
  <2>3. CASE ~Fail(verdict)
    <3> DEFINE extra == IF ThroughputWarning THEN {"rps"} ELSE {}
               v == [verdict EXCEPT !.passed = Held, !.findings = Findings,
                                    !.warnings = @ \cup extra]
    <3>1. Finish(IF v.findings = <<>> THEN "pass" ELSE "fail", v)
      BY <1>10, <2>3 DEF Evaluate
    <3> HIDE DEF extra
    <3>2. DOMAIN v = Fields /\ v.findings = Findings /\ v.passed = Held
      BY <1>1 DEF Fields
    <3> HIDE DEF v
    <3>3. /\ stage' = "done" /\ DOMAIN verdict' = Fields
          /\ verdict'.status = (IF Findings = <<>> THEN "pass" ELSE "fail")
          /\ verdict'.findings = Findings /\ verdict'.passed = Held
      BY <3>1, <3>2, FinishDoes
    <3>4. run' \in Runs
      BY <1>1, <1>3
    <3> QED
      BY <1>1, <1>4, <3>3, <3>4 DEF VerdictInv
  <2> QED
    BY <2>2, <2>3
<1>11. CASE UNCHANGED verdictVars
  <2>1. UNCHANGED <<run, stage, verdict>>
    BY <1>11 DEF verdictVars
  <2> QED
    BY <1>4, <2>1 DEF VerdictInv, Silent
<1> QED
  BY <1>6, <1>7, <1>8, <1>9, <1>10, <1>11 DEF VerdictNext

(* A verdict is silent until the run is done, and then it is aborted or an  *)
(* error with no findings, or pass or fail as the findings say.             *)
LEMMA VerdictInvariance == VerdictSpec => []VerdictInv
<1>1. VerdictInit => VerdictInv
  BY FieldsAre DEF VerdictInit, VerdictInv, Silent
<1>2. VerdictInv /\ [VerdictNext]_verdictVars => VerdictInv'
  BY VerdictStep
<1> QED
  BY <1>1, <1>2, PTL DEF VerdictSpec

-----------------------------------------------------------------------------
(* A finding that was not evaluated is ambiguous and names no cause.        *)
LEMMA UnevaluatedIsAmbiguous ==
    ASSUME NEW f \in AFinding
    PROVE  f.unevaluated => f.confidence = "ambiguous" /\ f.cause = 0
<1>1. ASSUME NEW i, NEW t
      PROVE  /\ Broken(i, t).unevaluated = FALSE
             /\ Unevaluated(i).confidence = "ambiguous" /\ Unevaluated(i).cause = 0
             /\ QueryError(i).unevaluated = FALSE
  BY DEF Broken, Unevaluated, QueryError
<1>2. FuzzFinding.unevaluated = FALSE
  BY DEF FuzzFinding
<1>3. ASSUME NEW i
      PROVE  /\ ThresholdFinding(i) = Broken(i, TRUE)
             /\ PromFinding(i) \in {Unevaluated(i), QueryError(i), Broken(i, TRUE)}
             /\ SQLFinding(i) \in {Unevaluated(i), Broken(i, FALSE)}
  BY Zenon DEF ThresholdFinding, PromFinding, SQLFinding
<1>4. \/ f = FuzzFinding
      \/ \E i : f \in {Broken(i, TRUE), Broken(i, FALSE), Unevaluated(i), QueryError(i)}
  BY <1>3 DEF AFinding
<1> QED
  BY <1>1, <1>2, <1>4

(* The exit codes separate the tool's failures from the service's, whatever *)
(* a run is given and its tools answer (internal/verdict/exitcode.go).      *)
THEOREM ExitCodesTell == VerdictSpec => []ExitCodesSeparate
<1>1. VerdictInv => ExitCodesSeparate
  <2> SUFFICES ASSUME VerdictInv, stage = "done" PROVE ExitCodesSeparate
    BY DEF ExitCodesSeparate, Done
  <2> DEFINE v == verdict
             e == ExitCode(verdict)
             r == Render(verdict)
  <2>1. run \in Runs
    BY DEF VerdictInv
  <2>2. /\ r.label = (IF e = 4 THEN "inconclusive" ELSE v.status)
        /\ v.status \in {"error", "aborted"} /\ v.error => "error" \in r.why
    BY Zenon DEF Render
  <2>3. e = CASE v.status = "pass"    -> 0
              [] v.status = "error"   -> 2
              [] v.status = "aborted" -> 3
              [] v.status = "fail"    -> IF AllAmbiguous(v.findings) THEN 4 ELSE 1
              [] OTHER                -> 2
    BY DEF ExitCode
  <2> HIDE DEF e, r
  <2>4. CASE v.status = "aborted" /\ Silent
    <3>1. e = 3
      BY <2>3, <2>4
    <3> QED
      BY <2>2, <2>4, <3>1 DEF ExitCodesSeparate, Silent, e, r
  <2>5. CASE v.status = "error" /\ v.error = TRUE /\ Silent
    <3>1. e = 2
      BY <2>3, <2>5
    <3> QED
      BY <2>2, <2>5, <3>1 DEF ExitCodesSeparate, Silent, e, r
  <2>6. CASE v.status = "pass"
    <3>1. e = 0
      BY <2>3, <2>6
    <3> QED
      BY <2>2, <2>6, <3>1 DEF ExitCodesSeparate, e, r
  <2>7. CASE v.status = "fail" /\ v.findings = Findings /\ Findings # <<>>
    <3>1. e = IF AllAmbiguous(v.findings) THEN 4 ELSE 1
      BY <2>3, <2>7
    <3>2. e = 1 => \E k \in DOMAIN v.findings : ~v.findings[k].unevaluated
      <4>1. SUFFICES ASSUME e = 1 PROVE \E k \in DOMAIN v.findings : ~v.findings[k].unevaluated
        OBVIOUS
      <4>2. PICK k \in DOMAIN Findings : Findings[k].confidence # "ambiguous"
        BY <2>7, <3>1, <4>1 DEF AllAmbiguous
      <4>3. Findings[k] \in AFinding
        BY <2>1, <4>2, FindingsList, LenProperties, ElementOfSeq
      <4>4. ~Findings[k].unevaluated
        BY <4>2, <4>3, UnevaluatedIsAmbiguous
      <4> QED
        BY <2>7, <4>2, <4>4
    <3>3. e \in {1, 4} /\ (e = 4 <=> r.label = "inconclusive")
      BY <2>2, <2>7, <3>1
    <3> QED
      BY <3>2, <3>3 DEF ExitCodesSeparate, e, r
  <2> QED
    BY <2>4, <2>5, <2>6, <2>7 DEF VerdictInv
<1> QED
  BY <1>1, VerdictInvariance, PTL

-----------------------------------------------------------------------------
(* Each metric has one threshold: of two entries on a metric the later      *)
(* replaces the earlier in k6's options.                                    *)
OneThresholdPerMetric ==
    \A r \in Runs : \A i, j \in DOMAIN r.asserts :
        r.asserts[i].kind = "k6" /\ r.asserts[j].kind = "k6"
        /\ r.asserts[i].metric = r.asserts[j].metric => i = j

(* What a sql: query answers is no fraction: parseViolationCount cuts one   *)
(* off, and so takes a half for no violation.                               *)
WholeCounts ==
    \A r \in Runs : \A i \in DOMAIN r.asserts :
        r.asserts[i].kind = "sql" =>
            r.asserts[i].result \in {"0", "3", "-2", "no row", "two rows", "two columns", "text",
                                     "unreachable", "no container"}

(* Three violations, minus two and an error are not none.                   *)
LEMMA NoneIsZero == Whole(6) # 0 /\ Whole(-4) # 0 /\ -1 # 0
<1>1. Whole(6) # 0
  BY DEF Whole
<1>2. ASSUME NEW x \in Nat, x >= 2 PROVE Whole(-x) # 0
  <2>1. -(-x) = x /\ ~(-x >= 0)
    BY <1>2
  <2>2. Whole(-x) = -(x \div 2)
    BY <2>1 DEF Whole
  <2>3. x \div 2 \in Int /\ x \div 2 # 0
    BY <1>2
  <2> QED
    BY <2>2, <2>3
<1>3. 4 \in Nat /\ 4 >= 2
  OBVIOUS
<1>4. Whole(-4) # 0
  BY <1>2, <1>3, Zenon
<1> QED
  BY <1>1, <1>4

(* Of the whole counts only 0 is none.                                      *)
LEMMA OnlyZeroHolds ==
    ASSUME NEW result \in {"0", "3", "-2", "no row", "two rows", "two columns", "text",
                           "unreachable", "no container"},
           ViolationCount(result) = 0
    PROVE  result = "0"
<1>1. Halves("3") = 6 /\ Halves("-2") = -4
  BY DEF Halves
<1>2. Whole(6) # 0 /\ Whole(-4) # 0 /\ -1 # 0
  BY NoneIsZero
<1>3. CASE result \in {"no row", "two rows", "two columns", "text", "unreachable", "no container"}
  <2>1. ViolationCount(result) = -1
    BY <1>3, Zenon DEF ViolationCount, Violations
  <2> QED
    BY <1>2, <2>1, Zenon
<1>4. CASE result \in {"3", "-2"}
  <2>1. ViolationCount(result) = Whole(Halves(result))
    BY <1>4 DEF ViolationCount, Violations
  <2> QED
    BY <1>1, <1>2, <1>4, <2>1
<1> QED
  BY <1>3, <1>4

(* An entry is held or found, and not both.                                 *)
LEMMA HeldOrFound ==
    ASSUME run \in Runs, OneThresholdPerMetric, NEW i \in Asserts
    PROVE  LET H == HeldOf("k6") \cup HeldOf("promql") \cup HeldOf("sql")
               F == Crossed \cup Unheld("promql") \cup Unheld("sql") \cup Fuzzed
           IN  i \in H <=> i \notin F
<1>1. /\ HeldOf("k6") = {j \in Thresholds : ThresholdHeld(j)}
      /\ HeldOf("promql") = {j \in Entries("promql") :
                               "prom" \in run.queriers /\ PromHolds(run.asserts[j].result)}
      /\ HeldOf("sql") = {j \in Entries("sql") :
                               "sql" \in run.queriers /\ ViolationCount(run.asserts[j].result) = 0}
  BY DEF HeldOf
<1> DEFINE H == HeldOf("k6") \cup HeldOf("promql") \cup HeldOf("sql")
<1>2. ToSet(Held) = H
  <2>1. Lists(Held, H)
    BY HeldLists
  <2> HIDE DEF H
  <2>2. DOMAIN Held = 1..Len(Held) /\ \A k \in 1..Len(Held) : Held[k] \in H
    BY <2>1, LenProperties, ElementOfSeq DEF Lists
  <2> QED
    BY <2>1, <2>2 DEF ToSet, Lists
<1>3. i \notin Fuzzed
  BY AssertsAre DEF Fuzzed
<1>4. CASE run.asserts[i].kind = "k6"
  <2>1. i \in Thresholds
    BY <1>4, AssertsAre DEF Thresholds, OneThresholdPerMetric, Asserts
  <2>2. i \in H <=> ThresholdHeld(i)
    BY <1>1, <1>4, <2>1 DEF Entries
  <2>3. i \notin Unheld("promql") /\ i \notin Unheld("sql")
    BY <1>4 DEF Unheld, Entries
  <2> QED
    BY <1>3, <2>1, <2>2, <2>3 DEF Crossed
<1>5. CASE run.asserts[i].kind = "promql"
  <2>1. i \in Entries("promql") /\ i \notin Entries("sql") /\ i \notin Crossed
    BY <1>5 DEF Entries, Crossed, Thresholds, Asserts
  <2> QED
    BY <1>2, <1>3, <2>1 DEF Unheld
<1>6. CASE run.asserts[i].kind = "sql"
  <2>1. i \in Entries("sql") /\ i \notin Entries("promql") /\ i \notin Crossed
    BY <1>6 DEF Entries, Crossed, Thresholds, Asserts
  <2> QED
    BY <1>2, <1>3, <2>1 DEF Unheld
<1> QED
  BY <1>4, <1>5, <1>6, AssertsAre

(* A green run was earned: it exits 0 only if each of any number of         *)
(* assertions was measured and held and no fuzz request failed, and a run   *)
(* that completes lists each assertion once (run.go, findings.go,           *)
(* promql.go, sqlassert.go).  Of two thresholds on one metric, and of a     *)
(* count below one, the code itself makes one thing of two: the hypotheses. *)
THEOREM GreenRunsAreEarned ==
    ASSUME OneThresholdPerMetric, WholeCounts
    PROVE  VerdictSpec => []GreenIsEarned
<1>1. VerdictInv => GreenIsEarned
  <2> SUFFICES ASSUME VerdictInv, stage = "done" PROVE GreenIsEarned
    BY DEF GreenIsEarned, Done
  <2> DEFINE H == HeldOf("k6") \cup HeldOf("promql") \cup HeldOf("sql")
             F == Crossed \cup Unheld("promql") \cup Unheld("sql") \cup Fuzzed
  <2>1. run \in Runs
    BY DEF VerdictInv
  <2>2. Lists(Held, H) /\ Findings \in Seq(AFinding) /\ Lists(On(Findings), F)
    BY <2>1, HeldLists, FindingsList
  <2>3. \A i \in Asserts : i \in H <=> i \notin F
    BY <2>1, HeldOrFound
  <2>4. ASSUME ExitCode(verdict) = 0
        PROVE  (\A i \in Asserts : ReallyHeld(run.asserts[i])) /\ run.drive # "failures"
    <3>1. verdict.status = "pass"
      BY <2>4 DEF ExitCode, VerdictInv
    <3>2. Findings = <<>>
      BY <3>1 DEF VerdictInv
    <3>3. F = {}
      <4>1. On(Findings) = [k \in 1..0 |-> Findings[k].assert]
        BY <3>2, EmptySeq DEF On
      <4> HIDE DEF F
      <4>2. Len(On(Findings)) = 0
        BY <4>1
      <4>3. \A x \in F : \E k \in 1..0 : On(Findings)[k] = x
        BY <2>2, <4>2 DEF Lists
      <4> QED
        BY <4>3
    <3>4. run.drive # "failures"
      BY <3>3 DEF Fuzzed
    <3>5. ASSUME NEW i \in Asserts PROVE ReallyHeld(run.asserts[i])
      <4>1. i \in H
        BY <2>3, <3>3
      <4>2. CASE i \in HeldOf("k6")
        BY <4>2 DEF HeldOf, Thresholds, ThresholdHeld, ReallyHeld
      <4>3. CASE i \in HeldOf("promql")
        BY <4>3 DEF HeldOf, Entries, PromHolds, ReallyHeld
      <4>4. CASE i \in HeldOf("sql")
        <5>1. /\ run.asserts[i].kind = "sql" /\ "sql" \in run.queriers
              /\ ViolationCount(run.asserts[i].result) = 0
          BY <4>4 DEF HeldOf, Entries
        <5>2. run.asserts[i].result \in {"0", "3", "-2", "no row", "two rows", "two columns", "text",
                                         "unreachable", "no container"}
          BY <2>1, <5>1, Zenon DEF WholeCounts, Asserts
        <5>3. run.asserts[i].result = "0"
          BY <5>1, <5>2, OnlyZeroHolds
        <5> QED
          BY <5>1, <5>3 DEF ReallyHeld
      <4> QED
        BY <4>1, <4>2, <4>3, <4>4
    <3> QED
      BY <3>4, <3>5
  <2>5. ASSUME verdict.status \in {"pass", "fail"}, NEW i \in Asserts
        PROVE  Cardinality({k \in DOMAIN verdict.passed : verdict.passed[k] = i})
               + Cardinality({k \in DOMAIN verdict.findings : verdict.findings[k].assert = i}) = 1
    <3>1. verdict.passed = Held /\ verdict.findings = Findings
      BY <2>5 DEF VerdictInv
    <3>2. DOMAIN Held = 1..Len(Held) /\ DOMAIN Findings = 1..Len(Findings)
      BY <2>2, LenProperties DEF Lists
    <3> HIDE DEF H, F
    <3>3. Cardinality({k \in 1..Len(Held) : Held[k] = i}) = IF i \in H THEN 1 ELSE 0
      BY <2>2, FoundOnce
    <3>4. Cardinality({k \in 1..Len(On(Findings)) : On(Findings)[k] = i}) = IF i \in F THEN 1 ELSE 0
      BY <2>2, FoundOnce
    <3>5. {k \in 1..Len(On(Findings)) : On(Findings)[k] = i}
            = {k \in 1..Len(Findings) : Findings[k].assert = i}
      <4>1. Len(Findings) \in Nat
        BY <2>2, LenProperties
      <4>2. /\ Len(On(Findings)) = Len(Findings)
            /\ \A k \in 1..Len(Findings) : On(Findings)[k] = Findings[k].assert
        BY <4>1 DEF On
      <4> QED
        BY <4>2
    <3>6. (i \in H /\ i \notin F) \/ (i \notin H /\ i \in F)
      BY <2>3
    <3>7. /\ Cardinality({k \in DOMAIN verdict.passed : verdict.passed[k] = i})
               = IF i \in H THEN 1 ELSE 0
          /\ Cardinality({k \in DOMAIN verdict.findings : verdict.findings[k].assert = i})
               = IF i \in F THEN 1 ELSE 0
      BY <3>1, <3>2, <3>3, <3>4, <3>5
    <3> QED
      BY <3>6, <3>7
  <2> QED
    BY <2>4, <2>5 DEF GreenIsEarned, Asserts
<1> QED
  BY <1>1, VerdictInvariance, PTL

-----------------------------------------------------------------------------
(* The libraries a finding may point at: of what was detected, or of the    *)
(* targets of the faults and the SUT.                                       *)
Suspects == IF run.faults = <<>> THEN run.detected ELSE ToSet(run.faults) \cup {"sut"}

(* The candidate libraries are those of dependencies that were seen and are *)
(* suspected.                                                               *)
LEMMA CandidatesAreSuspects ==
    /\ Candidates \subseteq {LibOf[d] : d \in (run.detected \cup run.audited) \cap Suspects}
    /\ CandidatesFromDetectedDeps
         \subseteq {LibOf[d] : d \in (run.detected \cup run.audited) \cap run.detected}
<1>1. CandidatesFromDetectedDeps
        \subseteq {LibOf[d] : d \in (run.detected \cup run.audited) \cap run.detected}
  BY DEF CandidatesFromDetectedDeps, CandidatesFromAudit
<1>2. CASE run.faults = <<>>
  <2>1. Candidates = CandidatesFromDetectedDeps /\ Suspects = run.detected
    BY <1>2 DEF Candidates, Suspects
  <2> QED
    BY <1>1, <2>1
<1>3. CASE run.faults # <<>>
  <2>1. /\ Candidates = UNION {BuildCandidates(t) : t \in ToSet(run.faults)}
        /\ Suspects = ToSet(run.faults) \cup {"sut"}
    BY <1>3 DEF Candidates, Suspects
  <2>2. ASSUME NEW t \in ToSet(run.faults), NEW l \in BuildCandidates(t)
        PROVE  l \in {LibOf[d] : d \in (run.detected \cup run.audited)
                                       \cap (ToSet(run.faults) \cup {"sut"})}
    BY <2>2 DEF BuildCandidates, CandidatesFromAudit
  <2> QED
    BY <1>1, <2>1, <2>2
<1> QED
  BY <1>2, <1>3

(* The cause of a broken assertion is the one fault there was, or the one   *)
(* whose target degraded; then its chain is there and no other fault has    *)
(* one.                                                                     *)
LEMMA CauseIsAlone ==
    ASSUME run \in Runs, NEW traced \in BOOLEAN, Cause(traced) # 0
    PROVE  \A i \in DOMAIN run.faults \ {Cause(traced)} :
             HasChain(traced) /\ run.faults[i] \notin run.chains
<1>1. DOMAIN run.faults = 1..Len(run.faults) /\ Len(run.faults) \in Nat
  BY AssertsAre
<1>2. CASE Len(run.faults) = 1
  <2>1. Cause(traced) = 1
    BY <1>2 DEF Cause
  <2> QED
    BY <1>1, <1>2, <2>1
<1>3. CASE Len(run.faults) # 1
  <2> DEFINE D == {i \in DOMAIN run.faults : IsAddress(run.faults[i]) /\ run.faults[i] \in Chains}
  <2>1. traced /\ Cause(traced) = SoleDegradedFault
    BY <1>3 DEF Cause
  <2>2. SoleDegradedFault = IF Cardinality(D) = 1 THEN CHOOSE i \in D : TRUE ELSE 0
    BY DEF SoleDegradedFault
  <2>3. D \in SUBSET (1..Len(run.faults)) /\ IsFiniteSet(1..Len(run.faults))
    BY <1>1, FS_Interval
  <2>4. \A i \in DOMAIN run.faults : i \notin D /\ run.faults[i] \in Chains => ~IsAddress(run.faults[i])
    OBVIOUS
  <2>5. \A i \in D : run.faults[i] \in Chains
    OBVIOUS
  <2> HIDE DEF D
  <2>6. Cardinality(D) = 1
    BY <2>1, <2>2
  <2>7. PICK d : D = {d}
    <3>1. IsFiniteSet(D)
      BY <2>3, FS_Subset
    <3>2. \E d : D = {d}
      BY <2>6, <3>1, FS_Singleton
    <3> QED
      BY <3>2
  <2>8. Cause(traced) = d
    BY <2>1, <2>2, <2>6, <2>7
  <2>9. run.faults[d] \in Chains /\ HasChain(traced)
    BY <2>1, <2>5, <2>7, <2>8 DEF HasChain
  <2>10. Chains = run.chains
    BY <2>9 DEF Chains
  <2>11. ASSUME NEW i \in DOMAIN run.faults, i # d, run.faults[i] \in run.chains
         PROVE  FALSE
    <3>1. ~IsAddress(run.faults[i])
      BY <2>4, <2>7, <2>10, <2>11
    <3>2. run.faults[i] \in {"", "topic"}
      BY <3>1, Zenon DEF IsAddress
    <3>3. {"", "topic"} \cap run.chains = {}
      BY RunsAssumption, Zenon
    <3> QED
      BY <2>11, <3>2, <3>3, Zenon
  <2> QED
    BY <2>8, <2>9, <2>11
<1> QED
  BY <1>2, <1>3

(* The confidence of a broken assertion is the ceiling if there is a chain, *)
(* and less than caused if there is none.                                   *)
LEMMA ConfidenceIsBacked ==
    ASSUME run \in Runs, NEW traced \in BOOLEAN
    PROVE  /\ Confidence(traced) \in {"ambiguous", "correlated", "caused"}
           /\ Rank(Confidence(traced)) <= Rank(run.ceiling)
           /\ Confidence(traced) = "caused" => HasChain(traced)
<1>1. run.ceiling \in {"correlated", "caused"}
  BY RunsAssumption, Zenon
<1>2. Rank("ambiguous") = 0 /\ Rank("correlated") = 1 /\ Rank("caused") = 2
  BY DEF Rank
<1>3. AtMost("caused", run.ceiling) = run.ceiling
  BY <1>1, <1>2 DEF AtMost
<1>4. CASE HasChain(traced)
  <2>1. Confidence(traced) = run.ceiling
    BY <1>3, <1>4 DEF Confidence
  <2> QED
    BY <1>1, <1>2, <1>4, <2>1
<1>5. CASE ~HasChain(traced)
  <2>1. Confidence(traced) \in {"ambiguous", "correlated"}
    BY <1>5 DEF Confidence, ConfidenceFor
  <2> QED
    BY <1>1, <1>2, <2>1
<1> QED
  BY <1>4, <1>5

(* What each finding may say.                                               *)
Backed(f) ==
    /\ Rank(f.confidence) <= Rank(run.ceiling)
    /\ f.confidence = "caused" => f.chain /\ f.cause # 0 /\ run.faults[f.cause] \in Chains
    /\ f.cause # 0 => \A i \in DOMAIN run.faults \ {f.cause} :
                         f.chain /\ run.faults[i] \notin run.chains
    /\ f.unevaluated => f.cause = 0
    /\ f.candidates \subseteq
         {LibOf[d] : d \in (run.detected \cup run.audited)
                           \cap (IF run.faults = <<>> THEN run.detected
                                 ELSE IF f.assert = 0 THEN run.detected
                                 ELSE ToSet(run.faults) \cup {"sut"})}

(* Each finding, whichever back end it is from, has a confidence, a cause   *)
(* and candidates that its evidence backs.                                  *)
LEMMA FindingsAreBacked ==
    ASSUME run \in Runs, NEW f \in AFinding
    PROVE  Backed(f)
<1>1. Rank("ambiguous") = 0 /\ Rank("correlated") = 1 /\ Rank("caused") = 2
  BY DEF Rank
<1>2. run.ceiling \in {"correlated", "caused"}
  BY RunsAssumption, Zenon
<1>3. ASSUME NEW i \in Asserts, NEW t \in BOOLEAN, f = Broken(i, t) PROVE Backed(f)
  <2>1. /\ f.assert = i /\ f.confidence = Confidence(t) /\ f.cause = Cause(t)
        /\ f.chain = HasChain(t) /\ f.unevaluated = FALSE /\ f.candidates = Candidates
    BY <1>3 DEF Broken
  <2>2. i # 0
    BY AssertsAre
  <2>3. Rank(f.confidence) <= Rank(run.ceiling)
    BY <2>1, ConfidenceIsBacked
  <2>4. f.confidence = "caused" => f.chain /\ f.cause # 0 /\ run.faults[f.cause] \in Chains
    BY <2>1, ConfidenceIsBacked DEF HasChain
  <2>5. f.cause # 0 => \A j \in DOMAIN run.faults \ {f.cause} :
                         f.chain /\ run.faults[j] \notin run.chains
    BY <2>1, CauseIsAlone
  <2>6. f.candidates \subseteq {LibOf[d] : d \in (run.detected \cup run.audited) \cap Suspects}
    BY <2>1, CandidatesAreSuspects
  <2> QED
    BY <2>1, <2>2, <2>3, <2>4, <2>5, <2>6 DEF Backed, Suspects
<1>4. ASSUME NEW i \in Asserts, f = Unevaluated(i) \/ f = QueryError(i) PROVE Backed(f)
  <2>1. f.confidence = "ambiguous" /\ f.cause = 0 /\ f.candidates = {}
    BY <1>4 DEF Unevaluated, QueryError
  <2> QED
    BY <1>1, <1>2, <2>1 DEF Backed
<1>5. ASSUME f = FuzzFinding PROVE Backed(f)
  <2>1. /\ f.confidence \in {"correlated", "ambiguous"} /\ f.cause = 0 /\ f.assert = 0
        /\ f.candidates = CandidatesFromDetectedDeps
    BY <1>5 DEF FuzzFinding
  <2>2. f.candidates \subseteq {LibOf[d] : d \in (run.detected \cup run.audited) \cap run.detected}
    BY <2>1, CandidatesAreSuspects
  <2>3. Rank(f.confidence) <= Rank(run.ceiling)
    BY <1>1, <1>2, <2>1
  <2> QED
    BY <2>1, <2>2, <2>3 DEF Backed
<1>6. ASSUME NEW i
      PROVE  /\ ThresholdFinding(i) = Broken(i, TRUE)
             /\ PromFinding(i) \in {Unevaluated(i), QueryError(i), Broken(i, TRUE)}
             /\ SQLFinding(i) \in {Unevaluated(i), Broken(i, FALSE)}
  BY Zenon DEF ThresholdFinding, PromFinding, SQLFinding
<1> QED
  BY <1>3, <1>4, <1>5, <1>6 DEF AFinding

(* A cause is named only on evidence, for any faults, spans and ceiling     *)
(* that detection states (internal/run/findings.go, trace.go).              *)
THEOREM CausesHaveEvidence == VerdictSpec => []CauseHasEvidence
<1>1. VerdictInv => CauseHasEvidence
  <2> SUFFICES ASSUME VerdictInv, NEW k \in DOMAIN verdict.findings
               PROVE  /\ Backed(verdict.findings[k])
                      /\ verdict.findings[k].unevaluated => k \notin Render(verdict).arrows
    BY DEF CauseHasEvidence, Backed
  <2>1. verdict.findings = Findings \/ verdict.findings = <<>>
    BY DEF VerdictInv, Silent
  <2>2. verdict.findings = Findings /\ run \in Runs
    BY <2>1 DEF VerdictInv
  <2>3. verdict.findings[k] \in AFinding
    BY <2>2, FindingsList, LenProperties, ElementOfSeq
  <2>4. Render(verdict).arrows = {j \in DOMAIN verdict.findings : ~verdict.findings[j].unevaluated}
    BY Zenon DEF Render
  <2> QED
    BY <2>2, <2>3, <2>4, FindingsAreBacked
<1> QED
  BY <1>1, VerdictInvariance, PTL

-----------------------------------------------------------------------------
(* The causal chain. *)

(* The spans are a list, and each has a duration.                           *)
SpansOK == spans \in Seq({spans[i] : i \in DOMAIN spans}) /\ \A i \in DOMAIN spans : spans[i].duration \in Int

(* An operation has a finite number of spans.                               *)
LEMMA AlikeIsFinite ==
    ASSUME SpansOK, NEW s
    PROVE  /\ IsFiniteSet(Alike(s)) /\ Cardinality(Alike(s)) \in Nat
           /\ DOMAIN spans = 1..Len(spans) /\ Len(spans) \in Nat
           /\ \A i \in Alike(s) : i \in DOMAIN spans /\ spans[i].duration \in Int
<1>1. DOMAIN spans = 1..Len(spans) /\ Len(spans) \in Nat
  BY LenProperties DEF SpansOK
<1>2. IsFiniteSet(DOMAIN spans)
  BY <1>1, FS_Interval
<1>3. Alike(s) \in SUBSET (DOMAIN spans)
  BY DEF Alike
<1>4. IsFiniteSet(Alike(s)) /\ Cardinality(Alike(s)) \in Nat
  BY <1>2, <1>3, FS_Subset, FS_CardinalityType
<1> QED
  BY <1>1, <1>3, <1>4 DEF SpansOK

(* The longer the duration, the more of them stay within it.                *)
LEMMA WithinIs ==
    ASSUME SpansOK, NEW s, NEW d \in Int
    PROVE  /\ Within(s, d) \in Nat
           /\ \A e \in Int : d <= e => Within(s, d) <= Within(s, e)
<1> DEFINE W(x) == {i \in Alike(s) : spans[i].duration <= x}
<1>1. \A x \in Int : W(x) \in SUBSET Alike(s)
  OBVIOUS
<1>2. \A x \in Int : IsFiniteSet(W(x)) /\ Cardinality(W(x)) \in Nat
  <2> HIDE DEF W
  <2> QED
    BY <1>1, AlikeIsFinite, FS_Subset, FS_CardinalityType
<1>3. ASSUME NEW e \in Int, d <= e PROVE Cardinality(W(d)) <= Cardinality(W(e))
  <2>1. \A i \in Alike(s) : spans[i].duration \in Int
    BY AlikeIsFinite
  <2>2. W(d) \in SUBSET W(e)
    BY <1>3, <2>1
  <2> HIDE DEF W
  <2> QED
    BY <1>2, <2>2, FS_Subset
<1>4. \A x : Within(s, x) = Cardinality(W(x))
  BY DEF Within
<1> HIDE DEF W
<1> QED
  BY <1>2, <1>3, <1>4

(* The k-th duration of an operation is that of one of its spans, and the   *)
(* shortest that k of them stay within (measure sorts what it collected).   *)
LEMMA DurationIs ==
    ASSUME SpansOK, NEW s, NEW k \in 1..Cardinality(Alike(s))
    PROVE  /\ \E j \in Alike(s) : Durations(s)[k] = spans[j].duration
           /\ k <= Within(s, Durations(s)[k])
           /\ \A e \in {spans[i].duration : i \in Alike(s)} : k <= Within(s, e) => Durations(s)[k] <= e
<1> DEFINE ds == {spans[i].duration : i \in Alike(s)}
           E == {d \in ds : k <= Within(s, d)}
           Good(d) == /\ k <= Within(s, d)
                      /\ \A e \in ds : k <= Within(s, e) => d <= e
<1>0. IsFiniteSet(Alike(s)) /\ Cardinality(Alike(s)) \in Nat /\ \A i \in Alike(s) : spans[i].duration \in Int
  BY AlikeIsFinite
<1>1. ds \in SUBSET Int /\ IsFiniteSet(ds) /\ ds # {}
  <2>1. ds \in SUBSET Int
    BY <1>0
  <2>2. IsFiniteSet(ds)
    <3> DEFINE f == [i \in Alike(s) |-> spans[i].duration]
    <3>1. f \in Surjection(Alike(s), ds)
      BY DEF Surjection
    <3> HIDE DEF f, ds
    <3> QED
      BY <1>0, <3>1, FS_Surjection
  <2>3. Alike(s) # {}
    BY <1>0, FS_EmptySet
  <2> QED
    BY <2>1, <2>2, <2>3
<1>2. PICK m \in ds : \A d \in ds : d <= m
  <2> HIDE DEF ds
  <2> QED
    BY <1>1, Greatest
<1>3. m \in E
  <2>1. {i \in Alike(s) : spans[i].duration <= m} = Alike(s)
    BY <1>2
  <2>2. Within(s, m) = Cardinality(Alike(s))
    BY <2>1 DEF Within
  <2> QED
    BY <1>0, <1>2, <2>2
<1>4. E \in SUBSET Int /\ IsFiniteSet(E) /\ E # {}
  <2>1. E \in SUBSET ds
    OBVIOUS
  <2> HIDE DEF E, ds
  <2> QED
    BY <1>1, <1>3, <2>1, FS_Subset
<1>5. PICK x \in E : \A y \in E : x <= y
  <2> HIDE DEF E, ds
  <2> QED
    BY <1>4, Least
<1>6. x \in ds /\ Good(x)
  <2> HIDE DEF ds
  <2> QED
    BY <1>5
<1>7. Durations(s)[k] = CHOOSE d \in ds : Good(d)
  BY DEF Durations
<1>8. Durations(s)[k] \in ds /\ Good(Durations(s)[k])
  <2> HIDE DEF Good, ds
  <2> QED
    BY <1>6, <1>7
<1> QED
  BY <1>8

(* An operation that degradedEnough lets through has two spans at least that*)
(* are twice as long, and 10 ms longer, than another: its 95th percentile is*)
(* never its slowest observation alone.                                     *)
LEMMA TwoAreSlow ==
    ASSUME SpansOK, NEW s, Alike(s) # {}, degradedEnough(s)
    PROVE  Cardinality({i \in Alike(s) : \E j \in Alike(s) :
                          /\ spans[i].duration >= 2 * spans[j].duration
                          /\ spans[i].duration >= 10 + spans[j].duration}) >= 2
<1> DEFINE n == Cardinality(Alike(s))
           b == (IF n < 4 THEN 1 ELSE n \div 4) \div 2 + 1
           p == (95 * (n - 1)) \div 100 + 1
           D == Durations(s)
           Slow == {i \in Alike(s) : \E j \in Alike(s) :
                          /\ spans[i].duration >= 2 * spans[j].duration
                          /\ spans[i].duration >= 10 + spans[j].duration}
<1>1. IsFiniteSet(Alike(s)) /\ n \in Nat /\ n > 0 /\ \A i \in Alike(s) : spans[i].duration \in Int
  BY AlikeIsFinite, FS_EmptySet
<1>2. Len(D) = n
  <2>1. D \in [1..n -> {D[k] : k \in 1..n}]
    BY DEF Durations
  <2>2. D \in Seq({D[k] : k \in 1..n})
    <3> HIDE DEF n, D
    <3> QED
      BY <1>1, <2>1, SeqDef
  <2>3. DOMAIN D = 1..n
    BY DEF Durations
  <2> HIDE DEF n, D
  <2> QED
    BY <1>1, <2>2, <2>3, LenProperties
<1>3. b \in 1..n /\ p \in 1..n /\ (n > 1 => p < n) /\ (n = 1 => b = p)
  <2> HIDE DEF n
  <2> QED
    BY <1>1
<1>4. D[p] >= 2 * D[b] /\ D[p] - D[b] >= 10
  <2>1. fastQuartileMedian(D) = D[b] /\ percentile(D, 95) = D[p]
    <3> HIDE DEF D
    <3> QED
      BY <1>2 DEF fastQuartileMedian, percentile
  <2> QED
    BY <2>1 DEF degradedEnough, degradationFactor, minDegradationStep
<1> HIDE DEF n, b, p, D
<1>5. PICK j \in Alike(s) : D[b] = spans[j].duration
  BY <1>3, DurationIs DEF D, n
<1>6. \E i \in Alike(s) : D[p] = spans[i].duration
  BY <1>3, DurationIs DEF D, n
<1>7. D[b] \in Int /\ D[p] \in Int
  BY <1>1, <1>5, <1>6
<1>8. p < n
  BY <1>1, <1>3, <1>4, <1>7
(* Fewer than p of the measurements are shorter than the p-th. *)
<1> DEFINE Short == {i \in Alike(s) : spans[i].duration < D[p]}
           Long  == {i \in Alike(s) : spans[i].duration >= D[p]}
<1>9. IsFiniteSet(Short) /\ IsFiniteSet(Long) /\ Cardinality(Short) \in Nat /\ Cardinality(Long) \in Nat
  <2>1. Short \in SUBSET Alike(s) /\ Long \in SUBSET Alike(s)
    OBVIOUS
  <2> HIDE DEF Short, Long
  <2> QED
    BY <1>1, <2>1, FS_Subset, FS_CardinalityType
<1>10. Cardinality(Short) < p
  <2>1. CASE Short = {}
    <3> HIDE DEF Short
    <3> QED
      BY <1>3, <2>1, FS_EmptySet
  <2>2. CASE Short # {}
    <3> DEFINE ds == {spans[i].duration : i \in Short}
               f  == [i \in Short |-> spans[i].duration]
    <3>1. f \in Surjection(Short, ds)
      BY DEF Surjection
    <3>2. IsFiniteSet(ds)
      <4> HIDE DEF f, ds, Short
      <4> QED
        BY <1>9, <3>1, FS_Surjection
    <3>3. ds \in SUBSET Int /\ ds # {}
      BY <1>1, <2>2
    <3>4. PICK m \in ds : \A d \in ds : d <= m
      <4> HIDE DEF ds
      <4> QED
        BY <3>2, <3>3, Greatest
    <3>5. m \in Int /\ m < D[p] /\ m \in {spans[i].duration : i \in Alike(s)}
      BY <1>1
    <3>6. Short = {i \in Alike(s) : spans[i].duration <= m}
      BY <1>1, <1>7, <3>4, <3>5
    <3>7. Within(s, m) = Cardinality(Short)
      BY <3>6 DEF Within
    <3>8. p \in 1..Cardinality(Alike(s)) /\ D = Durations(s)
      BY <1>3 DEF n, D
    <3>9. ~(p <= Within(s, m))
      <4> HIDE DEF ds, Short
      <4>1. p <= Within(s, m) => D[p] <= m
        BY <3>5, <3>8, DurationIs
      <4> QED
        BY <1>7, <3>5, <4>1
    <3> HIDE DEF Short, ds
    <3> QED
      BY <1>3, <1>1, <1>9, <3>7, <3>9
  <2> QED
    BY <2>1, <2>2
<1>11. Cardinality(Long) >= 2
  <2>1. Short \cup Long = Alike(s) /\ Short \cap Long = {}
    BY <1>1, <1>7
  <2> HIDE DEF Short, Long
  <2>2. Cardinality(Alike(s)) = Cardinality(Short) + Cardinality(Long)
    BY <1>9, <2>1, FS_Union, FS_EmptySet
  <2> QED
    BY <1>1, <1>3, <1>8, <1>9, <1>10, <2>2 DEF n
<1>12. Long \in SUBSET Slow
  BY <1>1, <1>4, <1>5, <1>7
<1>13. Slow \in SUBSET Alike(s)
  OBVIOUS
<1> HIDE DEF Long, Slow
<1>14. Cardinality(Slow) \in Nat /\ Cardinality(Long) <= Cardinality(Slow)
  BY <1>1, <1>12, <1>13, FS_Subset, FS_CardinalityType
<1>15. Cardinality(Slow) >= 2
  BY <1>9, <1>11, <1>14
<1> QED
  BY <1>15 DEF Slow

(* What the chain is made of, at any turn of the loop.                      *)
ChainInv ==
    /\ SpansOK
    /\ hops \in Seq(DOMAIN spans)
    /\ climb = "measure" => hops = <<>>
    /\ climb = "climb" => hops # <<>>
    /\ hops # <<>> => matchesTarget(spans[hops[1]]) /\ degradedEnough(spans[hops[1]])
    /\ \A k \in 2..Len(hops) :
         /\ spans[hops[k]].trace = spans[hops[1]].trace
         /\ spans[hops[k]].id = spans[hops[k - 1]].parent
         /\ \A m \in 1..(k - 1) : spans[hops[m]].id # spans[hops[k]].id

(* Before BuildChain there is no hop.                                       *)
LEMMA ChainInit == TraceInit => ChainInv
<1> SUFFICES ASSUME TraceInit PROVE ChainInv
  OBVIOUS
<1>1. PICK doc \in Answers : spans = decodeJaegerTraces(doc)
  BY DEF TraceInit
<1>2. hops = <<>> /\ climb = "measure"
  BY DEF TraceInit
<1>3. SpansOK
  <2>1. CASE doc.errors
    <3>1. spans = <<>>
      BY <1>1, <2>1, Zenon DEF decodeJaegerTraces
    <3> QED
      BY <3>1 DEF SpansOK
  <2>2. CASE ~doc.errors
    <3>1. /\ DOMAIN doc.spans = 1..Len(doc.spans) /\ Len(doc.spans) \in Nat
          /\ \A i \in DOMAIN doc.spans : doc.spans[i].duration \in Int
      BY AnswersAssumption, LenProperties
    <3>2. DOMAIN spans = DOMAIN doc.spans
      BY <1>1, <2>2 DEF decodeJaegerTraces
    <3>3. \A i \in DOMAIN doc.spans : spans[i].duration = doc.spans[i].duration
      BY <1>1, <2>2 DEF decodeJaegerTraces
    <3>4. spans \in [1..Len(doc.spans) -> {spans[i] : i \in DOMAIN spans}]
      <4>1. spans = [i \in DOMAIN spans |-> spans[i]]
        BY <1>1, <2>2 DEF decodeJaegerTraces
      <4> QED
        BY <3>1, <3>2, <4>1
    <3> QED
      BY <3>1, <3>2, <3>3, <3>4, SeqDef DEF SpansOK
  <2> QED
    BY <2>1, <2>2
<1> QED
  BY <1>2, <1>3 DEF ChainInv

(* Of the slowest matching spans the first is taken: there is one at most.  *)
LEMMA BestIsOne == ASSUME SpansOK, NEW i \in Best, NEW j \in Best
                   PROVE  i = j /\ i \in DOMAIN spans /\ matchesTarget(spans[i])
<1>1. /\ i \in DOMAIN spans /\ matchesTarget(spans[i])
      /\ j \in DOMAIN spans /\ matchesTarget(spans[j])
  BY DEF Best
<1>2. i \in Nat /\ j \in Nat /\ spans[i].duration \in Int /\ spans[j].duration \in Int
  BY <1>1, LenProperties DEF SpansOK
<1>3. \/ spans[j].duration < spans[i].duration
      \/ spans[j].duration = spans[i].duration /\ i <= j
  BY <1>1 DEF Best
<1>4. \/ spans[i].duration < spans[j].duration
      \/ spans[i].duration = spans[j].duration /\ j <= i
  BY <1>1 DEF Best
<1>5. i = j
  BY <1>2, <1>3, <1>4
<1> QED
  BY <1>1, <1>5

(* A turn of BuildChain adds nothing or one hop, the parent of the last.    *)
LEMMA ChainStep == ChainInv /\ [TraceNext]_traceVars => ChainInv'
<1> SUFFICES ASSUME ChainInv, [TraceNext]_traceVars PROVE ChainInv'
  OBVIOUS
<1>1. spans' = spans
  BY DEF TraceNext, BuildChain, Climb, traceVars
<1>2. SpansOK'
  BY <1>1 DEF ChainInv, SpansOK
<1>3. \A s : (degradedEnough(s) <=> degradedEnough(s)')
  BY <1>1 DEF degradedEnough, Durations, Within, Alike
<1>4. CASE UNCHANGED traceVars
  <2>1. hops' = hops /\ climb' = climb
    BY <1>4 DEF traceVars
  <2> QED
    BY <1>1, <1>2, <1>3, <2>1 DEF ChainInv, matchesTarget, portOK
<1>5. CASE BuildChain
  <2>1. hops = <<>> /\ climb' # "measure"
    BY <1>5 DEF BuildChain, ChainInv
  <2>2. CASE \E i \in Best : degradedEnough(spans[i])
    <3>1. PICK i \in Best : hops' = <<i>>
      BY <1>5, <2>2 DEF BuildChain
    <3>2. i \in DOMAIN spans /\ matchesTarget(spans[i]) /\ degradedEnough(spans[i])
      BY <2>2, BestIsOne DEF ChainInv
    <3>3. hops' \in Seq(DOMAIN spans) /\ Len(hops') = 1 /\ hops'[1] = i /\ hops' # <<>>
      BY <3>1, <3>2
    <3>4. matchesTarget(spans'[hops'[1]]) /\ degradedEnough(spans[i])'
      BY <1>1, <1>3, <3>2, <3>3
    <3>5. matchesTarget(spans[i])'
      BY <1>1, <3>2 DEF matchesTarget, portOK
    <3> QED
      BY <1>1, <1>2, <2>1, <3>3, <3>4, <3>5 DEF ChainInv
  <2>3. CASE ~\E i \in Best : degradedEnough(spans[i])
    <3>1. hops' = <<>> /\ climb' = "done"
      BY <1>5, <2>1, <2>3 DEF BuildChain
    <3> QED
      BY <1>1, <1>2, <3>1 DEF ChainInv
  <2> QED
    BY <2>2, <2>3
<1>6. CASE Climb
  <2> DEFINE cur == spans[hops[Len(hops)]]
             up  == {p \in ByID(cur.trace, cur.parent) :
                      cur.parent # "" /\ \A k \in DOMAIN hops :
                                            spans[hops[k]].id # spans[p].id}
  <2>0. hops # <<>> /\ hops \in Seq(DOMAIN spans) /\ climb' # "measure"
    BY <1>6 DEF Climb, ChainInv
  <2>1. CASE up = {}
    <3>1. hops' = hops /\ climb' = "done"
      BY <1>6, <2>1 DEF Climb
    <3> QED
      BY <1>1, <1>2, <1>3, <3>1 DEF ChainInv, matchesTarget, portOK
  <2>2. CASE up # {}
    <3>1. PICK p \in up : hops' = Append(hops, p)
      BY <1>6, <2>2 DEF Climb
    <3>2. /\ p \in DOMAIN spans /\ spans[p].trace = cur.trace /\ spans[p].id = cur.parent
          /\ \A k \in DOMAIN hops : spans[hops[k]].id # spans[p].id
      BY DEF ByID
    <3> HIDE DEF up, cur
    <3>3. Len(hops) \in Nat /\ Len(hops) >= 1 /\ DOMAIN hops = 1..Len(hops)
      BY <2>0
    <3>4. /\ hops' \in Seq(DOMAIN spans) /\ Len(hops') = Len(hops) + 1 /\ hops' # <<>>
          /\ hops'[Len(hops) + 1] = p
          /\ \A k \in 1..Len(hops) : hops'[k] = hops[k]
      BY <2>0, <3>1, <3>2, AppendProperties
    <3>5. matchesTarget(spans[hops[1]])' /\ degradedEnough(spans[hops[1]])'
      <4>1. hops'[1] = hops[1]
        BY <3>3, <3>4
      <4>2. matchesTarget(spans[hops[1]]) /\ degradedEnough(spans[hops[1]])
        BY <2>0 DEF ChainInv
      <4> QED
        BY <1>1, <1>3, <4>1, <4>2 DEF matchesTarget, portOK
    <3>6. ASSUME NEW k \in 2..Len(hops')
          PROVE /\ spans[hops'[k]].trace = spans[hops'[1]].trace
                /\ spans[hops'[k]].id = spans[hops'[k - 1]].parent
                /\ \A m \in 1..(k - 1) : spans[hops'[m]].id # spans[hops'[k]].id
      <4>1. CASE k \in 2..Len(hops)
        <5>1. hops'[k] = hops[k] /\ hops'[1] = hops[1] /\ hops'[k - 1] = hops[k - 1]
              /\ \A m \in 1..(k - 1) : hops'[m] = hops[m]
          BY <3>3, <3>4, <4>1
        <5> QED
          BY <4>1, <5>1 DEF ChainInv
      <4>2. CASE k = Len(hops) + 1
        <5>1. hops'[k] = p /\ hops'[1] = hops[1] /\ hops'[k - 1] = hops[Len(hops)]
              /\ \A m \in 1..(k - 1) : hops'[m] = hops[m] /\ m \in DOMAIN hops
          BY <3>3, <3>4, <4>2
        <5>2. spans[hops[Len(hops)]].trace = spans[hops[1]].trace
          <6>1. Len(hops) = 1 \/ Len(hops) \in 2..Len(hops)
            BY <3>3
          <6> QED
            BY <6>1 DEF ChainInv
        <5> QED
          BY <3>2, <5>1, <5>2 DEF cur
      <4> QED
        BY <3>3, <3>4, <4>1, <4>2
    <3>7. /\ (climb = "measure" => hops = <<>>)' /\ (climb = "climb" => hops # <<>>)'
      BY <2>0, <3>4
    <3> QED
      BY <1>1, <1>2, <3>4, <3>5, <3>6, <3>7 DEF ChainInv
  <2> QED
    BY <2>1, <2>2
<1> QED
  BY <1>4, <1>5, <1>6 DEF TraceNext

(* No hop is taken twice, so the loop ends before it runs out of spans.     *)
LEMMA ChainIsNoLonger == ChainInv => Len(hops) <= Len(spans)
<1> SUFFICES ASSUME ChainInv PROVE Len(hops) <= Len(spans)
  OBVIOUS
<1>1. /\ hops \in [1..Len(hops) -> DOMAIN spans] /\ Len(hops) \in Nat
      /\ DOMAIN spans = 1..Len(spans) /\ Len(spans) \in Nat
  BY LenProperties DEF ChainInv, SpansOK
<1>2. ASSUME NEW j \in 1..Len(hops), NEW k \in 1..Len(hops), j < k PROVE hops[j] # hops[k]
  <2>1. k \in 2..Len(hops) /\ j \in 1..(k - 1)
    BY <1>1, <1>2
  <2> QED
    BY <2>1 DEF ChainInv
<1>3. \A j, k \in 1..Len(hops) : hops[j] = hops[k] => j = k
  <2> TAKE j, k \in 1..Len(hops)
  <2>1. j < k \/ k < j \/ j = k
    BY <1>1
  <2> QED
    BY <1>2, <2>1
<1>4. hops \in Injection(1..Len(hops), 1..Len(spans))
  BY <1>1, <1>3 DEF Injection, IsInjective
<1>5. /\ IsFiniteSet(1..Len(spans))
      /\ Cardinality(1..Len(spans)) = Len(spans) /\ Cardinality(1..Len(hops)) = Len(hops)
  <2>1. ASSUME NEW n \in Nat PROVE IsFiniteSet(1..n) /\ Cardinality(1..n) = n
    <3>1. 1 \in Int /\ n \in Int
      OBVIOUS
    <3>2. IsFiniteSet(1..n) /\ Cardinality(1..n) = IF 1 > n THEN 0 ELSE n-1+1
      BY <3>1, FS_Interval
    <3> QED
      BY <3>2
  <2> QED
    BY <1>1, <2>1
<1> HIDE DEF ChainInv
<1>6. Cardinality(1..Len(hops)) <= Cardinality(1..Len(spans))
  BY <1>4, <1>5, FS_Injection, Zenon
<1> QED
  BY <1>5, <1>6

(* R-VER-13: a chain starts at a span that reached the faulted address and is*)
(* slow in two observations at least, and climbs from parent to parent,     *)
(* whatever the document says.                                              *)
THEOREM ChainsAreEvidence == TraceSpec => []ChainIsEvidence
<1>1. ChainInv => ChainIsEvidence
  <2> SUFFICES ASSUME ChainInv, hops # <<>> PROVE ChainIsEvidence
    BY DEF ChainIsEvidence
  <2> DEFINE first == spans[hops[1]]
  <2>1. hops[1] \in DOMAIN spans
    BY DEF ChainInv
  <2>2. matchesTarget(first) /\ degradedEnough(first) /\ SpansOK
    BY DEF ChainInv
  <2>3. Target.host \in {first.service, first.peer.host}
    BY <2>2 DEF matchesTarget
  <2>4. hops[1] \in Alike(first)
    BY <2>1 DEF Alike, SameKey
  <2>5. Cardinality({i \in Alike(first) : \E j \in Alike(first) :
                          /\ spans[i].duration >= 2 * spans[j].duration
                          /\ spans[i].duration >= 10 + spans[j].duration}) >= 2
    <3> HIDE DEF first
    <3> QED
      BY <2>2, <2>4, TwoAreSlow
  <2>6. Len(hops) <= Len(spans)
    BY ChainIsNoLonger
  <2>7. \A k \in 2..Len(hops) :
                 /\ spans[hops[k]].trace = first.trace
                 /\ spans[hops[k]].id = spans[hops[k - 1]].parent
                 /\ \A m \in 1..(k - 1) : spans[hops[m]].id # spans[hops[k]].id
    BY DEF ChainInv
  <2> HIDE DEF first
  <2> QED
    BY <2>3, <2>5, <2>6, <2>7 DEF ChainIsEvidence, first
<1> QED
  BY <1>1, ChainInit, ChainStep, PTL DEF TraceSpec

=============================================================================
