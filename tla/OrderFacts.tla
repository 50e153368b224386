----------------------------- MODULE OrderFacts -----------------------------
(***************************************************************************)
(* Least and greatest members, from the well-foundedness of inclusion      *)
(* among finite sets: what proofs about the k-th of a list, the nearest    *)
(* of several or a loop over the records need in place of induction.  And  *)
(* lists of no given type, which the lines and the answers of a session    *)
(* are, and the places of a strict order.                                  *)
(***************************************************************************)
EXTENDS Integers, FiniteSetTheorems, SequenceTheorems, TLAPS

(* No member of the family T is strictly inside A.                          *)
Smallest(A, T) == \A B \in T : B \subseteq A => B = A

(* A family of subsets of a finite set has a member with none inside it:    *)
(* strict inclusion is well-founded.                                        *)
LEMMA LeastSubset ==
    ASSUME NEW S, IsFiniteSet(S), NEW T, T \subseteq SUBSET S, T # {}
    PROVE  \E A \in T : Smallest(A, T)
<1>1. IsWellFoundedOn(StrictSubsetOrdering(S), SUBSET S)
  BY FS_StrictSubsetOrderingWellFounded, FS_FiniteSubsetsOfFinite
<1>2. PICK A \in T : \A B \in T : <<B, A>> \notin StrictSubsetOrdering(S)
  BY <1>1, WFMin
<1>3. ASSUME NEW B \in T, B \subseteq A PROVE B = A
  BY <1>2, <1>3 DEF StrictSubsetOrdering
<1> QED
  BY <1>3 DEF Smallest

(* A finite set of integers has a least member.                             *)
LEMMA Least ==
    ASSUME NEW S \in SUBSET Int, IsFiniteSet(S), S # {}
    PROVE  \E x \in S : \A y \in S : x <= y
<1> DEFINE Upto(x) == {y \in S : y <= x}
           All == {Upto(x) : x \in S}
<1>1. All \subseteq SUBSET S /\ All # {}
  OBVIOUS
<1>2. PICK A \in All : Smallest(A, All)
  <2> HIDE DEF All
  <2> QED
    BY <1>1, LeastSubset
<1>3. PICK x \in S : A = Upto(x)
  <2> HIDE DEF Upto
  <2> QED
    OBVIOUS
<1>4. ASSUME NEW y \in S, y < x PROVE FALSE
  <2>1. ASSUME NEW z \in S, z <= y PROVE z <= x
    <3>1. x \in Int /\ y \in Int /\ z \in Int
      OBVIOUS
    <3> QED
      BY <1>4, <2>1, <3>1
  <2>2. Upto(y) \subseteq Upto(x)
    BY <2>1
  <2>5. Upto(y) \in All
    <3> HIDE DEF Upto
    <3> QED
      OBVIOUS
  <2>3. Upto(y) = Upto(x)
    <3> HIDE DEF Upto, All
    <3> QED
      BY <1>2, <1>3, <2>2, <2>5 DEF Smallest
  <2>4. x \in Upto(x) /\ x \notin Upto(y)
    BY <1>4
  <2> QED
    BY <2>3, <2>4
<1> QED
  BY <1>4

(* And a greatest.                                                          *)
LEMMA Greatest ==
    ASSUME NEW S \in SUBSET Int, IsFiniteSet(S), S # {}
    PROVE  \E x \in S : \A y \in S : y <= x
<1> DEFINE From(x) == {y \in S : y >= x}
           All == {From(x) : x \in S}
<1>1. All \subseteq SUBSET S /\ All # {}
  OBVIOUS
<1>2. PICK A \in All : Smallest(A, All)
  <2> HIDE DEF All
  <2> QED
    BY <1>1, LeastSubset
<1>3. PICK x \in S : A = From(x)
  <2> HIDE DEF From
  <2> QED
    OBVIOUS
<1>4. ASSUME NEW y \in S, y > x PROVE FALSE
  <2>1. ASSUME NEW z \in S, z >= y PROVE z >= x
    <3>1. x \in Int /\ y \in Int /\ z \in Int
      OBVIOUS
    <3> QED
      BY <1>4, <2>1, <3>1
  <2>2. From(y) \subseteq From(x)
    BY <2>1
  <2>5. From(y) \in All
    <3> HIDE DEF From
    <3> QED
      OBVIOUS
  <2>3. From(y) = From(x)
    <3> HIDE DEF From, All
    <3> QED
      BY <1>2, <1>3, <2>2, <2>5 DEF Smallest
  <2>4. x \in From(x) /\ x \notin From(y)
    BY <1>4
  <2> QED
    BY <2>3, <2>4
<1> QED
  BY <1>4

(* Any set of naturals has a least member: what holds of n whenever it      *)
(* holds of all smaller numbers holds of all.                               *)
LEMMA LeastNat ==
    ASSUME NEW T \in SUBSET Nat, T # {}
    PROVE  \E n \in T : \A m \in T : n <= m
<1>1. PICK t \in T : TRUE
  OBVIOUS
<1>2. IsFiniteSet({n \in T : n <= t})
  BY FS_BoundedSetOfNaturals
<1>3. PICK n \in {m \in T : m <= t} : \A m \in {m \in T : m <= t} : n <= m
  BY <1>2, Least
<1> QED
  BY <1>3

-----------------------------------------------------------------------------
(* A list of whatever it holds. *)
Listed(q) == q \in Seq({q[i] : i \in DOMAIN q})

(* A list has a length, and is empty or has a first.                        *)
LEMMA ListIs ==
    ASSUME NEW q, Listed(q)
    PROVE  /\ Len(q) \in Nat /\ DOMAIN q = 1..Len(q)
           /\ q # <<>> => Len(q) > 0
           /\ IsFiniteSet(DOMAIN q)
<1>1. Len(q) \in Nat /\ DOMAIN q = 1..Len(q)
  BY LenProperties DEF Listed
<1>2. IsFiniteSet(DOMAIN q)
  BY <1>1, FS_Interval
<1>3. q # <<>> => Len(q) > 0
  BY <1>1, EmptySeq DEF Listed
<1> QED
  BY <1>1, <1>2, <1>3

(* One more at the end, the others as they were.                            *)
LEMMA Appended ==
    ASSUME NEW q, Listed(q), NEW x
    PROVE  /\ Listed(Append(q, x)) /\ Len(Append(q, x)) = Len(q) + 1
           /\ Append(q, x)[Len(q) + 1] = x
           /\ \A i \in 1..Len(q) : Append(q, x)[i] = q[i]
<1> DEFINE S == {q[i] : i \in DOMAIN q}
           p == Append(q, x)
           T == {p[i] : i \in DOMAIN p}
<1>1. q \in Seq(S \cup {x})
  BY SeqMonotonic DEF Listed
<1>2. p \in Seq(S \cup {x}) /\ Len(p) = Len(q) + 1 /\ p[Len(q) + 1] = x
      /\ \A i \in 1..Len(q) : p[i] = q[i]
  <2> HIDE DEF S
  <2> QED
    BY <1>1, AppendProperties
<1>3. Len(q) \in Nat
  BY ListIs
<1>4. p \in [1..Len(p) -> T]
  <2> HIDE DEF S
  <2>1. p \in [1..Len(p) -> S \cup {x}]
    BY <1>2, LenProperties
  <2> HIDE DEF p
  <2> QED
    BY <2>1
<1>5. p \in Seq(T)
  <2> HIDE DEF p, T
  <2> QED
    BY <1>2, <1>3, <1>4, SeqDef
<1> QED
  BY <1>2, <1>5 DEF Listed

(* A list without its first is a list.                                      *)
LEMMA Rest ==
    ASSUME NEW q, Listed(q), q # <<>>
    PROVE  Listed(Tail(q))
<1> DEFINE p == Tail(q)
           T == {p[i] : i \in DOMAIN p}
           S == {q[i] : i \in DOMAIN q}
<1>1. p \in Seq(S) /\ Len(p) = Len(q) - 1 /\ Len(q) > 0 /\ Len(q) \in Nat
  <2>1. q \in Seq(S)
    BY DEF Listed
  <2>2. Len(q) > 0 /\ Len(q) \in Nat
    BY ListIs
  <2> HIDE DEF S
  <2> QED
    BY <2>1, <2>2, HeadTailProperties
<1>2. p \in [1..Len(p) -> T]
  <2> HIDE DEF S
  <2>1. p \in [1..Len(p) -> S]
    BY <1>1, LenProperties
  <2> HIDE DEF p
  <2> QED
    BY <2>1
<1>3. p \in Seq(T)
  <2>1. Len(p) \in Nat
    BY <1>1
  <2> HIDE DEF p, T, S
  <2> QED
    BY <1>2, <2>1, SeqDef
<1> QED
  BY <1>3 DEF Listed

-----------------------------------------------------------------------------
(* A[k] is what is above k in a strict order of 1..n: how many are above    *)
(* tells the places apart.                                                  *)
Ordered(A, n) ==
    /\ A \in [1..n -> SUBSET (1..n)]
    /\ \A k \in 1..n : k \notin A[k]
    /\ \A j, k \in 1..n : j \in A[k] => A[j] \subseteq A[k]
    /\ \A j, k \in 1..n : j # k => j \in A[k] \/ k \in A[j]

(* What is below has more above it.                                         *)
LEMMA AboveIsMore ==
    ASSUME NEW n \in Nat, NEW A, Ordered(A, n), NEW j \in 1..n, NEW k \in 1..n, j \in A[k]
    PROVE  /\ Cardinality(A[j]) \in 0..(n - 1) /\ Cardinality(A[k]) \in 0..(n - 1)
           /\ Cardinality(A[j]) < Cardinality(A[k])
<1>1. IsFiniteSet(1..n) /\ Cardinality(1..n) = n
  <2>1. 1 \in Int /\ n \in Int
    OBVIOUS
  <2>2. IsFiniteSet(1..n) /\ Cardinality(1..n) = IF 1 > n THEN 0 ELSE n - 1 + 1
    BY <2>1, FS_Interval
  <2> QED
    BY <2>2
<1>2. ASSUME NEW i \in 1..n PROVE IsFiniteSet(A[i]) /\ Cardinality(A[i]) \in Nat /\ Cardinality(A[i]) < n
  <2>1. A[i] \subseteq 1..n /\ A[i] # 1..n
    BY DEF Ordered
  <2>2. IsFiniteSet(A[i])
    BY <1>1, <2>1, FS_Subset
  <2>3. Cardinality(A[i]) < Cardinality(1..n) /\ Cardinality(A[i]) \in Nat
    BY <1>1, <2>1, <2>2, FS_Subset, FS_CardinalityType
  <2> QED
    BY <1>1, <2>2, <2>3
<1>3. A[j] \subseteq A[k] /\ A[j] # A[k]
  BY DEF Ordered
<1>4. Cardinality(A[j]) < Cardinality(A[k])
  BY <1>2, <1>3, FS_Subset, FS_CardinalityType
<1> QED
  BY <1>2, <1>4

(* Each place is taken by exactly one.                                      *)
LEMMA PlacesAreTaken ==
    ASSUME NEW n \in Nat, NEW A, Ordered(A, n)
    PROVE  /\ \A k \in 1..n : Cardinality(A[k]) \in 0..(n - 1)
           /\ \A j, k \in 1..n : Cardinality(A[j]) = Cardinality(A[k]) => j = k
           /\ \A j, k \in 1..n : Cardinality(A[j]) < Cardinality(A[k]) => j \in A[k]
           /\ \A i \in 1..n : \E k \in 1..n : Cardinality(A[k]) = i - 1
<1>1. IsFiniteSet(1..n) /\ Cardinality(1..n) = n
  <2>1. 1 \in Int /\ n \in Int
    OBVIOUS
  <2>2. IsFiniteSet(1..n) /\ Cardinality(1..n) = IF 1 > n THEN 0 ELSE n - 1 + 1
    BY <2>1, FS_Interval
  <2> QED
    BY <2>2
<1>2. \A k \in 1..n : Cardinality(A[k]) \in 0..(n - 1)
  <2> SUFFICES ASSUME NEW k \in 1..n PROVE Cardinality(A[k]) \in 0..(n - 1)
    OBVIOUS
  <2>1. A[k] \subseteq 1..n /\ A[k] # 1..n
    BY DEF Ordered
  <2>2. IsFiniteSet(A[k])
    BY <1>1, <2>1, FS_Subset
  <2>3. Cardinality(A[k]) < Cardinality(1..n) /\ Cardinality(A[k]) \in Nat
    BY <1>1, <2>1, <2>2, FS_Subset, FS_CardinalityType
  <2> QED
    BY <1>1, <2>3
<1>3. \A j, k \in 1..n : j # k => Cardinality(A[j]) < Cardinality(A[k]) \/ Cardinality(A[k]) < Cardinality(A[j])
  BY AboveIsMore DEF Ordered
<1>4. \A j, k \in 1..n : Cardinality(A[j]) < Cardinality(A[k]) => j \in A[k]
  <2> SUFFICES ASSUME NEW j \in 1..n, NEW k \in 1..n, Cardinality(A[j]) < Cardinality(A[k]), j \notin A[k]
               PROVE  FALSE
    OBVIOUS
  <2>1. CASE j = k
    BY <1>2, <2>1
  <2>2. CASE k \in A[j]
    <3>1. Cardinality(A[k]) < Cardinality(A[j])
      BY <2>2, AboveIsMore
    <3> QED
      BY <1>2, <3>1
  <2> QED
    BY <2>1, <2>2 DEF Ordered
<1> DEFINE f == [k \in 1..n |-> Cardinality(A[k]) + 1]
<1>5. f \in [1..n -> 1..n]
  BY <1>2
<1>6. \A j, k \in 1..n : Cardinality(A[j]) = Cardinality(A[k]) => j = k
  <2> SUFFICES ASSUME NEW j \in 1..n, NEW k \in 1..n, Cardinality(A[j]) = Cardinality(A[k]), j # k
               PROVE  FALSE
    OBVIOUS
  <2> QED
    BY <1>2, <1>3
<1>7. \A j, k \in 1..n : f[j] = f[k] => j = k
  BY <1>2, <1>6
<1>8. \A k \in 1..n : f[k] = Cardinality(A[k]) + 1
  OBVIOUS
<1> HIDE DEF f
<1>9. f \in Injection(1..n, 1..n)
  BY <1>5, <1>7 DEF Injection, IsInjective
<1>10. f \in Surjection(1..n, 1..n)
  BY <1>1, <1>9, FS_Injection
<1>11. \A i \in 1..n : \E k \in 1..n : Cardinality(A[k]) = i - 1
  <2> SUFFICES ASSUME NEW i \in 1..n PROVE \E k \in 1..n : Cardinality(A[k]) = i - 1
    OBVIOUS
  <2>1. PICK k \in 1..n : f[k] = i
    BY <1>10 DEF Surjection
  <2>2. Cardinality(A[k]) + 1 = i /\ Cardinality(A[k]) \in Int
    BY <1>2, <1>8, <2>1
  <2> QED
    BY <2>2
<1> QED
  BY <1>2, <1>4, <1>6, <1>11

=============================================================================
