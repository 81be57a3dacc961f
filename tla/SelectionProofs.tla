-------------------------- MODULE SelectionProofs --------------------------
(***************************************************************************)
(* Facts about least numbers, sets of numbers in their order and parts of  *)
(* sequences, which the proofs of several parts need.  Nothing here goes   *)
(* by induction: a least number is a least set 1 .. n under inclusion, and *)
(* the members of a finite set have as many different numbers of members   *)
(* before them as there are members.                                       *)
(***************************************************************************)
EXTENDS Selection, SequencesExt, FiniteSetTheorems, SequenceTheorems, WellFoundedInduction, TLAPS

(* A set of numbers has a least one: of the sets 1 .. n the least under    *)
(* inclusion.                                                              *)
LEMMA LeastNumber ==
  ASSUME NEW T, T \subseteq Nat, T # {}
  PROVE  \E m \in T : \A k \in T : m <= k
<1> DEFINE U == {1 .. n : n \in T}
           R == StrictSubsetOrdering(Nat)
<1>1. IsWellFoundedOn(R, FiniteSubsetsOf(Nat))
  BY FS_StrictSubsetOrderingWellFounded
<1>2. \A n \in Nat : 1 .. n \in FiniteSubsetsOf(Nat)
  <2> TAKE n \in Nat
  <2>1. IsFiniteSet(1 .. n)
    BY FS_Interval
  <2> QED
    BY <2>1 DEF FiniteSubsetsOf
<1>3. U \subseteq FiniteSubsetsOf(Nat) /\ U # {}
  BY <1>2
<1> HIDE DEF R, U
<1>4. PICK x \in U : \A y \in U : ~(<<y, x>> \in R)
  BY <1>1, <1>3, WFMin
<1>5. PICK m \in T : x = 1 .. m
  BY DEF U
<1>6. ASSUME NEW k \in T, k < m PROVE FALSE
  <2>1. 1 .. k \subseteq 1 .. m /\ m \in 1 .. m /\ m \notin 1 .. k /\ 1 .. k \in U
    BY <1>6 DEF U
  <2>2. 1 .. k # 1 .. m /\ 1 .. k \subseteq Nat /\ 1 .. m \subseteq Nat
    BY <2>1
  <2>3. << 1 .. k, 1 .. m >> \in R
    BY <2>1, <2>2 DEF R, StrictSubsetOrdering
  <2> QED
    BY <1>4, <1>5, <2>1, <2>3
<1> QED
  BY <1>6

(* There are n numbers from 1 to n.                                        *)
LEMMA UpTo == \A n \in Nat : IsFiniteSet(1 .. n) /\ Cardinality(1 .. n) = n
  BY FS_Interval

(* A finite set of numbers in its order: a sequence of its members, each   *)
(* at the place after those before it.                                     *)
LEMMA OrderOfNumbers ==
  ASSUME NEW S \in SUBSET Nat, IsFiniteSet(S)
  PROVE  /\ Cardinality(S) \in Nat
         /\ InOrder(S) \in [1 .. Cardinality(S) -> S]
         /\ \A k, l \in 1 .. Cardinality(S) : k < l => InOrder(S)[k] < InOrder(S)[l]
         /\ \A k \in 1 .. Cardinality(S) : Before(S, InOrder(S)[k]) = k - 1
         /\ \A i \in S : /\ Before(S, i) + 1 \in 1 .. Cardinality(S)
                         /\ InOrder(S)[Before(S, i) + 1] = i
<1> DEFINE n == Cardinality(S)
           below(i) == {j \in S : j < i}
           place == [i \in S |-> Before(S, i) + 1]
<1>1. n \in Nat
  BY FS_CardinalityType
<1>0. \A i \in S : IsFiniteSet(below(i))
  <2> TAKE i \in S
  <2> QED
    BY FS_Subset
<1>2. \A i \in S : Before(S, i) \in Nat
  BY <1>0, FS_CardinalityType DEF Before
<1>3. \A i, j \in S : i < j => Before(S, i) < Before(S, j)
  <2> SUFFICES ASSUME NEW i \in S, NEW j \in S, i < j PROVE Before(S, i) < Before(S, j)
    OBVIOUS
  <2>1. below(i) \in SUBSET below(j) /\ below(i) # below(j)
    <3>1. i \in below(j) /\ i \notin below(i)
      OBVIOUS
    <3>2. \A k \in S : k < i => k < j
      OBVIOUS
    <3> QED
      BY <3>1, <3>2
  <2>2. Cardinality(below(i)) <= Cardinality(below(j)) /\ Cardinality(below(i)) # Cardinality(below(j))
    <3> HIDE DEF below
    <3> QED
      BY <1>0, <2>1, FS_Subset
  <2>3. Before(S, i) <= Before(S, j) /\ Before(S, i) # Before(S, j)
    BY <2>2 DEF Before
  <2> QED
    BY <1>2, <2>3
<1>4. \A i \in S : Before(S, i) + 1 \in 1 .. n
  <2> TAKE i \in S
  <2>1. below(i) \in SUBSET S /\ i \notin below(i)
    OBVIOUS
  <2>2. Cardinality(below(i)) <= n /\ Cardinality(below(i)) # n
    <3> HIDE DEF below
    <3> QED
      BY <2>1, FS_Subset
  <2>3. Before(S, i) <= n /\ Before(S, i) # n
    BY <2>2 DEF Before
  <2> HIDE DEF n
  <2> QED
    BY <1>1, <1>2, <2>3
<1>5. place \in Injection(S, 1 .. n)
  <2>1. place \in [S -> 1 .. n]
    BY <1>4
  <2>2. ASSUME NEW i \in S, NEW j \in S, place[i] = place[j] PROVE i = j
    <3>1. i \in Nat /\ j \in Nat /\ Before(S, i) = Before(S, j)
      BY <1>2, <2>2
    <3> QED
      BY <1>2, <1>3, <3>1
  <2> HIDE DEF place
  <2> QED
    BY <2>1, <2>2 DEF Injection, IsInjective
<1>6. \A k \in 1 .. n : \E i \in S : Before(S, i) = k - 1
  <2>1. IsFiniteSet(1 .. n) /\ Cardinality(1 .. n) = n
    <3> HIDE DEF n
    <3> QED
      BY <1>1, UpTo
  <2>2. place \in Surjection(S, 1 .. n)
    <3> HIDE DEF place
    <3> QED
      BY <1>5, <2>1, FS_Injection
  <2>3. ASSUME NEW k \in 1 .. n PROVE \E i \in S : Before(S, i) = k - 1
    <3>1. PICK i \in S : place[i] = k
      BY <2>2 DEF Surjection
    <3>2. Before(S, i) + 1 = k
      BY <3>1
    <3> HIDE DEF n, place
    <3> QED
      BY <1>1, <1>2, <3>2
  <2> QED
    BY <2>3
<1>7. \A k \in 1 .. n : InOrder(S)[k] \in S /\ Before(S, InOrder(S)[k]) = k - 1
  BY <1>6 DEF InOrder
<1>8. InOrder(S) \in [1 .. n -> S]
  BY <1>7 DEF InOrder
<1>9. ASSUME NEW k \in 1 .. n, NEW l \in 1 .. n, k < l PROVE InOrder(S)[k] < InOrder(S)[l]
  <2> HIDE DEF n
  <2> DEFINE i == InOrder(S)[k]
             j == InOrder(S)[l]
  <2>1. i \in S /\ j \in S /\ Before(S, i) = k - 1 /\ Before(S, j) = l - 1
    BY <1>7
  <2> HIDE DEF i, j
  <2>2. i # j /\ ~(j < i)
    BY <1>1, <1>3, <1>9, <2>1
  <2>3. i \in Nat /\ j \in Nat
    BY <2>1
  <2>4. i < j
    BY <2>2, <2>3
  <2> QED
    BY <2>4 DEF i, j
<1>10. ASSUME NEW i \in S PROVE InOrder(S)[Before(S, i) + 1] = i
  <2> DEFINE k == Before(S, i) + 1
             j == InOrder(S)[k]
  <2>1. k \in 1 .. n
    BY <1>4
  <2>2. j \in S /\ Before(S, j) = k - 1
    BY <1>7, <2>1
  <2>3. j \in S /\ Before(S, j) = Before(S, i)
    BY <1>2, <2>2
  <2> HIDE DEF k, j
  <2>4. j = i
    BY <1>2, <1>3, <2>3
  <2> QED
    BY <2>4 DEF j, k
<1> QED
  BY <1>1, <1>4, <1>7, <1>8, <1>9, <1>10

(* Sets whose members correspond have the same number of them.             *)
LEMMA SameNumber ==
  ASSUME NEW S, NEW T, IsFiniteSet(S), NEW f \in [S -> T],
         \A a, b \in S : f[a] = f[b] => a = b,
         \A t \in T : \E a \in S : f[a] = t
  PROVE  IsFiniteSet(T) /\ Cardinality(T) = Cardinality(S)
<1>1. f \in Injection(S, T)
  BY DEF Injection, IsInjective
<1>2. f \in Surjection(S, T)
  BY DEF Surjection
<1>3. f \in Bijection(S, T)
  BY <1>1, <1>2 DEF Bijection
<1>4. ExistsBijection(S, T)
  BY <1>3 DEF ExistsBijection
<1> QED
  BY <1>4, FS_Bijection

(* A correspondence of two sets that keeps their order takes the one's     *)
(* k-th member to the other's.                                             *)
LEMMA OrderKept ==
  ASSUME NEW A \in SUBSET Nat, NEW B \in SUBSET Nat, IsFiniteSet(A), NEW f \in [A -> B],
         \A a, b \in A : a < b => f[a] < f[b],
         \A t \in B : \E a \in A : f[a] = t
  PROVE  /\ IsFiniteSet(B) /\ Cardinality(B) = Cardinality(A)
         /\ \A k \in 1 .. Cardinality(A) : InOrder(B)[k] = f[InOrder(A)[k]]
<1>1. \A a, b \in A : (a < b <=> f[a] < f[b]) /\ (f[a] = f[b] => a = b)
  <2> TAKE a, b \in A
  <2>1. a \in Nat /\ b \in Nat /\ f[a] \in Nat /\ f[b] \in Nat
    OBVIOUS
  <2>2. (a < b => f[a] < f[b]) /\ (b < a => f[b] < f[a])
    OBVIOUS
  <2>3. a = b => f[a] = f[b]
    OBVIOUS
  <2> QED
    BY <2>1, <2>2, <2>3
<1>2. IsFiniteSet(B) /\ Cardinality(B) = Cardinality(A)
  <2>1. \A a, b \in A : f[a] = f[b] => a = b
    BY <1>1
  <2>2. \A t \in B : \E a \in A : f[a] = t
    OBVIOUS
  <2> QED
    BY <2>1, <2>2, SameNumber
<1>3. ASSUME NEW a \in A PROVE Before(B, f[a]) = Before(A, a)
  <2> DEFINE S == {x \in A : x < a}
             T == {y \in B : y < f[a]}
             g == [x \in S |-> f[x]]
  <2>1. IsFiniteSet(S)
    <3>1. S \in SUBSET A
      OBVIOUS
    <3> HIDE DEF S
    <3> QED
      BY <3>1, FS_Subset
  <2>2. \A x \in S : x \in A /\ f[x] \in T
    BY <1>1
  <2>3. \A y \in T : \E x \in S : f[x] = y
    BY <1>1
  <2>4. g \in [S -> T] /\ \A x \in S : g[x] = f[x]
    BY <2>2
  <2> HIDE DEF S, T, g
  <2>5. \A x, y \in S : g[x] = g[y] => x = y
    BY <1>1, <2>2, <2>4
  <2>6. \A y \in T : \E x \in S : g[x] = y
    BY <2>3, <2>4
  <2>7. Cardinality(T) = Cardinality(S)
    BY <2>1, <2>4, <2>5, <2>6, SameNumber
  <2> QED
    BY <2>7 DEF Before, S, T
<1>4. ASSUME NEW k \in 1 .. Cardinality(A) PROVE InOrder(B)[k] = f[InOrder(A)[k]]
  <2> DEFINE a == InOrder(A)[k]
  <2>1. a \in A /\ Before(A, a) = k - 1 /\ Cardinality(A) \in Nat
    BY OrderOfNumbers
  <2> HIDE DEF a
  <2>2. Before(B, f[a]) = k - 1 /\ f[a] \in B
    BY <1>3, <2>1
  <2>3. InOrder(B)[Before(B, f[a]) + 1] = f[a]
    BY <1>2, <2>2, OrderOfNumbers
  <2>4. (k - 1) + 1 = k
    BY <2>1
  <2> QED
    BY <2>2, <2>3, <2>4 DEF a
<1> QED
  BY <1>2, <1>4

(* Two sequences whose kept elements correspond in their order have the    *)
(* same part.                                                              *)
LEMMA SameParts ==
  ASSUME NEW s, NEW t, NEW kept, NEW taken,
         PlacesOf(s, kept) \in SUBSET Nat, PlacesOf(t, taken) \in SUBSET Nat,
         IsFiniteSet(PlacesOf(s, kept)),
         NEW f \in [PlacesOf(s, kept) -> PlacesOf(t, taken)],
         \A i, j \in PlacesOf(s, kept) : i < j => f[i] < f[j],
         \A j \in PlacesOf(t, taken) : \E i \in PlacesOf(s, kept) : f[i] = j,
         \A i \in PlacesOf(s, kept) : t[f[i]] = s[i]
  PROVE  Selected(s, kept) = Selected(t, taken)
<1> DEFINE A == PlacesOf(s, kept)
           B == PlacesOf(t, taken)
<1>1. /\ IsFiniteSet(B) /\ Cardinality(B) = Cardinality(A)
      /\ \A k \in 1 .. Cardinality(A) : InOrder(B)[k] = f[InOrder(A)[k]]
  <2> HIDE DEF A, B
  <2>1. A \in SUBSET Nat /\ B \in SUBSET Nat /\ IsFiniteSet(A) /\ f \in [A -> B]
    BY DEF A, B
  <2>2. (\A i, j \in A : i < j => f[i] < f[j]) /\ (\A j \in B : \E i \in A : f[i] = j)
    BY DEF A, B
  <2> QED
    BY <2>1, <2>2, OrderKept
<1>2. /\ InOrder(A) \in [1 .. Cardinality(A) -> A]
      /\ InOrder(B) \in [1 .. Cardinality(A) -> B]
  <2> HIDE DEF A, B
  <2>1. A \in SUBSET Nat /\ B \in SUBSET Nat /\ IsFiniteSet(A)
    BY DEF A, B
  <2> QED
    BY <1>1, <2>1, OrderOfNumbers
<1>3. \A i \in A : t[f[i]] = s[i]
  OBVIOUS
<1>4. /\ Selected(s, kept) = [k \in 1 .. Cardinality(A) |-> s[InOrder(A)[k]]]
      /\ Selected(t, taken) = [k \in 1 .. Cardinality(A) |-> t[InOrder(B)[k]]]
  BY <1>2 DEF Selected
<1> HIDE DEF A, B
<1>5. \A k \in 1 .. Cardinality(A) : t[InOrder(B)[k]] = s[InOrder(A)[k]]
  BY <1>1, <1>2, <1>3
<1> QED
  BY <1>4, <1>5

(* The numbers from 1 to n are in their order.                             *)
LEMMA WholeInOrder ==
  ASSUME NEW n \in Nat
  PROVE  InOrder(1 .. n) = [k \in 1 .. n |-> k]
<1>1. 1 .. n \in SUBSET Nat /\ IsFiniteSet(1 .. n) /\ Cardinality(1 .. n) = n
  BY UpTo
<1>2. \A k \in 1 .. n : Before(1 .. n, k) = k - 1
  <2> TAKE k \in 1 .. n
  <2>1. {j \in 1 .. n : j < k} = 1 .. k - 1
    OBVIOUS
  <2>2. k - 1 \in Nat
    OBVIOUS
  <2> QED
    BY <2>1, <2>2, UpTo DEF Before
<1>3. /\ InOrder(1 .. n) \in [1 .. n -> 1 .. n]
      /\ \A k \in 1 .. n : InOrder(1 .. n)[Before(1 .. n, k) + 1] = k
  <2>1. \A S \in SUBSET Nat : IsFiniteSet(S) =>
          /\ InOrder(S) \in [1 .. Cardinality(S) -> S]
          /\ \A i \in S : InOrder(S)[Before(S, i) + 1] = i
    BY OrderOfNumbers
  <2> QED
    BY <1>1, <2>1
<1>4. \A k \in 1 .. n : InOrder(1 .. n)[k] = k
  <2> TAKE k \in 1 .. n
  <2>1. InOrder(1 .. n)[Before(1 .. n, k) + 1] = k /\ Before(1 .. n, k) = k - 1
    BY <1>2, <1>3
  <2>2. (k - 1) + 1 = k
    OBVIOUS
  <2> QED
    BY <2>1, <2>2
<1> QED
  BY <1>3, <1>4

(* The part of a sequence: at each place an element that is kept, in the   *)
(* order of the sequence, and every one of them.                           *)
LEMMA PartOfSequence ==
  ASSUME NEW E, NEW s \in Seq(E), NEW kept
  PROVE  /\ PlacesOf(s, kept) \in SUBSET Nat /\ IsFiniteSet(PlacesOf(s, kept))
         /\ Selected(s, kept) \in Seq(E)
         /\ Len(Selected(s, kept)) = Cardinality(PlacesOf(s, kept))
         /\ \A k \in DOMAIN Selected(s, kept) :
              /\ InOrder(PlacesOf(s, kept))[k] \in PlacesOf(s, kept)
              /\ Selected(s, kept)[k] = s[InOrder(PlacesOf(s, kept))[k]]
         /\ \A i \in PlacesOf(s, kept) : \E k \in DOMAIN Selected(s, kept) :
              InOrder(PlacesOf(s, kept))[k] = i
         /\ ToSet(Selected(s, kept)) = ToSet(s) \cap kept
<1> DEFINE S == PlacesOf(s, kept)
           part == Selected(s, kept)
<1>1. S \in SUBSET Nat /\ S \in SUBSET (1 .. Len(s)) /\ Len(s) \in Nat
  BY DEF PlacesOf
<1>2. IsFiniteSet(S)
  <2> HIDE DEF S
  <2>1. IsFiniteSet(1 .. Len(s))
    BY <1>1, UpTo
  <2> QED
    BY <1>1, <2>1, FS_Subset
<1>3. /\ Cardinality(S) \in Nat /\ InOrder(S) \in [1 .. Cardinality(S) -> S]
      /\ \A i \in S : \E k \in 1 .. Cardinality(S) : InOrder(S)[k] = i
  <2> HIDE DEF S
  <2> QED
    BY <1>1, <1>2, OrderOfNumbers
<1>4. \A i \in S : s[i] \in E /\ s[i] \in kept
  BY DEF PlacesOf
<1>5. part = [k \in 1 .. Cardinality(S) |-> s[InOrder(S)[k]]]
  BY <1>3 DEF Selected
<1>6. \A i \in DOMAIN s : s[i] \in kept => i \in S
  BY DEF PlacesOf
<1>7. S \subseteq DOMAIN s
  BY DEF PlacesOf
<1> HIDE DEF S, part
<1>8. part \in [1 .. Cardinality(S) -> E] /\ DOMAIN part = 1 .. Cardinality(S)
  BY <1>3, <1>4, <1>5
<1>9. part \in Seq(E) /\ Len(part) = Cardinality(S)
  BY <1>3, <1>8
<1>10. \A k \in DOMAIN part : InOrder(S)[k] \in S /\ part[k] = s[InOrder(S)[k]]
  BY <1>3, <1>5, <1>8
<1>11. \A i \in S : \E k \in DOMAIN part : InOrder(S)[k] = i
  BY <1>3, <1>8
<1>12. ToSet(part) = ToSet(s) \cap kept
  <2>1. ASSUME NEW k \in DOMAIN part PROVE part[k] \in ToSet(s) /\ part[k] \in kept
    BY <1>4, <1>7, <1>10 DEF ToSet
  <2>2. ASSUME NEW i \in DOMAIN s, s[i] \in kept PROVE \E k \in DOMAIN part : part[k] = s[i]
    <3>1. PICK k \in DOMAIN part : InOrder(S)[k] = i
      BY <1>6, <1>11, <2>2
    <3> QED
      BY <1>10, <3>1
  <2> QED
    BY <2>1, <2>2 DEF ToSet
<1> QED
  BY <1>1, <1>2, <1>9, <1>10, <1>11, <1>12 DEF S, part
=============================================================================
