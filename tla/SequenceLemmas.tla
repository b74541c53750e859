---------------------------- MODULE SequenceLemmas ----------------------------
(***************************************************************************)
(* Facts the component proofs share: induction over the naturals, without  *)
(* an operator parameter (a set stands for the property); the enumerations *)
(* of module Positions; and FlattenSeq, a recursive function whose         *)
(* existence is proved here by that induction.                             *)
(***************************************************************************)
EXTENDS Positions, SequencesExt, SequenceTheorems, FiniteSetTheorems, TLAPS

-----------------------------------------------------------------------------
(* Induction.                                                              *)

\* The naturals are well-founded, as a relation.
LEMMA NatWellFounded == IsWellFoundedOn({ss \in Nat \X Nat : ss[1] < ss[2]}, Nat)
BY NatLessThanWellFounded DEF OpToRel

\* Every set of naturals that has a member has a least one.
LEMMA LeastNatural ==
  ASSUME NEW T, T \subseteq Nat, T # {}
  PROVE  \E n \in T : \A m \in T : n <= m
<1>. DEFINE R == {ss \in Nat \X Nat : ss[1] < ss[2]}
<1>1. PICK x \in T : \A y \in T : ~(<<y, x>> \in R)
  BY NatWellFounded, WFMin, Zenon
<1>2. ASSUME NEW y \in T, ~(x <= y) PROVE FALSE
  <2>1. x \in Nat /\ y \in Nat /\ y < x
    BY <1>2
  <2>2. <<y, x>> \in R
    BY <2>1
  <2>. HIDE DEF R
  <2>. QED BY <1>1, <2>2
<1>. QED BY <1>2

\* A set that holds zero and the successor of every natural it holds has all of them.
LEMMA Induction ==
  ASSUME NEW T, 0 \in T, \A n \in Nat : n \in T => n + 1 \in T
  PROVE  \A n \in Nat : n \in T
<1>. SUFFICES ASSUME ~(Nat \subseteq T) PROVE FALSE
  OBVIOUS
<1>1. PICK n \in Nat \ T : \A m \in Nat \ T : n <= m
  BY LeastNatural
<1>. QED BY <1>1, n - 1 \in Nat

-----------------------------------------------------------------------------
(* Ascending enumerations.                                                 *)

\* How many members of S are below x.
Rank(S, x) == Cardinality({y \in S : y < x})

\* Ranks grow with the members, and are below the size of the set.
LEMMA RankGrows ==
  ASSUME NEW S, S \subseteq Int, IsFiniteSet(S), NEW x \in S
  PROVE  /\ Cardinality(S) \in Nat /\ Rank(S, x) \in 0..(Cardinality(S) - 1)
         /\ \A y \in S : x < y => Rank(S, x) < Rank(S, y)
<1>. DEFINE Below(z) == {y \in S : y < z}
<1>1. \A z \in S : Below(z) \subseteq S /\ z \in S \ Below(z)
  OBVIOUS
<1>2. \A z \in S : /\ IsFiniteSet(Below(z)) /\ Cardinality(Below(z)) \in Nat
                   /\ Cardinality(Below(z)) < Cardinality(S)
  <2>. SUFFICES ASSUME NEW z \in S
                PROVE  /\ IsFiniteSet(Below(z)) /\ Cardinality(Below(z)) \in Nat
                       /\ Cardinality(Below(z)) < Cardinality(S)
    OBVIOUS
  <2>1. Below(z) \in SUBSET S /\ Below(z) # S
    BY <1>1
  <2>. QED BY <2>1, FS_Subset, FS_CardinalityType
<1>3. ASSUME NEW y \in S, x < y PROVE Cardinality(Below(x)) < Cardinality(Below(y))
  <2>a. \A z \in S : z \in Int
    OBVIOUS
  <2>b. \A z \in S : z < x => z < y
    <3>. SUFFICES ASSUME NEW z \in S, z < x PROVE z < y
      OBVIOUS
    <3>1. z \in Int /\ x \in Int /\ y \in Int
      BY <2>a
    <3>. QED BY <1>3, <3>1
  <2>c. ~(x < x)
    <3>1. x \in Int
      BY <2>a
    <3>. QED BY <3>1
  <2>1. Below(x) \subseteq Below(y) /\ x \in Below(y) /\ x \notin Below(x)
    BY <1>3, <2>b, <2>c
  <2>2. IsFiniteSet(Below(y))
    BY <1>2
  <2>3. Below(x) \in SUBSET Below(y) /\ Below(x) # Below(y)
    BY <2>1
  <2>. HIDE DEF Below
  <2>. QED BY <2>2, <2>3, FS_Subset, FS_CardinalityType
<1>4. Cardinality(S) \in Nat
  BY FS_CardinalityType
<1>. QED BY <1>2, <1>3, <1>4 DEF Rank

\* Every number below the size of the set is the rank of one member.
LEMMA RankIsOnto ==
  ASSUME NEW S, S \subseteq Int, IsFiniteSet(S), NEW n \in 0..(Cardinality(S) - 1)
  PROVE  \E x \in S : Rank(S, x) = n
<1>. DEFINE N == 0..(Cardinality(S) - 1)
            f == [x \in S |-> Rank(S, x)]
<1>1. Cardinality(S) \in Nat
  BY FS_CardinalityType
<1>2. f \in [S -> N]
  BY RankGrows
<1>3. \A x \in S, y \in S : Rank(S, x) = Rank(S, y) => x = y
  <2>. SUFFICES ASSUME NEW x \in S, NEW y \in S, x # y PROVE Rank(S, x) # Rank(S, y)
    OBVIOUS
  <2>1. x \in Int /\ y \in Int
    OBVIOUS
  <2>2. x < y \/ y < x
    BY <2>1
  <2>3. /\ Rank(S, x) \in 0..(Cardinality(S) - 1) /\ Rank(S, y) \in 0..(Cardinality(S) - 1)
        /\ x < y => Rank(S, x) < Rank(S, y)
        /\ y < x => Rank(S, y) < Rank(S, x)
    BY RankGrows
  <2>. QED BY <1>1, <2>2, <2>3
<1>4. f \in Injection(S, N)
  BY <1>2, <1>3 DEF Injection, IsInjective
<1>5. IsFiniteSet(N) /\ Cardinality(N) = Cardinality(S)
  BY <1>1, FS_Interval
<1>6. f \in Surjection(S, N)
  <2>. HIDE DEF f, N
  <2>. QED BY <1>4, <1>5, FS_Injection
<1>. QED BY <1>6 DEF Surjection

\* Ascending(S) lists the members of S, each once, in increasing order.
LEMMA AscendingFacts ==
  ASSUME NEW S, S \subseteq Int, IsFiniteSet(S)
  PROVE  /\ Cardinality(S) \in Nat /\ Ascending(S) \in [1..Cardinality(S) -> S]
         /\ Ascending(S) \in Seq(S) /\ Len(Ascending(S)) = Cardinality(S)
         /\ \A x \in S : \E i \in 1..Cardinality(S) : Ascending(S)[i] = x
         /\ \A i, j \in 1..Cardinality(S) : i < j => Ascending(S)[i] < Ascending(S)[j]
         /\ \A i, j \in 1..Cardinality(S) : Ascending(S)[i] = Ascending(S)[j] => i = j
<1>. DEFINE n == Cardinality(S)
            s == Ascending(S)
<1>1. n \in Nat
  BY FS_CardinalityType
<1>r. /\ \A x \in S : x \in Int /\ Rank(S, x) \in 0..(n - 1)
      /\ \A x, y \in S : x < y => Rank(S, x) < Rank(S, y)
  BY RankGrows
<1>2. \A i \in 1..n : s[i] \in S /\ Rank(S, s[i]) = i - 1
  <2>. SUFFICES ASSUME NEW i \in 1..n PROVE s[i] \in S /\ Rank(S, s[i]) = i - 1
    OBVIOUS
  <2>1. i - 1 \in 0..(n - 1)
    BY <1>1
  <2>2. \E x \in S : Rank(S, x) = i - 1
    BY <2>1, RankIsOnto
  <2>3. s[i] = CHOOSE x \in S : Rank(S, x) = i - 1
    BY DEF Ascending, Rank
  <2>. QED BY <2>2, <2>3
<1>3. s \in [1..n -> S]
  BY <1>2 DEF Ascending
<1>4. \A i, j \in 1..n : i < j => s[i] < s[j]
  <2>. SUFFICES ASSUME NEW i \in 1..n, NEW j \in 1..n, i < j, ~(s[i] < s[j]) PROVE FALSE
    OBVIOUS
  <2>1. s[i] \in S /\ s[j] \in S /\ Rank(S, s[i]) = i - 1 /\ Rank(S, s[j]) = j - 1
    BY <1>2
  <2>. HIDE DEF n, s
  <2>a. s[i] \in Int /\ s[j] \in Int
    BY <1>r, <2>1
  <2>2. s[i] = s[j] \/ s[j] < s[i]
    BY <2>a
  <2>3. s[j] < s[i] => Rank(S, s[j]) < Rank(S, s[i])
    BY <1>r, <2>1
  <2>4. i \in Int /\ j \in Int
    BY <1>1
  <2>. QED BY <2>1, <2>2, <2>3, <2>4
<1>5. \A x \in S : \E i \in 1..n : s[i] = x
  <2>. SUFFICES ASSUME NEW x \in S PROVE \E i \in 1..n : s[i] = x
    OBVIOUS
  <2>. HIDE DEF n, s
  <2>1. Rank(S, x) \in 0..(n - 1)
    BY <1>r
  <2>2. PICK i \in 1..n : i - 1 = Rank(S, x)
    <3>1. ASSUME NEW r \in 0..(n - 1) PROVE \E i \in 1..n : i - 1 = r
      <4>1. r + 1 \in 1..n /\ (r + 1) - 1 = r
        BY <1>1
      <4>. QED BY <4>1
    <3>. QED BY <2>1, <3>1
  <2>3. s[i] \in S /\ Rank(S, s[i]) = Rank(S, x)
    BY <1>2, <2>2
  <2>a. x \in Int /\ s[i] \in Int
    BY <1>r, <2>3
  <2>b. Rank(S, x) \in Int
    BY <1>1, <2>1
  <2>4. x \in Int /\ s[i] \in Int /\ Rank(S, x) \in Int
    BY <2>a, <2>b
  <2>5. ~(x < s[i]) /\ ~(s[i] < x)
    <3>1. /\ x < s[i] => Rank(S, x) < Rank(S, s[i])
          /\ s[i] < x => Rank(S, s[i]) < Rank(S, x)
      BY <1>r, <2>3
    <3>. QED BY <2>3, <2>4, <3>1
  <2>. QED BY <2>4, <2>5
<1>6. \A i, j \in 1..n : s[i] = s[j] => i = j
  <2>. SUFFICES ASSUME NEW i \in 1..n, NEW j \in 1..n, s[i] = s[j] PROVE i = j
    OBVIOUS
  <2>. HIDE DEF n, s
  <2>. QED BY <1>1, <1>2
<1>7. s \in Seq(S) /\ Len(s) = n
  BY <1>1, <1>3, SeqDef, LenProperties
<1>. QED BY <1>1, <1>3, <1>4, <1>5, <1>6, <1>7

\* A list of the members of S in increasing order is Ascending(S).
LEMMA AscendingIs ==
  ASSUME NEW S, S \subseteq Int, NEW n \in Nat, NEW f \in [1..n -> S],
         \A x \in S : \E i \in 1..n : f[i] = x, \A i, j \in 1..n : i < j => f[i] < f[j]
  PROVE  IsFiniteSet(S) /\ Cardinality(S) = n /\ Ascending(S) = f
<1>1. \A i \in 1..n : f[i] \in S /\ f[i] \in Int
  OBVIOUS
<1>2. \A i, j \in 1..n : f[i] = f[j] => i = j
  <2>. SUFFICES ASSUME NEW i \in 1..n, NEW j \in 1..n, f[i] = f[j], i # j PROVE FALSE
    OBVIOUS
  <2>1. i < j \/ j < i
    OBVIOUS
  <2>2. f[i] \in Int /\ f[j] \in Int
    BY <1>1
  <2>. QED BY <2>1, <2>2
<1>3. f \in Bijection(1..n, S)
  BY <1>2 DEF Bijection, Injection, Surjection, IsInjective
<1>4. IsFiniteSet(S) /\ Cardinality(S) = n
  <2>1. IsFiniteSet(1..n) /\ Cardinality(1..n) = n
    BY FS_Interval
  <2>2. ExistsBijection(1..n, S)
    BY <1>3 DEF ExistsBijection
  <2>. QED BY <2>1, <2>2, FS_Bijection
<1>5. ASSUME NEW i \in 1..n PROVE Rank(S, f[i]) = i - 1
  <2>. DEFINE B == {y \in S : y < f[i]}
              g == [j \in 1..(i - 1) |-> f[j]]
  <2>1. \A j \in 1..(i - 1) : j \in 1..n /\ j < i
    OBVIOUS
  <2>2. \A j \in 1..(i - 1) : f[j] \in B
    BY <1>1, <2>1
  <2>3. ASSUME NEW y \in B PROVE \E j \in 1..(i - 1) : f[j] = y
    <3>1. PICK j \in 1..n : f[j] = y
      OBVIOUS
    <3>2. f[j] \in Int /\ f[i] \in Int /\ f[j] < f[i]
      BY <1>1, <3>1
    <3>3. ~(i < j) /\ i # j
      BY <3>2
    <3>4. j \in 1..(i - 1)
      BY <3>3
    <3>. QED BY <3>1, <3>4
  <2>4. g \in Bijection(1..(i - 1), B)
    <3>. HIDE DEF B
    <3>. QED BY <1>2, <2>1, <2>2, <2>3 DEF Bijection, Injection, Surjection, IsInjective
  <2>5. IsFiniteSet(1..(i - 1)) /\ Cardinality(1..(i - 1)) = i - 1
    <3>1. (i - 1 \in Int /\ ~(1 > i - 1)) \/ i - 1 = 0
      OBVIOUS
    <3>. QED BY <3>1, FS_Interval
  <2>6. Cardinality(B) = i - 1
    <3>. HIDE DEF B, g
    <3>1. ExistsBijection(1..(i - 1), B)
      BY <2>4 DEF ExistsBijection
    <3>. QED BY <2>5, <3>1, FS_Bijection
  <2>. QED BY <2>6 DEF Rank
<1>6. \A i \in 1..n : Ascending(S)[i] = f[i]
  <2>. SUFFICES ASSUME NEW i \in 1..n PROVE Ascending(S)[i] = f[i]
    OBVIOUS
  <2>1. Ascending(S)[i] = CHOOSE x \in S : Rank(S, x) = i - 1
    BY <1>4 DEF Ascending, Rank
  <2>2. \A x \in S : Rank(S, x) = i - 1 => x = f[i]
    <3>. SUFFICES ASSUME NEW x \in S, Rank(S, x) = i - 1 PROVE x = f[i]
      OBVIOUS
    <3>1. PICK j \in 1..n : f[j] = x
      OBVIOUS
    <3>2. j - 1 = i - 1
      BY <1>5, <3>1
    <3>. QED BY <3>1, <3>2
  <2>3. f[i] \in S /\ Rank(S, f[i]) = i - 1
    BY <1>5
  <2>. QED BY <2>1, <2>2, <2>3
<1>7. Ascending(S) \in [1..n -> S]
  BY <1>4, AscendingFacts
<1>8. Ascending(S) = f
  BY <1>6, <1>7
<1>. QED BY <1>4, <1>8

\* No member of S lies strictly between two neighbours of the enumeration.
LEMMA AscendingGap ==
  ASSUME NEW S, S \subseteq Int, IsFiniteSet(S), NEW i \in 1..(Cardinality(S) - 1), NEW x \in S
  PROVE  ~(Ascending(S)[i] < x /\ x < Ascending(S)[i + 1])
<1>. DEFINE A == Ascending(S)
            n == Cardinality(S)
<1>1. /\ n \in Nat /\ A \in [1..n -> S] /\ \A y \in S : \E k \in 1..n : A[k] = y
      /\ \A k, j \in 1..n : k < j => A[k] < A[j]
  BY AscendingFacts
<1>. HIDE DEF A, n
<1>2. i \in 1..n /\ i + 1 \in 1..n
  BY <1>1 DEF n
<1>3. PICK k \in 1..n : A[k] = x
  BY <1>1
<1>4. PICK m \in 1..n : m = i + 1
  BY <1>2
<1>5. A[i] \in Int /\ A[k] \in Int /\ A[m] \in Int
  BY <1>1, <1>2
<1>6. k = i \/ k = m \/ k < i \/ m < k
  BY <1>1, <1>2, <1>4
<1>7. ~(A[i] < A[k] /\ A[k] < A[m])
  BY <1>1, <1>2, <1>5, <1>6
<1>. QED BY <1>3, <1>4, <1>7 DEF A

\* The enumeration starts at the least member and ends at the greatest.
LEMMA AscendingEnds ==
  ASSUME NEW S, S \subseteq Int, IsFiniteSet(S),
         NEW a \in S, NEW b \in S, \A x \in S : a <= x /\ x <= b
  PROVE  /\ Cardinality(S) >= 1 /\ Ascending(S)[1] = a /\ Ascending(S)[Cardinality(S)] = b
         /\ a # b => Cardinality(S) >= 2
<1>. DEFINE A == Ascending(S)
            n == Cardinality(S)
<1>1. /\ n \in Nat /\ A \in [1..n -> S] /\ \A y \in S : \E k \in 1..n : A[k] = y
      /\ \A k, j \in 1..n : k < j => A[k] < A[j]
  BY AscendingFacts
<1>. HIDE DEF A, n
<1>2. PICK i \in 1..n : A[i] = a
  BY <1>1
<1>3. PICK k \in 1..n : A[k] = b
  BY <1>1
<1>4. 1 \in 1..n /\ n \in 1..n
  BY <1>1
<1>5. A[1] \in Int /\ A[n] \in Int /\ a \in Int /\ b \in Int /\ a <= A[1] /\ A[n] <= b
  BY <1>1, <1>4
<1>6. i = 1
  BY <1>1, <1>2, <1>4, <1>5
<1>7. k = n
  BY <1>1, <1>3, <1>4, <1>5
<1>8. a # b => n >= 2
  BY <1>1, <1>2, <1>3, <1>6, <1>7
<1>. QED BY <1>1, <1>2, <1>3, <1>4, <1>6, <1>7, <1>8 DEF A, n

\* The items of a sequence at some positions.
LEMMA ItemsAtFacts ==
  ASSUME NEW T, NEW s \in Seq(T), NEW I \in SUBSET (DOMAIN s)
  PROVE  /\ IsFiniteSet(I) /\ I \subseteq Int /\ Cardinality(I) \in Nat
         /\ ItemsAt(s, I) \in Seq(T) /\ Len(ItemsAt(s, I)) = Cardinality(I)
         /\ \A k \in 1..Cardinality(I) : ItemsAt(s, I)[k] = s[Ascending(I)[k]]
<1>1. Len(s) \in Nat /\ DOMAIN s = 1..Len(s) /\ \A i \in 1..Len(s) : s[i] \in T
  BY LenProperties, ElementOfSeq
<1>2. IsFiniteSet(I) /\ I \subseteq Int
  <2>1. IsFiniteSet(1..Len(s))
    BY <1>1, FS_Interval
  <2>. QED BY <1>1, <2>1, FS_Subset
<1>3. Cardinality(I) \in Nat /\ Ascending(I) \in [1..Cardinality(I) -> I]
  BY <1>2, AscendingFacts
<1>4. ItemsAt(s, I) \in [1..Cardinality(I) -> T]
  BY <1>1, <1>3 DEF ItemsAt
<1>. QED BY <1>2, <1>3, <1>4, SeqDef, LenProperties DEF ItemsAt

\* The items at consecutive positions.
LEMMA ItemsAtInterval ==
  ASSUME NEW s, NEW b \in Nat, NEW n \in Nat
  PROVE  /\ DOMAIN ItemsAt(s, (b + 1)..(b + n)) = 1..n /\ Len(ItemsAt(s, (b + 1)..(b + n))) = n
         /\ \A i \in 1..n : ItemsAt(s, (b + 1)..(b + n))[i] = s[b + i]
<1>. DEFINE I == (b + 1)..(b + n)
            f == [i \in 1..n |-> b + i]
<1>1. f \in [1..n -> I] /\ I \subseteq Int
  OBVIOUS
<1>2. \A x \in I : \E i \in 1..n : f[i] = x
  <2>. SUFFICES ASSUME NEW x \in I PROVE \E i \in 1..n : f[i] = x
    OBVIOUS
  <2>1. x - b \in 1..n /\ b + (x - b) = x
    OBVIOUS
  <2>. QED BY <2>1
<1>3. \A i, j \in 1..n : i < j => f[i] < f[j]
  OBVIOUS
<1>4. Cardinality(I) = n /\ Ascending(I) = f
  <2>. HIDE DEF I, f
  <2>. QED BY <1>1, <1>2, <1>3, AscendingIs
<1>. DEFINE S == {s[b + i] : i \in 1..n}
            t == ItemsAt(s, I)
<1>5. t = [i \in 1..n |-> s[f[i]]]
  <2>. HIDE DEF f, I
  <2>. QED BY <1>4 DEF ItemsAt
<1>6. DOMAIN t = 1..n /\ \A i \in 1..n : t[i] = s[b + i]
  <2>. HIDE DEF I
  <2>. QED BY <1>5
<1>7. t \in [1..n -> S]
  <2>. HIDE DEF t
  <2>1. t = [i \in 1..n |-> t[i]]
    BY <1>5
  <2>. QED BY <1>6, <2>1
<1>8. Len(t) = n
  <2>. HIDE DEF S, t
  <2>. QED BY <1>6, <1>7, SeqDef, LenProperties
<1>. QED BY <1>6, <1>8

\* The items at some positions and at a later one.
LEMMA ItemsAtOneMore ==
  ASSUME NEW T, NEW s \in Seq(T), NEW I \in SUBSET (DOMAIN s), NEW k \in DOMAIN s,
         \A i \in I : i < k
  PROVE  ItemsAt(s, I \cup {k}) = Append(ItemsAt(s, I), s[k])
<1>. DEFINE n == Cardinality(I)
            J == I \cup {k}
            A == Ascending(I)
            f == [i \in 1..(n + 1) |-> IF i <= n THEN A[i] ELSE k]
<1>1. /\ IsFiniteSet(I) /\ I \subseteq Int /\ n \in Nat
      /\ ItemsAt(s, I) \in Seq(T) /\ Len(ItemsAt(s, I)) = n
  BY ItemsAtFacts
<1>2. /\ A \in [1..n -> I]
      /\ \A x \in I : \E i \in 1..n : A[i] = x
      /\ \A i, j \in 1..n : i < j => A[i] < A[j]
  BY <1>1, AscendingFacts
<1>3. k \in Int /\ J \subseteq Int /\ s[k] \in T
  BY <1>1, LenProperties, ElementOfSeq
<1>. HIDE DEF A, n
<1>4. /\ \A i \in 1..(n + 1) : i \in 1..n \/ i = n + 1
      /\ \A i \in 1..n : i \in 1..(n + 1) /\ i <= n /\ i # n + 1
      /\ ~(n + 1 <= n) /\ n + 1 \in 1..(n + 1)
  BY <1>1
<1>5. (\A i \in 1..n : f[i] = A[i]) /\ f[n + 1] = k
  BY <1>4
<1>6. f \in [1..(n + 1) -> J]
  BY <1>2, <1>4
<1>7. \A x \in J : \E i \in 1..(n + 1) : f[i] = x
  <2>. HIDE DEF f
  <2>. QED BY <1>2, <1>4, <1>5
<1>8. \A i, j \in 1..(n + 1) : i < j => f[i] < f[j]
  <2>. SUFFICES ASSUME NEW i \in 1..(n + 1), NEW j \in 1..(n + 1), i < j PROVE f[i] < f[j]
    OBVIOUS
  <2>. HIDE DEF f
  <2>1. i \in 1..n
    BY <1>1, <1>4
  <2>2. CASE j \in 1..n
    BY <1>2, <1>5, <2>1, <2>2
  <2>3. CASE j = n + 1
    BY <1>2, <1>5, <2>1, <2>3
  <2>. QED BY <1>4, <2>2, <2>3
<1>9. Cardinality(J) = n + 1 /\ Ascending(J) = f
  <2>. HIDE DEF f, J
  <2>1. n + 1 \in Nat
    BY <1>1
  <2>. QED BY <1>3, <1>6, <1>7, <1>8, <2>1, AscendingIs
<1>10. \A i \in 1..n : ItemsAt(s, I)[i] = s[A[i]]
  BY ItemsAtFacts DEF A, n
<1>11. ItemsAt(s, J) = [i \in 1..(n + 1) |-> s[f[i]]]
  <2>. HIDE DEF f, J
  <2>. QED BY <1>9 DEF ItemsAt
<1>12. /\ Append(ItemsAt(s, I), s[k]) \in [1..(n + 1) -> T]
       /\ \A i \in 1..n : Append(ItemsAt(s, I), s[k])[i] = ItemsAt(s, I)[i]
       /\ Append(ItemsAt(s, I), s[k])[n + 1] = s[k]
  <2>1. /\ Append(ItemsAt(s, I), s[k]) \in Seq(T)
        /\ Len(Append(ItemsAt(s, I), s[k])) = n + 1
        /\ \A i \in 1..n : Append(ItemsAt(s, I), s[k])[i] = ItemsAt(s, I)[i]
        /\ Append(ItemsAt(s, I), s[k])[n + 1] = s[k]
    BY <1>1, <1>3, AppendProperties
  <2>. QED BY <2>1, LenProperties, ElementOfSeq
<1>13. \A i \in 1..(n + 1) : s[f[i]] = Append(ItemsAt(s, I), s[k])[i]
  <2>. HIDE DEF f
  <2>. QED BY <1>4, <1>5, <1>10, <1>12
<1>. QED BY <1>11, <1>12, <1>13

-----------------------------------------------------------------------------
(* FlattenSeq.                                                             *)

\* The recursive function by which FlattenSeq concatenates the first n of q's sequences.
Flattens(f, q, n) == f = [i \in 1..n |-> IF i = 1 THEN q[i] ELSE f[i - 1] \o q[i]]

\* There is such a function, for every n.
LEMMA FlattensExists == \A q : \A n \in Nat : \E f : Flattens(f, q, n)
<1>. SUFFICES ASSUME NEW q PROVE \A n \in Nat : \E f : Flattens(f, q, n)
  OBVIOUS
<1>. DEFINE T == {n \in Nat : \E f : Flattens(f, q, n)}
<1>1. 0 \in T
  <2>. DEFINE f == [i \in 1..0 |-> q[i]]
  <2>1. Flattens(f, q, 0)
    BY DEF Flattens
  <2>. QED BY <2>1
<1>2. ASSUME NEW n \in Nat, n \in T PROVE n + 1 \in T
  <2>1. PICK f : Flattens(f, q, n)
    BY <1>2
  <2>. DEFINE Last1 == IF n = 0 THEN q[1] ELSE f[n] \o q[n + 1]
              g == [i \in 1..(n + 1) |-> IF i <= n THEN f[i] ELSE Last1]
  <2>2. ASSUME NEW i \in 1..(n + 1)
        PROVE  g[i] = IF i = 1 THEN q[i] ELSE g[i - 1] \o q[i]
    <3>1. CASE i <= n
      <4>1. i \in 1..n /\ (i # 1 => i - 1 \in 1..n)
        BY <3>1
      <4>2. f[i] = IF i = 1 THEN q[i] ELSE f[i - 1] \o q[i]
        BY <2>1, <4>1 DEF Flattens
      <4>3. g[i] = f[i] /\ (i # 1 => g[i - 1] = f[i - 1])
        BY <4>1
      <4>. QED BY <4>2, <4>3
    <3>2. CASE i = n + 1
      <4>1. g[i] = Last1
        BY <3>2
      <4>2. n # 0 => i # 1 /\ i - 1 = n /\ n \in 1..(n + 1) /\ g[n] = f[n]
        BY <3>2
      <4>3. n = 0 => i = 1
        BY <3>2
      <4>. QED BY <3>2, <4>1, <4>2, <4>3
    <3>. QED BY <3>1, <3>2
  <2>3. Flattens(g, q, n + 1)
    <3>. DEFINE h == [i \in 1..(n + 1) |-> IF i = 1 THEN q[i] ELSE g[i - 1] \o q[i]]
    <3>1. g = h
      BY <2>2
    <3>. QED BY <3>1 DEF Flattens
  <2>. QED BY <2>3
<1>3. \A n \in Nat : n \in T
  <2>. HIDE DEF T
  <2>. QED BY <1>1, <1>2, Induction
<1>. QED BY <1>3

\* FlattenSeq is its value at the last sequence.
LEMMA FlattenIs ==
  ASSUME NEW q, Len(q) \in Nat \ {0}
  PROVE  \E f : Flattens(f, q, Len(q)) /\ FlattenSeq(q) = f[Len(q)]
<1>1. \E f : f = [i \in 1..Len(q) |-> IF i = 1 THEN q[i] ELSE f[i - 1] \o q[i]]
  BY FlattensExists DEF Flattens
<1>. DEFINE f == CHOOSE f : f = [i \in 1..Len(q) |-> IF i = 1 THEN q[i] ELSE f[i - 1] \o q[i]]
<1>2. f = [i \in 1..Len(q) |-> IF i = 1 THEN q[i] ELSE f[i - 1] \o q[i]]
  BY <1>1
<1>3. FlattenSeq(q) = f[Len(q)]
  BY DEF FlattenSeq
<1>. HIDE DEF f
<1>. QED BY <1>2, <1>3 DEF Flattens

\* s lists the items of q[1], ..., q[n] one after the other: blk and off say from which
\* sequence, and from which place in it, each item comes.
Lists(s, q, n, blk, off) ==
  /\ \A p \in 1..Len(s) : /\ blk[p] \in 1..n /\ off[p] \in DOMAIN q[blk[p]]
                          /\ s[p] = q[blk[p]][off[p]]
  /\ \A p, r \in 1..Len(s) :
       p < r => blk[p] < blk[r] \/ (blk[p] = blk[r] /\ off[p] < off[r])
  /\ \A i \in 1..n : \A j \in DOMAIN q[i] : \E p \in 1..Len(s) : blk[p] = i /\ off[p] = j

\* One more sequence at the end.
LEMMA ListsOneMore ==
  ASSUME NEW S, NEW n \in Nat, NEW q, q[n + 1] \in Seq(S), NEW s \in Seq(S),
         NEW blk, NEW off, Lists(s, q, n, blk, off), \A i \in 1..n : q[i] \in Seq(S)
  PROVE  \E b, o : Lists(s \o q[n + 1], q, n + 1, b, o)
<1>. DEFINE t == s \o q[n + 1]
            b == [p \in 1..Len(t) |-> IF p <= Len(s) THEN blk[p] ELSE n + 1]
            o == [p \in 1..Len(t) |-> IF p <= Len(s) THEN off[p] ELSE p - Len(s)]
<1>1. /\ Len(s) \in Nat /\ Len(q[n + 1]) \in Nat /\ Len(t) = Len(s) + Len(q[n + 1])
      /\ DOMAIN q[n + 1] = 1..Len(q[n + 1])
      /\ \A p \in 1..Len(s) : t[p] = s[p]
      /\ \A p \in 1..Len(t) : p > Len(s) => t[p] = q[n + 1][p - Len(s)]
  BY ConcatProperties, LenProperties
<1>. HIDE DEF t
<1>2. ASSUME NEW p \in 1..Len(t) PROVE b[p] \in 1..(n + 1) /\ o[p] \in DOMAIN q[b[p]] /\ t[p] = q[b[p]][o[p]]
  <2>1. CASE p <= Len(s)
    <3>1. p \in 1..Len(s)
      BY <1>1, <2>1
    <3>2. blk[p] \in 1..n /\ off[p] \in DOMAIN q[blk[p]] /\ s[p] = q[blk[p]][off[p]]
      BY <3>1 DEF Lists
    <3>3. b[p] = blk[p] /\ o[p] = off[p] /\ t[p] = s[p]
      BY <1>1, <2>1, <3>1
    <3>. QED BY <3>2, <3>3
  <2>2. CASE p > Len(s)
    <3>1. b[p] = n + 1 /\ o[p] = p - Len(s)
      BY <1>1, <2>2
    <3>2. p - Len(s) \in 1..Len(q[n + 1])
      BY <1>1, <2>2
    <3>. QED BY <1>1, <2>2, <3>1, <3>2
  <2>. QED BY <1>1, <2>1, <2>2
<1>3. ASSUME NEW p \in 1..Len(t), NEW r \in 1..Len(t), p < r
      PROVE  b[p] < b[r] \/ (b[p] = b[r] /\ o[p] < o[r])
  <2>1. CASE r <= Len(s)
    <3>1. p \in 1..Len(s) /\ r \in 1..Len(s) /\ p <= Len(s)
      BY <1>1, <1>3, <2>1
    <3>2. b[p] = blk[p] /\ o[p] = off[p] /\ b[r] = blk[r] /\ o[r] = off[r]
      BY <2>1, <3>1
    <3>. QED BY <1>3, <3>1, <3>2 DEF Lists
  <2>2. CASE p <= Len(s) /\ r > Len(s)
    <3>1. p \in 1..Len(s) /\ blk[p] \in 1..n
      <4>1. p \in 1..Len(s)
        BY <1>1, <2>2
      <4>. QED BY <4>1 DEF Lists
    <3>2. b[p] = blk[p] /\ b[r] = n + 1
      BY <1>1, <2>2
    <3>. QED BY <3>1, <3>2
  <2>3. CASE p > Len(s)
    <3>1. r > Len(s)
      BY <1>1, <1>3, <2>3
    <3>2. b[p] = n + 1 /\ b[r] = n + 1 /\ o[p] = p - Len(s) /\ o[r] = r - Len(s)
      BY <1>1, <2>3, <3>1
    <3>. QED BY <1>1, <1>3, <3>2
  <2>. QED BY <1>1, <2>1, <2>2, <2>3
<1>4. ASSUME NEW i \in 1..(n + 1), NEW j \in DOMAIN q[i]
      PROVE  \E p \in 1..Len(t) : b[p] = i /\ o[p] = j
  <2>1. CASE i \in 1..n
    <3>1. PICK p \in 1..Len(s) : blk[p] = i /\ off[p] = j
      BY <1>4, <2>1 DEF Lists
    <3>2. p \in 1..Len(t) /\ p <= Len(s)
      BY <1>1, <3>1
    <3>. QED BY <3>1, <3>2
  <2>2. CASE i = n + 1
    <3>1. j \in 1..Len(q[n + 1])
      BY <1>1, <1>4, <2>2
    <3>2. Len(s) + j \in 1..Len(t) /\ ~(Len(s) + j <= Len(s)) /\ Len(s) + j - Len(s) = j
      BY <1>1, <3>1
    <3>3. b[Len(s) + j] = n + 1 /\ o[Len(s) + j] = j
      BY <3>2
    <3>. QED BY <2>2, <3>2, <3>3
  <2>. QED BY <2>1, <2>2
<1>5. Lists(t, q, n + 1, b, o)
  <2>. HIDE DEF b, o
  <2>. QED BY <1>2, <1>3, <1>4 DEF Lists
<1>. QED BY <1>5 DEF t

\* FlattenSeq(q) lists the items of q's sequences, in order, each once.
LEMMA FlattenLists ==
  ASSUME NEW S, NEW q \in Seq(Seq(S))
  PROVE  /\ FlattenSeq(q) \in Seq(S)
         /\ \E blk, off : Lists(FlattenSeq(q), q, Len(q), blk, off)
<1>1. Len(q) \in Nat /\ DOMAIN q = 1..Len(q) /\ \A i \in 1..Len(q) : q[i] \in Seq(S)
  BY LenProperties, ElementOfSeq
<1>2. CASE Len(q) = 0
  <2>1. FlattenSeq(q) = q /\ q = <<>>
    BY <1>2, EmptySeq DEF FlattenSeq
  <2>2. <<>> \in Seq(S) /\ Len(<<>>) = 0
    BY EmptySeq
  <2>3. Lists(<<>>, q, 0, <<>>, <<>>)
    BY <2>2 DEF Lists
  <2>. QED BY <1>2, <2>1, <2>2, <2>3
<1>3. CASE Len(q) # 0
  <2>1. PICK f : Flattens(f, q, Len(q)) /\ FlattenSeq(q) = f[Len(q)]
    BY <1>1, <1>3, FlattenIs
  <2>2. \A i \in 1..Len(q) : f[i] = IF i = 1 THEN q[i] ELSE f[i - 1] \o q[i]
    BY <2>1 DEF Flattens
  <2>. DEFINE Good(n) == n \in 1..Len(q) =>
                           f[n] \in Seq(S) /\ \E blk, off : Lists(f[n], q, n, blk, off)
              T == {n \in Nat : Good(n)}
  <2>3. 0 \in T
    OBVIOUS
  <2>4. ASSUME NEW n \in Nat, n \in T PROVE n + 1 \in T
    <3>. SUFFICES ASSUME n + 1 \in 1..Len(q)
                  PROVE  f[n + 1] \in Seq(S) /\ \E blk, off : Lists(f[n + 1], q, n + 1, blk, off)
      OBVIOUS
    <3>1. CASE n = 0
      <4>1. f[1] = q[1] /\ q[1] \in Seq(S)
        BY <1>1, <2>2, <3>1
      <4>. DEFINE b == [p \in 1..Len(q[1]) |-> 1]
                  o == [p \in 1..Len(q[1]) |-> p]
      <4>2. Len(q[1]) \in Nat /\ DOMAIN q[1] = 1..Len(q[1])
        BY <4>1, LenProperties
      <4>3. \A p \in 1..Len(q[1]) : b[p] = 1 /\ o[p] = p
        OBVIOUS
      <4>4. Lists(q[1], q, 1, b, o)
        <5>. HIDE DEF b, o
        <5>1. \A p \in 1..Len(q[1]) : b[p] \in 1..1 /\ o[p] \in DOMAIN q[b[p]] /\ q[1][p] = q[b[p]][o[p]]
          BY <4>2, <4>3
        <5>2. \A i \in 1..1 : i = 1
          OBVIOUS
        <5>3. \A i \in 1..1 : \A j \in DOMAIN q[i] : \E p \in 1..Len(q[1]) : b[p] = i /\ o[p] = j
          BY <4>2, <4>3, <5>2
        <5>4. \A p, r \in 1..Len(q[1]) : p < r => b[p] = b[r] /\ o[p] < o[r]
          BY <4>3
        <5>. QED BY <5>1, <5>3, <5>4 DEF Lists
      <4>. QED BY <3>1, <4>1, <4>4
    <3>2. CASE n # 0
      <4>1. n \in 1..Len(q) /\ n + 1 # 1 /\ n + 1 - 1 = n
        BY <1>1, <3>2
      <4>2. f[n] \in Seq(S) /\ \E blk, off : Lists(f[n], q, n, blk, off)
        BY <2>4, <4>1
      <4>3. f[n + 1] = f[n] \o q[n + 1] /\ q[n + 1] \in Seq(S)
        <5>1. ASSUME NEW i \in 1..Len(q), i # 1, i - 1 = n PROVE f[i] = f[n] \o q[i]
          BY ONLY <2>2, <5>1
        <5>2. n + 1 \in 1..Len(q) /\ q[n + 1] \in Seq(S)
          BY <1>1
        <5>3. PICK m \in 1..Len(q) : m = n + 1
          BY <5>2
        <5>4. m # 1 /\ m - 1 = n
          BY <1>1, <4>1, <5>3
        <5>5. f[m] = f[n] \o q[m]
          BY ONLY <5>1, <5>4, m \in 1..Len(q)
        <5>6. f[n + 1] = f[n] \o q[n + 1]
          BY ONLY <5>3, <5>5
        <5>. QED BY <5>2, <5>6
      <4>4. \A i \in 1..n : q[i] \in Seq(S)
        BY <1>1, <4>1
      <4>5. \E b, o : Lists(f[n] \o q[n + 1], q, n + 1, b, o)
        BY <4>2, <4>3, <4>4, ListsOneMore
      <4>. QED BY <4>2, <4>3, <4>5, ConcatProperties
    <3>. QED BY <3>1, <3>2
  <2>5. \A n \in Nat : n \in T
    <3>. HIDE DEF T
    <3>. QED BY <2>3, <2>4, Induction
  <2>6. Good(Len(q)) /\ Len(q) \in 1..Len(q)
    BY <1>1, <1>3, <2>5
  <2>. QED BY <2>1, <2>6
<1>. QED BY <1>2, <1>3

=============================================================================
